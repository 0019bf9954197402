---------------------------- MODULE LimitsProof ----------------------------
(***************************************************************************)
(* Proofs that the engine keeps to its limits, for every limit, day        *)
(* length, set of markets and bound of TradingEngine: daily_trade_limit,   *)
(* reentry_cooldown_minutes, daily_loss_limit and max_total_exposure.      *)
(* RiskManager counts in memory only, so a limit holds for each process:   *)
(* daily_trade_limit is stated over restarts too, the cool-down and the    *)
(* loss limit for the runs without one (MaxCrashes = 0; a refused start-up *)
(* may repeat, faults and midnights inside a tick may come).  And proofs   *)
(* about the list of markets and how a refresh selects it.                 *)
(***************************************************************************)
EXTENDS TradingEngineProof

-----------------------------------------------------------------------------
(* Sums over a finite set.  SumFunctionOnSet is a fold that CHOOSEs its     *)
(* elements; what follows of it for any set is proved by considering a     *)
(* smallest part for which it would fail.                                  *)

(* The element a fold takes next, and what the fold over the sets below S  *)
(* has to satisfy.                                                         *)
First(s) == CHOOSE x \in s : TRUE
Less(s)  == s \ {First(s)}
Adds(f, S, it) ==
  it = [s \in SUBSET S |-> IF s = {} THEN 0 ELSE f[First(s)] + it[Less(s)]]

(* Every set of finite sets that is not empty has one no other of which is *)
(* a proper part.                                                          *)
LEMMA SmallestSet ==
  ASSUME NEW S, IsFiniteSet(S), NEW B \in SUBSET SUBSET S, B # {}
  PROVE  \E s \in B : \A t \in B : t \subseteq s => t = s
  <1>1. IsWellFoundedOn(StrictSubsetOrdering(S), SUBSET S)
    BY FS_StrictSubsetOrderingWellFounded, FS_FiniteSubsetsOfFinite
  <1>2. PICK s \in B : \A t \in B : <<t, s>> \notin StrictSubsetOrdering(S)
    BY <1>1, WFMin
  <1>3. ASSUME NEW t \in B, t \subseteq s, t # s PROVE FALSE
    <2>1. <<t, s>> \in (SUBSET S) \X (SUBSET S) /\ <<t, s>>[1] = t /\ <<t, s>>[2] = s
      OBVIOUS
    <2>2. <<t, s>> \in StrictSubsetOrdering(S)
      BY <1>3, <2>1 DEF StrictSubsetOrdering
    <2> QED BY <1>2, <2>2
  <1> QED BY <1>3

(* What is left after the first element is taken is a smaller part.        *)
LEMMA LessIsLess ==
  ASSUME NEW s, s # {}
  PROVE  First(s) \in s /\ Less(s) \subseteq s /\ Less(s) # s
  BY DEF First, Less

(* One step of the fold.                                                   *)
LEMMA AddsStep ==
  ASSUME NEW S, NEW f, NEW it, Adds(f, S, it), NEW s \in SUBSET S
  PROVE  it[s] = IF s = {} THEN 0 ELSE f[First(s)] + it[Less(s)]
  BY DEF Adds

(* Two folds agree on the sets both of them reach.                         *)
LEMMA SumsAgree ==
  ASSUME NEW S, IsFiniteSet(S), NEW f, NEW it, Adds(f, S, it),
         NEW T \in SUBSET S, NEW jt, Adds(f, T, jt)
  PROVE  it[T] = jt[T]
  <1> DEFINE B == {s \in SUBSET T : it[s] # jt[s]}
  <1> SUFFICES ASSUME B # {} PROVE FALSE
    OBVIOUS
  <1>1. IsFiniteSet(T)
    BY FS_Subset
  <1>2. PICK s \in B : \A t \in B : t \subseteq s => t = s
    <2>1. B \in SUBSET SUBSET T
      OBVIOUS
    <2> HIDE DEF B
    <2> QED BY <1>1, <2>1, SmallestSet
  <1> s \in SUBSET T /\ s \in SUBSET S
    OBVIOUS
  <1>3. it[s] = IF s = {} THEN 0 ELSE f[First(s)] + it[Less(s)]
    BY AddsStep
  <1>4. jt[s] = IF s = {} THEN 0 ELSE f[First(s)] + jt[Less(s)]
    BY AddsStep
  <1>5. s # {} /\ it[Less(s)] # jt[Less(s)]
    BY <1>3, <1>4
  <1>6. Less(s) \in B
    BY <1>5, LessIsLess
  <1> QED BY <1>2, <1>5, <1>6, LessIsLess

(* A finite set can be folded over.                                        *)
LEMMA SumExists ==
  ASSUME NEW S, IsFiniteSet(S), NEW f
  PROVE  \E it : Adds(f, S, it)
  <1> DEFINE B == {s \in SUBSET S : ~\E it : Adds(f, s, it)}
  <1> SUFFICES ASSUME B # {} PROVE FALSE
    OBVIOUS
  <1>1. PICK T \in B : \A t \in B : t \subseteq T => t = T
    <2>1. B \in SUBSET SUBSET S
      OBVIOUS
    <2> HIDE DEF B
    <2> QED BY <2>1, SmallestSet
  <1> DEFINE fold(s) == CHOOSE it : Adds(f, s, it)
             part(s) == fold(s)[s]
             it == [s \in SUBSET T |-> IF s = T
                                       THEN IF s = {} THEN 0 ELSE f[First(s)] + part(Less(s))
                                       ELSE part(s)]
  <1>2. \A s \in SUBSET T : s # T => Adds(f, s, fold(s))
    BY <1>1
  <1>3. ASSUME NEW s \in SUBSET T, s # T
        PROVE  part(s) = IF s = {} THEN 0 ELSE f[First(s)] + part(Less(s))
    <2>1. IsFiniteSet(s)
      <3>1. s \in SUBSET S
        OBVIOUS
      <3> QED BY <3>1, FS_Subset
    <2>2. Adds(f, s, fold(s))
      BY <1>2, <1>3
    <2> HIDE DEF fold
    <2>3. part(s) = IF s = {} THEN 0 ELSE f[First(s)] + fold(s)[Less(s)]
      <3>1. s \in SUBSET s
        OBVIOUS
      <3> QED BY <2>2, <3>1, AddsStep
    <2>4. CASE s # {}
      <3>1. Less(s) \in SUBSET T /\ Less(s) # T /\ Less(s) \in SUBSET s
        BY <2>4, LessIsLess
      <3>2. Adds(f, Less(s), fold(Less(s)))
        BY <1>2, <3>1
      <3>3. fold(s)[Less(s)] = part(Less(s))
        BY <2>1, <2>2, <3>1, <3>2, SumsAgree
      <3> QED BY <2>3, <3>3
    <2> QED BY <2>3, <2>4
  <1>4. ASSUME NEW s \in SUBSET T
        PROVE  it[s] = IF s = {} THEN 0 ELSE f[First(s)] + it[Less(s)]
    <2> HIDE DEF fold
    <2>1. s # {} => it[Less(s)] = part(Less(s))
      <3> HIDE DEF part
      <3> SUFFICES ASSUME s # {} PROVE it[Less(s)] = part(Less(s))
        OBVIOUS
      <3>1. Less(s) \in SUBSET T /\ Less(s) # T
        BY LessIsLess
      <3> QED BY <3>1
    <2> HIDE DEF part
    <2>2. CASE s = T
      BY <2>1, <2>2
    <2>3. CASE s # T
      BY <1>3, <2>1, <2>3
    <2> QED BY <2>2, <2>3
  <1>5. Adds(f, T, it)
    <2>1. it = [s \in SUBSET T |-> it[s]]
      OBVIOUS
    <2> HIDE DEF it
    <2> QED BY <1>4, <2>1 DEF Adds
  <1> QED BY <1>5

(* The sum over a finite set is the sum over what is left without its first*)
(* element, and that element's value.                                      *)
LEMMA SumFirst ==
  ASSUME NEW S, IsFiniteSet(S), NEW f
  PROVE  SumFunctionOnSet(f, S) =
           IF S = {} THEN 0 ELSE f[First(S)] + SumFunctionOnSet(f, Less(S))
  <1>1. ASSUME NEW T, IsFiniteSet(T)
        PROVE  \E it : Adds(f, T, it) /\ SumFunctionOnSet(f, T) = it[T]
    <2>1. \E it : Adds(f, T, it)
      BY <1>1, SumExists
    <2>2. SumFunctionOnSet(f, T) = (CHOOSE it : Adds(f, T, it))[T]
      BY DEF SumFunctionOnSet, FoldFunctionOnSet, MapThenFoldSet, Adds, First, Less
    <2> QED BY <2>1, <2>2
  <1>2. PICK it : Adds(f, S, it) /\ SumFunctionOnSet(f, S) = it[S]
    BY <1>1
  <1>3. S \in SUBSET S
    OBVIOUS
  <1>4. SumFunctionOnSet(f, S) = IF S = {} THEN 0 ELSE f[First(S)] + it[Less(S)]
    BY <1>2, <1>3, AddsStep
  <1>5. ASSUME S # {} PROVE it[Less(S)] = SumFunctionOnSet(f, Less(S))
    <2>1. Less(S) \in SUBSET S /\ IsFiniteSet(Less(S))
      BY <1>5, LessIsLess, FS_Subset
    <2>2. PICK jt : Adds(f, Less(S), jt) /\ SumFunctionOnSet(f, Less(S)) = jt[Less(S)]
      BY <1>1, <2>1
    <2> QED BY <1>2, <2>1, <2>2, SumsAgree
  <1> QED BY <1>4, <1>5

(* A sum of whole numbers is one.                                          *)
LEMMA SumType ==
  ASSUME NEW S, IsFiniteSet(S), NEW f, \A x \in S : f[x] \in Int
  PROVE  SumFunctionOnSet(f, S) \in Int
  <1> DEFINE B == {s \in SUBSET S : SumFunctionOnSet(f, s) \notin Int}
  <1> SUFFICES ASSUME B # {} PROVE FALSE
    OBVIOUS
  <1>1. PICK s \in B : \A t \in B : t \subseteq s => t = s
    <2>1. B \in SUBSET SUBSET S
      OBVIOUS
    <2> HIDE DEF B
    <2> QED BY <2>1, SmallestSet
  <1>2. s \in SUBSET S /\ IsFiniteSet(s) /\ SumFunctionOnSet(f, s) \notin Int
    BY FS_Subset
  <1>3. SumFunctionOnSet(f, s) =
          IF s = {} THEN 0 ELSE f[First(s)] + SumFunctionOnSet(f, Less(s))
    BY <1>2, SumFirst
  <1>4. s # {}
    BY <1>2, <1>3
  <1>5. First(s) \in s /\ Less(s) \in SUBSET S /\ Less(s) \subseteq s /\ Less(s) # s
    BY <1>2, <1>4, LessIsLess
  <1>6. SumFunctionOnSet(f, Less(s)) \in Int
    BY <1>1, <1>5
  <1> QED BY <1>2, <1>3, <1>4, <1>5, <1>6

(* A sum of natural numbers is one.                                        *)
LEMMA SumNatural ==
  ASSUME NEW S, IsFiniteSet(S), NEW f, \A x \in S : f[x] \in Nat
  PROVE  SumFunctionOnSet(f, S) \in Nat
  <1> DEFINE B == {s \in SUBSET S : SumFunctionOnSet(f, s) \notin Nat}
  <1> SUFFICES ASSUME B # {} PROVE FALSE
    OBVIOUS
  <1>1. PICK s \in B : \A t \in B : t \subseteq s => t = s
    <2>1. B \in SUBSET SUBSET S
      OBVIOUS
    <2> HIDE DEF B
    <2> QED BY <2>1, SmallestSet
  <1>2. s \in SUBSET S /\ IsFiniteSet(s) /\ SumFunctionOnSet(f, s) \notin Nat
    BY FS_Subset
  <1>3. SumFunctionOnSet(f, s) =
          IF s = {} THEN 0 ELSE f[First(s)] + SumFunctionOnSet(f, Less(s))
    BY <1>2, SumFirst
  <1>4. s # {}
    BY <1>2, <1>3
  <1>5. First(s) \in s /\ Less(s) \in SUBSET S /\ Less(s) \subseteq s /\ Less(s) # s
    BY <1>2, <1>4, LessIsLess
  <1>6. SumFunctionOnSet(f, Less(s)) \in Nat
    BY <1>1, <1>5
  <1> QED BY <1>2, <1>3, <1>4, <1>5, <1>6

(* Any element can be taken out of a sum: the order of adding does not     *)
(* matter.                                                                 *)
LEMMA SumTake ==
  ASSUME NEW S, IsFiniteSet(S), NEW f, \A x \in S : f[x] \in Int, NEW e \in S
  PROVE  SumFunctionOnSet(f, S) = f[e] + SumFunctionOnSet(f, S \ {e})
  <1> DEFINE Whole(s, x) == SumFunctionOnSet(f, s) = f[x] + SumFunctionOnSet(f, s \ {x})
             B == {s \in SUBSET S : \E x \in s : ~Whole(s, x)}
  <1> SUFFICES ASSUME B # {} PROVE FALSE
    <2>1. S \in SUBSET S
      OBVIOUS
    <2> QED BY <2>1
  <1>1. PICK s \in B : \A t \in B : t \subseteq s => t = s
    <2>1. B \in SUBSET SUBSET S
      OBVIOUS
    <2> HIDE DEF B
    <2> QED BY <2>1, SmallestSet
  <1>2. PICK x \in s : ~Whole(s, x)
    OBVIOUS
  <1>3. s \in SUBSET S /\ s # {}
    OBVIOUS
  <1> DEFINE y == First(s)
  <1>4. SumFunctionOnSet(f, s) = f[y] + SumFunctionOnSet(f, s \ {y})
    BY <1>3, FS_Subset, SumFirst DEF Less
  <1>5. y \in s /\ y # x
    BY <1>2, <1>3, <1>4, LessIsLess
  <1>6. Whole(s \ {y}, x) /\ Whole(s \ {x}, y)
    <2>1. /\ s \ {y} \in SUBSET S /\ x \in s \ {y} /\ s \ {y} # s /\ s \ {y} \subseteq s
          /\ s \ {x} \in SUBSET S /\ y \in s \ {x} /\ s \ {x} # s /\ s \ {x} \subseteq s
      BY <1>3, <1>5
    <2> HIDE DEF Whole, y
    <2> QED BY <1>1, <2>1
  <1>7. (s \ {y}) \ {x} = (s \ {x}) \ {y}
    OBVIOUS
  <1>8. f[x] \in Int /\ f[y] \in Int /\ SumFunctionOnSet(f, (s \ {x}) \ {y}) \in Int
    <2>1. (s \ {x}) \ {y} \in SUBSET S
      BY <1>3
    <2>2. IsFiniteSet((s \ {x}) \ {y}) /\ \A z \in (s \ {x}) \ {y} : f[z] \in Int
      BY <2>1, FS_Subset
    <2> HIDE DEF y
    <2> QED BY <1>3, <1>5, <2>2, SumType
  <1> HIDE DEF y
  <1> QED BY <1>2, <1>4, <1>6, <1>7, <1>8

(* The sum over a set is the sum over two parts of it.                     *)
LEMMA SumSplit ==
  ASSUME NEW S, IsFiniteSet(S), NEW f, \A x \in S : f[x] \in Int, NEW P \in SUBSET S
  PROVE  SumFunctionOnSet(f, S) = SumFunctionOnSet(f, P) + SumFunctionOnSet(f, S \ P)
  <1> DEFINE Whole(s) == SumFunctionOnSet(f, s) =
                           SumFunctionOnSet(f, P) + SumFunctionOnSet(f, s \ P)
             B == {s \in SUBSET S : P \subseteq s /\ ~Whole(s)}
  <1> SUFFICES ASSUME B # {} PROVE FALSE
    <2>1. S \in SUBSET S
      OBVIOUS
    <2> QED BY <2>1
  <1>1. PICK s \in B : \A t \in B : t \subseteq s => t = s
    <2>1. B \in SUBSET SUBSET S
      OBVIOUS
    <2> HIDE DEF B
    <2> QED BY <2>1, SmallestSet
  <1>2. s \in SUBSET S /\ P \subseteq s /\ ~Whole(s)
    OBVIOUS
  <1>3. ASSUME NEW t \in SUBSET S
        PROVE  IsFiniteSet(t) /\ (\A z \in t : f[z] \in Int) /\ SumFunctionOnSet(f, t) \in Int
    <2>1. IsFiniteSet(t) /\ \A z \in t : f[z] \in Int
      BY FS_Subset
    <2> QED BY <2>1, SumType
  <1>4. CASE s = P
    <2>1. P \ P = {}
      OBVIOUS
    <2>2. SumFunctionOnSet(f, {}) = 0
      BY FS_EmptySet, SumFirst
    <2>3. SumFunctionOnSet(f, P) \in Int
      BY <1>3
    <2>4. SumFunctionOnSet(f, P) = SumFunctionOnSet(f, P) + SumFunctionOnSet(f, P \ P)
      <3> HIDE DEF B
      <3>1. SumFunctionOnSet(f, P \ P) = 0
        BY <2>1, <2>2
      <3> QED BY <2>3, <3>1
    <2> QED BY <1>2, <1>4, <2>4
  <1>5. CASE s # P
    <2>1. PICK x \in s : x \notin P
      BY <1>2, <1>5
    <2>2. SumFunctionOnSet(f, s) = f[x] + SumFunctionOnSet(f, s \ {x})
      BY <1>2, <1>3, SumTake
    <2>3. SumFunctionOnSet(f, s \ P) = f[x] + SumFunctionOnSet(f, (s \ P) \ {x})
      <3>1. s \ P \in SUBSET S /\ x \in s \ P
        BY <1>2, <2>1
      <3> QED BY <1>3, <3>1, SumTake
    <2>4. Whole(s \ {x})
      <3>1. /\ s \ {x} \in SUBSET S /\ P \subseteq s \ {x} /\ s \ {x} # s
            /\ s \ {x} \subseteq s
        BY <1>2, <2>1
      <3> HIDE DEF Whole
      <3> QED BY <1>1, <3>1
    <2>5. (s \ P) \ {x} = (s \ {x}) \ P
      OBVIOUS
    <2>6. /\ SumFunctionOnSet(f, P) \in Int /\ SumFunctionOnSet(f, (s \ {x}) \ P) \in Int
          /\ f[x] \in Int
      <3>1. (s \ {x}) \ P \in SUBSET S
        BY <1>2
      <3> QED BY <1>2, <1>3, <2>1, <3>1
    <2>7. SumFunctionOnSet(f, s) = SumFunctionOnSet(f, P) + SumFunctionOnSet(f, s \ P)
      <3>1. SumFunctionOnSet(f, s \ {x}) =
              SumFunctionOnSet(f, P) + SumFunctionOnSet(f, (s \ {x}) \ P)
        BY <2>4
      <3>2. SumFunctionOnSet(f, s \ P) = f[x] + SumFunctionOnSet(f, (s \ {x}) \ P)
        BY <2>3, <2>5
      <3> HIDE DEF B
      <3> QED BY <2>2, <2>6, <3>1, <3>2
    <2> QED BY <1>2, <2>7
  <1> QED BY <1>4, <1>5

(* A sum grows with its parts.                                             *)
LEMMA SumGrows ==
  ASSUME NEW S, IsFiniteSet(S), NEW f, NEW g,
         \A x \in S : f[x] \in Int /\ g[x] \in Int /\ f[x] <= g[x]
  PROVE  SumFunctionOnSet(f, S) <= SumFunctionOnSet(g, S)
  <1> DEFINE B == {s \in SUBSET S : ~(SumFunctionOnSet(f, s) <= SumFunctionOnSet(g, s))}
  <1> SUFFICES ASSUME B # {} PROVE FALSE
    <2>1. S \in SUBSET S
      OBVIOUS
    <2> QED BY <2>1
  <1>1. PICK s \in B : \A t \in B : t \subseteq s => t = s
    <2>1. B \in SUBSET SUBSET S
      OBVIOUS
    <2> HIDE DEF B
    <2> QED BY <2>1, SmallestSet
  <1>2. /\ s \in SUBSET S /\ ~(SumFunctionOnSet(f, s) <= SumFunctionOnSet(g, s))
        /\ IsFiniteSet(s)
    BY FS_Subset
  <1>3. /\ SumFunctionOnSet(f, s) =
             IF s = {} THEN 0 ELSE f[First(s)] + SumFunctionOnSet(f, Less(s))
        /\ SumFunctionOnSet(g, s) =
             IF s = {} THEN 0 ELSE g[First(s)] + SumFunctionOnSet(g, Less(s))
    BY <1>2, SumFirst
  <1>4. s # {}
    BY <1>2, <1>3
  <1>5. First(s) \in S /\ Less(s) \in SUBSET S /\ Less(s) \subseteq s /\ Less(s) # s
    BY <1>2, <1>4, LessIsLess
  <1>6. SumFunctionOnSet(f, Less(s)) <= SumFunctionOnSet(g, Less(s))
    BY <1>1, <1>5
  <1>7. SumFunctionOnSet(f, Less(s)) \in Int /\ SumFunctionOnSet(g, Less(s)) \in Int
    <2>1. IsFiniteSet(Less(s))
      BY <1>5, FS_Subset
    <2>2. (\A z \in Less(s) : f[z] \in Int) /\ (\A z \in Less(s) : g[z] \in Int)
      BY <1>5
    <2> QED BY <2>1, <2>2, SumType
  <1>8. /\ f[First(s)] \in Int /\ g[First(s)] \in Int /\ f[First(s)] <= g[First(s)]
    BY <1>5
  <1> QED BY <1>2, <1>3, <1>4, <1>6, <1>7, <1>8

(* When one value changes, the sum changes by as much.                     *)
LEMMA SumChange ==
  ASSUME NEW S, IsFiniteSet(S), NEW f, NEW g, NEW e \in S,
         \A x \in S : f[x] \in Int /\ g[x] \in Int,
         \A x \in S \ {e} : f[x] = g[x]
  PROVE  SumFunctionOnSet(g, S) = SumFunctionOnSet(f, S) + (g[e] - f[e])
  <1>1. IsFiniteSet(S \ {e}) /\ \A x \in S \ {e} : f[x] \in Int /\ g[x] \in Int /\ f[x] <= g[x] /\ g[x] <= f[x]
    <2>1. IsFiniteSet(S \ {e})
      BY FS_RemoveElement
    <2> QED BY <2>1
  <1>2. /\ SumFunctionOnSet(f, S \ {e}) <= SumFunctionOnSet(g, S \ {e})
        /\ SumFunctionOnSet(g, S \ {e}) <= SumFunctionOnSet(f, S \ {e})
    BY <1>1, SumGrows
  <1>3. (\A x \in S : f[x] \in Int) /\ (\A x \in S : g[x] \in Int)
    OBVIOUS
  <1>4. SumFunctionOnSet(f, S \ {e}) \in Int /\ SumFunctionOnSet(g, S \ {e}) \in Int
    BY <1>1, <1>3, SumType
  <1>5. /\ SumFunctionOnSet(f, S) = f[e] + SumFunctionOnSet(f, S \ {e})
        /\ SumFunctionOnSet(g, S) = g[e] + SumFunctionOnSet(g, S \ {e})
    BY <1>3, SumTake
  <1>6. f[e] \in Int /\ g[e] \in Int
    OBVIOUS
  <1> QED BY <1>2, <1>4, <1>5, <1>6

-----------------------------------------------------------------------------
USE DEF RiskParams

(* The calendar never goes back.                                           *)
LEMMA DayGrows == \A t \in Nat : Day(t) <= Day(t + 1)
  <1>1. DayLength \in Nat \ {0}
    BY RiskConstants
  <1> QED BY <1>1 DEF Day

(* A step that leaves the counters and the clock alone, and comes to       *)
(* start-up, to a tick's work or to a purchase only from there.            *)
Uncounted ==
  /\ risk' = risk /\ opened' = opened /\ clock' = clock /\ crashes' = crashes
  /\ pc' \in StartingUp => pc \in StartingUp
  /\ pc' \in InTick => pc \in InTick /\ tick'.now = tick.now
  /\ pc' \in {"buying", "bought"} => pc \in {"buying", "bought"}

(* Seven actions count, or move the time or the program there.             *)
LEMMA Counting ==
  ASSUME TypeOK, Next
  PROVE  \/ Uncounted
         \/ Boot \/ ReadMarket \/ CloseRow \/ TimePasses \/ Stop
         \/ \E m \in Markets : SubmitBuy(m)
         \/ \E reads \in BOOLEAN : OpenRow(reads)
  <1> USE DEF Uncounted, StartingUp, InTick, Working, procVars, univ, envVars, histVars
  <1>1. CASE StartUp
    BY <1>1 DEF StartUp, ReadBalances, BalancesFail, KeepRow, ShrinkRow, BookMissing,
          DropRow, FinishReconcile
  <1>2. CASE StartTick \/ Refresh \/ RefreshFails \/ ReadMarketFails \/ StoreFails
    BY <1>2 DEF StartTick, Refresh, RefreshFails, ReadMarketFails, StoreFails
  <1>3. CASE Exits
    <2>1. CASE SellTimesOut \/ SellReplyLost
      BY <2>1 DEF SellTimesOut, SellReplyLost
    <2>2. CASE SellFilled \/ SellUnfilled \/ BookSale
      BY <2>2 DEF SellFilled, SellUnfilled, BookSale
    <2>3. CASE FinishExits
      BY <2>3 DEF FinishExits, TypeOK
    <2>4. ASSUME NEW m \in Markets, KeepPosition(m) \/ SubmitSell(m) PROVE Uncounted
      BY <2>4 DEF KeepPosition, SubmitSell
    <2> QED BY <1>3, <2>1, <2>2, <2>3, <2>4 DEF Exits
  <1>4. CASE Entries
    BY <1>4 DEF Entries, BuyFilled, BuyUnfilled, BuyTimesOut, BuyReplyLost, FinishEntries,
          SkipMarket
  <1>5. CASE Exchange
    BY <1>5 DEF Exchange, Execute, CancelRest, ExecuteLateBuy, ExecuteLateSell, CancelLate
  <1>6. CASE World
    BY <1>6 DEF World, UserBuys, UserSells
  <1> QED BY <1>1, <1>2, <1>3, <1>4, <1>5, <1>6 DEF Next, Engine

(* The counters stay honest over every step.                               *)
LEMMA DayStep ==
  ASSUME TypeOK, TypeOK', DayCounts, [Next]_vars
  PROVE  DayCounts'
  <1> USE DEF DayCounts
  <1>1. /\ opened \in [Days -> Nat] /\ clock \in Nat /\ risk.day \in Nat /\ risk.trades \in Nat
        /\ Day(clock) \in Nat /\ DailyTradeLimit \in Nat \ {0} /\ EnteredBefore \in Nat
        /\ crashes' = crashes => EnteredBefore' = EnteredBefore
    <2>1. opened \in [Days -> Nat] /\ clock \in Nat /\ risk \in RiskState
      BY ClockDay DEF TypeOK
    <2>2. Day(clock) \in Nat
      BY <2>1, DayType
    <2>3. DailyTradeLimit \in Nat \ {0}
      BY RiskConstants
    <2>4. crashes \in Nat
      BY DEF TypeOK
    <2>5. EnteredBefore \in Nat
      BY <2>3, <2>4 DEF EnteredBefore
    <2>6. crashes' = crashes => EnteredBefore' = EnteredBefore
      BY DEF EnteredBefore
    <2> QED BY <2>1, <2>2, <2>3, <2>5, <2>6 DEF RiskState
  <1>2. CASE Uncounted
    BY <1>2, <1>1 DEF Uncounted
  <1>3. CASE Boot
    <2>1. /\ risk'.day = Day(clock) /\ risk'.trades = 0 /\ clock' = clock /\ opened' = opened
          /\ crashes' = crashes /\ \A d \in Days : opened[d] <= EnteredBefore
          /\ pc' \in {"boot", "idle"}
      BY <1>3 DEF Boot, FreshRisk, StartingUp, envVars, histVars
    <2> QED BY <2>1, <1>1 DEF InTick, Working
  <1>4. CASE ReadMarket
    <2>1. /\ risk' = RollDay(risk, clock) /\ clock' = clock /\ opened' = opened
          /\ pc' = "exits" /\ tick'.now = clock /\ crashes' = crashes
      BY <1>4 DEF ReadMarket, histVars
    <2>2. CASE risk.day = Day(clock)
      BY <2>1, <2>2, <1>1 DEF RollDay, StartingUp
    <2>3. CASE risk.day # Day(clock)
      <3>1. risk'.day = Day(clock) /\ risk'.trades = 0
        BY <2>1, <2>3 DEF RollDay
      <3>2. \A d \in Days : d \in Nat
        BY DayType DEF Days
      <3>3. \A d \in Days : d >= Day(clock) => opened[d] <= EnteredBefore
        BY <2>3, <1>1, <3>2
      <3> QED BY <2>1, <3>1, <3>2, <3>3, <1>1 DEF StartingUp
    <2> QED BY <2>2, <2>3
  <1>5. CASE CloseRow
    <2>1. /\ risk'.day = risk.day /\ risk'.trades = risk.trades
          /\ clock' = clock /\ opened' = opened /\ crashes' = crashes /\ pc = "booked" /\ pc' = "exits" /\ tick' = tick
      BY <1>5 DEF CloseRow, RecordExit, envVars
    <2> QED BY <2>1, <1>1 DEF StartingUp, InTick, Working
  <1>6. CASE TimePasses
    <2>1. clock' = clock + 1 /\ pc' = pc /\ risk' = risk /\ opened' = opened /\ tick' = tick
          /\ crashes' = crashes
      BY <1>6 DEF TimePasses, procVars, histVars
    <2>2. Day(clock) <= Day(clock') /\ Day(clock') \in Nat
      BY <2>1, <1>1, DayGrows, DayType
    <2> QED BY <2>1, <2>2, <1>1
  <1>7. ASSUME NEW m \in Markets, SubmitBuy(m) PROVE DayCounts'
    <2>1. /\ pc = "entries" /\ pc' = "buying" /\ tick' = tick /\ clock' = clock
          /\ opened' = opened /\ crashes' = crashes
          /\ risk' = RollDay(risk, tick.now)
          /\ CanOpen(risk', m, tick.open, expo, tick.now)
      BY <1>7 DEF SubmitBuy, envVars, histVars
    <2>2. risk' = risk
      BY <2>1 DEF RollDay, InTick
    <2>3. risk.trades < DailyTradeLimit
      BY <2>1, <2>2 DEF CanOpen
    <2> QED BY <2>1, <2>2, <2>3, <1>1 DEF StartingUp, InTick, Working
  <1>8. ASSUME NEW reads \in BOOLEAN, OpenRow(reads) PROVE DayCounts'
    <2>1. /\ pc = "bought" /\ clock' = clock /\ risk' = RecordEntry(risk)
          /\ opened' = [opened EXCEPT ![risk.day] = @ + 1]
          /\ crashes' = crashes /\ pc' \in {"entries", "idle"} /\ (pc' = "entries" => tick'.now = tick.now)
      BY <1>8 DEF OpenRow, InTick, Working, TypeOK
    <2>2. risk'.trades = risk.trades + 1 /\ risk'.day = risk.day
      BY <2>1 DEF RecordEntry, TypeOK, RiskState
    <2>3. risk.day \in Days
      BY <2>1, ClockDay DEF TypeOK, InTick, Working
    <2>4. \A d \in Days : opened'[d] = IF d = risk.day THEN opened[d] + 1 ELSE opened[d]
      BY <2>1, <1>1
    <2>5. \A d \in Days : d \in Nat
      BY DayType DEF Days
    <2> QED BY <2>1, <2>2, <2>3, <2>4, <2>5, <1>1 DEF StartingUp, InTick, Working
  <1>9. CASE Stop
    <2>1. /\ pc' = "down" /\ crashes' = crashes + 1 /\ crashes < MaxCrashes
          /\ risk' = risk /\ opened' = opened /\ clock' = clock
      BY <1>9 DEF Stop
    <2>2. EnteredBefore' = EnteredBefore + DailyTradeLimit
      <3>1. crashes \in Nat /\ DailyTradeLimit \in Nat
        BY <1>1 DEF TypeOK
      <3>2. DailyTradeLimit * (crashes + 1) = DailyTradeLimit * crashes + DailyTradeLimit
        BY <3>1
      <3> QED BY <2>1, <3>2 DEF EnteredBefore
    <2>3. crashes' <= MaxCrashes
      BY <2>1, EngineConstants DEF TypeOK, EngineParams
    <2> QED BY <1>1, <2>1, <2>2, <2>3 DEF InTick, Working
  <1>10. CASE UNCHANGED vars
    BY <1>1, <1>10 DEF vars, procVars, envVars, histVars
  <1> QED BY <1>2, <1>3, <1>4, <1>5, <1>6, <1>7, <1>8, <1>9, <1>10, Counting

(* In every reachable state, whatever fails and however often the process  *)
(* dies, the counters of the day are honest.                               *)
LEMMA DayInvariant == Spec => []DayCounts
  <1>1. Init => DayCounts
    <2> SUFFICES ASSUME Init PROVE DayCounts
      OBVIOUS
    <2>1. risk.day = Day(0) /\ risk.trades = 0 /\ clock = 0 /\ pc = "down"
          /\ opened = [d \in Days |-> 0] /\ crashes = 0
      BY DEF Init, FreshRisk
    <2>2. DailyTradeLimit \in Nat /\ Day(0) \in Nat /\ \A d \in Days : opened[d] = 0
      BY <2>1, RiskConstants, DayType
    <2>3. EnteredBefore = 0 /\ MaxCrashes \in Nat
      BY <2>1, <2>2, EngineConstants DEF EnteredBefore, EngineParams
    <2> QED BY <2>1, <2>2, <2>3 DEF DayCounts, InTick, Working
  <1>2. IInv /\ IInv' /\ DayCounts /\ [Next]_vars => DayCounts'
    BY DayStep DEF IInv
  <1> QED BY <1>1, <1>2, Invariance, PTL DEF Spec

(* However often the process crashes and starts again, a day sees at most  *)
(* daily_trade_limit entries for each process: that the count is forgotten *)
(* is all a restart costs.                                                 *)
THEOREM DailyLimitPerProcess == Spec => []DailyEntriesPerProcess
  <1>1. DayCounts => DailyEntriesPerProcess
    BY DEF DayCounts, DailyEntriesPerProcess
  <1> QED BY <1>1, DayInvariant, PTL

(* No day sees more entries than daily_trade_limit while the process that  *)
(* counts them lives: over any number of ticks, lost replies, failed writes*)
(* and midnights, also when an entry is booked after the day has changed.  *)
THEOREM DailyLimit ==
  ASSUME MaxCrashes = 0 PROVE Spec => []DailyEntries
  <1>1. TypeOK /\ DayCounts => DailyEntries
    <2> SUFFICES ASSUME TypeOK, DayCounts PROVE DailyEntries
      OBVIOUS
    <2>1. crashes = 0 /\ DailyTradeLimit \in Nat
      BY RiskConstants DEF TypeOK, DayCounts
    <2>2. EnteredBefore = 0
      BY <2>1 DEF EnteredBefore
    <2> QED BY <2>1, <2>2 DEF TypeOK, DayCounts, DailyEntries
  <1> QED BY <1>1, TypeCorrect, DayInvariant, PTL

-----------------------------------------------------------------------------
(* A step that leaves the rows, the trades table, the last exits and the   *)
(* clock alone.                                                            *)
Unsold ==
  /\ row' = row /\ ledger' = ledger /\ clock' = clock
  /\ risk'.lastExit = risk.lastExit
  /\ pc' \in StartingUp => pc \in StartingUp
  /\ pc' \in InTick => pc \in InTick /\ tick'.now = tick.now
  /\ pc' = "sold" => act'.done > 0

(* Every other step is a start, a reading of the market, a sale, an entry, *)
(* the passing of time or a correction by reconcile.                       *)
LEMMA Selling ==
  ASSUME TypeOK, Next, MaxCrashes = 0, pc = "sold" => act.done > 0
  PROVE  \/ Unsold
         \/ Boot \/ ReadMarket \/ BookSale \/ CloseRow \/ TimePasses \/ DropRow
         \/ \E m \in Markets : ShrinkRow(m) \/ BookMissing(m)
         \/ \E reads \in BOOLEAN : OpenRow(reads)
  <1> USE DEF Unsold, StartingUp, InTick, Working, dbVars, procVars, univ, envVars
  <1>1. CASE StartUp
    BY <1>1 DEF StartUp, ReadBalances, BalancesFail, KeepRow, FinishReconcile
  <1>2. CASE StartTick \/ Refresh \/ RefreshFails \/ ReadMarketFails \/ StoreFails
    BY <1>2 DEF StartTick, Refresh, RefreshFails, ReadMarketFails, StoreFails
  <1>3. CASE Exits
    <2>1. CASE SellTimesOut \/ SellReplyLost
      BY <2>1 DEF SellTimesOut, SellReplyLost, TypeOK
    <2>2. CASE SellFilled \/ SellUnfilled
      BY <2>2 DEF SellFilled, SellUnfilled
    <2>3. CASE FinishExits
      BY <2>3 DEF FinishExits, TypeOK
    <2>4. ASSUME NEW m \in Markets, KeepPosition(m) \/ SubmitSell(m) PROVE Unsold
      BY <2>4 DEF KeepPosition, SubmitSell
    <2> QED BY <1>3, <2>1, <2>2, <2>3, <2>4 DEF Exits
  <1>4. CASE Entries
    <2>1. ASSUME NEW m \in Markets, SubmitBuy(m) PROVE Unsold
      BY <2>1 DEF SubmitBuy, RollDay
    <2>2. ASSUME NEW m \in Markets, SkipMarket(m) PROVE Unsold
      BY <2>2 DEF SkipMarket
    <2>3. CASE BuyFilled \/ BuyUnfilled \/ FinishEntries
      BY <2>3 DEF BuyFilled, BuyUnfilled, FinishEntries
    <2>4. CASE BuyTimesOut \/ BuyReplyLost
      BY <2>4 DEF BuyTimesOut, BuyReplyLost
    <2> QED BY <1>4, <2>1, <2>2, <2>3, <2>4 DEF Entries
  <1>5. CASE Exchange
    BY <1>5 DEF Exchange, Execute, CancelRest, ExecuteLateBuy, ExecuteLateSell, CancelLate,
          Ordering
  <1>6. CASE World
    BY <1>6 DEF World, Stop, UserBuys, UserSells, TypeOK
  <1> QED BY <1>1, <1>2, <1>3, <1>4, <1>5, <1>6 DEF Next, Engine

(* What the risk manager remembers of last exits stays honest.             *)
LEMMA ExitStep ==
  ASSUME IInv, TypeOK', LastExits, [Next]_vars, MaxCrashes = 0
  PROVE  LastExits'
  <1>1. /\ row \in [Markets -> Nat] /\ clock \in Nat
        /\ ledger.last \in [Markets -> Int] /\ risk.lastExit \in [Markets -> Int]
        /\ \A m \in Markets : row[m] \in Nat
    BY DEF IInv, TypeOK, RiskState
  <1>2. /\ \A m \in todo : pc = "reconcile" => row[m] > 0
        /\ pc = "dropping" => row[act.m] > 0 /\ act.m \in Markets
        /\ todo \subseteq Markets
    BY DEF IInv, TypeOK, Points, AtReconcile
  <1> USE DEF LastExits
  <1>3. CASE Unsold
    BY <1>3, <1>1 DEF Unsold
  <1>4. CASE Boot
    <2>1. /\ row' = row /\ ledger' = ledger /\ clock' = clock /\ pc = "down"
          /\ pc' \in {"boot", "idle"} /\ \A m \in Markets : risk'.lastExit[m] = Never
      BY <1>4 DEF Boot, FreshRisk, dbVars, envVars
    <2> QED BY <2>1, <1>1 DEF StartingUp, InTick, Working, Never
  <1>5. CASE ReadMarket
    <2>1. /\ row' = row /\ ledger' = ledger /\ clock' = clock /\ pc' = "exits"
          /\ risk'.lastExit = risk.lastExit /\ tick'.now = clock
      BY <1>5 DEF ReadMarket, RollDay, dbVars
    <2> QED BY <2>1, <1>1 DEF StartingUp
  <1>6. CASE BookSale
    <2>1. /\ row' = row /\ clock' = clock /\ risk' = risk /\ tick' = tick
          /\ pc = "sold" /\ pc' = "booked" /\ act.m \in Markets
          /\ ledger'.last = [ledger.last EXCEPT ![act.m] = clock]
      BY <1>6 DEF BookSale, envVars, IInv, TypeOK
    <2>2. row[act.m] > 0
      BY <2>1, <1>1 DEF IInv, TypeOK, Points, AtSale, Working
    <2>3. \A m \in Markets : ledger'.last[m] = IF m = act.m THEN clock ELSE ledger.last[m]
      BY <2>1, <1>1
    <2> QED BY <2>1, <2>2, <2>3, <1>1 DEF StartingUp, InTick, Working
  <1>7. CASE CloseRow
    <2>1. /\ row' = [row EXCEPT ![act.m] = 0] /\ ledger' = ledger /\ clock' = clock
          /\ risk'.lastExit = [risk.lastExit EXCEPT ![act.m] = clock]
          /\ pc = "booked" /\ pc' = "exits" /\ tick' = tick /\ act.m \in Markets
      BY <1>7 DEF CloseRow, RecordExit, delete_position, envVars, IInv, TypeOK
    <2>2. \A m \in Markets : risk'.lastExit[m] = IF m = act.m THEN clock ELSE risk.lastExit[m]
      BY <2>1, <1>1
    <2>3. \A m \in Markets : m # act.m => row'[m] = row[m]
      BY <2>1, <1>1
    <2> QED BY <2>1, <2>2, <2>3, <1>1 DEF StartingUp, InTick, Working
  <1>8. CASE TimePasses
    <2>1. /\ row' = row /\ ledger' = ledger /\ risk' = risk /\ pc' = pc /\ tick' = tick
          /\ act' = act /\ clock' = clock + 1
      BY <1>8 DEF TimePasses, dbVars, procVars
    <2>2. tick.now \in Nat
      BY ClockDay DEF IInv, TypeOK
    <2> QED BY <2>1, <2>2, <1>1
  <1>9. ~DropRow
    BY <1>1, <1>2 DEF DropRow, StartingUp
  <1>10. ASSUME NEW m \in Markets PROVE ~ShrinkRow(m) /\ ~BookMissing(m)
    BY <1>1, <1>2 DEF ShrinkRow, BookMissing, StartingUp
  <1>11. ASSUME NEW reads \in BOOLEAN, OpenRow(reads) PROVE LastExits'
    <2>1. /\ row' = [row EXCEPT ![act.m] = act.done] /\ act.done > 0
          /\ ledger' = ledger /\ clock' = clock /\ risk'.lastExit = risk.lastExit
          /\ pc = "bought" /\ pc' \in {"entries", "idle"}
          /\ pc' = "entries" => tick'.now = tick.now
      BY <1>11 DEF OpenRow, upsert_position, RecordEntry, IInv, Points, AtPurchase, TypeOK,
            RiskState
    <2>2. \A m \in Markets : row'[m] = IF m = act.m THEN act.done ELSE row[m]
      BY <2>1, <1>1
    <2> QED BY <2>1, <2>2, <1>1 DEF StartingUp, InTick, Working
  <1>12. CASE UNCHANGED vars
    BY <1>12 DEF vars, dbVars, procVars, envVars
  <1> QED BY <1>3, <1>4, <1>5, <1>6, <1>7, <1>8, <1>9, <1>10, <1>11, <1>12, Selling
          DEF IInv

(* Only SubmitBuy leads from the entry loop to an order.                   *)
LEMMA Buying ==
  ASSUME Next, Buys
  PROVE  \E m \in Markets : SubmitBuy(m)
  BY DEF Buys, Next, Engine, StartUp, Exits, Entries, Exchange, World, Ordering, procVars,
        univ, Boot, ReadBalances, BalancesFail, KeepRow, ShrinkRow, BookMissing, DropRow,
        FinishReconcile, StartTick, Refresh, RefreshFails, ReadMarket, ReadMarketFails,
        KeepPosition, SubmitSell, SellFilled, SellUnfilled, SellTimesOut, SellReplyLost,
        BookSale, CloseRow, FinishExits, SkipMarket, BuyFilled, BuyUnfilled, BuyTimesOut,
        BuyReplyLost, OpenRow, StoreFails, FinishEntries, Execute, CancelRest,
        ExecuteLateBuy, ExecuteLateSell, CancelLate, UserBuys, UserSells, TimePasses, Stop

(* While the process lives, no market is entered within the re-entry       *)
(* cooldown of the last trade the table records for it, also when the      *)
(* database failed between recording a sale and deleting its row.          *)
THEOREM ReentryKept ==
  ASSUME MaxCrashes = 0 PROVE Spec => ReentryHonoured
  <1> DEFINE Step == Buys => LET last == ledger.last[act'.m]
                             IN  last # Never => clock - last >= ReentryTime
  <1>1. Init => LastExits
    <2> SUFFICES ASSUME Init PROVE LastExits
      OBVIOUS
    <2>1. /\ \A m \in Markets : row[m] = 0 /\ ledger.last[m] = Never
                               /\ risk.lastExit[m] = Never
          /\ clock = 0 /\ pc = "down"
      BY DEF Init, FreshRisk
    <2> QED BY <2>1 DEF LastExits, InTick, Working, Never
  <1>2. IInv /\ IInv' /\ LastExits /\ [Next]_vars => LastExits'
    BY ExitStep DEF IInv
  <1>3. ASSUME IInv, LastExits, Next PROVE Step
    <2> SUFFICES ASSUME Buys, ledger.last[act'.m] # Never
                 PROVE  clock - ledger.last[act'.m] >= ReentryTime
      OBVIOUS
    <2>1. PICK m \in Markets : SubmitBuy(m)
      BY <1>3, Buying
    <2>2. act'.m = m /\ row[m] = 0
      BY <2>1 DEF SubmitBuy, Act
    <2>3. ~CoolingDown(RollDay(risk, tick.now), m, tick.now)
      BY <2>1 DEF SubmitBuy, CanOpen
    <2>4. ~CoolingDown(risk, m, tick.now)
      BY <2>3 DEF CoolingDown, RollDay
    <2>5. /\ tick.now \in Nat /\ clock \in Nat /\ ReentryTime \in Nat
          /\ ledger.last[m] \in Int /\ risk.lastExit[m] \in Int
      BY <1>3, ClockDay, RiskConstants DEF IInv, TypeOK, RiskState
    <2>6. tick.now <= clock
      BY <1>3 DEF Buys, LastExits, InTick
    <2>7. ledger.last[m] >= 0 /\ risk.lastExit[m] >= ledger.last[m]
      BY <1>3, <2>2, <2>5 DEF LastExits
    <2> QED BY <2>2, <2>4, <2>5, <2>6, <2>7 DEF CoolingDown, Never
  <1>4. ASSUME UNCHANGED vars PROVE Step
    BY <1>4 DEF vars, procVars, Buys
  <1>5. IInv /\ LastExits /\ [Next]_vars => [Step]_vars
    BY <1>3, <1>4
  <1>6. ReentryHonoured <=> [][Step]_vars
    BY PTL DEF ReentryHonoured
  <1> QED BY <1>1, <1>2, <1>5, <1>6, Invariance, PTL DEF Spec
-----------------------------------------------------------------------------
(* A step that leaves the day's loss alone, in the table and in memory.    *)
Untouched ==
  /\ risk'.pnl = risk.pnl /\ risk'.day = risk.day
  /\ ledger'.pnl = ledger.pnl /\ clock' = clock
  /\ pc' \in StartingUp => pc \in StartingUp
  /\ pc' \in InTick => pc \in InTick /\ tick'.now = tick.now
  /\ pc # "booked" /\ pc' # "booked"

(* Every other step is a start, a reading of the market, one of the two    *)
(* commits of a sale, an entry's gates or the passing of time.             *)
LEMMA Losing ==
  ASSUME TypeOK, Next, MaxCrashes = 0, MaxFaults = 0
  PROVE  \/ Untouched
         \/ Boot \/ ReadMarket \/ BookSale \/ CloseRow
         \/ \E m \in Markets : SubmitBuy(m)
         \/ /\ risk' = risk /\ ledger' = ledger /\ act'.pnl = act.pnl /\ pc' = pc
            /\ tick' = tick /\ (TimePasses \/ clock' = clock)
  <1> USE DEF Untouched, StartingUp, InTick, Working, dbVars, procVars, univ, envVars
  <1>1. CASE StartUp
    <2>1. CASE ReadBalances \/ BalancesFail \/ FinishReconcile \/ DropRow
      BY <2>1 DEF ReadBalances, BalancesFail, FinishReconcile, DropRow
    <2>2. ASSUME NEW m \in Markets, KeepRow(m) \/ ShrinkRow(m) PROVE Untouched
      BY <2>2 DEF KeepRow, ShrinkRow
    <2>3. ASSUME NEW m \in Markets, BookMissing(m) PROVE Untouched
      BY <2>3 DEF BookMissing, TypeOK
    <2> QED BY <1>1, <2>1, <2>2, <2>3 DEF StartUp
  <1>2. CASE StartTick \/ Refresh \/ RefreshFails \/ ReadMarketFails
    BY <1>2 DEF StartTick, Refresh, RefreshFails, ReadMarketFails
  <1>3. ~StoreFails
    BY DEF StoreFails, InFault, TypeOK
  <1>4. CASE Exits
    <2>1. CASE SellTimesOut \/ SellReplyLost
      BY <2>1 DEF SellTimesOut, SellReplyLost
    <2>2. CASE SellFilled \/ SellUnfilled
      BY <2>2 DEF SellFilled, SellUnfilled
    <2>3. CASE FinishExits
      BY <2>3 DEF FinishExits, TypeOK
    <2>4. ASSUME NEW m \in Markets, KeepPosition(m) \/ SubmitSell(m) PROVE Untouched
      BY <2>4 DEF KeepPosition, SubmitSell
    <2> QED BY <1>4, <2>1, <2>2, <2>3, <2>4 DEF Exits
  <1>5. CASE Entries
    <2>1. CASE BuyFilled \/ BuyUnfilled \/ FinishEntries
      BY <2>1 DEF BuyFilled, BuyUnfilled, FinishEntries
    <2>2. CASE BuyTimesOut \/ BuyReplyLost
      BY <2>2 DEF BuyTimesOut, BuyReplyLost
    <2>3. ASSUME NEW m \in Markets, SkipMarket(m) PROVE Untouched
      BY <2>3 DEF SkipMarket
    <2>4. ASSUME NEW reads \in BOOLEAN, OpenRow(reads) PROVE Untouched
      BY <2>4 DEF OpenRow, RecordEntry, TypeOK, RiskState
    <2> QED BY <1>5, <2>1, <2>2, <2>3, <2>4 DEF Entries
  <1>6. CASE Exchange
    <2>1. CASE Execute \/ CancelRest
      BY <2>1 DEF Execute, CancelRest, Ordering
    <2>2. ASSUME NEW m \in Markets, ExecuteLateBuy(m) \/ ExecuteLateSell(m) \/ CancelLate(m)
          PROVE  risk' = risk /\ ledger' = ledger /\ act' = act /\ pc' = pc /\ tick' = tick
                 /\ clock' = clock
      BY <2>2 DEF ExecuteLateBuy, ExecuteLateSell, CancelLate
    <2> QED BY <1>6, <2>1, <2>2 DEF Exchange
  <1>7. CASE World
    <2>1. ~Stop
      BY DEF Stop, TypeOK
    <2>2. CASE TimePasses
      BY <2>2 DEF TimePasses
    <2>3. ASSUME NEW m \in Markets, UserBuys(m) \/ UserSells(m)
          PROVE  risk' = risk /\ ledger' = ledger /\ act' = act /\ pc' = pc /\ tick' = tick
                 /\ clock' = clock
      BY <2>3 DEF UserBuys, UserSells
    <2> QED BY <1>7, <2>1, <2>2, <2>3 DEF World
  <1> QED BY <1>1, <1>2, <1>3, <1>4, <1>5, <1>6, <1>7 DEF Next, Engine

(* The day's loss in memory stays that of the trades table.                *)
LEMMA LossStep ==
  ASSUME TypeOK, TypeOK', LossCounts, [Next]_vars,
         MaxCrashes = 0, MaxFaults = 0, MidnightInTick = FALSE
  PROVE  LossCounts'
  <1>1. /\ clock \in Nat /\ Day(clock) \in Days /\ Day(clock) \in Nat
        /\ risk.day \in Nat /\ risk.pnl \in Int /\ act.pnl \in Int
        /\ ledger.pnl \in [Days -> Int]
        /\ \A d \in Days : d \in Nat
    <2>1. clock \in 0..MaxClock /\ risk \in RiskState /\ act.pnl \in Int
          /\ ledger.pnl \in [Days -> Int]
      BY DEF TypeOK
    <2>2. clock \in Nat /\ Day(clock) \in Days /\ Day(clock) \in Nat
      BY <2>1, ClockDay, DayType
    <2>3. \A d \in Days : d \in Nat
      BY DayType DEF Days
    <2> QED BY <2>1, <2>2, <2>3 DEF RiskState
  <1> USE DEF LossCounts
  <1>2. CASE Untouched
    BY <1>2, <1>1 DEF Untouched
  <1>3. CASE Boot
    <2>1. /\ risk'.day = Day(clock) /\ risk'.pnl = 0 /\ clock' = clock /\ ledger' = ledger
          /\ \A d \in Days : ledger.pnl[d] = 0
          /\ pc' \in {"boot", "idle"}
      BY <1>3 DEF Boot, FreshRisk, StartingUp, envVars, dbVars
    <2> QED BY <2>1, <1>1 DEF InTick, Working
  <1>4. CASE ReadMarket
    <2>1. /\ risk' = RollDay(risk, clock) /\ clock' = clock /\ ledger' = ledger
          /\ pc = "fetch" /\ pc' = "exits" /\ tick'.now = clock
      BY <1>4 DEF ReadMarket, dbVars
    <2>2. CASE risk.day = Day(clock)
      BY <2>1, <2>2, <1>1 DEF RollDay, StartingUp
    <2>3. CASE risk.day # Day(clock)
      <3>1. risk'.day = Day(clock) /\ risk'.pnl = 0
        BY <2>1, <2>3 DEF RollDay
      <3>2. \A d \in Days : d >= Day(clock) => ledger.pnl[d] = 0
        BY <2>3, <1>1
      <3> QED BY <2>1, <3>1, <3>2, <1>1 DEF StartingUp
    <2> QED BY <2>2, <2>3
  <1>5. CASE BookSale
    <2>1. PICK pnl \in PnlValues : /\ act' = [act EXCEPT !.pnl = pnl]
                                   /\ ledger'.pnl = [ledger.pnl EXCEPT ![Day(clock)] = @ + pnl]
      BY <1>5 DEF BookSale
    <2>2. /\ pc = "sold" /\ pc' = "booked" /\ risk' = risk /\ clock' = clock /\ tick' = tick
          /\ act'.pnl = pnl /\ pnl \in Int
      BY <1>5, <2>1, EngineConstants DEF BookSale, envVars, TypeOK, EngineParams
    <2>3. risk.day = Day(clock)
      BY <2>2 DEF InTick, Working
    <2>4. \A d \in Days : ledger'.pnl[d] = IF d = Day(clock) THEN ledger.pnl[d] + pnl
                                           ELSE ledger.pnl[d]
      BY <2>1, <1>1
    <2> QED BY <2>2, <2>3, <2>4, <1>1 DEF StartingUp, InTick, Working
  <1>6. CASE CloseRow
    <2>1. /\ risk'.pnl = risk.pnl + act.pnl /\ risk'.day = risk.day
          /\ ledger' = ledger /\ clock' = clock /\ tick' = tick
          /\ pc = "booked" /\ pc' = "exits"
      BY <1>6 DEF CloseRow, RecordExit, envVars
    <2> QED BY <2>1, <1>1 DEF StartingUp, InTick, Working
  <1>7. ASSUME NEW m \in Markets, SubmitBuy(m) PROVE LossCounts'
    <2>1. /\ pc = "entries" /\ pc' = "buying" /\ tick' = tick /\ clock' = clock
          /\ ledger' = ledger /\ risk' = RollDay(risk, tick.now)
      BY <1>7 DEF SubmitBuy, envVars, dbVars
    <2>2. risk' = risk
      BY <2>1 DEF RollDay, InTick
    <2> QED BY <2>1, <2>2, <1>1 DEF StartingUp, InTick, Working
  <1>8. ASSUME risk' = risk, ledger' = ledger, act'.pnl = act.pnl, pc' = pc, tick' = tick,
               TimePasses \/ clock' = clock
        PROVE  LossCounts'
    <2>1. CASE clock' = clock
      BY <1>8, <2>1
    <2>2. CASE TimePasses
      <3>1. /\ clock' = clock + 1
            /\ Day(clock') = Day(clock) \/ pc \in {"down", "idle"}
        BY <2>2 DEF TimePasses
      <3>2. Day(clock) <= Day(clock') /\ Day(clock') \in Nat
        BY <3>1, <1>1, DayGrows, DayType
      <3> QED BY <1>8, <3>1, <3>2, <1>1 DEF InTick, Working
    <2> QED BY <1>8, <2>1, <2>2
  <1>9. CASE UNCHANGED vars
    <2>1. risk' = risk /\ ledger' = ledger /\ act' = act /\ pc' = pc /\ tick' = tick
          /\ clock' = clock
      BY <1>9 DEF vars, dbVars, procVars, envVars
    <2> QED BY <1>8, <2>1
  <1> QED BY <1>2, <1>3, <1>4, <1>5, <1>6, <1>7, <1>8, <1>9, Losing

(* "Trading stops for the day at the daily loss limit" (README.md:337), by *)
(* the trades table: over any number of days and orders, as long as the    *)
(* process lives, its writes succeed and its ticks end on the day they     *)
(* began.  None of the three conditions can be left out: the first is run  *)
(* LossLimitAfterRestart, for the others see README.                       *)
THEOREM LossLimitKept ==
  ASSUME MaxCrashes = 0, MaxFaults = 0, MidnightInTick = FALSE
  PROVE  Spec => LossLimitHonoured
  <1> DEFINE Step == Buys => ledger.pnl[Day(clock)] > -LossLimit
  <1>1. Init => LossCounts
    <2> SUFFICES ASSUME Init PROVE LossCounts
      OBVIOUS
    <2>1. /\ risk.day = Day(0) /\ risk.pnl = 0 /\ clock = 0 /\ pc = "down"
          /\ \A d \in Days : ledger.pnl[d] = 0
      BY DEF Init, FreshRisk
    <2>2. Day(0) \in Nat
      BY DayType
    <2> QED BY <2>1, <2>2 DEF LossCounts, InTick, Working
  <1>2. IInv /\ IInv' /\ LossCounts /\ [Next]_vars => LossCounts'
    BY LossStep DEF IInv
  <1>3. ASSUME IInv, LossCounts, Next PROVE Step
    <2> SUFFICES ASSUME Buys PROVE ledger.pnl[Day(clock)] > -LossLimit
      OBVIOUS
    <2>1. PICK m \in Markets : SubmitBuy(m)
      BY <1>3, Buying
    <2>2. pc = "entries" /\ RollDay(risk, tick.now).pnl > -LossLimit
      BY <2>1 DEF SubmitBuy, CanOpen
    <2>3. risk.day = Day(clock) /\ risk.day = Day(tick.now)
      BY <1>3, <2>2 DEF LossCounts, InTick
    <2>4. risk.pnl > -LossLimit
      BY <2>2, <2>3 DEF RollDay
    <2>5. Day(clock) \in Days /\ risk.pnl \in Int
      BY <1>3, ClockDay DEF IInv, TypeOK, RiskState
    <2>6. ledger.pnl[Day(clock)] = risk.pnl
      BY <1>3, <2>2, <2>3, <2>5 DEF LossCounts
    <2> QED BY <2>4, <2>6
  <1>4. ASSUME UNCHANGED vars PROVE Step
    BY <1>4 DEF vars, procVars, Buys
  <1>5. IInv /\ LossCounts /\ [Next]_vars => [Step]_vars
    BY <1>3, <1>4
  <1>6. LossLimitHonoured <=> [][Step]_vars
    BY PTL DEF LossLimitHonoured
  <1> QED BY <1>1, <1>2, <1>5, <1>6, Invariance, PTL DEF Spec

-----------------------------------------------------------------------------
(* The exposure cap.                                                       *)

(* What a market's coins are worth together is a whole number.             *)
LEMMA WorthType ==
  ASSUME NEW c \in [Markets -> Nat], NEW P \in SUBSET Markets
  PROVE  SumFunctionOnSet(c, P) \in Int
  <1>1. IsFiniteSet(P)
    BY EngineConstants, FS_Subset DEF EngineParams
  <1> QED BY <1>1, SumType

(* One market changes, the total by as much.                               *)
LEMMA WorthChange ==
  ASSUME NEW c \in [Markets -> Nat], NEW m \in Markets, NEW n \in Nat
  PROVE  SumFunctionOnSet([c EXCEPT ![m] = n], Markets) =
           SumFunctionOnSet(c, Markets) + (n - c[m])
  <1> DEFINE d == [c EXCEPT ![m] = n]
  <1>1. /\ \A x \in Markets : c[x] \in Int /\ d[x] \in Int
        /\ \A x \in Markets \ {m} : c[x] = d[x]
        /\ d[m] = n
    OBVIOUS
  <1>2. IsFiniteSet(Markets)
    BY EngineConstants DEF EngineParams
  <1> HIDE DEF d
  <1>3. SumFunctionOnSet(d, Markets) = SumFunctionOnSet(c, Markets) + (d[m] - c[m])
    BY <1>1, <1>2, SumChange
  <1> QED BY <1>1, <1>3 DEF d

(* What the coins of some markets are worth is at least what is invested,  *)
(* if elsewhere there are only the owner's.                                *)
LEMMA WorthSeen ==
  ASSUME NEW c \in [Markets -> Nat], NEW u \in [Markets -> Nat], NEW P \in SUBSET Markets,
         \A m \in Markets \ P : c[m] <= u[m]
  PROVE  SumFunctionOnSet(c, Markets) - SumFunctionOnSet(u, Markets) <= SumFunctionOnSet(c, P)
  <1>1. IsFiniteSet(Markets) /\ IsFiniteSet(P) /\ IsFiniteSet(Markets \ P)
    BY EngineConstants, FS_Subset, FS_Difference DEF EngineParams
  <1>2. (\A m \in Markets : c[m] \in Int) /\ (\A m \in Markets : u[m] \in Int)
    OBVIOUS
  <1>3. /\ SumFunctionOnSet(c, Markets) =
             SumFunctionOnSet(c, P) + SumFunctionOnSet(c, Markets \ P)
        /\ SumFunctionOnSet(u, Markets) =
             SumFunctionOnSet(u, P) + SumFunctionOnSet(u, Markets \ P)
    BY <1>1, <1>2, SumSplit
  <1>4. SumFunctionOnSet(c, Markets \ P) <= SumFunctionOnSet(u, Markets \ P)
    <2>1. ASSUME NEW m \in Markets \ P PROVE c[m] \in Int /\ u[m] \in Int /\ c[m] <= u[m]
      <3>1. m \in Markets /\ c[m] <= u[m]
        OBVIOUS
      <3> QED BY <1>2, <3>1
    <2> QED BY <1>1, <2>1, SumGrows
  <1>5. SumFunctionOnSet(u, P) >= 0
    <2>1. \A m \in P : u[m] \in Nat
      OBVIOUS
    <2> QED BY <1>1, <2>1, SumNatural
  <1>6. /\ SumFunctionOnSet(c, P) \in Int /\ SumFunctionOnSet(u, P) \in Int
        /\ SumFunctionOnSet(c, Markets \ P) \in Int /\ SumFunctionOnSet(u, Markets \ P) \in Int
    BY WorthType
  <1> QED BY <1>3, <1>4, <1>5, <1>6

(* A step that moves no coin, and comes to the work of a tick only from    *)
(* there and with what the tick has read: to entries from a purchase only  *)
(* if nothing was bought.                                                  *)
Unpriced ==
  /\ coins' = coins /\ user' = user /\ expo' \in {expo, 0}
  /\ pc' # "buying"
  /\ pc' = "bought" => pc = "buying" /\ act'.m = act.m
  /\ pc' \in InTick =>
       /\ pc \in InTick /\ tick'.priced = tick.priced /\ expo' = expo
       /\ pc' # "bought" /\ pc = "buying" => act.done = 0
       /\ pc' # "bought" => pc # "bought"

(* Without faults, nine actions move coins, read prices or order.          *)
LEMMA Pricing ==
  ASSUME TypeOK, Next, MaxFaults = 0, ~Live \/ MaxCrashes = 0
  PROVE  \/ Unpriced
         \/ ReadMarket \/ OpenRow(TRUE) \/ Execute \/ CancelRest
         \/ \E m \in Markets :
              SubmitBuy(m) \/ ExecuteLateBuy(m) \/ ExecuteLateSell(m) \/ UserBuys(m) \/ UserSells(m)
         \/ ~Live /\ Stop
         \/ TimePasses \/ \E m \in Markets : CancelLate(m)
  <1>0. ~InFault
    BY DEF InFault, TypeOK
  <1> USE DEF Unpriced, InTick, Working, procVars, univ, envVars, histVars, exVars
  <1>1. CASE StartUp
    BY <1>0, <1>1 DEF StartUp, Boot, ReadBalances, BalancesFail, KeepRow, ShrinkRow, BookMissing,
          DropRow, FinishReconcile
  <1>2. CASE StartTick \/ Refresh \/ RefreshFails \/ ReadMarketFails \/ StoreFails
    BY <1>0, <1>2 DEF StartTick, Refresh, RefreshFails, ReadMarketFails, StoreFails
  <1>3. CASE Exits
    <2>1. CASE SellTimesOut \/ SellReplyLost
      BY <1>0, <2>1 DEF SellTimesOut, SellReplyLost
    <2>2. CASE SellFilled \/ SellUnfilled \/ BookSale \/ CloseRow
      BY <2>2 DEF SellFilled, SellUnfilled, BookSale, CloseRow
    <2>3. CASE FinishExits
      BY <2>3 DEF FinishExits, TypeOK
    <2>4. ASSUME NEW m \in Markets, KeepPosition(m) \/ SubmitSell(m) PROVE Unpriced
      BY <2>4 DEF KeepPosition, SubmitSell
    <2> QED BY <1>3, <2>1, <2>2, <2>3, <2>4 DEF Exits
  <1>4. CASE Entries
    <2>1. CASE BuyTimesOut \/ BuyReplyLost \/ OpenRow(FALSE)
      BY <1>0, <2>1 DEF BuyTimesOut, BuyReplyLost, OpenRow
    <2>2. CASE BuyFilled \/ BuyUnfilled \/ FinishEntries
      BY <2>2 DEF BuyFilled, BuyUnfilled, FinishEntries
    <2>3. ASSUME NEW m \in Markets, SkipMarket(m) PROVE Unpriced
      BY <2>3 DEF SkipMarket
    <2> QED BY <1>4, <2>1, <2>2, <2>3 DEF Entries
  <1>5. CASE World
    <2>1. CASE Stop
      BY <2>1 DEF Stop, TypeOK
    <2> QED BY <1>5, <2>1 DEF World
  <1> QED BY <1>1, <1>2, <1>3, <1>4, <1>5 DEF Next, Engine, Exchange

(* The exposure stays counted over every step, as long as the tick reads   *)
(* every market with coins of the bot's and no order runs unwatched.       *)
LEMMA ExposureStep ==
  ASSUME TypeOK, TypeOK', LockedCovered, OnPaper, ExposureCounts, [Next]_vars,
         MaxFaults = 0, ~Live \/ MaxCrashes = 0,
         \A m \in Markets : lateBuy[m] = 0,
         pc = "fetch" => \A m \in Markets : coins[m] > user[m] => m \in markets \cup Held
  PROVE  ExposureCounts'
  <1> USE DEF ExposureCounts, ExposureCap
  <1>1. /\ coins \in [Markets -> Nat] /\ user \in [Markets -> Nat]
        /\ coins' \in [Markets -> Nat] /\ user' \in [Markets -> Nat]
        /\ act.m \in Markets /\ act.rem \in Nat /\ act.done \in Nat
        /\ tick.priced \in SUBSET Markets
    BY DEF TypeOK
  <1>2. Invested \in Int /\ MaxExposure \in Nat /\ expo \in Int
    BY <1>1, WorthType, RiskConstants DEF Invested
  <1>3. coins' = coins /\ user' = user => Invested' = Invested
    BY DEF Invested
  <1>4. CASE Unpriced
    BY <1>1, <1>2, <1>3, <1>4 DEF Unpriced, InTick, Working
  <1>5. CASE ReadMarket
    <2>1. /\ pc = "fetch" /\ pc' = "exits" /\ coins' = coins /\ user' = user
          /\ tick'.priced = markets \cup Held /\ expo' = Exposure(markets \cup Held)
      <3>1. ~InFault
        BY DEF InFault, TypeOK
      <3>2. PICK priced \in SUBSET (markets \cup Held) :
              /\ priced = markets \cup Held \/ InFault
              /\ tick'.priced = priced /\ expo' = Exposure(priced)
        BY <1>5 DEF ReadMarket
      <3> QED BY <1>5, <3>1, <3>2 DEF ReadMarket, exVars, histVars
    <2>2. markets \cup Held \in SUBSET Markets
      BY DEF TypeOK, Held
    <2>3. \A m \in Markets \ (markets \cup Held) : coins[m] <= user[m]
      BY <1>1, <2>1
    <2>4. Invested <= Exposure(markets \cup Held) /\ Exposure(markets \cup Held) \in Int
      BY <1>1, <2>2, <2>3, WorthSeen, WorthType DEF Invested, Exposure
    <2> QED BY <1>3, <2>1, <2>3, <2>4
  <1>6. CASE OpenRow(TRUE)
    <2>1. /\ pc = "bought" /\ pc' = "entries" /\ coins' = coins /\ user' = user
          /\ tick'.priced = tick.priced /\ expo' = Exposure(tick.priced)
      BY <1>6 DEF OpenRow, TypeOK, exVars
    <2>2. \A m \in Markets \ tick.priced : coins[m] <= user[m]
      BY <2>1 DEF InTick, Working
    <2>3. Invested <= Exposure(tick.priced) /\ Exposure(tick.priced) \in Int
      BY <1>1, <2>2, WorthSeen, WorthType DEF Invested, Exposure
    <2> QED BY <1>3, <2>1, <2>2, <2>3
  <1>7. ASSUME NEW m \in Markets, SubmitBuy(m) PROVE ExposureCounts'
    <2>1. PICK size \in SizesFor(expo, OrderQty) : act' = Act(m, size)
      BY <1>7 DEF SubmitBuy
    <2>2. /\ pc = "entries" /\ pc' = "buying" /\ coins' = coins /\ user' = user
          /\ expo' = expo /\ tick' = tick /\ m \in tick.priced
      BY <1>7 DEF SubmitBuy, exVars, histVars
    <2>3. act'.m = m /\ act'.rem = size /\ act'.done = 0 /\ size \in Nat
      BY <2>1, EngineConstants DEF Act, SizesFor, EngineParams
    <2>4. expo + size <= MaxExposure
      BY <2>1 DEF SizesFor
    <2> QED BY <1>2, <1>3, <2>2, <2>3, <2>4 DEF InTick, Working
  <1>8. CASE Execute
    <2>1. /\ pc \in {"selling", "buying"} /\ pc' = pc /\ user' = user
          /\ expo' = expo /\ tick' = tick /\ act.rem > 0
          /\ act'.m = act.m /\ act'.done = act.done + 1 /\ act'.rem = act.rem - 1
          /\ coins' = [coins EXCEPT ![act.m] = IF pc = "buying" THEN @ + 1 ELSE @ - 1]
      BY <1>8 DEF Execute, Ordering, histVars
    <2> DEFINE n == IF pc = "buying" THEN coins[act.m] + 1 ELSE coins[act.m] - 1
    <2>2. coins' = [coins EXCEPT ![act.m] = n] /\ n \in Nat
      <3>1. coins' = [coins EXCEPT ![act.m] = n]
        BY <2>1
      <3>2. coins'[act.m] = n
        BY <1>1, <3>1
      <3> QED BY <1>1, <3>1, <3>2
    <2>3. Invested' = Invested + (n - coins[act.m])
      <3> HIDE DEF n
      <3>1. SumFunctionOnSet(coins', Markets) = SumFunctionOnSet(coins, Markets) + (n - coins[act.m])
        BY <1>1, <2>2, WorthChange
      <3>2. /\ SumFunctionOnSet(coins, Markets) \in Int /\ SumFunctionOnSet(user, Markets) \in Int
            /\ coins[act.m] \in Int /\ n \in Int
        BY <1>1, <2>2, WorthType
      <3> QED BY <2>1, <3>1, <3>2 DEF Invested
    <2>4. /\ pc = "buying" => Invested' = Invested + 1
          /\ pc = "selling" => Invested' = Invested - 1
      BY <1>1, <1>2, <2>1, <2>3
    <2>5. \A m \in Markets \ tick.priced : coins'[m] <= user'[m]
      BY <1>1, <2>1 DEF InTick, Working
    <2> HIDE DEF n
    <2> QED BY <1>1, <1>2, <2>1, <2>4, <2>5 DEF InTick, Working
  <1>9. CASE CancelRest
    <2>1. /\ pc \in {"selling", "buying"} /\ pc' = pc /\ coins' = coins /\ user' = user
          /\ expo' = expo /\ tick' = tick
          /\ act'.m = act.m /\ act'.done = act.done /\ act'.rem = 0
      BY <1>9 DEF CancelRest, Ordering, TypeOK, exVars, histVars
    <2> QED BY <1>1, <1>2, <1>3, <2>1 DEF InTick, Working
  <1>10. ASSUME NEW m \in Markets, ExecuteLateBuy(m) PROVE ExposureCounts'
    BY <1>10 DEF ExecuteLateBuy
  <1>11. ASSUME NEW m \in Markets, ExecuteLateSell(m) \/ UserSells(m) PROVE ExposureCounts'
    <2>1. /\ coins' = [coins EXCEPT ![m] = coins[m] - 1]
          /\ pc' = pc /\ expo' = expo /\ act' = act /\ tick' = tick
          /\ user' = user \/ user' = [user EXCEPT ![m] = user[m] - 1]
      BY <1>11 DEF ExecuteLateSell, UserSells, procVars, histVars
    <2>2. coins[m] - 1 \in Nat
      <3>1. coins'[m] = coins[m] - 1
        BY <1>1, <2>1
      <3> QED BY <1>1, <3>1
    <2>3. SumFunctionOnSet(coins', Markets) = SumFunctionOnSet(coins, Markets) - 1
      <3>1. SumFunctionOnSet(coins, Markets) \in Int
        BY <1>1, WorthType
      <3>2. SumFunctionOnSet(coins', Markets) =
              SumFunctionOnSet(coins, Markets) + ((coins[m] - 1) - coins[m])
        BY <1>1, <2>1, <2>2, WorthChange
      <3> QED BY <1>1, <3>1, <3>2
    <2>4. SumFunctionOnSet(user', Markets) >= SumFunctionOnSet(user, Markets) - 1
      <3>1. SumFunctionOnSet(user, Markets) \in Int
        BY <1>1, WorthType
      <3>2. CASE user' = user
        BY <3>1, <3>2
      <3>3. CASE user' = [user EXCEPT ![m] = user[m] - 1]
        <4>1. user'[m] = user[m] - 1
          BY <1>1, <3>3
        <4>2. user[m] - 1 \in Nat
          BY <1>1, <4>1
        <4>3. SumFunctionOnSet(user', Markets) =
                SumFunctionOnSet(user, Markets) + ((user[m] - 1) - user[m])
          BY <1>1, <3>3, <4>2, WorthChange
        <4> QED BY <1>1, <3>1, <4>3
      <3> QED BY <2>1, <3>2, <3>3
    <2>5. Invested' <= Invested /\ Invested' \in Int
      <3>1. /\ SumFunctionOnSet(coins, Markets) \in Int /\ SumFunctionOnSet(user, Markets) \in Int
            /\ SumFunctionOnSet(user', Markets) \in Int
        BY <1>1, WorthType
      <3> QED BY <2>3, <2>4, <3>1 DEF Invested
    <2>6. \A k \in Markets : coins[k] <= user[k] => coins'[k] <= user'[k]
      BY <1>1, <2>1
    <2> QED BY <1>1, <1>2, <2>1, <2>5, <2>6
  <1>12. ASSUME NEW m \in Markets, UserBuys(m) PROVE ExposureCounts'
    <2>1. /\ coins' = [coins EXCEPT ![m] = coins[m] + 1] /\ user' = [user EXCEPT ![m] = user[m] + 1]
          /\ pc' = pc /\ expo' = expo /\ act' = act /\ tick' = tick
      BY <1>12 DEF UserBuys, procVars
    <2>2. Invested' = Invested
      <3>1. coins[m] \in Nat /\ user[m] \in Nat
        BY <1>1
      <3>2. /\ SumFunctionOnSet(coins', Markets) =
                 SumFunctionOnSet(coins, Markets) + ((coins[m] + 1) - coins[m])
            /\ SumFunctionOnSet(user', Markets) =
                 SumFunctionOnSet(user, Markets) + ((user[m] + 1) - user[m])
        BY <1>1, <2>1, <3>1, WorthChange
      <3>3. SumFunctionOnSet(coins, Markets) \in Int /\ SumFunctionOnSet(user, Markets) \in Int
        BY <1>1, WorthType
      <3> QED BY <3>1, <3>2, <3>3 DEF Invested
    <2>3. \A k \in Markets : coins[k] <= user[k] => coins'[k] <= user'[k]
      BY <1>1, <2>1
    <2> QED BY <1>1, <1>2, <2>1, <2>2, <2>3
  <1>13. CASE ~Live /\ Stop
    <2>1. pc' = "down" /\ expo' = 0 /\ user' = user /\ coins' = [m \in Markets |-> 0]
      BY <1>13 DEF Stop
    <2>2. user' = coins'
      BY <1>1, <1>13, <2>1 DEF OnPaper
    <2>3. Invested' = 0
      <3>1. SumFunctionOnSet(user', Markets) \in Int
        BY <1>1, WorthType
      <3> QED BY <2>2, <3>1 DEF Invested
    <2> QED BY <1>2, <2>1, <2>3 DEF InTick, Working
  <1>14. CASE TimePasses \/ \E m \in Markets : CancelLate(m)
    BY <1>3, <1>14 DEF TimePasses, CancelLate, exVars, procVars, histVars
  <1>15. CASE UNCHANGED vars
    BY <1>3, <1>15 DEF vars, exVars, procVars, histVars
  <1> QED BY <1>4, <1>5, <1>6, <1>7, <1>8, <1>9, <1>10, <1>11, <1>12, <1>13, <1>14, <1>15, Pricing

(* On paper every coin stays behind a row or the order that buys it.       *)
LEMMA PaperStep ==
  ASSUME TypeOK, TypeOK', LockedCovered, Points, PaperCoins, [Next]_vars, ~Live, MaxFaults = 0
  PROVE  PaperCoins'
  <1> USE DEF PaperCoins, dbVars, exVars, procVars, univ, envVars, histVars
  <1>1. /\ coins \in [Markets -> Nat] /\ row \in [Markets -> Nat] /\ act.m \in Markets
        /\ act.rem \in Nat /\ act.done \in Nat /\ ~InFault
    BY DEF TypeOK, InFault
  <1>2. /\ \A m \in Markets : lateBuy[m] = 0 /\ lateSell[m] = 0
        /\ pc \in {"buying", "bought"} => row[act.m] = 0
    BY DEF Points, OnPaper, AtPurchase
  <1>3. CASE StartUp
    BY <1>1, <1>3 DEF StartUp, Boot, ReadBalances, BalancesFail, KeepRow, ShrinkRow, BookMissing,
          DropRow, FinishReconcile
  <1>4. CASE StartTick \/ Refresh \/ RefreshFails \/ ReadMarket \/ ReadMarketFails
    BY <1>1, <1>4 DEF StartTick, Refresh, RefreshFails, ReadMarket, ReadMarketFails
  <1>5. CASE SellTimesOut \/ SellReplyLost \/ BuyTimesOut \/ BuyReplyLost \/ StoreFails
    BY <1>1, <1>5 DEF SellTimesOut, SellReplyLost, BuyTimesOut, BuyReplyLost, StoreFails
  <1>6. CASE SellFilled \/ BuyFilled \/ FinishExits \/ FinishEntries
    BY <1>1, <1>6 DEF SellFilled, BuyFilled, FinishExits, FinishEntries
  <1>7. CASE SellUnfilled
    BY <1>1, <1>7 DEF SellUnfilled
  <1>8. CASE BuyUnfilled
    BY <1>1, <1>2, <1>8 DEF BuyUnfilled
  <1>9. CASE BookSale
    <2>1. /\ pc = "sold" /\ pc' = "booked" /\ row' = row /\ coins' = coins
          /\ act'.m = act.m /\ act'.rem = act.rem
      BY <1>9 DEF BookSale, TypeOK
    <2> QED BY <1>1, <2>1
  <1>10. CASE CloseRow
    <2>1. /\ pc = "booked" /\ pc' = "exits" /\ coins' = coins
          /\ row' = [row EXCEPT ![act.m] = 0]
      BY <1>10 DEF CloseRow, delete_position
    <2>2. coins[act.m] = 0
      BY <1>1, <2>1
    <2> QED BY <1>1, <2>1, <2>2
  <1>11. ASSUME NEW m \in Markets, KeepPosition(m) \/ SkipMarket(m) PROVE PaperCoins'
    BY <1>1, <1>11 DEF KeepPosition, SkipMarket
  <1>12. ASSUME NEW m \in Markets, SubmitSell(m) PROVE PaperCoins'
    <2>1. /\ pc = "exits" /\ pc' = "selling" /\ coins' = coins /\ row' = row
          /\ act' = Act(m, SellSize(m))
      BY <1>12 DEF SubmitSell
    <2>2. act'.m = m /\ act'.rem = coins[m]
      BY <1>1, <2>1 DEF Act, SellSize
    <2> QED BY <1>1, <2>1, <2>2
  <1>13. ASSUME NEW m \in Markets, SubmitBuy(m) PROVE PaperCoins'
    <2>1. /\ pc = "entries" /\ pc' = "buying" /\ coins' = coins /\ row' = row /\ row[m] = 0
          /\ act'.m = m /\ act'.done = 0
      BY <1>13 DEF SubmitBuy, Act
    <2> QED BY <1>1, <2>1
  <1>14. ASSUME NEW reads \in BOOLEAN, OpenRow(reads) PROVE PaperCoins'
    <2>1. /\ pc = "bought" /\ pc' \in {"entries", "idle"} /\ coins' = coins
          /\ row' = [row EXCEPT ![act.m] = act.done]
      BY <1>14 DEF OpenRow, upsert_position
    <2> QED BY <1>1, <2>1
  <1>15. CASE Execute
    <2>1. /\ pc \in {"selling", "buying"} /\ pc' = pc /\ row' = row /\ act.rem > 0
          /\ act'.m = act.m /\ act'.done = act.done + 1 /\ act'.rem = act.rem - 1
          /\ coins' = [coins EXCEPT ![act.m] = IF pc = "buying" THEN @ + 1 ELSE @ - 1]
      BY <1>15 DEF Execute, Ordering
    <2> QED BY <1>1, <2>1
  <1>16. CASE CancelRest \/ \E m \in Markets : UserBuys(m) \/ UserSells(m)
    BY <1>16 DEF CancelRest, UserBuys, UserSells
  <1>17. ASSUME NEW m \in Markets, ExecuteLateBuy(m) \/ ExecuteLateSell(m) \/ CancelLate(m)
         PROVE  PaperCoins'
    BY <1>2, <1>17 DEF ExecuteLateBuy, ExecuteLateSell, CancelLate
  <1>18. CASE Stop
    <2>1. pc' = "down" /\ row' = row /\ coins' = [m \in Markets |-> 0]
      BY <1>18 DEF Stop
    <2> QED BY <1>1, <2>1
  <1>19. CASE TimePasses \/ UNCHANGED vars
    BY <1>19 DEF TimePasses, vars
  <1> QED BY <1>3, <1>4, <1>5, <1>6, <1>7, <1>8, <1>9, <1>10, <1>11, <1>12, <1>13, <1>14, <1>15,
             <1>16, <1>17, <1>18, <1>19 DEF Next, Engine, Exits, Entries, Exchange, World

(* With a fixed list of markets nothing of the bot's gets outside it.      *)
LEMMA ListedStep ==
  ASSUME TypeOK, TypeOK', Points, ListedCoins, [Next]_vars,
         MaxFaults = 0, MaxCrashes = 0, ~UniverseAuto
  PROVE  ListedCoins'
  <1> USE DEF ListedCoins, dbVars, exVars, procVars, univ, envVars, histVars
  <1>1. /\ coins \in [Markets -> Nat] /\ user \in [Markets -> Nat] /\ row \in [Markets -> Nat]
        /\ act.m \in Markets /\ ~InFault /\ ~(crashes < MaxCrashes)
        /\ lateBuy \in [Markets -> Nat]
    BY DEF TypeOK, InFault
  <1>0. \A d \in {FALSE, UniverseAuto} : ~d
    BY EngineConstants, Zenon DEF EngineParams
  <1>2. CASE Boot
    <2>1. ~due'
      BY <1>0, <1>2, Zenon DEF Boot
    <2> QED BY <1>1, <1>2, <2>1 DEF Boot
  <1>3. CASE ReadBalances \/ BalancesFail \/ FinishReconcile
    BY <1>1, <1>3 DEF ReadBalances, BalancesFail, FinishReconcile
  <1>4. ASSUME NEW m \in Markets, KeepRow(m) \/ BookMissing(m) PROVE ListedCoins'
    BY <1>1, <1>4 DEF KeepRow, BookMissing
  <1>5. ASSUME NEW m \in Markets, ShrinkRow(m) PROVE ListedCoins'
    <2>1. m \in StartMarkets
      <3>1. audit.bal[m] \in Nat /\ row[m] \in Nat /\ 0 < audit.bal[m] /\ audit.bal[m] < row[m]
        BY <1>5 DEF ShrinkRow, TypeOK
      <3> QED BY <3>1
    <2>2. /\ row' = [row EXCEPT ![m] = audit.bal[m]] /\ pc' = pc
          /\ UNCHANGED <<exVars, univ, tick, user, act>>
      BY <1>5 DEF ShrinkRow, upsert_position
    <2> QED BY <1>1, <1>5, <2>1, <2>2 DEF ShrinkRow
  <1>6. CASE DropRow
    <2>1. /\ row' = [row EXCEPT ![act.m] = 0] /\ pc' = "reconcile"
          /\ UNCHANGED <<exVars, univ, tick, user>>
      BY <1>6 DEF DropRow, delete_position
    <2> QED BY <1>1, <2>1
  <1>7. CASE StartTick
    BY <1>1, <1>7 DEF StartTick, NoTick
  <1>8. CASE Refresh \/ RefreshFails
    BY <1>8 DEF Refresh, RefreshFails
  <1>9. CASE ReadMarket
    <2>1. PICK priced \in SUBSET (markets \cup Held) : tick'.priced = priced
      BY <1>9 DEF ReadMarket
    <2>2. Held \subseteq StartMarkets
      BY <1>1 DEF Held
    <2>3. pc' = "exits" /\ UNCHANGED <<row, exVars, markets, user>>
      BY <1>9 DEF ReadMarket, TimeToRefresh
    <2>4. ~due'
      BY <1>0, <1>9, Zenon DEF ReadMarket, TimeToRefresh
    <2> QED BY <1>1, <2>1, <2>2, <2>3, <2>4
  <1>10. CASE ReadMarketFails \/ StoreFails \/ SellTimesOut \/ SellReplyLost \/ BuyTimesOut
              \/ BuyReplyLost \/ Stop
    BY <1>1, <1>10 DEF ReadMarketFails, StoreFails, SellTimesOut, SellReplyLost, BuyTimesOut,
                       BuyReplyLost, Stop
  <1>11. CASE SellFilled \/ SellUnfilled \/ BuyFilled \/ BuyUnfilled \/ FinishExits \/ FinishEntries
    BY <1>1, <1>11 DEF SellFilled, SellUnfilled, BuyFilled, BuyUnfilled, FinishExits,
                       FinishEntries, NoTick, TypeOK
  <1>12. CASE BookSale
    BY <1>1, <1>12 DEF BookSale
  <1>13. CASE CloseRow
    <2>1. /\ row' = [row EXCEPT ![act.m] = 0] /\ pc' = "exits"
          /\ UNCHANGED <<exVars, univ, tick, user>>
      BY <1>13 DEF CloseRow, delete_position
    <2> QED BY <1>1, <2>1
  <1>14. ASSUME NEW m \in Markets, KeepPosition(m) \/ SubmitSell(m) \/ SkipMarket(m)
         PROVE  ListedCoins'
    BY <1>1, <1>14 DEF KeepPosition, SubmitSell, SkipMarket
  <1>15. ASSUME NEW m \in Markets, SubmitBuy(m) PROVE ListedCoins'
    <2>1. /\ m \in tick.priced /\ pc' = "buying" /\ act'.m = m
          /\ UNCHANGED <<row, exVars, univ, tick, user>>
      BY <1>15 DEF SubmitBuy, Act
    <2> QED BY <1>1, <2>1
  <1>16. ASSUME NEW reads \in BOOLEAN, OpenRow(reads) PROVE ListedCoins'
    <2>1. /\ pc = "bought" /\ pc' \in {"entries", "idle"} /\ row' = [row EXCEPT ![act.m] = act.done]
          /\ tick'.priced \subseteq StartMarkets
          /\ UNCHANGED <<exVars, univ, user>>
      BY <1>16 DEF OpenRow, upsert_position, NoTick, TypeOK
    <2> QED BY <1>1, <2>1
  <1>17. CASE Execute
    <2>1. /\ pc \in {"selling", "buying"} /\ act'.m = act.m
          /\ coins' = [coins EXCEPT ![act.m] = IF pc = "buying" THEN @ + 1 ELSE @ - 1]
          /\ UNCHANGED <<pc, row, lateBuy, univ, tick, user>>
      BY <1>17 DEF Execute, Ordering
    <2> QED BY <1>1, <2>1
  <1>18. CASE CancelRest
    BY <1>1, <1>18 DEF CancelRest, TypeOK
  <1>19. ASSUME NEW m \in Markets, ExecuteLateBuy(m) \/ ExecuteLateSell(m) \/ CancelLate(m)
         PROVE  ListedCoins'
    BY <1>1, <1>19 DEF ExecuteLateBuy, ExecuteLateSell, CancelLate
  <1>20. ASSUME NEW m \in Markets, UserBuys(m) PROVE ListedCoins'
    BY <1>1, <1>20 DEF UserBuys
  <1>21. ASSUME NEW m \in Markets, UserSells(m) PROVE ListedCoins'
    BY <1>1, <1>21 DEF UserSells
  <1>22. CASE TimePasses \/ UNCHANGED vars
    BY <1>22 DEF TimePasses, vars
  <1> QED BY <1>2, <1>3, <1>4, <1>5, <1>6, <1>7, <1>8, <1>9, <1>10, <1>11, <1>12, <1>13, <1>14,
             <1>15, <1>16, <1>17, <1>18, <1>19, <1>20, <1>21, <1>22
          DEF Next, Engine, StartUp, Exits, Entries, Exchange, World

(* What the bot has in the market at cost never exceeds max_total_exposure,*)
(* as long as no reading and no write fails: on paper over any number of   *)
(* restarts and refreshes, with a broker while the process lives and the   *)
(* list of markets is the configuration's.  Orders executed in part or     *)
(* cancelled, and an owner who trades in the app at any time, are allowed. *)
THEOREM ExposureKept ==
  ASSUME MaxFaults = 0,
         ~Live \/ (MaxCrashes = 0 /\ ~UniverseAuto)
  PROVE  Spec => []ExposureCap
  <1> DEFINE Coins == IF Live THEN ListedCoins ELSE PaperCoins
             Inv   == Coins /\ ExposureCounts
  <1>1. Init => Inv
    <2> SUFFICES ASSUME Init PROVE Inv
      OBVIOUS
    <2>1. coins = user /\ user \in [Markets -> Nat]
      BY EngineConstants DEF Init, EngineParams
    <2>2. Invested = 0
      <3>1. SumFunctionOnSet(user, Markets) \in Int
        BY <2>1, WorthType
      <3> QED BY <2>1, <3>1 DEF Invested
    <2>3. ExposureCounts
      BY <2>2, RiskConstants DEF Init, ExposureCounts, ExposureCap, InTick, Working
    <2>4. Live => ListedCoins
      BY <2>1 DEF Init, ListedCoins, NoTick
    <2>5. ~Live => PaperCoins
      BY <2>1 DEF Init, PaperCoins
    <2> QED BY <2>3, <2>4, <2>5
  <1>2. IInv /\ IInv' /\ Inv /\ [Next]_vars => Inv'
    <2> SUFFICES ASSUME IInv, IInv', Inv, [Next]_vars PROVE Inv'
      OBVIOUS
    <2>1. TypeOK /\ TypeOK' /\ LockedCovered /\ Points /\ OnPaper
      BY DEF IInv, Points
    <2>2. Coins'
      BY <2>1, PaperStep, ListedStep
    <2>3. \A m \in Markets : lateBuy[m] = 0
      BY <2>1 DEF OnPaper, ListedCoins
    <2>4. pc = "fetch" => \A m \in Markets : coins[m] > user[m] => m \in markets \cup Held
      <3> SUFFICES ASSUME pc = "fetch", NEW m \in Markets, coins[m] > user[m]
                   PROVE  m \in markets \cup Held
        OBVIOUS
      <3>1. coins[m] \in Nat /\ user[m] \in Nat /\ row[m] \in Nat
        BY <2>1 DEF TypeOK
      <3> QED BY <3>1 DEF PaperCoins, ListedCoins, Held
    <2>5. ExposureCounts'
      BY <2>1, <2>3, <2>4, ExposureStep
    <2> QED BY <2>2, <2>5
  <1>3. Inv => ExposureCap
    BY DEF ExposureCounts
  <1> HIDE DEF Inv
  <1> QED BY <1>1, <1>2, <1>3, Invariance, PTL DEF Spec

-----------------------------------------------------------------------------
(* The list of markets.                                                    *)

(* The members of T that rank no higher than t.                            *)
Below(T, t, look, field) == {r \in T : look[r][field] <= look[t][field]}

(* A set of markets that is not empty has one that ranks lowest.           *)
LEMMA Lowest ==
  ASSUME NEW T, IsFiniteSet(T), T # {}, NEW look, NEW field,
         \A t \in T : look[t][field] \in Nat
  PROVE  \E t \in T : \A r \in T : look[t][field] <= look[r][field]
  <1> DEFINE B == {Below(T, t, look, field) : t \in T}
  <1>1. B \in SUBSET SUBSET T /\ B # {}
    BY DEF Below
  <1>2. PICK b \in B : \A c \in B : c \subseteq b => c = b
    <2> HIDE DEF B
    <2> QED BY <1>1, SmallestSet
  <1>3. PICK t \in T : b = Below(T, t, look, field)
    BY <1>2
  <1>4. ASSUME NEW r \in T, ~(look[t][field] <= look[r][field]) PROVE FALSE
    <2>1. Below(T, r, look, field) \subseteq Below(T, t, look, field)
      BY <1>4 DEF Below
    <2>2. t \in Below(T, t, look, field) /\ t \notin Below(T, r, look, field)
      BY <1>4 DEF Below
    <2>3. Below(T, r, look, field) \in B
      BY <1>4
    <2> QED BY <1>2, <1>3, <2>1, <2>2, <2>3
  <1> QED BY <1>4

(* What Best asks of a set of markets, but for its size.                   *)
Leads(T, S, look, field) == \A t \in T, s \in S \ T : look[t][field] >= look[s][field]

(* A slice of a sorted list of markets exists, whatever its length.        *)
LEMMA BestSome ==
  ASSUME NEW S, IsFiniteSet(S), NEW n \in Nat, NEW look, NEW field,
         \A s \in S : look[s][field] \in Nat
  PROVE  Best(n, S, look, field) # {}
  <1> DEFINE k == IF Cardinality(S) < n THEN Cardinality(S) ELSE n
             B == {T \in SUBSET S : Cardinality(T) >= k /\ Leads(T, S, look, field)}
  <1>1. Cardinality(S) \in Nat /\ k \in Nat /\ k <= Cardinality(S)
    BY FS_CardinalityType
  <1>2. S \in B
    BY <1>1 DEF Leads
  <1>3. PICK T \in B : \A U \in B : U \subseteq T => U = T
    <2>1. B \in SUBSET SUBSET S /\ B # {}
      BY <1>2
    <2> HIDE DEF B
    <2> QED BY <2>1, SmallestSet
  <1>4. T \subseteq S /\ Cardinality(T) >= k /\ Leads(T, S, look, field)
    BY <1>3
  <1>5. IsFiniteSet(T) /\ Cardinality(T) \in Nat
    BY <1>4, FS_Subset, FS_CardinalityType
  <1>6. ASSUME Cardinality(T) # k PROVE FALSE
    <2> HIDE DEF k
    <2>1. Cardinality(T) > k /\ Cardinality(T) > 0
      BY <1>1, <1>4, <1>5, <1>6
    <2>2. T # {}
      BY <2>1, FS_EmptySet
    <2>3. PICK t \in T : \A r \in T : look[t][field] <= look[r][field]
      BY <1>4, <1>5, <2>2, Lowest
    <2>4. Cardinality(T \ {t}) = Cardinality(T) - 1
      BY <1>5, FS_RemoveElement
    <2>5. Leads(T \ {t}, S, look, field)
      <3> SUFFICES ASSUME NEW r \in T \ {t}, NEW s \in S \ (T \ {t})
                   PROVE  look[r][field] >= look[s][field]
        BY DEF Leads
      <3>1. CASE s = t
        BY <3>1, <2>3, <1>4
      <3>2. CASE s # t
        BY <3>2, <1>4 DEF Leads
      <3> QED BY <3>1, <3>2
    <2>6. T \ {t} \in B
      BY <1>1, <1>4, <1>5, <2>1, <2>4, <2>5
    <2> QED BY <1>3, <2>6
  <1>7. T \in Best(n, S, look, field)
    BY <1>4, <1>6 DEF Best, Leads
  <1> QED BY <1>7

(* Where no more than n compete, all of them are selected.                 *)
LEMMA BestAll ==
  ASSUME NEW S, IsFiniteSet(S), NEW n \in Nat, Cardinality(S) <= n,
         NEW look, NEW field
  PROVE  Best(n, S, look, field) = {S}
  <1>1. Cardinality(S) \in Nat
    BY FS_CardinalityType
  <1>2. ASSUME NEW T \in Best(n, S, look, field) PROVE T = S
    <2>1. T \in SUBSET S /\ Cardinality(T) = Cardinality(S)
      BY <1>1, <1>2 DEF Best
    <2> QED BY <2>1, FS_Subset
  <1>3. S \in Best(n, S, look, field)
    BY <1>1 DEF Best
  <1> QED BY <1>2, <1>3

(* What a look is made of.                                                 *)
LEMMA LookFields ==
  ASSUME NEW look \in [Markets -> Looks]
  PROVE  /\ DOMAIN look = Markets
         /\ \A m \in Markets : /\ look[m]["turnover"] \in Nat /\ look[m]["edge"] \in Nat
                              /\ look[m].warned \in BOOLEAN /\ look[m].cheap \in BOOLEAN
  BY UniverseConstants DEF Look

(* Of the model, not of the code: the choices of Best never block Refresh. *)
LEMMA RefreshAnswers == \A look \in [Markets -> Looks] : Selections(look) # {}
  <1> SUFFICES ASSUME NEW look \in [Markets -> Looks] PROVE Selections(look) # {}
    OBVIOUS
  <1>1. 8 * TopN \in Nat /\ 3 * TopN \in Nat /\ TopN \in Nat
    BY UniverseConstants
  <1>2. Liquid(look) \subseteq Markets /\ IsFiniteSet(Liquid(look))
    <2>1. Liquid(look) \in SUBSET Markets
      BY LookFields DEF Liquid
    <2>2. IsFiniteSet(Markets)
      BY EngineConstants DEF EngineParams
    <2> QED BY <2>1, <2>2, FS_Subset
  <1>3. PICK L : L \in Best(8 * TopN, Liquid(look), look, "turnover")
    <2>1. \A m \in Liquid(look) : look[m]["turnover"] \in Nat
      BY <1>2, LookFields
    <2> QED BY <1>1, <1>2, <2>1, BestSome
  <1>4. Moving(L, look) \subseteq Markets /\ IsFiniteSet(Moving(L, look))
    BY <1>2, <1>3, EngineConstants, FS_Subset DEF Moving, Best
  <1>5. PICK C : C \in Best(3 * TopN, Moving(L, look), look, "edge")
    <2>1. \A m \in Moving(L, look) : look[m]["edge"] \in Nat
      BY <1>4, LookFields
    <2> QED BY <1>1, <1>4, <2>1, BestSome
  <1>6. Cheap(C, look) \subseteq Markets /\ IsFiniteSet(Cheap(C, look))
    BY <1>4, <1>5, EngineConstants, FS_Subset DEF Cheap, Best
  <1>7. PICK T : T \in Best(TopN, Cheap(C, look), look, "edge")
    <2>1. \A m \in Cheap(C, look) : look[m]["edge"] \in Nat
      BY <1>6, LookFields
    <2> QED BY <1>1, <1>6, <2>1, BestSome
  <1>8. T \in Selections(look)
    BY <1>3, <1>5, <1>7 DEF Selections
  <1> QED BY <1>8

(* The cheap requests first cost nothing while few markets are liquid: the *)
(* answer is then the TopN best of all that pass the three filters.  With  *)
(* more, a market that would be among them may fall to an earlier slice.   *)
THEOREM FewMarketsNoneMissed ==
  \A look \in [Markets -> Looks] :
    Cardinality(Liquid(look)) <= 3 * TopN =>
      Selections(look) = Best(TopN, Cheap(Moving(Liquid(look), look), look), look, "edge")
  <1> SUFFICES ASSUME NEW look \in [Markets -> Looks],
                      Cardinality(Liquid(look)) <= 3 * TopN
               PROVE  Selections(look) =
                        Best(TopN, Cheap(Moving(Liquid(look), look), look), look, "edge")
    OBVIOUS
  <1>1. 8 * TopN \in Nat /\ 3 * TopN \in Nat /\ 3 * TopN <= 8 * TopN
    BY UniverseConstants
  <1>2. IsFiniteSet(Liquid(look)) /\ Cardinality(Liquid(look)) \in Nat
    <2>1. Liquid(look) \in SUBSET Markets
      BY LookFields DEF Liquid
    <2>2. IsFiniteSet(Markets)
      BY EngineConstants DEF EngineParams
    <2> QED BY <2>1, <2>2, FS_Subset, FS_CardinalityType
  <1>3. Best(8 * TopN, Liquid(look), look, "turnover") = {Liquid(look)}
    BY <1>1, <1>2, BestAll
  <1>4. /\ IsFiniteSet(Moving(Liquid(look), look))
        /\ Cardinality(Moving(Liquid(look), look)) <= 3 * TopN
    <2>1. Moving(Liquid(look), look) \in SUBSET Liquid(look)
      BY DEF Moving
    <2>2. /\ IsFiniteSet(Moving(Liquid(look), look))
          /\ Cardinality(Moving(Liquid(look), look)) <= Cardinality(Liquid(look))
          /\ Cardinality(Moving(Liquid(look), look)) \in Nat
      BY <1>2, <2>1, FS_Subset, FS_CardinalityType
    <2> QED BY <1>1, <1>2, <2>2
  <1>5. Best(3 * TopN, Moving(Liquid(look), look), look, "edge")
          = {Moving(Liquid(look), look)}
    BY <1>1, <1>4, BestAll
  <1> QED BY <1>3, <1>5 DEF Selections

(* A selection has at most TopN markets.                                   *)
LEMMA SelectionSize ==
  ASSUME NEW look \in [Markets -> Looks], NEW selected \in Selections(look)
  PROVE  IsFiniteSet(selected) /\ Cardinality(selected) \in Nat /\ Cardinality(selected) <= TopN
  <1>1. selected \subseteq Markets
    BY Selected
  <1>2. IsFiniteSet(selected) /\ Cardinality(selected) \in Nat
    <2>1. selected \in SUBSET Markets
      BY <1>1
    <2>2. IsFiniteSet(Markets)
      BY EngineConstants DEF EngineParams
    <2> QED BY <2>1, <2>2, FS_Subset, FS_CardinalityType
  <1>3. PICK S : selected \in Best(TopN, S, look, "edge")
    BY DEF Selections
  <1>4. Cardinality(selected) = IF Cardinality(S) < TopN THEN Cardinality(S) ELSE TopN
    BY <1>3 DEF Best
  <1> QED BY <1>2, <1>4, UniverseConstants

(* The list the configuration gives, or what a refresh selected and what   *)
(* was held then.                                                          *)
ListBounded == markets = StartMarkets \/ Cardinality(markets) <= TopN + MaxConcurrent

(* The list of markets, and with it the requests of a tick, does not grow  *)
(* with the refreshes: over any number of them, of crashes and of failed   *)
(* readings it is one selection and what was held then, so that a market   *)
(* sold since is dropped by the next.                                      *)
THEOREM ListKeepsBounded == Spec => []ListBounded
  <1>1. Init => ListBounded
    BY DEF Init, ListBounded
  <1>2. IInv /\ ListBounded /\ [Next]_vars => ListBounded'
    <2> SUFFICES ASSUME IInv, ListBounded, [Next]_vars PROVE ListBounded'
      OBVIOUS
    <2>1. CASE Refresh
      <3>1. CASE markets' = markets
        BY <3>1 DEF ListBounded
      <3>2. CASE markets' # markets
        <4>1. PICK look \in [Markets -> Looks] : \E selected \in Selections(look) :
                markets' = selected \cup Held
          BY <2>1, <3>2 DEF Refresh
        <4>2. PICK selected \in Selections(look) : markets' = selected \cup Held
          BY <4>1
        <4>3. IsFiniteSet(Held) /\ Cardinality(Held) \in Nat
          BY HeldFinite
        <4>4. /\ IsFiniteSet(selected) /\ Cardinality(selected) \in Nat
              /\ Cardinality(selected) <= TopN
          BY SelectionSize
        <4>5. Cardinality(Held) <= MaxConcurrent
          BY DEF IInv, RowsBounded
        <4>6. Cardinality(selected \cap Held) \in Nat
          BY <4>4, FS_Intersection, FS_CardinalityType
        <4>7. Cardinality(markets')
                = Cardinality(selected) + Cardinality(Held) - Cardinality(selected \cap Held)
          BY <4>2, <4>3, <4>4, FS_Union
        <4> QED BY <4>3, <4>4, <4>5, <4>6, <4>7, UniverseConstants, RiskConstants
              DEF ListBounded
      <3> QED BY <3>1, <3>2
    <2>2. CASE markets' \in {markets, StartMarkets}
      BY <2>2 DEF ListBounded
    <2>3. [Next]_vars /\ ~Refresh => markets' \in {markets, StartMarkets}
      BY DEF vars, procVars, univ, Next, Engine, StartUp, Exits, Entries, Exchange, World,
        Boot, ReadBalances, BalancesFail, KeepRow, ShrinkRow, BookMissing, DropRow,
        FinishReconcile, StartTick, RefreshFails, ReadMarket, ReadMarketFails,
        TimeToRefresh, KeepPosition, SubmitSell, SellFilled, SellUnfilled, SellTimesOut,
        SellReplyLost, BookSale, CloseRow, FinishExits, SkipMarket, SubmitBuy, BuyFilled,
        BuyUnfilled, BuyTimesOut, BuyReplyLost, OpenRow, StoreFails, FinishEntries, Execute,
        CancelRest, ExecuteLateBuy, ExecuteLateSell, CancelLate, UserBuys, UserSells,
        TimePasses, Stop
    <2> QED BY <2>1, <2>2, <2>3
  <1> QED BY <1>1, <1>2, Invariance, PTL DEF Spec
=============================================================================
