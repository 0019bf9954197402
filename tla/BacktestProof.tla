--------------------------- MODULE BacktestProof ---------------------------
(***************************************************************************)
(* Proofs about Backtest and WalkForward, for any number of bars, any      *)
(* prices, costs, limits and amounts that their assumptions allow.         *)
(*                                                                         *)
(* IInv of Backtest is the inductive invariant.  The books balance only    *)
(* because an order to buy is filled while there is no position and hence  *)
(* no cost (NextOpen, Settled), and the time stop bounds a position only   *)
(* because no bar passes it without being judged (Settled).  The limit on  *)
(* the entries of a day holds at the fill because nothing rolls the day    *)
(* between the signal and the fill (DayCounts).                            *)
(***************************************************************************)
EXTENDS WalkForward, FiniteSetTheorems, TLAPS

-----------------------------------------------------------------------------
(* What a walk recommends.                                                 *)

(* A set of numbers that is not empty has a least.                         *)
LEMMA SmallestNumber ==
  ASSUME NEW S \in SUBSET Nat, S # {}
  PROVE  \E n \in S : \A k \in S : n <= k
  <1> DEFINE R == {ss \in Nat \X Nat : ss[1] < ss[2]}
  <1>1. R = OpToRel(<, Nat)
    BY DEF OpToRel
  <1>2. IsWellFoundedOn(R, Nat)
    BY <1>1, NatLessThanWellFounded
  <1>3. PICK n \in S : \A k \in S : <<k, n>> \notin R
    <2> HIDE DEF R
    <2> QED BY <1>2, WFMin
  <1>4. ASSUME NEW k \in S PROVE n <= k
    <2>1. k \in Nat /\ n \in Nat /\ <<k, n>> \notin R
      BY <1>3
    <2>2. <<k, n>>[1] = k /\ <<k, n>>[2] = n /\ <<k, n>> \in Nat \X Nat
      BY <2>1
    <2>3. ~(k < n)
      BY <2>1, <2>2
    <2> QED BY <2>1, <2>3
  <1> QED BY <1>4

(* Where a value stands in a list, and how often.                          *)
Places(values, w) == {k \in DOMAIN values : values[k] = w}
Times(values, w)  == Cardinality(Places(values, w))

(* A value met at more than half of the places is the mode, wherever it    *)
(* stands and whatever the others are.                                     *)
LEMMA MajorityIsMode ==
  ASSUME NEW n \in Nat, NEW values, DOMAIN values = 1..n,
         NEW v, 2 * Times(values, v) > n
  PROVE  ModeOf(values) = v
  <1> DEFINE first(k) == \A j \in DOMAIN values :
                           IF j < k THEN Times(values, values[j]) < Times(values, values[k])
                                    ELSE Times(values, values[j]) <= Times(values, values[k])
  <1>1. ASSUME NEW w
        PROVE  /\ IsFiniteSet(Places(values, w)) /\ Places(values, w) \subseteq 1..n
               /\ Times(values, w) \in Nat
    <2>1. Places(values, w) \in SUBSET (1..n)
      BY DEF Places
    <2>2. IsFiniteSet(1..n)
      BY FS_Interval
    <2>3. IsFiniteSet(Places(values, w))
      BY <2>1, <2>2, FS_Subset
    <2> QED BY <2>1, <2>3, FS_CardinalityType DEF Times
  <1>2. \A w : w # v => Times(values, w) < Times(values, v)
    <2> SUFFICES ASSUME NEW w, w # v PROVE Times(values, w) < Times(values, v)
      OBVIOUS
    <2>1. Places(values, w) \cap Places(values, v) = {}
      BY DEF Places
    <2>2. IsFiniteSet(1..n) /\ Cardinality(1..n) = n
      BY FS_Interval
    <2>3. Places(values, w) \subseteq 1..n /\ Places(values, v) \subseteq 1..n
      BY <1>1
    <2>4. ~(Times(values, w) + Times(values, v) > n)
      BY <2>1, <2>2, <2>3, FS_MajoritiesIntersect DEF Times
    <2>5. Times(values, w) \in Nat /\ Times(values, v) \in Nat
      BY <1>1
    <2> QED BY <2>4, <2>5
  <1>3. Places(values, v) # {}
    BY <1>1, FS_EmptySet DEF Times
  <1>4. Places(values, v) \in SUBSET Nat
    BY <1>1
  <1>5. PICK k \in Places(values, v) : \A j \in Places(values, v) : k <= j
    BY <1>3, <1>4, SmallestNumber
  <1>6. k \in DOMAIN values /\ values[k] = v /\ k \in Nat
    BY <1>4 DEF Places
  <1>7. first(k)
    <2> SUFFICES ASSUME NEW j \in DOMAIN values
                 PROVE  IF j < k THEN Times(values, values[j]) < Times(values, v)
                                 ELSE Times(values, values[j]) <= Times(values, v)
      BY <1>6
    <2>1. CASE values[j] = v
      <3>1. j \in Places(values, v) /\ j \in Nat
        BY <2>1 DEF Places
      <3>2. ~(j < k)
        BY <1>5, <1>6, <3>1
      <3>3. Times(values, v) \in Nat
        BY <1>1
      <3> QED BY <2>1, <3>2, <3>3
    <2>2. CASE values[j] # v
      <3>1. Times(values, values[j]) < Times(values, v)
        BY <1>2, <2>2
      <3>2. Times(values, values[j]) \in Nat /\ Times(values, v) \in Nat
        BY <1>1
      <3> QED BY <3>1, <3>2
    <2> QED BY <2>1, <2>2
  <1>8. ASSUME NEW l \in DOMAIN values, first(l) PROVE values[l] = v
    <2>1. IF k < l THEN Times(values, v) < Times(values, values[l])
                   ELSE Times(values, v) <= Times(values, values[l])
      BY <1>6, <1>8
    <2>2. Times(values, values[l]) \in Nat /\ Times(values, v) \in Nat
      BY <1>1
    <2> QED BY <1>2, <2>1, <2>2
  <1>9. ModeOf(values) = values[CHOOSE l \in DOMAIN values : first(l)]
    BY DEF ModeOf, Times, Places
  <1> HIDE DEF first
  <1> QED BY <1>6, <1>7, <1>8, <1>9

(* Of each parameter the winner has the value that most windows chose for  *)
(* it, although the windows that chose the one need not be those that      *)
(* chose the other.                                                        *)
LEMMA MajorityPerAxis ==
  ASSUME NEW combos \in Seq(Combos)
  PROVE  /\ \A v \in StopAtrs :
              2 * Cardinality({k \in DOMAIN combos : combos[k].stop = v}) > Len(combos)
                => Winner(combos).stop = v
         /\ \A v \in Breakouts :
              2 * Cardinality({k \in DOMAIN combos : combos[k].breakout = v}) > Len(combos)
                => Winner(combos).breakout = v
  <1> DEFINE n == Len(combos)
             stops == [k \in DOMAIN combos |-> combos[k].stop]
             breakouts == [k \in DOMAIN combos |-> combos[k].breakout]
  <1>1. n \in Nat /\ DOMAIN combos = 1..n
    OBVIOUS
  <1>2. DOMAIN stops = 1..n /\ DOMAIN breakouts = 1..n
    BY <1>1
  <1>3. /\ Winner(combos).stop = ModeOf(stops)
        /\ Winner(combos).breakout = ModeOf(breakouts)
    BY DEF Winner
  <1>4. ASSUME NEW v \in StopAtrs,
               2 * Cardinality({k \in DOMAIN combos : combos[k].stop = v}) > Len(combos)
        PROVE  Winner(combos).stop = v
    <2>1. Places(stops, v) = {k \in DOMAIN combos : combos[k].stop = v}
      BY DEF Places
    <2>2. 2 * Times(stops, v) > n
      BY <1>4, <2>1 DEF Times
    <2> HIDE DEF stops, n
    <2> QED BY <1>1, <1>2, <1>3, <2>2, MajorityIsMode
  <1>5. ASSUME NEW v \in Breakouts,
               2 * Cardinality({k \in DOMAIN combos : combos[k].breakout = v}) > Len(combos)
        PROVE  Winner(combos).breakout = v
    <2>1. Places(breakouts, v) = {k \in DOMAIN combos : combos[k].breakout = v}
      BY DEF Places
    <2>2. 2 * Times(breakouts, v) > n
      BY <1>5, <2>1 DEF Times
    <2> HIDE DEF breakouts, n
    <2> QED BY <1>1, <1>2, <1>3, <2>2, MajorityIsMode
  <1> QED BY <1>4, <1>5

-----------------------------------------------------------------------------
USE StrategyConstants, RiskConstants, BacktestConstants, WalkConstants
DEF StrategyParams, RiskParams

-----------------------------------------------------------------------------
(* What the operators of the model return.                                 *)

(* Sums of money and numbers of coins are whole numbers.                   *)
LEMMA ProductType == \A a, b \in Nat : a * b \in Nat
  OBVIOUS

(* Rounding down keeps an amount an amount.                                *)
LEMMA QuotientType == \A a \in Nat, b \in Nat \ {0} : a \div b \in Nat
  OBVIOUS

(* A snapshot shows prices, ATR and trend as numbers.                      *)
LEMMA SnapshotType ==
  \A s \in Snapshots : s.ready /\ s.close \in Nat /\ s.atr \in Nat
  BY DEF Snapshots

(* fill_buy and fill_sell return amounts.                                  *)
LEMMA FillType ==
  /\ \A krw, price \in Nat : price > 0 => FillQty(krw, price) \in Nat
  /\ \A qty, price \in Nat : Proceeds(qty, price) \in Nat
  <1>1. \A krw, price \in Nat : price > 0 => FillQty(krw, price) \in Nat
    <2> SUFFICES ASSUME NEW krw \in Nat, NEW price \in Nat, price > 0
                 PROVE  FillQty(krw, price) \in Nat
      OBVIOUS
    <2>1. price + BuySlip + BuyFee \in Nat \ {0}
      OBVIOUS
    <2> QED
      BY <2>1, QuotientType DEF FillQty
  <1>2. \A qty, price \in Nat : Proceeds(qty, price) \in Nat
    <2> SUFFICES ASSUME NEW qty \in Nat, NEW price \in Nat
                 PROVE  Proceeds(qty, price) \in Nat
      OBVIOUS
    <2>1. (IF price > SellCost THEN price - SellCost ELSE 0) \in Nat
      OBVIOUS
    <2> QED
      BY <2>1, ProductType DEF Proceeds
  <1> QED
    BY <1>1, <1>2

(* position_size_krw never returns more than the cash it is given.         *)
LEMMA SizeCovered ==
  ASSUME NEW s \in Snapshots, cash \in Nat, stopAtr \in StopAtrs
  PROVE  Size(s) \in Nat /\ Size(s) <= cash
  <1>1. s.close \in Nat /\ s.atr \in Nat
    BY SnapshotType
  <1>2. RiskKrw * s.close \in Nat /\ s.atr * stopAtr + RoundTrip \in Nat \ {0}
    BY <1>1, ProductType
  <1>3. (RiskKrw * s.close) \div (s.atr * stopAtr + RoundTrip) \in Nat
    BY <1>2, QuotientType
  <1>4. Least((RiskKrw * s.close) \div (s.atr * stopAtr + RoundTrip), MaxSize) \in Nat
    BY <1>3 DEF Least
  <1> QED
    BY <1>4 DEF Size, Least

(* The methods of the risk manager keep its state a RiskState.             *)
LEMMA RiskTypes ==
  \A r \in RiskState, t \in Nat :
    /\ RollDay(r, t) \in RiskState /\ RecordEntry(r) \in RiskState
    /\ \A pnl \in Int : RecordExit(r, Market, pnl, t) \in RiskState
  <1>1. \A t \in Nat : Day(t) \in Nat
    BY DEF Day
  <1> QED
    BY <1>1 DEF RollDay, RecordEntry, RecordExit, RiskState

(* The time stop: a position held for max_hold_bars bars is sold for some  *)
(* reason.                                                                 *)
LEMMA TimeStop ==
  ASSUME NEW s \in Snapshots, NEW p \in Amounts, p.bars >= MaxHoldBars
  PROVE  ExitKind(p, s) # "hold"
  BY SnapshotType DEF ExitKind

-----------------------------------------------------------------------------
(* The accounts are in order at the first bar ...                          *)
LEMMA AccountsInit == Init => Accounts
  <1> SUFFICES ASSUME Init PROVE Accounts
    OBVIOUS
  <1>1. FreshRisk(0) \in RiskState
    BY DEF FreshRisk, RiskState, Day, Never
  <1> QED
    BY <1>1 DEF Init, Accounts, TypeOK, BooksBalance, CashCovered, NextOpen, HeldAtMost, Settled,
                NoPosition, NoOrder, Amounts, Days

(* ... and after every step.                                               *)
LEMMA AccountsKept == Accounts /\ [Next]_vars => Accounts'
  <1> SUFFICES ASSUME Accounts, [Next]_vars PROVE Accounts'
    OBVIOUS
  <1> USE DEF Accounts
  <1>0. /\ i \in Nat /\ cash \in Nat /\ position.qty \in Nat /\ entryKrw \in Nat
        /\ realised \in Int /\ final \in Nat /\ risk \in RiskState
        /\ pending.krw \in Nat /\ pending.atr \in Nat /\ pending.target \in Nat
        /\ initial \in Nat /\ stopAtr \in StopAtrs /\ stopAtr \in Nat
    BY DEF TypeOK, CashCovered, Amounts
  <1>1. CASE NoFill
    BY <1>1 DEF NoFill, Opening, args, books, TypeOK, BooksBalance, CashCovered, NextOpen,
                HeldAtMost, Settled, NoOrder
  <1>2. ASSUME NEW open \in Prices, FillBuy(open) PROVE Accounts'
    <2> DEFINE qty == FillQty(pending.krw, open)
               fill == open + BuySlip
               bought == Position(fill, qty, fill - pending.atr * stopAtr, pending.target)
    <2>1. qty \in Nat /\ fill \in Nat /\ fill - pending.atr * stopAtr \in Int
      <3>0. open \in Nat /\ open > 0
        OBVIOUS
      <3>1. qty \in Nat /\ fill \in Nat
        <4>1. FillQty(pending.krw, open) \in Nat
          BY <1>0, <3>0, FillType
        <4>2. BuySlip \in Nat
          OBVIOUS
        <4> QED
          BY <3>0, <4>1, <4>2
      <3>2. pending.atr * stopAtr \in Nat
        BY <1>0, ProductType
      <3> QED
        BY <3>1, <3>2
    <2>2. position = NoPosition /\ entryKrw = 0 /\ i >= Warmup
      BY <1>2 DEF FillBuy, NextOpen, Settled
    <2>3. RecordEntry(risk) \in RiskState
      BY <1>0, RiskTypes
    <2>4. bought \in Amounts /\ bought.qty = qty
      BY <1>0, <2>1 DEF Position, Amounts
    <2>5. CASE qty > 0
      <3>1. /\ cash' = cash - pending.krw /\ entryKrw' = pending.krw /\ entryBar' = i
            /\ position' = bought /\ risk' = RecordEntry(risk)
            /\ UNCHANGED <<i, final, realised, decided>>
            /\ pending' = NoOrder /\ phase' = "close" /\ i < Bars /\ UNCHANGED <<initial, stopAtr>>
        BY <1>2, <2>5 DEF FillBuy, Opening, args
      <3>2. position' # NoPosition
        BY <2>4, <2>5, <3>1 DEF NoPosition
      <3>6. entries' \in [Days -> Nat]
        BY <1>2, <2>5 DEF FillBuy, TypeOK
      <3>3. TypeOK'
        BY <1>0, <2>3, <2>4, <2>5, <3>1, <3>6 DEF TypeOK, NoOrder
      <3>4. BooksBalance' /\ CashCovered'
        BY <1>0, <2>2, <3>1 DEF BooksBalance, CashCovered, NoOrder
      <3>5. NextOpen' /\ HeldAtMost' /\ Settled'
        BY <1>0, <2>2, <3>1, <3>2 DEF NextOpen, HeldAtMost, Settled, NoOrder
      <3> QED
        BY <3>3, <3>4, <3>5
    <2>6. CASE ~(qty > 0)
      BY <1>0, <1>2, <2>2, <2>6 DEF FillBuy, Opening, args, TypeOK, BooksBalance, CashCovered,
                               NextOpen, HeldAtMost, Settled, NoOrder
    <2> QED
      BY <2>5, <2>6
  <1>3. ASSUME NEW open \in Prices, FillSell(open) PROVE Accounts'
    <2> DEFINE proceeds == Proceeds(position.qty, open)
    <2>1. proceeds \in Nat
      BY <1>0, FillType
    <2>2. RecordExit(risk, Market, proceeds - entryKrw, i) \in RiskState
      <3>1. proceeds - entryKrw \in Int
        BY <1>0, <2>1
      <3> QED
        BY <1>0, <3>1, RiskTypes
    <2>3. /\ cash' = cash + proceeds /\ realised' = realised + (proceeds - entryKrw)
          /\ risk' = RecordExit(risk, Market, proceeds - entryKrw, i)
          /\ position' = NoPosition /\ entryKrw' = 0
          /\ UNCHANGED <<i, entryBar, final, decided, entries>>
          /\ pending' = NoOrder /\ phase' = "close" /\ i < Bars /\ UNCHANGED <<initial, stopAtr>>
      BY <1>3 DEF FillSell, Opening, args
    <2>4. TypeOK'
      BY <1>0, <2>1, <2>2, <2>3 DEF TypeOK, NoOrder, NoPosition, Amounts
    <2>5. BooksBalance' /\ CashCovered'
      BY <1>0, <2>1, <2>3 DEF BooksBalance, CashCovered, NoOrder
    <2>6. NextOpen' /\ HeldAtMost' /\ Settled'
      BY <2>3 DEF NextOpen, HeldAtMost, Settled, NoOrder
    <2> QED
      BY <2>4, <2>5, <2>6
  <1>4. ASSUME NEW s \in Snapshots, Closing(s)
        PROVE  /\ i < Bars /\ i' = i + 1 /\ phase' = "open" /\ final' \in Nat
               /\ pending.kind = "none" /\ UNCHANGED <<initial, stopAtr>>
    <2>1. position.qty * s.close \in Nat
      BY <1>0, SnapshotType, ProductType
    <2> QED
      BY <1>0, <1>4, <2>1 DEF Closing, args, TypeOK, NextOpen
  <1>5. ASSUME NEW s \in Snapshots, Warming(s) PROVE Accounts'
    <2>1. position = NoPosition /\ UNCHANGED <<books, pending, risk, decided, entries>>
      BY <1>5 DEF Warming, Settled, TypeOK
    <2>2. /\ i < Bars /\ i' = i + 1 /\ phase' = "open" /\ final' \in Nat
          /\ pending.kind = "none" /\ UNCHANGED <<initial, stopAtr>>
      BY <1>4, <1>5 DEF Warming
    <2> QED
      BY <1>0, <2>1, <2>2 DEF books, TypeOK, BooksBalance, CashCovered, NextOpen, HeldAtMost,
                              Settled
  <1>6. ASSUME NEW s \in Snapshots, JudgeExit(s) PROVE Accounts'
    <2>1. /\ i < Bars /\ i' = i + 1 /\ phase' = "open" /\ final' \in Nat
          /\ pending.kind = "none" /\ UNCHANGED <<initial, stopAtr>>
      BY <1>4, <1>6 DEF JudgeExit
    <2>2. /\ i >= Warmup /\ position # NoPosition /\ position' = Cared(s)
          /\ UNCHANGED <<cash, entryKrw, entryBar, realised, risk, entries>>
      BY <1>6 DEF JudgeExit
    <2>3. /\ Cared(s) \in Amounts /\ Cared(s).qty = position.qty
          /\ Cared(s).bars = i - entryBar
      <3>1. s.close \in Nat /\ position \in Amounts /\ i - entryBar \in Nat
        BY <1>0, SnapshotType DEF TypeOK, Settled
      <3>2. Follow(position, s.close) \in Amounts
        BY <3>1 DEF Follow, Amounts
      <3>3. Follow(position, s.close).qty = position.qty
        BY <3>1 DEF Follow, Amounts
      <3> QED
        BY <3>1, <3>2, <3>3 DEF Cared, Amounts
    <2>4. position' # NoPosition /\ position'.qty > 0
      BY <2>2, <2>3 DEF TypeOK, NoPosition
    <2>5. \/ i - entryBar < MaxHoldBars /\ UNCHANGED <<pending, decided>>
          \/ pending' = [NoOrder EXCEPT !.kind = "sell"] /\ decided' = i
      BY <1>0, <1>6, <2>3, TimeStop DEF JudgeExit, TypeOK
    <2>6. TypeOK'
      BY <1>0, <2>1, <2>2, <2>3, <2>4, <2>5 DEF TypeOK, NoOrder
    <2>7. BooksBalance' /\ CashCovered'
      BY <1>0, <2>1, <2>2, <2>5 DEF BooksBalance, CashCovered, NoOrder
    <2>8. NextOpen' /\ Settled'
      BY <1>0, <2>1, <2>2, <2>4, <2>5 DEF NextOpen, Settled, NoOrder, TypeOK
    <2>9. HeldAtMost'
      BY <1>0, <2>1, <2>2, <2>4, <2>5 DEF HeldAtMost, NoOrder, TypeOK
    <2> QED
      BY <2>6, <2>7, <2>8, <2>9
  <1>7. ASSUME NEW s \in Snapshots, JudgeEntry(s) PROVE Accounts'
    <2>1. /\ i < Bars /\ i' = i + 1 /\ phase' = "open" /\ final' \in Nat
          /\ pending.kind = "none" /\ UNCHANGED <<initial, stopAtr>>
      BY <1>4, <1>7 DEF JudgeEntry
    <2>2. i >= Warmup /\ position = NoPosition /\ UNCHANGED <<books, entries>>
      BY <1>7 DEF JudgeEntry
    <2>3. risk' \in RiskState
      BY <1>0, <1>7, RiskTypes DEF JudgeEntry
    <2>4. Size(s) \in Nat /\ Size(s) <= cash /\ TargetNet(s) \in Nat /\ s.atr \in Nat
      BY <1>0, SizeCovered, SnapshotType DEF TargetNet
    <2>5. \/ UNCHANGED <<pending, decided>>
          \/ /\ pending' = [kind |-> "buy", krw |-> Size(s), atr |-> s.atr,
                            target |-> TargetNet(s)]
             /\ decided' = i
      BY <1>7 DEF JudgeEntry
    <2>6. TypeOK'
      BY <1>0, <2>1, <2>2, <2>3, <2>4, <2>5 DEF books, TypeOK
    <2>7. BooksBalance' /\ CashCovered'
      BY <1>0, <2>1, <2>2, <2>4, <2>5 DEF books, BooksBalance, CashCovered
    <2>8. NextOpen' /\ Settled' /\ HeldAtMost'
      BY <1>0, <2>1, <2>2, <2>5 DEF books, NextOpen, Settled, HeldAtMost, TypeOK
    <2> QED
      BY <2>6, <2>7, <2>8
  <1>8. CASE UNCHANGED vars
    BY <1>8 DEF vars, args, books, TypeOK, BooksBalance, CashCovered, NextOpen, HeldAtMost, Settled
  <1> QED
    BY <1>1, <1>2, <1>3, <1>5, <1>6, <1>7, <1>8 DEF Next, Done

(* A day does not come before the day of an earlier bar.                   *)
LEMMA DayGrows == \A t \in Nat : Day(t) \in Nat /\ Day(t) <= Day(t + 1)
  BY DEF Day

(* Every bar has its day among Days.                                       *)
LEMMA DaysOfBars == \A t \in 0..Bars : Day(t) \in Days
  <1> SUFFICES ASSUME NEW t \in 0..Bars PROVE Day(t) \in Days
    OBVIOUS
  <1>1. Bars \in Nat /\ DayLength \in Nat \ {0} /\ t \in Nat /\ t <= Bars
    OBVIOUS
  <1> QED
    BY <1>1 DEF Day, Days

(* The day's counter and the day it belongs to, at the first bar ...       *)
LEMMA DaysInit == Init => DayEntries /\ DayCounts
  <1> SUFFICES ASSUME Init PROVE DayEntries /\ DayCounts
    OBVIOUS
  <1>1. risk.day = Day(0) /\ risk.trades = 0 /\ i = 0 /\ pending.kind = "none"
    BY DEF Init, FreshRisk, NoOrder
  <1>2. Day(0) \in Days /\ Day(0) \in Nat /\ DailyTradeLimit \in Nat
    BY DaysOfBars, DayGrows
  <1>3. entries = [d \in Days |-> 0]
    BY DEF Init
  <1> QED
    BY <1>1, <1>2, <1>3 DEF DayEntries, DayCounts

(* ... and after every step: what is filled is counted on the day of its   *)
(* signal, and only a signal of a later day makes the counter another's.   *)
LEMMA DaysKept ==
  ASSUME IInv, [Next]_vars
  PROVE  DayEntries' /\ DayCounts'
  <1>0. /\ i \in Nat /\ i <= Bars /\ risk \in RiskState /\ entries \in [Days -> Nat]
        /\ risk.day \in Nat /\ risk.trades \in Nat /\ DailyTradeLimit \in Nat
        /\ Day(i) \in Days /\ Day(i) \in Nat /\ Day(Bars) \in Nat
    BY DaysOfBars, DayGrows DEF IInv, Accounts, TypeOK, RiskState
  <1>1. /\ \A d \in Days : entries[d] <= DailyTradeLimit
        /\ risk.day <= Day(i) /\ risk.trades = entries[risk.day]
        /\ \A d \in Days : d > risk.day => entries[d] = 0
        /\ pending.kind = "buy" => Day(decided) = risk.day /\ risk.trades < DailyTradeLimit
    BY DEF IInv, DayEntries, DayCounts
  <1>2. risk.day \in Days
    <2>1. Day(i) <= Day(Bars)
      BY <1>0 DEF Days
    <2>2. risk.day \in 0..Day(Bars)
      BY <1>0, <1>1, <2>1
    <2> QED
      BY <2>2 DEF Days
  <1>3. ASSUME UNCHANGED <<i, risk, entries>>, pending'.kind # "buy"
        PROVE  DayEntries' /\ DayCounts'
    BY <1>1, <1>3 DEF DayEntries, DayCounts, Day
  <1>4. CASE NoFill
    BY <1>3, <1>4 DEF NoFill, Opening, NoOrder
  <1>5. ASSUME NEW open \in Prices, FillBuy(open) PROVE DayEntries' /\ DayCounts'
    <2>1. i' = i /\ pending'.kind = "none" /\ pending.kind = "buy"
      BY <1>5 DEF FillBuy, Opening, NoOrder
    <2>2. CASE UNCHANGED <<risk, entries>>
      BY <1>3, <2>1, <2>2
    <2>3. CASE risk' = RecordEntry(risk) /\ entries' = [entries EXCEPT ![Day(decided)] = @ + 1]
      <3>1. Day(decided) = risk.day /\ risk.trades < DailyTradeLimit
        BY <1>1, <2>1
      <3>2. risk'.day = risk.day /\ risk'.trades = risk.trades + 1
        BY <1>0, <2>3 DEF RecordEntry, RiskState
      <3>3. /\ entries'[risk.day] = risk.trades + 1
            /\ \A d \in Days : d # risk.day => entries'[d] = entries[d]
        BY <1>0, <1>1, <1>2, <2>3, <3>1
      <3>4. DayEntries'
        BY <1>0, <1>1, <3>1, <3>3 DEF DayEntries
      <3> QED
        BY <1>0, <1>1, <2>1, <3>2, <3>3, <3>4 DEF DayCounts, Day
    <2> QED
      BY <1>5, <2>2, <2>3 DEF FillBuy
  <1>6. ASSUME NEW open \in Prices, FillSell(open) PROVE DayEntries' /\ DayCounts'
    <2>1. i' = i /\ entries' = entries /\ pending'.kind = "none"
      BY <1>6 DEF FillSell, Opening, NoOrder
    <2>2. risk'.day = risk.day /\ risk'.trades = risk.trades
      BY <1>6 DEF FillSell, RecordExit
    <2> QED
      BY <1>1, <2>1, <2>2 DEF DayEntries, DayCounts, Day
  <1>7. ASSUME NEW s \in Snapshots, Closing(s)
        PROVE  i' = i + 1 /\ pending.kind = "none" /\ Day(i) <= Day(i') /\ Day(i') \in Nat
    <2>1. i' = i + 1 /\ i + 1 \in Nat
      BY <1>0, <1>7 DEF Closing
    <2>2. pending.kind = "none"
      BY <1>7 DEF Closing, IInv, Accounts, NextOpen, TypeOK
    <2> QED
      BY <1>0, <2>1, <2>2, DayGrows
  <1>8. ASSUME NEW s \in Snapshots, Closing(s), UNCHANGED <<risk, entries>>, pending'.kind # "buy"
        PROVE  DayEntries' /\ DayCounts'
    <2>1. risk'.day <= Day(i')
      BY <1>0, <1>1, <1>7, <1>8
    <2> QED
      BY <1>1, <1>8, <2>1 DEF DayEntries, DayCounts, Day
  <1>9. ASSUME NEW s \in Snapshots, Warming(s) \/ JudgeExit(s) PROVE DayEntries' /\ DayCounts'
    <2>1. Closing(s) /\ UNCHANGED <<risk, entries>>
      BY <1>9 DEF Warming, JudgeExit
    <2>2. pending'.kind # "buy"
      BY <1>7, <1>9, <2>1 DEF Warming, JudgeExit, NoOrder
    <2> QED
      BY <1>8, <2>1, <2>2
  <1>10. ASSUME NEW s \in Snapshots, JudgeEntry(s) PROVE DayEntries' /\ DayCounts'
    <2>0. Closing(s) /\ entries' = entries
      BY <1>10 DEF JudgeEntry
    <2>1. i' = i + 1 /\ pending.kind = "none" /\ Day(i) <= Day(i') /\ Day(i') \in Nat
      BY <1>7, <2>0
    <2>2. CASE UNCHANGED <<risk, pending>>
      BY <1>8, <2>0, <2>1, <2>2
    <2>3. CASE /\ risk' = RollDay(risk, i)
               /\ \/ pending' = pending
                  \/ /\ CanOpen(RollDay(risk, i), Market, 0, 0, i)
                     /\ decided' = i
      <3>1. risk'.day = Day(i) /\ risk'.trades = entries[Day(i)]
        <4>1. CASE risk.day = Day(i)
          BY <1>1, <2>3, <4>1 DEF RollDay
        <4>2. CASE risk.day # Day(i)
          <5>1. Day(i) > risk.day
            BY <1>0, <1>1, <4>2
          <5> QED
            BY <1>0, <1>1, <2>3, <4>2, <5>1 DEF RollDay
        <4> QED
          BY <4>1, <4>2
      <3>2. \A d \in Days : d > Day(i) => entries[d] = 0
        <4>1. \A d \in Days : d \in Int
          BY <1>0 DEF Days
        <4>2. \A d \in Days : d > Day(i) => d > risk.day
          BY <1>0, <1>1, <4>1
        <4> QED
          BY <1>1, <4>2
      <3>3. pending'.kind = "buy" => decided' = i /\ risk'.trades < DailyTradeLimit
        BY <2>1, <2>3 DEF CanOpen
      <3>4. Day(decided)' = Day(decided') /\ Day(i)' = Day(i')
        BY DEF Day
      <3> QED
        BY <1>0, <1>1, <2>0, <2>1, <3>1, <3>2, <3>3, <3>4 DEF DayEntries, DayCounts
    <2> QED
      BY <1>10, <2>2, <2>3 DEF JudgeEntry
  <1>11. CASE UNCHANGED vars
    BY <1>1, <1>11 DEF vars, DayEntries, DayCounts, Day
  <1> QED
    BY <1>4, <1>5, <1>6, <1>9, <1>10, <1>11 DEF Next, Done

(* The inductive invariant holds in every reachable state.                 *)
THEOREM Invariance == Spec => []IInv
  <1>1. Init => IInv
    BY AccountsInit, DaysInit DEF IInv
  <1>2. IInv /\ [Next]_vars => IInv'
    BY AccountsKept, DaysKept DEF IInv
  <1> QED
    BY <1>1, <1>2, PTL DEF Spec

-----------------------------------------------------------------------------
(* Every variable of the backtest keeps its type, and a position has coins.*)
THEOREM TypeCorrect == Spec => []TypeOK
  BY Invariance, PTL DEF IInv, Accounts

(* Cash, the position at cost and the net_pnl of the reported trades are   *)
(* one set of books, at every bar of every backtest.                       *)
THEOREM BooksAlwaysBalance == Spec => []BooksBalance
  BY Invariance, PTL DEF IInv, Accounts

(* The simulated account never owes money, nor promises what it lacks.     *)
THEOREM CashAlwaysCovers == Spec => []CashCovered
  BY Invariance, PTL DEF IInv, Accounts

(* No order is filled on the bar that decided it, nor later than the next: *)
(* run_backtest does not look ahead in its fills.                          *)
THEOREM NoLookAhead == Spec => []NextOpen
  BY Invariance, PTL DEF IInv, Accounts

(* max_hold_bars bounds every position of a backtest.                      *)
THEOREM HoldingBounded == Spec => []HeldAtMost
  BY Invariance, PTL DEF IInv, Accounts

(* However the bars fall over midnight, no day of a backtest has more      *)
(* entries decided on it and filled than daily_trade_limit.                *)
THEOREM DailyLimitKept == Spec => []DayEntries
  BY Invariance, PTL DEF IInv

-----------------------------------------------------------------------------
(* Between tests nothing of a backtest changes, and a new one begins with  *)
(* money the account has.                                                  *)
LEMMA BeginInvariant ==
  ASSUME NEW krw \in Nat, NEW stop \in StopAtrs, Begin(krw, stop)
  PROVE  IInv'
  <1>1. FreshRisk(0) \in RiskState /\ FreshRisk(0).day = Day(0) /\ FreshRisk(0).trades = 0
    BY DEF FreshRisk, RiskState, Day, Never
  <1>2. Accounts'
    BY <1>1 DEF Begin, Accounts, TypeOK, BooksBalance, CashCovered, NextOpen, HeldAtMost,
                Settled, NoPosition, NoOrder, Amounts, Days, Day
  <1>3. /\ risk'.day = Day(0) /\ risk'.trades = 0 /\ i' = 0 /\ pending'.kind = "none"
        /\ entries' = [d \in Days |-> 0]
    BY <1>1 DEF Begin, NoOrder
  <1>4. Day(0) \in Days /\ Day(0) \in Nat /\ DailyTradeLimit \in Nat
    BY DaysOfBars, DayGrows
  <1>5. DayEntries' /\ DayCounts'
    BY <1>3, <1>4 DEF DayEntries, DayCounts, Day
  <1> QED
    BY <1>2, <1>5 DEF IInv

(* The walk keeps its own accounts: what a test ends with is what it began *)
(* with, what its trades made and what its position gained.                *)
LEMMA WalkStarts == WalkInit => WalkInv
  <1> SUFFICES ASSUME WalkInit PROVE WalkInv
    OBVIOUS
  <1>1. IInv
    BY AccountsInit, DaysInit DEF WalkInit, IInv
  <1> QED
    BY <1>1 DEF WalkInit, WalkInv, WalkTypeOK, ReportAgrees

(* Every step of the walk, the bars of its tests included, keeps them.     *)
LEMMA WalkKept == WalkInv /\ [WalkNext]_wvars => WalkInv'
  <1> SUFFICES ASSUME WalkInv, [WalkNext]_wvars PROVE WalkInv'
    OBVIOUS
  <1>0. /\ IInv /\ WalkTypeOK /\ equity \in Nat /\ {made, carried} \subseteq Int
        /\ equity = InitialKrw + made + carried /\ ReportAgrees
        /\ stage = "testing" => initial = equity
        /\ report # NoReport => stage = "reported" /\ report.params = Winner(chosen)
    BY DEF WalkInv, WalkTypeOK
  <1>1. ASSUME NEW combo \in Combos, Choose(combo) PROVE WalkInv'
    <2>1. combo.stop \in StopAtrs
      BY DEF Combos
    <2>2. IInv'
      BY <1>0, <1>1, <2>1, BeginInvariant DEF Choose
    <2>3. /\ initial' = equity /\ stage' = "testing" /\ stage = "training"
          /\ chosen' = Append(chosen, combo)
          /\ UNCHANGED <<start, equity, report, made, carried>>
      BY <1>1 DEF Choose, Begin
    <2>4. WalkTypeOK'
      BY <1>0, <2>3 DEF WalkTypeOK
    <2> QED
      BY <1>0, <2>2, <2>3, <2>4 DEF WalkInv, ReportAgrees
  <1>2. CASE Test
    <2>1. /\ Next /\ stage = "testing"
          /\ UNCHANGED <<stage, start, chosen, equity, report, made, carried>>
      BY <1>2 DEF Test, walk
    <2>2. IInv'
      BY <1>0, <2>1, AccountsKept, DaysKept DEF IInv
    <2>3. initial' = initial
      BY <2>1 DEF Next, NoFill, FillBuy, FillSell, Opening, Warming, JudgeExit, JudgeEntry,
                  Closing, Done, vars, args
    <2> QED
      BY <1>0, <2>1, <2>2, <2>3 DEF WalkInv, WalkTypeOK, ReportAgrees
  <1>3. CASE Collect
    <2>1. /\ stage = "testing" /\ stage' = "training" /\ start' = start + StepBars
          /\ equity' = final /\ made' = made + realised
          /\ carried' = carried + (final - cash - entryKrw)
          /\ UNCHANGED <<vars, chosen, report>>
      BY <1>3 DEF Collect
    <2>2. IInv'
      BY <1>0, <2>1 DEF vars, args, books, IInv, Accounts, TypeOK, BooksBalance, CashCovered,
                        NextOpen, HeldAtMost, Settled, DayEntries, DayCounts, Day
    <2>3. /\ cash + entryKrw = initial + realised /\ initial = equity
          /\ final \in Nat /\ {cash, realised} \subseteq Int /\ entryKrw \in Nat
      BY <1>0, <2>1 DEF IInv, Accounts, TypeOK, BooksBalance
    <2>4. equity' = InitialKrw + made' + carried'
      BY <1>0, <2>1, <2>3
    <2>5. WalkTypeOK'
      <3>1. start' \in Nat
        BY <1>0, <2>1 DEF WalkTypeOK
      <3>2. equity' \in Nat /\ made' \in Int /\ carried' \in Int
        BY <1>0, <2>1, <2>3
      <3> QED
        BY <1>0, <2>1, <3>1, <3>2 DEF WalkTypeOK
    <2>6. report = NoReport
      BY <1>0, <2>1
    <2> QED
      BY <2>1, <2>2, <2>4, <2>5, <2>6 DEF WalkInv, ReportAgrees, NoReport
  <1>4. CASE Report
    <2>1. /\ stage' = "reported" /\ UNCHANGED <<vars, start, chosen, equity, made, carried>>
          /\ \/ report' = NoReport
             \/ report'.ret = equity - InitialKrw /\ report'.params = Winner(chosen)
      BY <1>4 DEF Report
    <2>2. IInv'
      BY <1>0, <2>1 DEF vars, args, books, IInv, Accounts, TypeOK, BooksBalance, CashCovered,
                        NextOpen, HeldAtMost, Settled, DayEntries, DayCounts, Day
    <2>3. ReportAgrees'
      BY <1>0, <2>1 DEF ReportAgrees
    <2> QED
      BY <1>0, <2>1, <2>2, <2>3 DEF WalkInv, WalkTypeOK
  <1>5. CASE UNCHANGED wvars
    BY <1>0, <1>5 DEF wvars, walk, vars, args, books, WalkInv, WalkTypeOK, ReportAgrees, IInv,
                      Accounts, TypeOK, BooksBalance, CashCovered, NextOpen, HeldAtMost, Settled,
                      DayEntries, DayCounts, Day
  <1> QED
    BY <1>1, <1>2, <1>3, <1>4, <1>5 DEF WalkNext, Reported

(* The invariant of the walk holds in every reachable state, and with it   *)
(* that of every backtest it runs.                                         *)
THEOREM WalkInvariance == WalkSpec => []WalkInv
  BY WalkStarts, WalkKept, PTL DEF WalkSpec

(* What holds of one backtest holds of every test of a walk.               *)
THEOREM TestsKeep ==
  WalkSpec => [](BooksBalance /\ CashCovered /\ NextOpen /\ HeldAtMost /\ DayEntries)
  BY WalkInvariance, PTL DEF WalkInv, IInv, Accounts

(* The out-of-sample return of a report is what the trades of its tests    *)
(* made, and what positions open at the end of a test had gained.          *)
THEOREM ReportsAgree == WalkSpec => []ReportAgrees
  BY WalkInvariance, PTL DEF WalkInv

(* Of each parameter walk_forward recommends the value that more than half *)
(* of the windows chose, if there is one, for any grid, any number of      *)
(* windows and whatever was chosen of the other parameter.                 *)
THEOREM MajorityRecommended == WalkSpec => []MajorityWins
  <1>1. WalkInv => MajorityWins
    BY MajorityPerAxis DEF WalkInv, WalkTypeOK, MajorityWins
  <1> QED BY <1>1, WalkInvariance, PTL
=============================================================================
