------------------------- MODULE PositionLifeProof -------------------------
(***************************************************************************)
(* Proofs about PositionLife, for any prices, ATR values, costs, targets   *)
(* and stops, and any number of bars, refused sales, exceptions and        *)
(* restarts.                                                               *)
(*                                                                         *)
(* Two of the properties hold under a condition only, which the theorem    *)
(* states: a position loses at its stop no more than it was sized for if   *)
(* no adapted stop_atr is below the configured one, and it is not sold on  *)
(* the market it was bought on if a purchase slips by less than its stop.  *)
(***************************************************************************)
EXTENDS PositionLife, TLAPS

USE StrategyConstants, PositionConstants DEF StrategyParams

NoTighterStop == \A a \in AdaptedStops : a >= StopAtr
SlipsWithinStop == \A slip \in FillSlips, a \in Atrs : slip < a * StopAtr

-----------------------------------------------------------------------------
(* Arithmetic of whole amounts.                                            *)

LEMMA ProductType == \A a, b \in Nat : a * b \in Nat
  OBVIOUS

LEMMA ProductPositive == \A a, b \in Nat \ {0} : a * b \in Nat \ {0}
  OBVIOUS

LEMMA QuotientFacts ==
  \A a \in Nat, b \in Nat \ {0} :
    a \div b \in Nat /\ b * (a \div b) <= a /\ (a >= b => a \div b > 0)
  OBVIOUS

LEMMA ProductGrows == \A a, b, c \in Nat : b <= c => a * b <= a * c
  OBVIOUS

LEMMA ProductCancels == \A a, b \in Nat, c \in Nat \ {0} : c * a <= c * b => a <= b
  OBVIOUS

(* An order sized to lose risk with a loss of d in p on each coin, filled  *)
(* at p or above, buys no more coins than lose that.                       *)
LEMMA SizedLoss ==
  ASSUME NEW risk \in Nat, NEW p \in Nat \ {0}, NEW d \in Nat \ {0}, NEW fill \in Nat,
         p <= fill, NEW size \in Nat, size <= (risk * p) \div d,
         NEW qty \in Nat, fill * qty <= size
  PROVE  qty * d <= risk
  <1>1. risk * p \in Nat
    BY ProductType
  <1>2. (risk * p) \div d \in Nat /\ d * ((risk * p) \div d) <= risk * p
    BY <1>1, QuotientFacts
  <1>3. qty * p <= size
    <2>1. qty * p <= qty * fill
      BY ProductGrows
    <2> QED
      BY <2>1
  <1>4. d * (qty * p) <= d * ((risk * p) \div d)
    <2>1. qty * p \in Nat /\ qty * p <= (risk * p) \div d
      BY <1>2, <1>3, ProductType
    <2> QED
      BY <1>2, <2>1, ProductGrows
  <1>5. d * (qty * p) \in Nat /\ d * (qty * p) <= risk * p
    <2>1. qty * p \in Nat /\ d * (qty * p) \in Nat /\ d * ((risk * p) \div d) \in Nat
      BY <1>2, ProductType
    <2> QED
      BY <1>1, <1>2, <1>4, <2>1
  <1>6. p * (qty * d) <= p * risk
    BY <1>5
  <1> QED
    BY <1>1, <1>6, ProductType, ProductCancels

-----------------------------------------------------------------------------
(* What the operators of the model return.                                 *)

LEMMA LookTypes ==
  /\ \A look \in Looks : look.ready \in BOOLEAN /\ look.close \in Nat \ {0} /\ look.atr \in Nat \ {0}
  /\ \A s \in Snapshots :
       /\ s.ready \in BOOLEAN /\ s.close \in Nat \ {0} /\ s.atr \in Nat \ {0}
       /\ s.trend \in {-1, 0, 1}
       /\ Look(s) \in Looks
       /\ Look(s).ready = s.ready /\ Look(s).close = s.close /\ Look(s).trend = s.trend
  BY DEF Looks, Snapshots, Look

(* A target is worth more than a round trip costs.                         *)
LEMMA TargetType == \A s \in Snapshots : TargetNet(s) \in Nat /\ TargetNet(s) > 0
  <1> SUFFICES ASSUME NEW s \in Snapshots PROVE TargetNet(s) \in Nat /\ TargetNet(s) > 0
    OBVIOUS
  <1>1. s.atr * TakeAtr \in Nat
    BY LookTypes, ProductType
  <1> QED
    BY <1>1 DEF TargetNet

(* position_size_krw stays within the size that risks what it may.         *)
LEMMA SizeFacts ==
  ASSUME stopAtr \in Nat \ {0}, NEW s \in Snapshots, NEW tenths \in Boosts
  PROVE  /\ tenths \in Nat /\ RiskKrw * tenths \in Nat
         /\ 10 * (s.atr * stopAtr + RoundTrip) \in Nat \ {0}
         /\ Size(s, tenths) \in Nat
         /\ Size(s, tenths) <=
              (RiskKrw * tenths * s.close) \div (10 * (s.atr * stopAtr + RoundTrip))
  <1>1. tenths \in Nat /\ s.close \in Nat /\ s.atr * stopAtr \in Nat
    BY LookTypes, ProductType
  <1>2. RiskKrw * tenths \in Nat
    BY <1>1, ProductType
  <1>3. RiskKrw * tenths * s.close \in Nat
    BY <1>1, <1>2, ProductType
  <1>4. 10 * (s.atr * stopAtr + RoundTrip) \in Nat \ {0}
    BY <1>1
  <1>5. (RiskKrw * tenths * s.close) \div (10 * (s.atr * stopAtr + RoundTrip)) \in Nat
    BY <1>3, <1>4, QuotientFacts
  <1> QED
    BY <1>1, <1>2, <1>4, <1>5 DEF Size, Least

(* What an entry writes: a position of at least a coin, with its stop      *)
(* below it, and at its peak.                                              *)
LEMMA Opened ==
  ASSUME TypeOK, NEW s \in Snapshots, NEW slip \in FillSlips, NEW edge \in EffectiveEdges,
         NEW tenths \in Boosts, Open(s, slip, edge, tenths)
  PROVE  /\ row' \in Rows /\ row'.entry = s.close + slip /\ row'.qty > 0
         /\ row'.stop = row'.entry - s.atr * StopAtr /\ row'.stop < row'.entry
         /\ row'.peak = row'.entry /\ row'.bars = 0 /\ ~row'.armed /\ row'.target > 0
         /\ row'.entry * row'.qty <= Size(s, tenths)
         /\ row' # NoRow
  <1> DEFINE fill == s.close + slip
             qty  == Size(s, tenths) \div fill
  <1>0. s.close \in Nat \ {0} /\ slip \in Nat
    BY LookTypes
  <1>1. fill \in Nat \ {0}
    BY <1>0
  <1>2. Size(s, tenths) \in Nat /\ Size(s, tenths) >= fill
    BY SizeFacts DEF Open, TypeOK
  <1>3. qty \in Nat /\ qty > 0 /\ fill * qty <= Size(s, tenths)
    BY <1>1, <1>2, QuotientFacts
  <1>4. s.atr * StopAtr \in Nat \ {0}
    BY LookTypes, ProductPositive
  <1>5. row' = Position(fill, qty, fill - s.atr * StopAtr, TargetNet(s))
    BY DEF Open
  <1> HIDE DEF qty
  <1>6. row' \in Rows /\ row'.entry = fill /\ row'.qty = qty /\ row'.stop = fill - s.atr * StopAtr
        /\ row'.target = TargetNet(s) /\ row'.peak = fill /\ row'.bars = 0 /\ ~row'.armed
    BY <1>1, <1>3, <1>4, <1>5, TargetType DEF Position, Rows
  <1>7. row' # NoRow
    BY <1>3, <1>6 DEF NoRow
  <1> QED
    BY <1>1, <1>3, <1>4, <1>6, <1>7, TargetType

(* What a tick makes of a row: its terms stand, its peak is the higher of  *)
(* the two, and it is armed by a gain.                                     *)
LEMMA CaredFacts ==
  ASSUME TypeOK, row # NoRow, NEW look \in Looks
  PROVE  /\ Cared(look) \in Rows /\ Cared(look) # NoRow
         /\ Cared(look).entry = row.entry /\ Cared(look).qty = row.qty
         /\ Cared(look).stop = row.stop /\ Cared(look).target = row.target
         /\ Cared(look).peak = (IF look.close > row.peak THEN look.close ELSE row.peak)
         /\ Cared(look).armed = (row.armed \/ NetReturn(row.entry, look.close) > 0)
         /\ Cared(look).bars = (IF mark # "this" THEN row.bars + 1 ELSE row.bars)
  <1>1. row \in Rows /\ row.qty > 0 /\ look.close \in Nat
    BY LookTypes DEF TypeOK
  <1>2. NetReturn(row.entry, look.close) \in Int
    BY <1>1 DEF NetReturn, Rows
  <1> DEFINE p == Count(row)
  <1>3. /\ p \in Rows /\ p.entry = row.entry /\ p.qty = row.qty
        /\ p.stop = row.stop /\ p.target = row.target /\ p.peak = row.peak /\ p.armed = row.armed
        /\ p.bars = (IF mark # "this" THEN row.bars + 1 ELSE row.bars)
    BY <1>1 DEF Count, Rows
  <1> HIDE DEF p
  <1>4. Cared(look) = Follow(p, look.close)
    BY DEF Cared, p
  <1>5. /\ Follow(p, look.close) \in Rows /\ Follow(p, look.close).entry = p.entry
        /\ Follow(p, look.close).qty = p.qty /\ Follow(p, look.close).bars = p.bars
        /\ Follow(p, look.close).stop = p.stop /\ Follow(p, look.close).target = p.target
        /\ Follow(p, look.close).peak = (IF look.close > p.peak THEN look.close ELSE p.peak)
        /\ Follow(p, look.close).armed = (p.armed \/ NetReturn(p.entry, look.close) > 0)
    BY <1>1, <1>2, <1>3 DEF Follow, Rows
  <1>6. Follow(p, look.close) # NoRow
    BY <1>1, <1>3, <1>5 DEF NoRow
  <1> QED
    BY <1>3, <1>4, <1>5, <1>6

-----------------------------------------------------------------------------
(* The inductive invariant, and the two that need a condition.             *)

LEMMA NoRowType == NoRow \in Rows
  BY DEF NoRow, Rows

LEMMA InitInvariant == Init => IInv /\ FirstSight /\ RiskAsSized
  <1> SUFFICES ASSUME Init PROVE IInv /\ FirstSight /\ RiskAsSized
    OBVIOUS
  <1>1. TypeOK
    <2>1. row \in Rows /\ row = NoRow
      BY NoRowType DEF Init
    <2>2. faults \in 0..MaxFaults /\ restarts \in 0..MaxRestarts
      BY DEF Init
    <2> QED
      BY <2>1, <2>2 DEF Init, TypeOK
  <1>2. PeakTrue /\ BarsTrue /\ FirstSight /\ RiskAsSized
    BY DEF Init, PeakTrue, BarsTrue, FirstSight, RiskAsSized
  <1> QED
    BY <1>1, <1>2 DEF IInv

(* A tick that writes the row: Hold, or a sale that was refused.           *)
LEMMA WriteStep ==
  ASSUME IInv, row # NoRow, NEW look \in Looks,
         row' = Cared(look), mark' = "this", Noted(look),
         UNCHANGED <<mode, stopAtr, restarts>>, faults' \in 0..MaxFaults, beat' = ~beat
  PROVE  /\ IInv' /\ (FirstSight => FirstSight') /\ (RiskAsSized => RiskAsSized')
  <1>0. TypeOK /\ PeakTrue /\ BarsTrue /\ row \in Rows /\ look.close \in Nat
    BY LookTypes DEF IInv, TypeOK
  <1>1. /\ row' \in Rows /\ row' # NoRow
        /\ row'.entry = row.entry /\ row'.qty = row.qty
        /\ row'.stop = row.stop /\ row'.target = row.target
        /\ row'.peak = (IF look.close > row.peak THEN look.close ELSE row.peak)
        /\ row'.armed = (row.armed \/ NetReturn(row.entry, look.close) > 0)
        /\ row'.bars = (IF mark # "this" THEN row.bars + 1 ELSE row.bars)
    BY <1>0, CaredFacts
  <1>2. /\ top' = (IF look.close > top THEN look.close ELSE top)
        /\ gained' = (gained \/ NetReturn(row.entry, look.close) > 0)
        /\ seen' = (IF counted THEN seen ELSE seen + 1) /\ counted' = TRUE
        /\ first' \in {first, NoLook} /\ (first' # NoLook => look = first)
        /\ UNCHANGED <<missed, again, boost>>
    BY DEF Noted
  <1>3. /\ row'.qty > 0 /\ row'.stop < row'.entry /\ row'.entry <= row'.peak
        /\ top' \in Nat /\ seen' \in Nat
    BY <1>0, <1>1, <1>2 DEF TypeOK, Rows
  <1>4. TypeOK'
    BY <1>0, <1>1, <1>2, <1>3 DEF TypeOK
  <1>5. PeakTrue'
    BY <1>0, <1>1, <1>2 DEF PeakTrue
  <1>6. BarsTrue'
    BY <1>0, <1>1, <1>2 DEF BarsTrue, TypeOK, Rows
  <1>7. FirstSight => FirstSight'
    <2> SUFFICES ASSUME FirstSight, first' # NoLook PROVE FirstSight'
      BY DEF FirstSight
    <2>1. first' = first /\ look = first /\ first.close <= row.entry /\ ~row.armed
      BY <1>2 DEF FirstSight
    <2>2. ~(NetReturn(row.entry, look.close) > 0)
      BY <1>0, <2>1 DEF NetReturn, Rows
    <2> QED
      BY <1>1, <2>1, <2>2 DEF FirstSight
  <1>8. RiskAsSized => RiskAsSized'
    BY <1>1, <1>2 DEF RiskAsSized
  <1> QED
    BY <1>4, <1>5, <1>6, <1>7, <1>8 DEF IInv

LEMMA NextInvariant ==
  ASSUME IInv, [Next]_vars
  PROVE  /\ IInv'
         /\ SlipsWithinStop /\ FirstSight => FirstSight'
         /\ NoTighterStop /\ RiskAsSized => RiskAsSized'
  <1>0. TypeOK /\ PeakTrue /\ BarsTrue
    BY DEF IInv
  <1>1. ASSUME NEW s \in Snapshots, NEW slip \in FillSlips, NEW edge \in EffectiveEdges,
               NEW tenths \in Boosts, Open(s, slip, edge, tenths)
        PROVE  /\ IInv' /\ (SlipsWithinStop => FirstSight')
               /\ (NoTighterStop => RiskAsSized')
    <2>1. /\ row' \in Rows /\ row'.entry = s.close + slip /\ row'.qty > 0
          /\ row'.stop = row'.entry - s.atr * StopAtr /\ row'.stop < row'.entry
          /\ row'.peak = row'.entry /\ row'.bars = 0 /\ ~row'.armed /\ row'.target > 0
          /\ row'.entry * row'.qty <= Size(s, tenths) /\ row' # NoRow
      BY <1>0, <1>1, Opened
    <2>2. /\ top' = s.close + slip /\ gained' = FALSE /\ seen' = 0 /\ counted' = FALSE
          /\ again' = 0 /\ missed' = (IF mark = "this" THEN 1 ELSE 0) /\ first' = Look(s)
          /\ boost' = tenths
          /\ UNCHANGED <<mode, mark, stopAtr, faults, restarts, beat>>
      BY <1>1 DEF Open
    <2>3. s.close \in Nat \ {0} /\ slip \in Nat /\ Look(s) \in Looks /\ s.atr \in Atrs
          /\ Look(s).ready = s.ready /\ Look(s).close = s.close /\ Look(s).trend = s.trend
      BY LookTypes DEF Snapshots
    <2>4. IInv'
      <3>1. top' \in Nat /\ missed' \in Nat /\ row'.entry <= row'.peak
        BY <2>1, <2>2, <2>3
      <3>2. TypeOK'
        BY <1>0, <2>1, <2>2, <2>3, <3>1 DEF TypeOK
      <3>3. PeakTrue'
        <4>1. row'.armed = FALSE
          BY <2>1 DEF Rows
        <4> QED
          BY <2>1, <2>2, <4>1 DEF PeakTrue
      <3>4. BarsTrue'
        <4>1. row'.bars = 0 /\ seen' = 0 /\ again' = 0 /\ counted' = FALSE /\ mark' = mark
          BY <2>1, <2>2
        <4>2. CASE mark = "this"
          BY <2>2, <4>1, <4>2 DEF BarsTrue
        <4>3. CASE mark # "this"
          BY <2>2, <4>1, <4>3 DEF BarsTrue
        <4> QED
          BY <4>2, <4>3
      <3> QED
        BY <3>2, <3>3, <3>4 DEF IInv
    <2>5. SlipsWithinStop => FirstSight'
      <3>1. s.ready /\ s.trend = 1
        BY <1>1, <2>3, LookTypes DEF Open, EntrySignal, Regime
      <3>2. s.atr * StopAtr \in Nat
        BY LookTypes, ProductType
      <3>3. SlipsWithinStop => slip < s.atr * StopAtr
        BY <2>3 DEF SlipsWithinStop
      <3> QED
        BY <2>1, <2>2, <2>3, <3>1, <3>2, <3>3 DEF FirstSight
    <2>6. NoTighterStop => RiskAsSized'
      <3> DEFINE wide  == s.atr * stopAtr + RoundTrip
                 tight == s.atr * StopAtr + RoundTrip
                 risk  == RiskKrw * tenths
      <3> SUFFICES ASSUME NoTighterStop PROVE row'.qty * tight * 10 <= risk
        <4>1. row'.entry - row'.stop + RoundTrip = tight
          <5>1. s.atr * StopAtr \in Nat
            BY LookTypes, ProductType
          <5> QED
            BY <2>1, <2>3, <5>1
        <4> HIDE DEF tight
        <4> QED
          BY <2>2, <4>1 DEF RiskAsSized
      <3>1. stopAtr \in Nat \ {0} /\ stopAtr >= StopAtr
        BY <1>0 DEF TypeOK, NoTighterStop
      <3>2. /\ risk \in Nat /\ 10 * wide \in Nat \ {0} /\ Size(s, tenths) \in Nat
            /\ Size(s, tenths) <= (risk * s.close) \div (10 * wide)
        BY <3>1, SizeFacts
      <3>3. row'.qty \in Nat /\ row'.entry \in Nat /\ s.close <= row'.entry
        BY <2>1, <2>3 DEF Rows
      <3>4. tight \in Nat /\ wide \in Nat /\ tight <= wide
        BY <3>1, LookTypes, ProductGrows, ProductType
      <3>5. s.close \in Nat \ {0} /\ row'.entry * row'.qty <= Size(s, tenths)
        BY <2>1, <2>3
      <3> HIDE DEF wide, tight, risk
      <3>6. row'.qty * (10 * wide) <= risk
        <4> DEFINE loss == 10 * wide
                   size == Size(s, tenths)
        <4>1. /\ loss \in Nat \ {0} /\ size \in Nat /\ size <= (risk * s.close) \div loss
              /\ row'.entry * row'.qty <= size
          BY <3>2, <3>5
        <4> HIDE DEF loss, size
        <4>2. row'.qty * loss <= risk
          BY <3>2, <3>3, <3>5, <4>1, SizedLoss
        <4> QED
          BY <4>2 DEF loss
      <3>7. row'.qty * tight <= row'.qty * wide
        BY <3>3, <3>4, ProductGrows
      <3>8. row'.qty * tight \in Nat /\ row'.qty * wide \in Nat
        BY <3>3, <3>4, ProductType
      <3>9. row'.qty * (10 * wide) = row'.qty * wide * 10
        BY <3>3, <3>4
      <3> QED
        BY <3>2, <3>6, <3>7, <3>8, <3>9
    <2> QED
      BY <2>4, <2>5, <2>6
  <1>2. ASSUME NEW look \in Looks, Hold(look) \/ SaleRefused(look)
        PROVE  IInv' /\ (FirstSight => FirstSight') /\ (RiskAsSized => RiskAsSized')
    <2>1. /\ row # NoRow /\ row' = Cared(look) /\ mark' = "this" /\ Noted(look)
          /\ UNCHANGED <<mode, stopAtr, restarts>> /\ beat' = ~beat
      BY <1>2 DEF Hold, SaleRefused, Selling
    <2>2. faults' \in 0..MaxFaults
      BY <1>0, <1>2 DEF Hold, SaleRefused, TypeOK
    <2> QED
      BY <2>1, <2>2, WriteStep
  <1>3. ASSUME row' = NoRow, Forgotten, mark' \in {mark, "this"}, beat' \in {beat, ~beat},
               UNCHANGED <<mode, stopAtr, faults, restarts>>
        PROVE  IInv' /\ FirstSight' /\ RiskAsSized'
    <2>1. TypeOK'
      BY <1>0, <1>3, NoRowType DEF TypeOK, Forgotten
    <2> QED
      BY <1>3, <2>1 DEF IInv, PeakTrue, BarsTrue, FirstSight, RiskAsSized, Forgotten
  <1>4. ASSUME NEW look \in Looks, Sell(look) PROVE IInv' /\ FirstSight' /\ RiskAsSized'
    BY <1>3, <1>4 DEF Sell
  <1>5. ASSUME NEW price \in Prices, Flatten(price)
        PROVE  IInv' /\ FirstSight' /\ RiskAsSized'
    BY <1>3, <1>5 DEF Flatten
  <1>6. CASE Raise
    <2>1. IInv'
      BY <1>0, <1>6 DEF Raise, IInv, TypeOK, PeakTrue, BarsTrue, Rows
    <2>2. (FirstSight => FirstSight') /\ (RiskAsSized => RiskAsSized')
      BY <1>6 DEF Raise, FirstSight, RiskAsSized
    <2> QED
      BY <2>1, <2>2
  <1>7. CASE NewBar
    <2>1. /\ TypeOK' /\ PeakTrue'
      BY <1>0, <1>7 DEF NewBar, TypeOK, PeakTrue
    <2>2. BarsTrue'
      BY <1>0, <1>7 DEF NewBar, BarsTrue, TypeOK, Rows
    <2>3. FirstSight' /\ (RiskAsSized => RiskAsSized')
      BY <1>7 DEF NewBar, FirstSight, RiskAsSized
    <2> QED
      BY <2>1, <2>2, <2>3 DEF IInv
  <1>8. CASE Restart
    <2>1. IInv'
      BY <1>0, <1>8 DEF Restart, IInv, TypeOK, PeakTrue, BarsTrue, Rows
    <2>2. (FirstSight => FirstSight') /\ (RiskAsSized => RiskAsSized')
      BY <1>8 DEF Restart, FirstSight, RiskAsSized
    <2> QED
      BY <2>1, <2>2
  <1>9. CASE UNCHANGED vars
    BY <1>0, <1>9 DEF vars, rowVars, histVars, IInv, TypeOK, PeakTrue, BarsTrue, FirstSight,
                      RiskAsSized
  <1> QED
    BY <1>1, <1>2, <1>4, <1>5, <1>6, <1>7, <1>8, <1>9 DEF Next, Manage

(* The inductive invariant holds in every reachable state.                 *)
THEOREM Invariance == Spec => []IInv
  BY InitInvariant, NextInvariant, PTL DEF Spec

-----------------------------------------------------------------------------
(* Every variable keeps its type; a row has coins, and a stop below it.    *)
THEOREM TypeCorrect == Spec => []TypeOK
  BY Invariance, PTL DEF IInv

(* The trailing stop knows the whole life of a position, over refused      *)
(* sales, exceptions and restarts.                                         *)
THEOREM TrailKnowsAll == Spec => []PeakTrue
  BY Invariance, PTL DEF IInv

(* bars_held is the number of bars the position was dealt with in, up to   *)
(* one for every bar lost to an exception and one for every restart.       *)
THEOREM BarsCounted == Spec => []HeldCount
  <1>1. IInv => HeldCount
    BY DEF IInv, TypeOK, Rows, BarsTrue, HeldCount
  <1> QED
    BY <1>1, Invariance, PTL

(* If no market's adapted stop_atr is below the configured one, the stop   *)
(* that is placed loses no more than the position was sized for.           *)
THEOREM LossAsSized ==
  ASSUME NoTighterStop
  PROVE  Spec => []RiskAsSized
  <1>1. Init => IInv /\ RiskAsSized
    BY InitInvariant
  <1>2. IInv /\ RiskAsSized /\ [Next]_vars => (IInv /\ RiskAsSized)'
    BY NextInvariant
  <1> QED
    BY <1>1, <1>2, PTL DEF Spec

(* If a purchase slips by less than its stop, no exit rule but the time    *)
(* stop holds on the market the entry was decided on.                      *)
THEOREM BoughtToKeep ==
  ASSUME SlipsWithinStop
  PROVE  Spec => []NoChurn
  <1>1. Init => IInv /\ FirstSight
    BY InitInvariant
  <1>2. IInv /\ FirstSight /\ [Next]_vars => (IInv /\ FirstSight)'
    BY NextInvariant
  <1>3. IInv /\ FirstSight => NoChurn
    <2> SUFFICES ASSUME IInv, FirstSight, first # NoLook
                 PROVE  ExitKind(Cared(first), first) \in {"hold", "time"}
      BY DEF NoChurn
    <2>1. /\ first \in Looks /\ first.close \in Nat /\ row \in Rows /\ row # NoRow
          /\ ~row.armed /\ row.target > 0 /\ first.ready /\ first.trend = 1
          /\ first.close > row.stop /\ first.close <= row.entry
      BY LookTypes DEF IInv, TypeOK, FirstSight
    <2>2. NetReturn(row.entry, first.close) \in Int /\ NetReturn(row.entry, first.close) < 0
      BY <2>1 DEF NetReturn, Rows
    <2>3. TypeOK
      BY DEF IInv
    <2>4. /\ Cared(first).entry = row.entry /\ Cared(first).stop = row.stop
          /\ Cared(first).target = row.target /\ Cared(first).armed = row.armed
      <3>1. /\ Cared(first).entry = row.entry /\ Cared(first).stop = row.stop
            /\ Cared(first).target = row.target
            /\ Cared(first).armed = (row.armed \/ NetReturn(row.entry, first.close) > 0)
        BY <2>1, <2>3, CaredFacts
      <3>2. ~(NetReturn(row.entry, first.close) > 0)
        BY <2>2
      <3>3. row.armed \in BOOLEAN
        BY <2>1 DEF Rows
      <3> QED
        BY <2>1, <3>1, <3>2, <3>3
    <2> QED
      BY <2>1, <2>2, <2>4 DEF ExitKind, Rows
  <1> QED
    BY <1>1, <1>2, <1>3, PTL DEF Spec
=============================================================================
