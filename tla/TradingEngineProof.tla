------------------------- MODULE TradingEngineProof -------------------------
(***************************************************************************)
(* Proofs about TradingEngine, for every set of markets, every limit, every *)
(* order size and every bound on faults, crashes and the owner's trades.   *)
(*                                                                         *)
(* IInv of TradingEngine is the inductive invariant.  The books agree with *)
(* the account (Accounted) only because a sale is never larger than its    *)
(* row (AtSale), a purchase starts without a row (AtPurchase), reconcile   *)
(* works on rows it saw (AtReconcile), and the exchange locks what is      *)
(* being sold (LockedCovered); max_concurrent bounds the rows              *)
(* (RowsBounded) only because the count kept in the entry loop is the      *)
(* number of rows (AtEntries).  Each conjunct is carried over a step by a  *)
(* lemma of its own, with one case per action.                             *)
(***************************************************************************)
EXTENDS TradingEngine, FiniteSetTheorems, TLAPS

USE DEF upsert_position, record_trade, delete_position, RiskParams, EngineParams

-----------------------------------------------------------------------------
(* What the operators of the model return.                                 *)

(* The calendar day of a time is a number.                                 *)
LEMMA DayType == \A t \in Nat : Day(t) \in Nat
  BY RiskConstants DEF Day

(* A new process starts with a RiskState.                                  *)
LEMMA FreshRiskType == \A t \in Nat : FreshRisk(t) \in RiskState
  BY DayType DEF FreshRisk, RiskState, Never

(* RiskManager.roll_day keeps the state a RiskState.                       *)
LEMMA RollDayType == \A r \in RiskState, t \in Nat : RollDay(r, t) \in RiskState
  BY DayType DEF RollDay, RiskState

(* RiskManager.record_entry keeps the state a RiskState.                   *)
LEMMA RecordEntryType == \A r \in RiskState : RecordEntry(r) \in RiskState
  BY DEF RecordEntry, RiskState

(* RiskManager.record_exit keeps the state a RiskState.                    *)
LEMMA RecordExitType ==
  \A r \in RiskState, m \in Markets, pnl \in Int, t \in Nat :
    RecordExit(r, m, pnl, t) \in RiskState
  BY RiskConstants DEF RecordExit, RiskState

(* An order about to be sent, and the absence of one, are well formed.     *)
LEMMA ActType ==
  /\ \A m \in Markets, q \in Nat : Act(m, q) \in [m : Markets, rem : Nat, done : Nat, pnl : Int]
  /\ NoAct \in [m : Markets, rem : Nat, done : Nat, pnl : Int]
  BY EngineConstants DEF NoAct, Act

(* There are finitely many rows, so counting them makes sense.             *)
LEMMA HeldFinite == IsFiniteSet(Held) /\ Cardinality(Held) \in Nat
  BY EngineConstants, FS_Subset, FS_CardinalityType DEF Held

(* Every time the clock can show lies on a day the history counts.         *)
LEMMA ClockDay == \A t \in 0..MaxClock : t \in Nat /\ Day(t) \in Days
  BY DEF Days

(* A refresh lists markets only.                                           *)
LEMMA Selected ==
  \A look \in [Markets -> Looks] : \A selected \in Selections(look) : selected \subseteq Markets
  <1> SUFFICES ASSUME NEW look \in [Markets -> Looks],
                      NEW L \in Best(8 * TopN, Liquid(look), look, "turnover"),
                      NEW C \in Best(3 * TopN, Moving(L, look), look, "edge"),
                      NEW selected \in Best(TopN, Cheap(C, look), look, "edge")
               PROVE  selected \subseteq Markets
    BY DEF Selections
  <1>1. L \subseteq Markets
    BY DEF Best, Liquid
  <1>2. C \subseteq Markets
    BY <1>1 DEF Best, Moving
  <1> QED BY <1>2 DEF Best, Cheap

(* A step that adds no row leaves no more rows than there were.            *)
LEMMA HeldShrinks ==
  ASSUME Held' \subseteq Held
  PROVE  Cardinality(Held') \in Nat /\ Cardinality(Held') <= Cardinality(Held)
  BY HeldFinite, FS_Subset, FS_CardinalityType

-----------------------------------------------------------------------------
(* One step of the system, conjunct by conjunct.                           *)

(* Four actions write to the positions table and no other does.            *)
LEMMA RowWriters ==
  ASSUME Next
  PROVE  \/ row' = row
         \/ DropRow
         \/ CloseRow
         \/ \E m \in Markets : ShrinkRow(m)
         \/ \E reads \in BOOLEAN : OpenRow(reads)
  BY DEF Next, Engine, StartUp, Exits, Entries, Exchange, World, dbVars, Boot,
        ReadBalances, BalancesFail, KeepRow, BookMissing, FinishReconcile,
        StartTick, Refresh, RefreshFails, ReadMarket, ReadMarketFails,
        TimeToRefresh, KeepPosition, SubmitSell,
        SellFilled, SellUnfilled, SellTimesOut, SellReplyLost, BookSale,
        FinishExits, SkipMarket, SubmitBuy, BuyFilled, BuyUnfilled,
        BuyTimesOut, BuyReplyLost, StoreFails, FinishEntries, Execute,
        CancelRest, ExecuteLateBuy, ExecuteLateSell, CancelLate, UserBuys,
        UserSells, TimePasses, Stop

(* Type correctness is preserved.  That coins stay natural numbers needs
   LockedCovered: a sale executes only what the account has. *)
LEMMA TypeStep ==
  ASSUME TypeOK, LockedCovered, Next
  PROVE  TypeOK'
  <1> DEFINE Goal == TypeOK'
  <1> USE EngineConstants DEF TypeOK, dbVars, exVars, procVars, univ, envVars,
        histVars, Working
  <1>1. ASSUME Boot PROVE Goal
    BY <1>1, FreshRiskType, ClockDay DEF Boot
  <1>2. ASSUME ReadBalances PROVE Goal
    BY <1>2 DEF ReadBalances, Held, Mismatch
  <1>3. ASSUME BalancesFail PROVE Goal
    BY <1>3 DEF BalancesFail
  <1>4. ASSUME NEW m \in Markets, KeepRow(m) PROVE Goal
    BY <1>4 DEF KeepRow
  <1>5. ASSUME NEW m \in Markets, ShrinkRow(m) PROVE Goal
    BY <1>5 DEF ShrinkRow
  <1>6. ASSUME NEW m \in Markets, BookMissing(m) PROVE Goal
    BY <1>6, ActType, ClockDay DEF BookMissing
  <1>7. ASSUME DropRow PROVE Goal
    BY <1>7, ActType DEF DropRow
  <1>8. ASSUME FinishReconcile PROVE Goal
    BY <1>8 DEF FinishReconcile, NoAudit
  <1>9. ASSUME StartTick PROVE Goal
    <2>1. tick' \in [now : 0..MaxClock, mode : Modes, priced : SUBSET Markets, open : Nat]
      BY <1>9 DEF StartTick, NoTick
    <2> QED BY <1>9, <2>1 DEF StartTick
  <1>10. ASSUME ReadMarket PROVE Goal
    <2>1. PICK priced \in SUBSET (markets \cup Held) :
            /\ IF priced = markets \cup Held
               THEN UNCHANGED faults ELSE InFault /\ faults' = faults + 1
            /\ tick' = [now |-> clock, mode |-> tick.mode, priced |-> priced, open |-> 0]
      BY <1>10 DEF ReadMarket
    <2>2. tick' \in [now : 0..MaxClock, mode : Modes, priced : SUBSET Markets, open : Nat]
      <3>1. priced \subseteq Markets /\ tick.mode \in Modes /\ clock \in 0..MaxClock
        BY <2>1 DEF Held
      <3> QED BY <2>1, <3>1
    <2>3. risk' \in RiskState
      BY <1>10, RollDayType, ClockDay DEF ReadMarket
    <2>4. todo' \subseteq Markets
      BY <1>10 DEF ReadMarket, Held
    <2>5. markets' \subseteq Markets /\ due' \in BOOLEAN
      BY <1>10 DEF ReadMarket, TimeToRefresh
    <2>6. {crashes, faults, userActs}' \subseteq Nat
      BY <1>10, <2>1 DEF ReadMarket
    <2>7. /\ UNCHANGED <<dbVars, exVars, act, audit, clock, histVars>>
          /\ pc' = "exits"
      BY <1>10 DEF ReadMarket
    <2> QED BY <2>2, <2>3, <2>4, <2>5, <2>6, <2>7
  <1>11. ASSUME ReadMarketFails PROVE Goal
    <2>1. tick' \in [now : 0..MaxClock, mode : Modes, priced : SUBSET Markets, open : Nat]
      BY <1>11, ClockDay DEF ReadMarketFails, NoTick, Modes
    <2>2. markets' \subseteq Markets /\ due' \in BOOLEAN
      BY <1>11 DEF ReadMarketFails, TimeToRefresh
    <2>3. {crashes, faults, userActs}' \subseteq Nat
      BY <1>11 DEF ReadMarketFails
    <2> QED BY <1>11, <2>1, <2>2, <2>3 DEF ReadMarketFails
  <1>12. ASSUME NEW m \in Markets, KeepPosition(m) PROVE Goal
    BY <1>12 DEF KeepPosition
  <1>13. ASSUME NEW m \in Markets, SubmitSell(m) PROVE Goal
    BY <1>13, ActType DEF SubmitSell, SellSize, Sellable, LockedCovered, Locked
  <1>14. ASSUME SellFilled PROVE Goal
    BY <1>14 DEF SellFilled
  <1>15. ASSUME SellUnfilled PROVE Goal
    BY <1>15, ActType DEF SellUnfilled
  <1>16. ASSUME SellTimesOut PROVE Goal
    BY <1>16, ActType DEF SellTimesOut
  <1>17. ASSUME SellReplyLost PROVE Goal
    <2>1. lateSell' \in [Markets -> Nat]
      BY <1>17 DEF SellReplyLost
    <2>2. taint' \subseteq Markets /\ todo' \subseteq Markets
      BY <1>17 DEF SellReplyLost
    <2>3. act' \in [m : Markets, rem : Nat, done : Nat, pnl : Int]
      BY <1>17, ActType DEF SellReplyLost
    <2>4. {crashes, faults, userActs}' \subseteq Nat
      BY <1>17 DEF SellReplyLost
    <2> QED BY <1>17, <2>1, <2>2, <2>3, <2>4 DEF SellReplyLost
  <1>18. ASSUME BookSale PROVE Goal
    BY <1>18, EngineConstants, ClockDay DEF BookSale
  <1>19. ASSUME CloseRow PROVE Goal
    BY <1>19, RecordExitType, ActType, ClockDay DEF CloseRow
  <1>20. ASSUME FinishExits PROVE Goal
    BY <1>20, HeldFinite, ClockDay DEF FinishExits, NoTick, Modes
  <1>21. ASSUME NEW m \in Markets, SkipMarket(m) PROVE Goal
    BY <1>21 DEF SkipMarket
  <1>22. ASSUME NEW m \in Markets, SubmitBuy(m) PROVE Goal
    <2>1. risk' \in RiskState
      BY <1>22, RollDayType, ClockDay DEF SubmitBuy
    <2>2. act' \in [m : Markets, rem : Nat, done : Nat, pnl : Int]
      BY <1>22, ActType DEF SubmitBuy, SizesFor
    <2> QED BY <1>22, <2>1, <2>2 DEF SubmitBuy
  <1>23. ASSUME BuyFilled PROVE Goal
    BY <1>23 DEF BuyFilled
  <1>24. ASSUME BuyUnfilled PROVE Goal
    BY <1>24, ActType DEF BuyUnfilled
  <1>25. ASSUME BuyTimesOut PROVE Goal
    BY <1>25, ActType DEF BuyTimesOut
  <1>26. ASSUME BuyReplyLost PROVE Goal
    <2>1. lateBuy' \in [Markets -> Nat]
      BY <1>26 DEF BuyReplyLost
    <2>2. taint' \subseteq Markets /\ todo' \subseteq Markets
      BY <1>26 DEF BuyReplyLost
    <2>3. act' \in [m : Markets, rem : Nat, done : Nat, pnl : Int]
      BY <1>26, ActType DEF BuyReplyLost
    <2>4. {crashes, faults, userActs}' \subseteq Nat
      BY <1>26 DEF BuyReplyLost
    <2> QED BY <1>26, <2>1, <2>2, <2>3, <2>4 DEF BuyReplyLost
  <1>27. ASSUME NEW reads \in BOOLEAN, OpenRow(reads) PROVE Goal
    BY <1>27, RecordEntryType, ActType, ClockDay DEF OpenRow, NoTick, Modes
  <1>28. ASSUME StoreFails PROVE Goal
    <2>1. tick' \in [now : 0..MaxClock, mode : Modes, priced : SUBSET Markets, open : Nat]
      BY <1>28 DEF StoreFails, NoTick, Modes
    <2>2. act' \in [m : Markets, rem : Nat, done : Nat, pnl : Int]
      BY <1>28, ActType DEF StoreFails
    <2>3. taint' \subseteq Markets /\ todo' \subseteq Markets
      BY <1>28 DEF StoreFails
    <2>4. {crashes, faults, userActs}' \subseteq Nat
      BY <1>28 DEF StoreFails
    <2> QED BY <1>28, <2>1, <2>2, <2>3, <2>4 DEF StoreFails
  <1>29. ASSUME FinishEntries PROVE Goal
    BY <1>29, ClockDay DEF FinishEntries, NoTick, Modes
  <1>30. ASSUME Execute PROVE Goal
    BY <1>30 DEF Execute, LockedCovered, Locked, Ordering
  <1>31. ASSUME CancelRest PROVE Goal
    BY <1>31 DEF CancelRest, Ordering
  <1>32. ASSUME NEW m \in Markets, ExecuteLateBuy(m) PROVE Goal
    BY <1>32 DEF ExecuteLateBuy
  <1>33. ASSUME NEW m \in Markets, ExecuteLateSell(m) PROVE Goal
    BY <1>33 DEF ExecuteLateSell, LockedCovered, Locked
  <1>34. ASSUME NEW m \in Markets, CancelLate(m) PROVE Goal
    BY <1>34 DEF CancelLate
  <1>35. ASSUME NEW m \in Markets, UserBuys(m) PROVE Goal
    BY <1>35 DEF UserBuys
  <1>36. ASSUME NEW m \in Markets, UserSells(m) PROVE Goal
    BY <1>36 DEF UserSells, Locked
  <1>37. ASSUME TimePasses PROVE Goal
    BY <1>37 DEF TimePasses
  <1>38. ASSUME Stop PROVE Goal
    <2>1. tick' \in [now : 0..MaxClock, mode : Modes, priced : SUBSET Markets, open : Nat]
      BY <1>38 DEF Stop, NoTick, Modes
    <2>2. audit' \in [bal : [Markets -> Nat], mismatch : BOOLEAN]
      BY <1>38 DEF Stop, NoAudit
    <2>3. act' \in [m : Markets, rem : Nat, done : Nat, pnl : Int]
      BY <1>38, ActType DEF Stop
    <2>4. lateBuy' \in [Markets -> Nat] /\ lateSell' \in [Markets -> Nat]
      BY <1>38 DEF Stop
    <2>5. coins' \in [Markets -> Nat]
      BY <1>38 DEF Stop
    <2>6. taint' \subseteq Markets /\ todo' \subseteq Markets
      BY <1>38 DEF Stop, Held
    <2>7. {crashes, faults, userActs}' \subseteq Nat
      BY <1>38 DEF Stop
    <2> QED BY <1>38, <2>1, <2>2, <2>3, <2>4, <2>5, <2>6, <2>7 DEF Stop
  <1>39. ASSUME Refresh PROVE Goal
    BY <1>39, Selected DEF Refresh, Held
  <1>40. ASSUME RefreshFails PROVE Goal
    BY <1>40 DEF RefreshFails, NoTick, Modes
  <1> QED
    BY <1>1, <1>2, <1>3, <1>4, <1>5, <1>6, <1>7, <1>8, <1>9, <1>10, <1>11,
          <1>12,
       <1>13, <1>14, <1>15, <1>16, <1>17, <1>18, <1>19, <1>20, <1>21, <1>22, <1>23, <1>24,
       <1>25, <1>26, <1>27, <1>28, <1>29, <1>30, <1>31, <1>32, <1>33, <1>34, <1>35, <1>36,
       <1>37, <1>38, <1>39, <1>40
    DEF Next, Engine, StartUp, Exits, Entries, Exchange, World

(* What is being sold stays covered by the account: a new sale takes coins
   that are not locked, and the owner cannot sell locked ones. *)
LEMMA LockedStep ==
  ASSUME TypeOK, LockedCovered, Points, Next
  PROVE  LockedCovered'
  <1> DEFINE Goal == LockedCovered'
  <1> USE DEF TypeOK, LockedCovered, Locked, Points, AtSale, OnPaper, dbVars,
        exVars, procVars, univ, envVars, histVars, Working
  <1>1. ASSUME Boot PROVE Goal
    BY <1>1 DEF Boot
  <1>2. ASSUME ReadBalances PROVE Goal
    BY <1>2 DEF ReadBalances
  <1>3. ASSUME BalancesFail PROVE Goal
    BY <1>3 DEF BalancesFail
  <1>4. ASSUME NEW m \in Markets, KeepRow(m) PROVE Goal
    BY <1>4 DEF KeepRow
  <1>5. ASSUME NEW m \in Markets, ShrinkRow(m) PROVE Goal
    BY <1>5 DEF ShrinkRow
  <1>6. ASSUME NEW m \in Markets, BookMissing(m) PROVE Goal
    BY <1>6 DEF BookMissing, Act, NoAct
  <1>7. ASSUME DropRow PROVE Goal
    BY <1>7 DEF DropRow, Act, NoAct
  <1>8. ASSUME FinishReconcile PROVE Goal
    BY <1>8 DEF FinishReconcile
  <1>9. ASSUME StartTick PROVE Goal
    BY <1>9 DEF StartTick
  <1>10. ASSUME ReadMarket PROVE Goal
    BY <1>10 DEF ReadMarket
  <1>11. ASSUME ReadMarketFails PROVE Goal
    BY <1>11 DEF ReadMarketFails
  <1>12. ASSUME NEW m \in Markets, KeepPosition(m) PROVE Goal
    BY <1>12 DEF KeepPosition
  <1>13. ASSUME NEW m \in Markets, SubmitSell(m) PROVE Goal
    BY <1>13 DEF SubmitSell, SellSize, Sellable, Act
  <1>14. ASSUME SellFilled PROVE Goal
    BY <1>14 DEF SellFilled
  <1>15. ASSUME SellUnfilled PROVE Goal
    BY <1>15 DEF SellUnfilled, Act, NoAct
  <1>16. ASSUME SellTimesOut PROVE Goal
    BY <1>16 DEF SellTimesOut, Act, NoAct
  <1>17. ASSUME SellReplyLost PROVE Goal
    BY <1>17 DEF SellReplyLost, Act, NoAct
  <1>18. ASSUME BookSale PROVE Goal
    BY <1>18 DEF BookSale
  <1>19. ASSUME CloseRow PROVE Goal
    BY <1>19 DEF CloseRow, Act, NoAct
  <1>20. ASSUME FinishExits PROVE Goal
    BY <1>20 DEF FinishExits
  <1>21. ASSUME NEW m \in Markets, SkipMarket(m) PROVE Goal
    BY <1>21 DEF SkipMarket
  <1>22. ASSUME NEW m \in Markets, SubmitBuy(m) PROVE Goal
    BY <1>22 DEF SubmitBuy, Act, NoAct
  <1>23. ASSUME BuyFilled PROVE Goal
    BY <1>23 DEF BuyFilled
  <1>24. ASSUME BuyUnfilled PROVE Goal
    BY <1>24 DEF BuyUnfilled, Act, NoAct
  <1>25. ASSUME BuyTimesOut PROVE Goal
    BY <1>25 DEF BuyTimesOut, Act, NoAct
  <1>26. ASSUME BuyReplyLost PROVE Goal
    BY <1>26 DEF BuyReplyLost, Act, NoAct
  <1>27. ASSUME NEW reads \in BOOLEAN, OpenRow(reads) PROVE Goal
    BY <1>27 DEF OpenRow, Act, NoAct
  <1>28. ASSUME StoreFails PROVE Goal
    BY <1>28 DEF StoreFails, Act, NoAct
  <1>29. ASSUME FinishEntries PROVE Goal
    BY <1>29 DEF FinishEntries
  <1>30. ASSUME Execute PROVE Goal
    BY <1>30 DEF Execute, Ordering
  <1>31. ASSUME CancelRest PROVE Goal
    BY <1>31 DEF CancelRest, Ordering
  <1>32. ASSUME NEW m \in Markets, ExecuteLateBuy(m) PROVE Goal
    BY <1>32 DEF ExecuteLateBuy
  <1>33. ASSUME NEW m \in Markets, ExecuteLateSell(m) PROVE Goal
    BY <1>33 DEF ExecuteLateSell
  <1>34. ASSUME NEW m \in Markets, CancelLate(m) PROVE Goal
    BY <1>34 DEF CancelLate
  <1>35. ASSUME NEW m \in Markets, UserBuys(m) PROVE Goal
    BY <1>35 DEF UserBuys
  <1>36. ASSUME NEW m \in Markets, UserSells(m) PROVE Goal
    BY <1>36 DEF UserSells
  <1>37. ASSUME TimePasses PROVE Goal
    BY <1>37 DEF TimePasses
  <1>38. ASSUME Stop PROVE Goal
    BY <1>38, EngineConstants DEF Stop, Act, NoAct
  <1>39. ASSUME Refresh PROVE Goal
    BY <1>39 DEF Refresh
  <1>40. ASSUME RefreshFails PROVE Goal
    <2>1. pc = "refresh" /\ pc' = "idle"
      BY <1>40 DEF RefreshFails
    <2>2. lateSell' = lateSell /\ coins' = coins
      BY <1>40 DEF RefreshFails
    <2> QED BY <2>1, <2>2
  <1> QED
    BY <1>1, <1>2, <1>3, <1>4, <1>5, <1>6, <1>7, <1>8, <1>9, <1>10, <1>11,
          <1>12,
       <1>13, <1>14, <1>15, <1>16, <1>17, <1>18, <1>19, <1>20, <1>21, <1>22, <1>23, <1>24,
       <1>25, <1>26, <1>27, <1>28, <1>29, <1>30, <1>31, <1>32, <1>33, <1>34, <1>35, <1>36,
       <1>37, <1>38, <1>39, <1>40
    DEF Next, Engine, StartUp, Exits, Entries, Exchange, World

(* What the engine knows at each point of its program stays true there.    *)
LEMMA PointsStep ==
  ASSUME TypeOK, LockedCovered, Points, Accounted, Next
  PROVE  Points'
  <1> DEFINE Goal == Points'
  <1> USE DEF TypeOK, LockedCovered, Locked, Points, AtSale, AtPurchase,
        AtDeletion, AtReconcile, OnPaper, dbVars, exVars, procVars, univ, envVars,
        histVars, Working
  <1>1. ASSUME Boot PROVE Goal
    BY <1>1 DEF Boot
  <1>2. ASSUME ReadBalances PROVE Goal
    BY <1>2 DEF ReadBalances, Held, Mismatch, Accounted, SoldNow, BoughtNow
  <1>3. ASSUME BalancesFail PROVE Goal
    BY <1>3 DEF BalancesFail
  <1>4. ASSUME NEW m \in Markets, KeepRow(m) PROVE Goal
    BY <1>4 DEF KeepRow
  <1>5. ASSUME NEW m \in Markets, ShrinkRow(m) PROVE Goal
    BY <1>5 DEF ShrinkRow
  <1>6. ASSUME NEW m \in Markets, BookMissing(m) PROVE Goal
    BY <1>6 DEF BookMissing, Act, NoAct
  <1>7. ASSUME DropRow PROVE Goal
    BY <1>7 DEF DropRow, Act, NoAct
  <1>8. ASSUME FinishReconcile PROVE Goal
    BY <1>8 DEF FinishReconcile
  <1>9. ASSUME StartTick PROVE Goal
    BY <1>9 DEF StartTick
  <1>10. ASSUME ReadMarket PROVE Goal
    BY <1>10 DEF ReadMarket, Held
  <1>11. ASSUME ReadMarketFails PROVE Goal
    BY <1>11 DEF ReadMarketFails
  <1>12. ASSUME NEW m \in Markets, KeepPosition(m) PROVE Goal
    BY <1>12 DEF KeepPosition
  <1>13. ASSUME NEW m \in Markets, SubmitSell(m) PROVE Goal
    BY <1>13, EngineConstants DEF SubmitSell, SellSize, Sellable, Act, Held
  <1>14. ASSUME SellFilled PROVE Goal
    BY <1>14 DEF SellFilled
  <1>15. ASSUME SellUnfilled PROVE Goal
    BY <1>15 DEF SellUnfilled, Act, NoAct
  <1>16. ASSUME SellTimesOut PROVE Goal
    BY <1>16 DEF SellTimesOut, Act, NoAct
  <1>17. ASSUME SellReplyLost PROVE Goal
    BY <1>17 DEF SellReplyLost, Act, NoAct
  <1>18. ASSUME BookSale PROVE Goal
    BY <1>18 DEF BookSale
  <1>19. ASSUME CloseRow PROVE Goal
    BY <1>19 DEF CloseRow, Act, NoAct
  <1>20. ASSUME FinishExits PROVE Goal
    BY <1>20 DEF FinishExits
  <1>21. ASSUME NEW m \in Markets, SkipMarket(m) PROVE Goal
    BY <1>21 DEF SkipMarket
  <1>22. ASSUME NEW m \in Markets, SubmitBuy(m) PROVE Goal
    BY <1>22, RiskConstants DEF SubmitBuy, Act, CanOpen
  <1>23. ASSUME BuyFilled PROVE Goal
    BY <1>23 DEF BuyFilled
  <1>24. ASSUME BuyUnfilled PROVE Goal
    BY <1>24 DEF BuyUnfilled, Act, NoAct
  <1>25. ASSUME BuyTimesOut PROVE Goal
    BY <1>25 DEF BuyTimesOut, Act, NoAct
  <1>26. ASSUME BuyReplyLost PROVE Goal
    BY <1>26 DEF BuyReplyLost, Act, NoAct
  <1>27. ASSUME NEW reads \in BOOLEAN, OpenRow(reads) PROVE Goal
    BY <1>27 DEF OpenRow, Act, NoAct
  <1>28. ASSUME StoreFails PROVE Goal
    BY <1>28 DEF StoreFails, Act, NoAct
  <1>29. ASSUME FinishEntries PROVE Goal
    BY <1>29 DEF FinishEntries
  <1>30. ASSUME Execute PROVE Goal
    BY <1>30 DEF Execute, Ordering
  <1>31. ASSUME CancelRest PROVE Goal
    BY <1>31 DEF CancelRest, Ordering
  <1>32. ASSUME NEW m \in Markets, ExecuteLateBuy(m) PROVE Goal
    BY <1>32 DEF ExecuteLateBuy
  <1>33. ASSUME NEW m \in Markets, ExecuteLateSell(m) PROVE Goal
    BY <1>33 DEF ExecuteLateSell
  <1>34. ASSUME NEW m \in Markets, CancelLate(m) PROVE Goal
    BY <1>34 DEF CancelLate
  <1>35. ASSUME NEW m \in Markets, UserBuys(m) PROVE Goal
    BY <1>35 DEF UserBuys
  <1>36. ASSUME NEW m \in Markets, UserSells(m) PROVE Goal
    BY <1>36 DEF UserSells
  <1>37. ASSUME TimePasses PROVE Goal
    BY <1>37 DEF TimePasses
  <1>38. ASSUME Stop PROVE Goal
    BY <1>38 DEF Stop, Act, NoAct
  <1>39. ASSUME Refresh PROVE Goal
    BY <1>39 DEF Refresh
  <1>40. ASSUME RefreshFails PROVE Goal
    <2>1. pc = "refresh" /\ pc' = "idle" /\ audit' = audit /\ todo' = todo
      BY <1>40 DEF RefreshFails
    <2>2. UNCHANGED <<dbVars, exVars, user, taint, act>>
      BY <1>40 DEF RefreshFails
    <2> QED BY <2>1, <2>2
  <1> QED
    BY Zenon, <1>1, <1>2, <1>3, <1>4, <1>5, <1>6, <1>7, <1>8, <1>9, <1>10, <1>11,
          <1>12,
       <1>13, <1>14, <1>15, <1>16, <1>17, <1>18, <1>19, <1>20, <1>21, <1>22, <1>23, <1>24,
       <1>25, <1>26, <1>27, <1>28, <1>29, <1>30, <1>31, <1>32, <1>33, <1>34, <1>35, <1>36,
       <1>37, <1>38, <1>39, <1>40
    DEF Next, Engine, StartUp, Exits, Entries, Exchange, World

(* The books keep agreeing with the account.  The cases that move coins or
   rows for the market at hand are split on the market. *)
LEMMA AccountedStep ==
  ASSUME TypeOK, LockedCovered, Points, Accounted, TypeOK', Next
  PROVE  Accounted'
  <1> DEFINE Goal == Accounted'
  <1> USE DEF TypeOK, Points, AtSale, AtPurchase, AtReconcile, OnPaper,
        Accounted, SoldNow, BoughtNow, dbVars, exVars, procVars, univ, envVars,
        histVars, Working
  <1>1. ASSUME Boot PROVE Goal
    BY <1>1 DEF Boot
  <1>2. ASSUME ReadBalances PROVE Goal
    BY <1>2 DEF ReadBalances
  <1>3. ASSUME BalancesFail PROVE Goal
    BY <1>3 DEF BalancesFail
  <1>4. ASSUME NEW m \in Markets, KeepRow(m) PROVE Goal
    BY <1>4 DEF KeepRow
  <1>5. ASSUME NEW m \in Markets, ShrinkRow(m) PROVE Goal
    BY <1>5 DEF ShrinkRow
  <1>6. ASSUME NEW m \in Markets, BookMissing(m) PROVE Goal
    BY <1>6 DEF BookMissing, Act, NoAct
  <1>7. ASSUME DropRow PROVE Goal
    BY <1>7 DEF DropRow, Act, NoAct
  <1>8. ASSUME FinishReconcile PROVE Goal
    BY <1>8 DEF FinishReconcile
  <1>9. ASSUME StartTick PROVE Goal
    BY <1>9 DEF StartTick
  <1>10. ASSUME ReadMarket PROVE Goal
    BY <1>10 DEF ReadMarket
  <1>11. ASSUME ReadMarketFails PROVE Goal
    BY <1>11 DEF ReadMarketFails
  <1>12. ASSUME NEW m \in Markets, KeepPosition(m) PROVE Goal
    BY <1>12 DEF KeepPosition
  <1>13. ASSUME NEW m \in Markets, SubmitSell(m) PROVE Goal
    BY <1>13, EngineConstants DEF SubmitSell, Act, SellSize, Sellable
  <1>14. ASSUME SellFilled PROVE Goal
    BY <1>14 DEF SellFilled
  <1>15. ASSUME SellUnfilled PROVE Goal
    BY <1>15 DEF SellUnfilled, Act, NoAct
  <1>16. ASSUME SellTimesOut PROVE Goal
    BY <1>16 DEF SellTimesOut, Act, NoAct
  <1>17. ASSUME SellReplyLost PROVE Goal
    BY <1>17 DEF SellReplyLost, Act, NoAct
  <1>18. ASSUME BookSale PROVE Goal
    BY <1>18 DEF BookSale
  <1>19. ASSUME CloseRow PROVE Goal
    <2> SUFFICES ASSUME NEW n \in Markets \ taint'
                 PROVE  /\ (coins[n] + SoldNow(n) = user[n] + row[n] + BoughtNow(n))'
                        /\ lateBuy'[n] = 0 /\ lateSell'[n] = 0
      BY DEF Accounted
    <2>1. CASE n = act.m
      <3>1. act.done \in Nat /\ row[n] \in Nat
        OBVIOUS
      <3>2. act.done <= row[n] BY <1>19, <2>1, <3>1 DEF CloseRow
      <3>3. ~(act.done < row[n]) BY <1>19, <2>1 DEF CloseRow
      <3>4. act.done = row[n] BY ONLY <3>1, <3>2, <3>3
      <3>5. n \notin taint BY <1>19 DEF CloseRow
      <3> QED BY <1>19, <2>1, <3>4, <3>5 DEF CloseRow, NoAct, Act
    <2>2. CASE n # act.m BY <1>19, <2>2 DEF CloseRow, NoAct, Act
    <2> QED BY <2>1, <2>2
  <1>20. ASSUME FinishExits PROVE Goal
    BY <1>20 DEF FinishExits
  <1>21. ASSUME NEW m \in Markets, SkipMarket(m) PROVE Goal
    BY <1>21 DEF SkipMarket
  <1>22. ASSUME NEW m \in Markets, SubmitBuy(m) PROVE Goal
    BY <1>22 DEF SubmitBuy, Act
  <1>23. ASSUME BuyFilled PROVE Goal
    BY <1>23 DEF BuyFilled
  <1>24. ASSUME BuyUnfilled PROVE Goal
    BY <1>24 DEF BuyUnfilled, Act, NoAct
  <1>25. ASSUME BuyTimesOut PROVE Goal
    BY <1>25 DEF BuyTimesOut, Act, NoAct
  <1>26. ASSUME BuyReplyLost PROVE Goal
    BY <1>26 DEF BuyReplyLost, Act, NoAct
  <1>27. ASSUME NEW reads \in BOOLEAN, OpenRow(reads) PROVE Goal
    BY <1>27 DEF OpenRow, Act, NoAct
  <1>28. ASSUME StoreFails PROVE Goal
    BY <1>28 DEF StoreFails, Act, NoAct
  <1>29. ASSUME FinishEntries PROVE Goal
    BY <1>29 DEF FinishEntries
  <1>30. ASSUME Execute PROVE Goal
    <2> SUFFICES ASSUME NEW n \in Markets \ taint'
                 PROVE  /\ (coins[n] + SoldNow(n) = user[n] + row[n] + BoughtNow(n))'
                        /\ lateBuy'[n] = 0 /\ lateSell'[n] = 0
      BY DEF Accounted
    <2>1. CASE n = act.m
      <3>1. CASE pc = "selling" BY <1>30, <2>1, <3>1 DEF Execute
      <3>2. CASE pc = "buying" BY <1>30, <2>1, <3>2 DEF Execute
      <3> QED BY <1>30, <3>1, <3>2 DEF Execute, Ordering
    <2>2. CASE n # act.m BY <1>30, <2>2 DEF Execute, Ordering
    <2> QED BY <2>1, <2>2
  <1>31. ASSUME CancelRest PROVE Goal
    BY <1>31 DEF CancelRest, Ordering
  <1>32. ASSUME NEW m \in Markets, ExecuteLateBuy(m) PROVE Goal
    BY <1>32 DEF ExecuteLateBuy
  <1>33. ASSUME NEW m \in Markets, ExecuteLateSell(m) PROVE Goal
    BY <1>33 DEF ExecuteLateSell
  <1>34. ASSUME NEW m \in Markets, CancelLate(m) PROVE Goal
    BY <1>34 DEF CancelLate
  <1>35. ASSUME NEW m \in Markets, UserBuys(m) PROVE Goal
    <2> SUFFICES ASSUME NEW n \in Markets \ taint'
                 PROVE  /\ (coins[n] + SoldNow(n) = user[n] + row[n] + BoughtNow(n))'
                        /\ lateBuy'[n] = 0 /\ lateSell'[n] = 0
      BY DEF Accounted
    <2>1. CASE n = m BY <1>35, <2>1 DEF UserBuys
    <2>2. CASE n # m BY <1>35, <2>2 DEF UserBuys
    <2> QED BY <2>1, <2>2
  <1>36. ASSUME NEW m \in Markets, UserSells(m) PROVE Goal
    <2> SUFFICES ASSUME NEW n \in Markets \ taint'
                 PROVE  /\ (coins[n] + SoldNow(n) = user[n] + row[n] + BoughtNow(n))'
                        /\ lateBuy'[n] = 0 /\ lateSell'[n] = 0
      BY DEF Accounted
    <2>1. coins[n] + SoldNow(n) = user[n] + row[n] + BoughtNow(n)
      BY <1>36 DEF UserSells, Accounted
    <2>2. SoldNow(n)' = SoldNow(n) /\ BoughtNow(n)' = BoughtNow(n) /\ row'[n] = row[n]
      BY <1>36 DEF UserSells
    <2>3. lateBuy'[n] = 0 /\ lateSell'[n] = 0
      BY <1>36 DEF UserSells, Accounted
    <2>4. coins'[n] - user'[n] = coins[n] - user[n]
      <3>1. CASE n = m
        <4>1. coins'[m] = coins[m] - 1
          BY <1>36 DEF UserSells, TypeOK
        <4>2. user'[m] = user[m] - 1
          BY <1>36, <3>1 DEF UserSells, TypeOK
        <4> QED BY <3>1, <4>1, <4>2 DEF TypeOK
      <3>2. CASE n # m
        BY <1>36, <3>2 DEF UserSells, TypeOK
      <3> QED BY <3>1, <3>2
    <2>5. {coins[n], user[n], row[n], coins'[n], user'[n]} \subseteq Int
      BY DEF TypeOK
    <2>6. {SoldNow(n), BoughtNow(n)} \subseteq Int
      BY DEF TypeOK, SoldNow, BoughtNow
    <2> HIDE DEF SoldNow, BoughtNow
    <2> QED BY <2>1, <2>2, <2>3, <2>4, <2>5, <2>6
  <1>37. ASSUME TimePasses PROVE Goal
    BY <1>37 DEF TimePasses
  <1>38. ASSUME Stop PROVE Goal
    BY <1>38 DEF Stop, Act, NoAct, Held
  <1>39. ASSUME Refresh PROVE Goal
    BY <1>39 DEF Refresh
  <1>40. ASSUME RefreshFails PROVE Goal
    BY <1>40 DEF RefreshFails
  <1> QED
    BY <1>1, <1>2, <1>3, <1>4, <1>5, <1>6, <1>7, <1>8, <1>9, <1>10, <1>11,
          <1>12,
       <1>13, <1>14, <1>15, <1>16, <1>17, <1>18, <1>19, <1>20, <1>21, <1>22, <1>23, <1>24,
       <1>25, <1>26, <1>27, <1>28, <1>29, <1>30, <1>31, <1>32, <1>33, <1>34, <1>35, <1>36,
       <1>37, <1>38, <1>39, <1>40
    DEF Next, Engine, StartUp, Exits, Entries, Exchange, World

(* The hand-kept count is the number of rows, and the rows stay within
   max_concurrent: only OpenRow adds one, after can_open saw room for it. *)
LEMMA RowsStep ==
  ASSUME TypeOK, Points, AtEntries, RowsBounded, TypeOK', Next
  PROVE  (AtEntries /\ RowsBounded)'
  <1> DEFINE Goal == (AtEntries /\ RowsBounded)'
  <1> USE DEF TypeOK, AtEntries, RowsBounded, dbVars, exVars, procVars, univ,
        envVars, histVars, Working
  <1>1. ASSUME Boot PROVE Goal
    BY <1>1, HeldFinite DEF Boot, Held
  <1>2. ASSUME ReadBalances PROVE Goal
    BY <1>2, HeldFinite DEF ReadBalances, Held
  <1>3. ASSUME BalancesFail PROVE Goal
    BY <1>3, HeldFinite DEF BalancesFail, Held
  <1>4. ASSUME NEW m \in Markets, KeepRow(m) PROVE Goal
    BY <1>4, HeldFinite DEF KeepRow, Held
  <1>5. ASSUME NEW m \in Markets, ShrinkRow(m) PROVE Goal
    <2>1. Held' \subseteq Held
      BY <1>5 DEF ShrinkRow, Held
    <2> QED BY <1>5, <2>1, HeldShrinks, HeldFinite, RiskConstants DEF ShrinkRow
  <1>6. ASSUME NEW m \in Markets, BookMissing(m) PROVE Goal
    BY <1>6, HeldFinite DEF BookMissing, Held
  <1>7. ASSUME DropRow PROVE Goal
    <2>1. Held' \subseteq Held
      BY <1>7 DEF DropRow, Held
    <2> QED BY <1>7, <2>1, HeldShrinks, HeldFinite, RiskConstants DEF DropRow
  <1>8. ASSUME FinishReconcile PROVE Goal
    BY <1>8, HeldFinite DEF FinishReconcile, Held
  <1>9. ASSUME StartTick PROVE Goal
    BY <1>9, HeldFinite DEF StartTick, Held
  <1>10. ASSUME ReadMarket PROVE Goal
    BY <1>10, HeldFinite DEF ReadMarket, Held
  <1>11. ASSUME ReadMarketFails PROVE Goal
    BY <1>11, HeldFinite DEF ReadMarketFails, Held
  <1>12. ASSUME NEW m \in Markets, KeepPosition(m) PROVE Goal
    BY <1>12, HeldFinite DEF KeepPosition, Held
  <1>13. ASSUME NEW m \in Markets, SubmitSell(m) PROVE Goal
    BY <1>13, HeldFinite DEF SubmitSell, Held
  <1>14. ASSUME SellFilled PROVE Goal
    BY <1>14, HeldFinite DEF SellFilled, Held
  <1>15. ASSUME SellUnfilled PROVE Goal
    BY <1>15, HeldFinite DEF SellUnfilled, Held
  <1>16. ASSUME SellTimesOut PROVE Goal
    BY <1>16, HeldFinite DEF SellTimesOut, Held
  <1>17. ASSUME SellReplyLost PROVE Goal
    BY <1>17, HeldFinite DEF SellReplyLost, Held
  <1>18. ASSUME BookSale PROVE Goal
    BY <1>18, HeldFinite DEF BookSale, Held
  <1>19. ASSUME CloseRow PROVE Goal
    <2>1. Held' \subseteq Held
      BY <1>19 DEF CloseRow, Held
    <2> QED BY <1>19, <2>1, HeldShrinks, HeldFinite, RiskConstants DEF CloseRow
  <1>20. ASSUME FinishExits PROVE Goal
    BY <1>20, HeldFinite DEF FinishExits, Held
  <1>21. ASSUME NEW m \in Markets, SkipMarket(m) PROVE Goal
    BY <1>21, HeldFinite DEF SkipMarket, Held
  <1>22. ASSUME NEW m \in Markets, SubmitBuy(m) PROVE Goal
    BY <1>22, HeldFinite DEF SubmitBuy, Held
  <1>23. ASSUME BuyFilled PROVE Goal
    BY <1>23, HeldFinite DEF BuyFilled, Held
  <1>24. ASSUME BuyUnfilled PROVE Goal
    BY <1>24, HeldFinite DEF BuyUnfilled, Held
  <1>25. ASSUME BuyTimesOut PROVE Goal
    BY <1>25, HeldFinite DEF BuyTimesOut, Held
  <1>26. ASSUME BuyReplyLost PROVE Goal
    BY <1>26, HeldFinite DEF BuyReplyLost, Held
  <1>27. ASSUME NEW reads \in BOOLEAN, OpenRow(reads) PROVE Goal
    <2>1. Held' = Held \cup {act.m} /\ act.m \notin Held
      BY <1>27 DEF OpenRow, Points, AtPurchase, Held
    <2>2. Cardinality(Held') = Cardinality(Held) + 1
      BY <2>1, HeldFinite, FS_AddElement
    <2> QED BY <1>27, <2>2, HeldFinite, RiskConstants DEF OpenRow, Points,
          AtPurchase
  <1>28. ASSUME StoreFails PROVE Goal
    BY <1>28, HeldFinite DEF StoreFails, Held
  <1>29. ASSUME FinishEntries PROVE Goal
    BY <1>29, HeldFinite DEF FinishEntries, Held
  <1>30. ASSUME Execute PROVE Goal
    BY <1>30, HeldFinite DEF Execute, Held
  <1>31. ASSUME CancelRest PROVE Goal
    BY <1>31, HeldFinite DEF CancelRest, Held
  <1>32. ASSUME NEW m \in Markets, ExecuteLateBuy(m) PROVE Goal
    BY <1>32, HeldFinite DEF ExecuteLateBuy, Held
  <1>33. ASSUME NEW m \in Markets, ExecuteLateSell(m) PROVE Goal
    BY <1>33, HeldFinite DEF ExecuteLateSell, Held
  <1>34. ASSUME NEW m \in Markets, CancelLate(m) PROVE Goal
    BY <1>34, HeldFinite DEF CancelLate, Held
  <1>35. ASSUME NEW m \in Markets, UserBuys(m) PROVE Goal
    BY <1>35, HeldFinite DEF UserBuys, Held
  <1>36. ASSUME NEW m \in Markets, UserSells(m) PROVE Goal
    BY <1>36, HeldFinite DEF UserSells, Held
  <1>37. ASSUME TimePasses PROVE Goal
    BY <1>37, HeldFinite DEF TimePasses, Held
  <1>38. ASSUME Stop PROVE Goal
    BY <1>38, HeldFinite DEF Stop, Held
  <1>39. ASSUME Refresh PROVE Goal
    BY <1>39, HeldFinite DEF Refresh, Held
  <1>40. ASSUME RefreshFails PROVE Goal
    BY <1>40, HeldFinite DEF RefreshFails, Held
  <1> QED
    BY <1>1, <1>2, <1>3, <1>4, <1>5, <1>6, <1>7, <1>8, <1>9, <1>10, <1>11,
          <1>12,
       <1>13, <1>14, <1>15, <1>16, <1>17, <1>18, <1>19, <1>20, <1>21, <1>22, <1>23, <1>24,
       <1>25, <1>26, <1>27, <1>28, <1>29, <1>30, <1>31, <1>32, <1>33, <1>34, <1>35, <1>36,
       <1>37, <1>38, <1>39, <1>40
    DEF Next, Engine, StartUp, Exits, Entries, Exchange, World

-----------------------------------------------------------------------------
(* The inductive invariant and what follows from it.                       *)

(* The initial states satisfy the inductive invariant.                     *)
LEMMA InitInv == Init => IInv
  <1> SUFFICES ASSUME Init PROVE IInv
    OBVIOUS
  <1> USE EngineConstants, RiskConstants
  <1>1. user \in [Markets -> Nat] /\ coins = user
    BY DEF Init
  <1>2. /\ row = [m \in Markets |-> 0]
        /\ lateBuy = [m \in Markets |-> 0]
        /\ lateSell = [m \in Markets |-> 0]
        /\ pc = "down"
    BY DEF Init
  <1>3. TypeOK
    <2>1. /\ booked \in [Markets -> Nat]
          /\ ledger \in [pnl : [Days -> Int], last : [Markets -> Int]]
      BY DEF Init, Never
    <2>2. tick \in [now : 0..MaxClock, mode : Modes, priced : SUBSET Markets, open : Nat]
      BY DEF Init, NoTick, Modes
    <2>3. audit \in [bal : [Markets -> Nat], mismatch : BOOLEAN]
      BY DEF Init, NoAudit
    <2>4. risk \in RiskState
      BY FreshRiskType DEF Init
    <2>5. act \in [m : Markets, rem : Nat, done : Nat, pnl : Int]
      BY ActType DEF Init
    <2>7. markets \subseteq Markets /\ due \in BOOLEAN
      BY DEF Init
    <2>6. /\ todo = {} /\ taint = {} /\ opened = [d \in Days |-> 0]
          /\ clock \in 0..MaxClock /\ {crashes, faults, userActs} \subseteq Nat
      BY DEF Init
    <2> QED BY <1>1, <1>2, <2>1, <2>2, <2>3, <2>4, <2>5, <2>6, <2>7 DEF TypeOK
  <1>4. LockedCovered
    <2> SUFFICES ASSUME NEW m \in Markets PROVE Locked(m) <= coins[m]
      BY DEF LockedCovered
    <2>1. Locked(m) = 0
      BY <1>2 DEF Locked
    <2>2. coins[m] \in Nat
      BY <1>1
    <2> QED BY <2>1, <2>2
  <1>5. Points
    <2>1. OnPaper
      BY <1>1, <1>2 DEF Init, OnPaper
    <2> QED BY <1>2, <2>1 DEF Points, AtSale, AtPurchase, AtDeletion, AtReconcile
  <1>6. Accounted
    <2> SUFFICES ASSUME NEW m \in Markets
                 PROVE  /\ coins[m] + SoldNow(m) = user[m] + row[m] + BoughtNow(m)
                        /\ lateBuy[m] = 0 /\ lateSell[m] = 0
      BY DEF Accounted
    <2>1. SoldNow(m) = 0 /\ BoughtNow(m) = 0
      BY <1>2 DEF SoldNow, BoughtNow
    <2> QED BY <1>1, <1>2, <2>1
  <1>7. AtEntries /\ RowsBounded
    <2>1. Held = {}
      BY <1>2 DEF Held
    <2> QED BY <1>2, <2>1, FS_EmptySet DEF AtEntries, RowsBounded
  <1> QED BY <1>3, <1>4, <1>5, <1>6, <1>7 DEF IInv

(* Every step, and a stuttering one, preserves the inductive invariant.    *)
LEMMA NextInv == IInv /\ [Next]_vars => IInv'
  <1> SUFFICES ASSUME IInv, [Next]_vars PROVE IInv'
    OBVIOUS
  <1>1. CASE Next
    <2>1. TypeOK'
      BY <1>1, TypeStep DEF IInv
    <2>2. LockedCovered'
      BY <1>1, LockedStep DEF IInv
    <2>3. Points'
      BY <1>1, PointsStep DEF IInv
    <2>4. Accounted'
      BY <1>1, <2>1, AccountedStep DEF IInv
    <2>5. (AtEntries /\ RowsBounded)'
      BY <1>1, <2>1, RowsStep DEF IInv
    <2> QED BY <2>1, <2>2, <2>3, <2>4, <2>5 DEF IInv
  <1>2. CASE UNCHANGED vars
    <2> USE <1>2 DEF vars, dbVars, exVars, procVars, univ, envVars, histVars
    <2>1. TypeOK' /\ LockedCovered'
      BY DEF IInv, TypeOK, LockedCovered, Locked
    <2>2. Points'
      BY DEF IInv, Points, AtSale, AtPurchase, AtDeletion, AtReconcile, OnPaper
    <2>3. Accounted'
      BY DEF IInv, Accounted, SoldNow, BoughtNow
    <2>4. (AtEntries /\ RowsBounded)'
      BY DEF IInv, AtEntries, RowsBounded, Held
    <2> QED BY <2>1, <2>2, <2>3, <2>4 DEF IInv
  <1> QED BY <1>1, <1>2

(* The inductive invariant holds in every reachable state.                 *)
THEOREM Invariance == Spec => []IInv
  BY InitInv, NextInv, PTL DEF Spec

(* Every variable of the engine keeps its type: in particular the account  *)
(* never goes below zero coins.                                            *)
THEOREM TypeCorrect == Spec => []TypeOK
  <1>1. IInv => TypeOK
    BY DEF IInv
  <1> QED BY <1>1, Invariance, PTL

(* In a market where no reply was lost, no order timed out or was filled   *)
(* in part on the way out, no process died over an order and the owner     *)
(* sold none of the bot's coins, the account holds the owner's coins and   *)
(* what the rows record, at every step of every tick.                      *)
THEOREM BooksAgree == Spec => []Accounted
  <1>1. IInv => Accounted
    BY DEF IInv
  <1> QED BY <1>1, Invariance, PTL

(* In such a market _close_position never sells a coin of the owner's.     *)
THEOREM OwnerSafe == Spec => []OwnerCoinsSafe
  <1>1. ASSUME IInv PROVE OwnerCoinsSafe
    <2> SUFFICES ASSUME NEW m \in Markets \ taint PROVE coins[m] >= user[m]
      BY DEF OwnerCoinsSafe
    <2> USE DEF IInv, TypeOK, Working
    <2>1. coins[m] + SoldNow(m) = user[m] + row[m] + BoughtNow(m)
      BY <1>1 DEF Accounted
    <2>2. SoldNow(m) \in Nat /\ BoughtNow(m) \in Nat
      BY <1>1 DEF SoldNow, BoughtNow
    <2>3. SoldNow(m) <= row[m]
      BY <1>1 DEF SoldNow, Points, AtSale
    <2>4. coins[m] \in Nat /\ user[m] \in Nat /\ row[m] \in Nat
      BY <1>1
    <2> QED BY <2>1, <2>2, <2>3, <2>4
  <1> QED BY <1>1, Invariance, PTL

(* max_concurrent bounds the position rows, over restarts, reconciliation, *)
(* failed orders and ticks that end early.                                 *)
THEOREM PositionsBounded == Spec => []RowsBounded
  <1>1. IInv => RowsBounded
    BY DEF IInv
  <1> QED BY <1>1, Invariance, PTL

(* A position row is deleted only after a trade that records it: by a sale *)
(* or by reconcile, also when the process dies between the two commits.    *)
THEOREM TradeForEveryRow == Spec => LedgerComplete
  <1> DEFINE Step == \A m \in Markets : row[m] > 0 /\ row'[m] = 0 => booked[m] >= 1
  <1>1. ASSUME IInv, Next PROVE Step
    <2> USE DEF TypeOK, dbVars
    <2>1. ASSUME row' = row PROVE Step
      BY <1>1, <2>1 DEF IInv
    <2>2. ASSUME DropRow PROVE Step
      BY <1>1, <2>2 DEF DropRow, IInv, Points, AtDeletion
    <2>3. ASSUME CloseRow PROVE Step
      BY <1>1, <2>3 DEF CloseRow, IInv, Points, AtDeletion
    <2>4. ASSUME NEW m \in Markets, ShrinkRow(m) PROVE Step
      BY <1>1, <2>4 DEF ShrinkRow, IInv
    <2>5. ASSUME NEW reads \in BOOLEAN, OpenRow(reads) PROVE Step
      BY <1>1, <2>5 DEF OpenRow, IInv, Points, AtPurchase
    <2> QED BY <1>1, <2>1, <2>2, <2>3, <2>4, <2>5, RowWriters
  <1>2. ASSUME UNCHANGED vars PROVE Step
    BY <1>2 DEF vars, dbVars
  <1>3. IInv /\ [Next]_vars => [Step]_vars
    BY <1>1, <1>2
  <1>4. LedgerComplete <=> [][Step]_vars
    BY PTL DEF LedgerComplete
  <1> QED BY <1>3, <1>4, Invariance, PTL DEF Spec

(* reconcile changes a row in one direction only: down, to the balance it  *)
(* read from the account, and only where that balance is smaller.          *)
THEOREM RowsCorrectedDown == Spec => ReconcileOnlyLowers
  <1> DEFINE Step == \A m \in Markets :
                       pc \in {"reconcile", "dropping"} /\ row'[m] # row[m]
                         => row'[m] = audit.bal[m] /\ audit.bal[m] < row[m]
  <1>1. ASSUME IInv, Next PROVE Step
    <2> USE DEF TypeOK, dbVars
    <2>1. ASSUME row' = row PROVE Step
      BY <2>1
    <2>2. ASSUME DropRow PROVE Step
      BY <1>1, <2>2 DEF DropRow, IInv, Points, AtReconcile
    <2>3. ASSUME CloseRow PROVE Step
      BY <2>3 DEF CloseRow
    <2>4. ASSUME NEW m \in Markets, ShrinkRow(m) PROVE Step
      BY <1>1, <2>4 DEF ShrinkRow, IInv
    <2>5. ASSUME NEW reads \in BOOLEAN, OpenRow(reads) PROVE Step
      BY <2>5 DEF OpenRow
    <2> QED BY <1>1, <2>1, <2>2, <2>3, <2>4, <2>5, RowWriters
  <1>2. ASSUME UNCHANGED vars PROVE Step
    BY <1>2 DEF vars, dbVars
  <1>3. IInv /\ [Next]_vars => [Step]_vars
    BY <1>1, <1>2
  <1>4. ReconcileOnlyLowers <=> [][Step]_vars
    BY PTL DEF ReconcileOnlyLowers
  <1> QED BY <1>3, <1>4, Invariance, PTL DEF Spec

(* Only FinishReconcile leads from reconcile into the tick loop.           *)
LEMMA LeavesReconcile ==
  ASSUME Next, pc = "reconcile", pc' = "idle"
  PROVE  FinishReconcile
  BY DEF Next, Engine, StartUp, Exits, Entries, Exchange, World, Ordering,
         procVars, univ, Boot, ReadBalances, BalancesFail, KeepRow, ShrinkRow, BookMissing,
         DropRow, FinishReconcile, StartTick, Refresh, RefreshFails, ReadMarket,
         ReadMarketFails, KeepPosition, SubmitSell, SellFilled, SellUnfilled, SellTimesOut,
         SellReplyLost, BookSale, CloseRow, FinishExits, SkipMarket,
         SubmitBuy, BuyFilled, BuyUnfilled, BuyTimesOut, BuyReplyLost,
         OpenRow, StoreFails, FinishEntries, Execute, CancelRest,
         ExecuteLateBuy, ExecuteLateSell, CancelLate, UserBuys, UserSells,
         TimePasses, Stop

(* A process that read its balances never goes from reconcile to its ticks *)
(* with a row above what it read.                                          *)
THEOREM TradingOnBackedRows == Spec => RowsBacked
  <1> DEFINE Step == pc = "reconcile" /\ pc' = "idle" =>
                       \A m \in Markets : row[m] <= audit.bal[m]
  <1>1. ASSUME IInv, Next PROVE Step
    <2> SUFFICES ASSUME pc = "reconcile", pc' = "idle", NEW m \in Markets
                 PROVE  row[m] <= audit.bal[m]
      OBVIOUS
    <2>1. todo = {}
      BY <1>1, LeavesReconcile DEF FinishReconcile
    <2>2. audit.bal[m] >= row[m]
      BY <1>1, <2>1 DEF IInv, Points, AtReconcile
    <2> QED BY <1>1, <2>2 DEF IInv, TypeOK
  <1>2. ASSUME UNCHANGED vars PROVE Step
    BY <1>2 DEF vars, procVars
  <1>3. IInv /\ [Next]_vars => [Step]_vars
    BY <1>1, <1>2
  <1>4. RowsBacked <=> [][Step]_vars
    BY PTL DEF RowsBacked
  <1> QED BY <1>3, <1>4, Invariance, PTL DEF Spec

(* With halt_on_mismatch a process that compared its rows with the account *)
(* trades only if they agreed: every row backed, no coins without a row.   *)
THEOREM MismatchHalts == Spec => HaltHonoured
  <1> DEFINE Step == HaltOnMismatch /\ pc = "reconcile" /\ pc' = "idle" =>
                       \A m \in Markets :
                         row[m] <= audit.bal[m] /\ (row[m] = 0 => audit.bal[m] = 0)
  <1>1. ASSUME IInv, Next PROVE Step
    <2> SUFFICES ASSUME HaltOnMismatch, pc = "reconcile", pc' = "idle",
                        NEW m \in Markets
                 PROVE  row[m] <= audit.bal[m] /\ (row[m] = 0 => audit.bal[m] = 0)
      OBVIOUS
    <2>1. ~audit.mismatch
      BY <1>1, LeavesReconcile DEF FinishReconcile
    <2>2. audit.bal[m] >= row[m] /\ (row[m] = 0 => audit.bal[m] = 0)
      BY <1>1, <2>1 DEF IInv, Points, AtReconcile
    <2> QED BY <1>1, <2>2 DEF IInv, TypeOK
  <1>2. ASSUME UNCHANGED vars PROVE Step
    BY <1>2 DEF vars, procVars
  <1>3. IInv /\ [Next]_vars => [Step]_vars
    BY <1>1, <1>2
  <1>4. HaltHonoured <=> [][Step]_vars
    BY PTL DEF HaltHonoured
  <1> QED BY <1>3, <1>4, Invariance, PTL DEF Spec

-----------------------------------------------------------------------------
(* The tables implement PositionBook.                                      *)

(* Only these actions touch the rows, or an order the broker has answered  *)
(* or that buys.                                                           *)
Quiet == /\ row' = row
         /\ \/ pc' \notin {"sold", "booked", "buying", "bought"}
            \/ pc' = pc /\ act' = act
LEMMA OrderWriters ==
  ASSUME Next
  PROVE  \/ Quiet
         \/ DropRow \/ CloseRow \/ \E m \in Markets : ShrinkRow(m)
         \/ \E reads \in BOOLEAN : OpenRow(reads)
         \/ SellFilled \/ SellTimesOut \/ BookSale
         \/ \E m \in Markets : SubmitBuy(m)
         \/ BuyFilled \/ BuyTimesOut \/ Execute \/ CancelRest
  BY DEF Quiet, Next, Engine, StartUp, Exits, Entries, Exchange, World, dbVars, procVars,
        univ, Boot, ReadBalances, BalancesFail, KeepRow, BookMissing, FinishReconcile,
        StartTick, Refresh, RefreshFails, ReadMarket, ReadMarketFails,
        TimeToRefresh, KeepPosition, SubmitSell, SellUnfilled, SellReplyLost,
        FinishExits, SkipMarket, BuyUnfilled, BuyReplyLost, StoreFails, FinishEntries,
        ExecuteLateBuy, ExecuteLateSell, CancelLate, UserBuys, UserSells, TimePasses, Stop

(* No row holds more than the largest order, and a sale is booked only if  *)
(* something of it executed.                                               *)
LEMMA SizedStep ==
  ASSUME TypeOK, OrdersSized, Next
  PROVE  OrdersSized'
  <1> USE DEF TypeOK, OrdersSized, dbVars
  <1> USE EngineConstants
  <1>1. ASSUME Quiet PROVE OrdersSized'
    BY <1>1 DEF Quiet
  <1>2. ASSUME DropRow PROVE OrdersSized'
    BY <1>2 DEF DropRow
  <1>3. ASSUME CloseRow PROVE OrdersSized'
    BY <1>3 DEF CloseRow
  <1>4. ASSUME NEW m \in Markets, ShrinkRow(m) PROVE OrdersSized'
    BY <1>4 DEF ShrinkRow
  <1>5. ASSUME NEW reads \in BOOLEAN, OpenRow(reads) PROVE OrdersSized'
    BY <1>5 DEF OpenRow
  <1>6. ASSUME SellFilled PROVE OrdersSized'
    BY <1>6 DEF SellFilled
  <1>7. ASSUME SellTimesOut PROVE OrdersSized'
    BY <1>7 DEF SellTimesOut
  <1>8. ASSUME BookSale PROVE OrdersSized'
    BY <1>8 DEF BookSale
  <1>9. ASSUME NEW m \in Markets, SubmitBuy(m) PROVE OrdersSized'
    BY <1>9, RiskConstants DEF SubmitBuy, Act, SizesFor
  <1>10. ASSUME BuyFilled PROVE OrdersSized'
    BY <1>10 DEF BuyFilled
  <1>11. ASSUME BuyTimesOut PROVE OrdersSized'
    BY <1>11 DEF BuyTimesOut
  <1>12. ASSUME Execute PROVE OrdersSized'
    BY <1>12 DEF Execute, Ordering
  <1>13. ASSUME CancelRest PROVE OrdersSized'
    BY <1>13 DEF CancelRest, Ordering
  <1> QED
    BY <1>1, <1>2, <1>3, <1>4, <1>5, <1>6, <1>7, <1>8, <1>9, <1>10, <1>11, <1>12, <1>13,
       OrderWriters

(* It holds in every reachable state.                                      *)
LEMMA Sized == Spec => []OrdersSized
  <1>1. Init => OrdersSized
    BY EngineConstants DEF Init, OrdersSized
  <1>2. TypeOK /\ OrdersSized /\ [Next]_vars => OrdersSized'
    BY SizedStep DEF vars, dbVars, procVars, OrdersSized
  <1> QED BY <1>1, <1>2, TypeCorrect, PTL DEF Spec

(* Only these actions change a row or count a trade.                       *)
LEMMA TableWriters ==
  ASSUME Next
  PROVE  \/ UNCHANGED <<row, booked>>
         \/ DropRow \/ CloseRow \/ \E m \in Markets : ShrinkRow(m)
         \/ \E reads \in BOOLEAN : OpenRow(reads)
         \/ \E m \in Markets : BookMissing(m)
         \/ BookSale
  BY DEF Next, Engine, StartUp, Exits, Entries, Exchange, World, dbVars, Boot,
        ReadBalances, BalancesFail, KeepRow, FinishReconcile,
        StartTick, Refresh, RefreshFails, ReadMarket, ReadMarketFails,
        TimeToRefresh, KeepPosition, SubmitSell,
        SellFilled, SellUnfilled, SellTimesOut, SellReplyLost,
        FinishExits, SkipMarket, SubmitBuy, BuyFilled, BuyUnfilled,
        BuyTimesOut, BuyReplyLost, StoreFails, FinishEntries, Execute,
        CancelRest, ExecuteLateBuy, ExecuteLateSell, CancelLate, UserBuys,
        UserSells, TimePasses, Stop

(* A step of the engine is a step of the book, or none.                    *)
LEMMA BookStep ==
  ASSUME IInv, OrdersSized, Next
  PROVE  Books!Next \/ UNCHANGED Books!vars
  <1> DEFINE Goal == Books!Next \/ UNCHANGED Books!vars
  <1>t. /\ row \in [Markets -> Nat] /\ booked \in [Markets -> Nat]
        /\ act.m \in Markets /\ act.done \in Nat /\ act.rem \in Nat
        /\ todo \subseteq Markets /\ audit.bal \in [Markets -> Nat]
        /\ OrderQty \in Nat
    BY EngineConstants DEF IInv, TypeOK
  <1>1. ASSUME UNCHANGED <<row, booked>> PROVE Goal
    BY <1>1 DEF Books!vars
  <1>2. ASSUME DropRow PROVE Goal
    <2>1. row[act.m] > 0 /\ booked[act.m] > 0
      BY <1>t, <1>2 DEF DropRow, IInv, Points, AtDeletion, AtReconcile
    <2> QED BY <1>t, <1>2, <2>1 DEF DropRow, Books!Next, Books!Close
  <1>3. ASSUME CloseRow PROVE Goal
    <2>1. row[act.m] > 0 /\ booked[act.m] > 0
      BY <1>t, <1>3 DEF CloseRow, IInv, Points, AtSale, AtDeletion, OrdersSized
    <2> QED BY <1>t, <1>3, <2>1 DEF CloseRow, Books!Next, Books!Close
  <1>4. ASSUME NEW m \in Markets, ShrinkRow(m) PROVE Goal
    <2>1. audit.bal[m] \in 1..OrderQty /\ audit.bal[m] < row[m]
      BY <1>t, <1>4 DEF ShrinkRow, OrdersSized
    <2> QED BY <1>t, <1>4, <2>1 DEF ShrinkRow, Books!Next, Books!Lower
  <1>5. ASSUME NEW reads \in BOOLEAN, OpenRow(reads) PROVE Goal
    <2>1. act.done \in 1..OrderQty /\ row[act.m] = 0
      BY <1>t, <1>5 DEF OpenRow, IInv, Points, AtPurchase, OrdersSized
    <2>2. Cardinality(Held) < MaxConcurrent
      BY <1>5 DEF OpenRow, IInv, Points, AtPurchase, AtEntries
    <2>3. Books!Held = Held
      BY DEF Books!Held, Held
    <2>4. row' = [row EXCEPT ![act.m] = act.done] /\ booked' = booked
      BY <1>5 DEF OpenRow
    <2>5. Books!Open(act.m, act.done)
      <3>1. Books!Cardinality(Books!Held) = Cardinality(Held)
        BY <2>3, Zenon DEF Cardinality, Books!Cardinality
      <3> QED BY <2>1, <2>2, <2>4, <3>1 DEF Books!Open
    <2> QED BY <1>t, <2>1, <2>5 DEF Books!Next
  <1>6. ASSUME NEW m \in Markets, BookMissing(m) PROVE Goal
    <2>1. row[m] > 0
      BY <1>t, <1>6 DEF BookMissing, IInv, Points, AtReconcile
    <2> QED BY <1>t, <1>6, <2>1 DEF BookMissing, Books!Next, Books!Record
  <1>7. ASSUME BookSale PROVE Goal
    <2>1. row[act.m] > 0
      BY <1>t, <1>7 DEF BookSale, IInv, Points, AtSale, OrdersSized
    <2> QED BY <1>t, <1>7, <2>1 DEF BookSale, Books!Next, Books!Record
  <1> QED BY <1>1, <1>2, <1>3, <1>4, <1>5, <1>6, <1>7, TableWriters

(* The engine implements PositionBook: over crashes between any two        *)
(* commits, failed writes and lost replies, what the two tables show is    *)
(* always a history in which positions are opened in free markets below    *)
(* max_concurrent, never grow, and end in one deletion with a trade behind *)
(* it.                                                                     *)
THEOREM ImplementsPositionBook == Spec => TablesAreBook
  <1>1. Init => Books!Init
    BY DEF Init, Books!Init
  <1>2. IInv /\ OrdersSized /\ [Next]_vars => [Books!Next]_(Books!vars)
    <2>1. ASSUME UNCHANGED vars PROVE UNCHANGED Books!vars
      BY <2>1 DEF vars, dbVars, Books!vars
    <2> QED BY <2>1, BookStep
  <1> QED BY <1>1, <1>2, Invariance, Sized, PTL DEF Spec, TablesAreBook, Books!Spec

-----------------------------------------------------------------------------
(* The paper broker.                                                       *)

(* What a sale has executed and has yet to execute is the whole row.       *)
Sale      == {"selling", "sold", "booked"}
SaleWhole == /\ pc \in Sale => act.rem + act.done = row[act.m]
             /\ pc \in {"sold", "booked"} => act.rem = 0

(* Only these actions touch the rows or an order that sells.               *)
LEMMA SaleWriters ==
  ASSUME Next
  PROVE  \/ row' = row /\ (pc' \notin Sale \/ (pc' = pc /\ act' = act))
         \/ pc' \notin Sale
         \/ \E m \in Markets : SubmitSell(m)
         \/ SellFilled \/ SellTimesOut \/ BookSale \/ Execute \/ CancelRest
  BY DEF Sale, Next, Engine, StartUp, Exits, Entries, Exchange, World, dbVars, procVars,
        univ, Boot, ReadBalances, BalancesFail, KeepRow, ShrinkRow, BookMissing, DropRow,
        FinishReconcile, StartTick, Refresh, RefreshFails, ReadMarket, ReadMarketFails,
        TimeToRefresh, KeepPosition, SellUnfilled, SellReplyLost, CloseRow,
        FinishExits, SkipMarket, SubmitBuy, BuyFilled, BuyUnfilled, BuyTimesOut,
        BuyReplyLost, OpenRow, StoreFails, FinishEntries,
        ExecuteLateBuy, ExecuteLateSell, CancelLate, UserBuys, UserSells, TimePasses, Stop

(* Only these actions take a market out of the bot's control.              *)
LEMMA TaintWriters ==
  ASSUME Next
  PROVE  \/ taint' = taint
         \/ SellTimesOut \/ SellReplyLost \/ BuyTimesOut \/ BuyReplyLost \/ StoreFails
         \/ CloseRow \/ Stop
         \/ \E m \in Markets : UserSells(m)
  BY DEF Next, Engine, StartUp, Exits, Entries, Exchange, World, histVars, Boot,
        ReadBalances, BalancesFail, KeepRow, ShrinkRow, BookMissing, DropRow,
        FinishReconcile, StartTick, Refresh, RefreshFails, ReadMarket, ReadMarketFails,
        KeepPosition, SubmitSell, SellFilled, SellUnfilled, BookSale,
        FinishExits, SkipMarket, SubmitBuy, BuyFilled, BuyUnfilled,
        OpenRow, FinishEntries, Execute, CancelRest,
        ExecuteLateBuy, ExecuteLateSell, CancelLate, UserBuys, TimePasses

(* On paper, where the balance is what the rows say, a sale asks for the   *)
(* whole row, and nothing cancels the rest of it.                          *)
LEMMA SaleWholeStep ==
  ASSUME IInv, SaleWhole, taint = {}, ~Live, Next
  PROVE  SaleWhole'
  <1>t. /\ row \in [Markets -> Nat] /\ coins \in [Markets -> Nat]
        /\ act \in [m : Markets, rem : Nat, done : Nat, pnl : Int]
    BY DEF IInv, TypeOK
  <1> USE DEF SaleWhole, Sale, dbVars
  <1>1. ASSUME row' = row /\ (pc' \notin Sale \/ (pc' = pc /\ act' = act)) PROVE SaleWhole'
    BY <1>1
  <1>2. ASSUME pc' \notin Sale PROVE SaleWhole'
    BY <1>2
  <1>3. ASSUME NEW m \in Markets, SubmitSell(m) PROVE SaleWhole'
    <2>1. SoldNow(m) = 0 /\ BoughtNow(m) = 0 /\ user[m] = 0
      BY <1>3 DEF SubmitSell, SoldNow, BoughtNow, IInv, Points, OnPaper
    <2>2. coins[m] = row[m]
      BY <1>t, <2>1 DEF IInv, Accounted
    <2>3. SellSize(m) = row[m]
      BY <1>t, <2>2 DEF SellSize
    <2> QED BY <1>t, <1>3, <2>3 DEF SubmitSell, Act
  <1>4. ASSUME SellFilled PROVE SaleWhole'
    BY <1>4 DEF SellFilled
  <1>5. ASSUME SellTimesOut PROVE SaleWhole'
    BY <1>5 DEF SellTimesOut
  <1>6. ASSUME BookSale PROVE SaleWhole'
    BY <1>t, <1>6 DEF BookSale
  <1>7. ASSUME Execute PROVE SaleWhole'
    BY <1>t, <1>7 DEF Execute, Ordering
  <1>8. ASSUME CancelRest PROVE SaleWhole'
    BY <1>8 DEF CancelRest
  <1> QED BY <1>1, <1>2, <1>3, <1>4, <1>5, <1>6, <1>7, <1>8, SaleWriters

(* Every coin is a row's or the order's in hand.                           *)
NothingAdrift == /\ taint = {}
                 /\ \A m \in Markets : coins[m] + SoldNow(m) = row[m] + BoughtNow(m)

(* On paper, while the process lives and no write of its fails, nothing    *)
(* ever leaves the bot's control: every coin is a row's or the order's in  *)
(* hand, in every market and at every step.  What Accounted excepts comes  *)
(* from the exchange, the account's owner and the end of a process alone.  *)
THEOREM PaperBooksAgree ==
  ASSUME ~Live, MaxFaults = 0, MaxCrashes = 0
  PROVE  Spec => []NothingAdrift
  <1> DEFINE Clean == taint = {} /\ SaleWhole
  <1>1. Init => Clean
    BY DEF Init, SaleWhole, Sale
  <1>2. IInv /\ Clean /\ [Next]_vars => Clean'
    <2> SUFFICES ASSUME IInv, Clean, [Next]_vars PROVE Clean'
      OBVIOUS
    <2>1. CASE Next
      <3>1. SaleWhole'
        BY <2>1, SaleWholeStep
      <3>2. faults \in Nat /\ crashes \in Nat /\ act.m \in Markets /\ act.rem \in Nat
            /\ act.done \in Nat /\ row[act.m] \in Nat
        BY DEF IInv, TypeOK
      <3>3. ~InFault /\ ~(crashes < MaxCrashes)
        BY <3>2 DEF InFault
      <3>4. CloseRow => taint' = taint
        BY <3>2 DEF CloseRow, SaleWhole, Sale
      <3>5. ~SellTimesOut /\ ~SellReplyLost /\ ~BuyTimesOut /\ ~BuyReplyLost
        BY DEF SellTimesOut, SellReplyLost, BuyTimesOut, BuyReplyLost
      <3>6. ~StoreFails /\ ~Stop /\ \A m \in Markets : ~UserSells(m)
        BY <3>3 DEF StoreFails, Stop, UserSells
      <3> QED BY <2>1, <3>1, <3>4, <3>5, <3>6, TaintWriters
    <2>2. CASE UNCHANGED vars
      BY <2>2 DEF vars, dbVars, procVars, histVars, SaleWhole
    <2> QED BY <2>1, <2>2
  <1>3. IInv /\ Clean => NothingAdrift
    <2> SUFFICES ASSUME IInv, Clean, NEW m \in Markets
                 PROVE  coins[m] + SoldNow(m) = row[m] + BoughtNow(m)
      BY DEF NothingAdrift
    <2>1. user[m] = 0 /\ m \notin taint
      BY DEF IInv, Points, OnPaper
    <2>2. coins[m] + SoldNow(m) = user[m] + row[m] + BoughtNow(m)
      BY <2>1 DEF IInv, Accounted
    <2>3. row[m] \in Nat
      BY DEF IInv, TypeOK
    <2> QED BY <2>1, <2>2, <2>3
  <1> HIDE DEF Clean
  <1> QED BY <1>1, <1>2, <1>3, Invariance, PTL DEF Spec

=============================================================================
