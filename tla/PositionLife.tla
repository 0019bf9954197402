---------------------------- MODULE PositionLife ----------------------------
(***************************************************************************)
(* The life of one position in the engine, from _open_position to          *)
(* _close_position (src/ubbit/engine.py): how it is sized, what the ticks  *)
(* do to its row, and when it is sold.  TradingEngine has the orders and   *)
(* the crashes between their steps; here a tick's work on the row is one   *)
(* step, and the prices it sees, the bars they come in, refused sales,     *)
(* exceptions and restarts are what varies.                                *)
(*                                                                         *)
(* The row is written by hand: a tick changes the Position in memory, and  *)
(* an exception before the write loses the change, while _last_bar_ts, the *)
(* mark of the bar last counted, is kept in memory and lost by a restart.  *)
(***************************************************************************)
EXTENDS Strategy, FiniteSets

CONSTANTS
  Prices, Atrs,   \* the prices and ATR values the market may show
  SignSets,       \* the sets of entry conditions it may show
  FillSlips,      \* ticks a purchase may cost more than the close
  BookEdges,      \* break-even edges an order book may show
  StopAtr,        \* stop_atr of the configuration
  AdaptedStops,   \* stop_atr a market may get from ParamStore
  RiskKrw,        \* equity * risk_per_trade
  Boosts,         \* tenths of it that a conviction makes a trade risk: 10 to 16
  MaxSize,        \* the least of the other caps on a size
  MinOrder,       \* min_order_krw
  EntryFloor,     \* min_order_krw * dust_guard
  MaxBars,        \* bound on bars_held
  MaxFaults,      \* bound on refused sales and exceptions
  MaxRestarts     \* bound on restarts

ASSUME PositionConstants ==
  /\ Prices \subseteq Nat \ {0} /\ Atrs \subseteq Nat \ {0}
  /\ SignSets \subseteq SUBSET Signs
  /\ FillSlips \subseteq Nat /\ BookEdges \subseteq Nat
  /\ StopAtr \in Nat \ {0} /\ AdaptedStops \subseteq Nat \ {0}
  /\ Boosts \subseteq Nat \ 0..9
  /\ RiskKrw \in Nat \ {0} /\ MaxSize \in Nat \ {0}
  /\ MinOrder \in Nat \ {0} /\ EntryFloor \in Nat \ {0}
  /\ MinOrder <= EntryFloor
  /\ MaxBars \in Nat /\ MaxBars > MaxHoldBars
  /\ MaxFaults \in Nat /\ MaxRestarts \in Nat

VARIABLES
  mode,      \* entry_mode
  row,       \* the positions row, or NoRow
  mark,      \* _last_bar_ts: "none", "this" bar, an "earlier" one
  stopAtr,   \* stop_atr of the market's strategy, read at start-up
  faults, restarts,
  beat,      \* flips with every tick, so that one that changes nothing is a step
  \* history of the present row
  top,       \* the highest price the ticks that wrote the row saw
  gained,    \* one of them saw it worth more than it cost
  seen,      \* bars in which a tick wrote the row
  counted,   \* the present bar is one of them
  missed,    \* bars that were marked but could not be counted
  again,     \* restarts
  first,     \* what the market showed at the entry, while it still does
  boost      \* what its conviction made it risk

rowVars  == <<row, mark>>
histVars == <<top, gained, seen, counted, missed, again, first, boost>>
vars == <<mode, rowVars, stopAtr, faults, restarts, beat, histVars>>

NoRow  == [entry |-> 0, qty |-> 0, stop |-> 0, target |-> 0,
           peak |-> 0, bars |-> 0, armed |-> FALSE]
NoLook == [ready |-> FALSE, close |-> 0, atr |-> 0, trend |-> 0]

(* A row of the positions table, as far as its life depends on it.         *)
Rows == [entry : Nat, qty : Nat, stop : Int, target : Nat,
         peak : Nat, bars : Nat, armed : BOOLEAN]

(* What exit_signal looks at, and what entry_signal does.                  *)
Looks == [ready : BOOLEAN, close : Prices, atr : Atrs, trend : {-1, 0, 1}]
Snapshots ==
  [ready : BOOLEAN, close : Prices, atr : Atrs, trend : {-1, 0, 1},
   slope : {-1, 0, 1}, rsi : {"low", "fit", "high"}, signs : SignSets]
Look(s) == [ready |-> s.ready, close |-> s.close, atr |-> s.atr, trend |-> s.trend]

Least(a, b) == IF a <= b THEN a ELSE b

(* Slip: the loss at the stop is sized without the cost of the trade.      *)
SizeWithoutCost(s, tenths) ==
  Least((RiskKrw * tenths * s.close) \div (10 * (s.atr * stopAtr)), MaxSize)

(* position_size_krw: the size that loses RiskKrw at the market's stop, or *)
(* as many tenths of it as the conviction is worth.                        *)
Size(s, tenths) ==
  Least((RiskKrw * tenths * s.close) \div (10 * (s.atr * stopAtr + RoundTrip)), MaxSize)

Init ==
  /\ mode \in EntryModes
  /\ row = NoRow /\ mark = "none" /\ stopAtr \in AdaptedStops
  /\ faults = 0 /\ restarts = 0 /\ beat = FALSE
  /\ top = 0 /\ gained = FALSE /\ seen = 0 /\ counted = FALSE
  /\ missed = 0 /\ again = 0 /\ first = NoLook /\ boost = 0

-----------------------------------------------------------------------------
(* The entry.                                                              *)

(* What estimate_slippage_from_orderbook makes of a book: a cost, or Thin  *)
(* (inf) for one that the order would use up.                              *)
Thin == -1
BookEstimates == BookEdges \cup {Thin}

(* _effective_cost: the configured cost where the book is not asked or not *)
(* answered.  A thin book counts like no book, and does not stop the entry.*)
WithBook(estimate) == IF estimate = Thin THEN RoundTrip ELSE estimate
EffectiveEdges == {RoundTrip} \cup {WithBook(e) : e \in BookEstimates}

(* The stop of the row comes from the configuration, the one its size was  *)
(* computed for from the market's own strategy.                            *)
Open(s, slip, edge, tenths) ==
  /\ row = NoRow
  /\ EntrySignal(mode, s)
  /\ s.close > s.atr * stopAtr
  /\ edge < TargetNet(s)
  /\ Size(s, tenths) >= EntryFloor /\ Size(s, tenths) >= s.close + slip
  /\ LET fill == s.close + slip
         qty  == Size(s, tenths) \div fill
     IN  /\ row' = Position(fill, qty, fill - s.atr * StopAtr, TargetNet(s))
         /\ top' = fill
  /\ gained' = FALSE /\ seen' = 0 /\ counted' = FALSE /\ again' = 0
  /\ missed' = IF mark = "this" THEN 1 ELSE 0
  /\ first' = Look(s) /\ boost' = tenths
  /\ UNCHANGED <<mode, mark, stopAtr, faults, restarts, beat>>

-----------------------------------------------------------------------------
(* A tick's work on the row.                                               *)

(* Slip: the tick right after a restart does not count its bar.            *)
CountMarked(p) == IF mark = "earlier" THEN [p EXCEPT !.bars = @ + 1] ELSE p

(* A bar is counted when its time stamp is not the one last counted.       *)
Count(p) == IF mark # "this" THEN [p EXCEPT !.bars = @ + 1] ELSE p

Cared(look) == Follow(Count(row), look.close)

Sellable(price) == row.qty * price >= MinOrder

Noted(look) ==
  /\ top' = IF look.close > top THEN look.close ELSE top
  /\ gained' = (gained \/ NetReturn(row.entry, look.close) > 0)
  /\ seen' = IF counted THEN seen ELSE seen + 1
  /\ counted' = TRUE
  /\ first' = IF look = first THEN first ELSE NoLook
  /\ UNCHANGED <<missed, again, boost>>

Forgotten ==
  /\ top' = 0 /\ gained' = FALSE /\ seen' = 0 /\ counted' = FALSE
  /\ missed' = 0 /\ again' = 0 /\ first' = NoLook /\ boost' = 0

(* No reason to sell, or too little to be sold: the row is written.        *)
Hold(look) ==
  /\ row # NoRow
  /\ ExitKind(Cared(look), look) = "hold" \/ ~Sellable(look.close)
  /\ row' = Cared(look) /\ mark' = "this"
  /\ Noted(look)
  /\ beat' = ~beat
  /\ UNCHANGED <<mode, stopAtr, faults, restarts>>

Selling(look) ==
  /\ row # NoRow
  /\ ExitKind(Cared(look), look) # "hold" /\ Sellable(look.close)

Sell(look) ==
  /\ Selling(look)
  /\ row' = NoRow /\ mark' = "this"
  /\ Forgotten
  /\ beat' = ~beat
  /\ UNCHANGED <<mode, stopAtr, faults, restarts>>

(* Slip: a refused sale leaves the row as it was.                          *)
SaleRefusedUnsaved(look) ==
  /\ Selling(look) /\ faults < MaxFaults
  /\ mark' = "this"
  /\ faults' = faults + 1
  /\ Noted(look)
  /\ beat' = ~beat
  /\ UNCHANGED <<mode, row, stopAtr, restarts>>

(* The exchange refuses: the row is written, and sold by a later tick.     *)
SaleRefused(look) ==
  /\ Selling(look) /\ faults < MaxFaults
  /\ row' = Cared(look) /\ mark' = "this"
  /\ faults' = faults + 1
  /\ Noted(look)
  /\ beat' = ~beat
  /\ UNCHANGED <<mode, stopAtr, restarts>>

(* An exception between the marking of the bar and the write of the row.   *)
Raise ==
  /\ row # NoRow /\ faults < MaxFaults
  /\ mark' = "this"
  /\ faults' = faults + 1
  /\ missed' = IF mark # "this" THEN missed + 1 ELSE missed
  /\ UNCHANGED <<mode, row, stopAtr, restarts, beat, top, gained, seen, counted, again,
                 first, boost>>

(* The session's end: sold at whatever price, without a look at the row.   *)
Flatten(price) ==
  /\ row # NoRow /\ Sellable(price)
  /\ row' = NoRow
  /\ Forgotten
  /\ UNCHANGED <<mode, mark, stopAtr, faults, restarts, beat>>

-----------------------------------------------------------------------------
(* The candles, and the process.                                           *)

NewBar ==
  /\ row.bars < MaxBars
  /\ mark' = IF mark = "this" THEN "earlier" ELSE mark
  /\ counted' = FALSE
  /\ first' = NoLook
  /\ UNCHANGED <<mode, row, stopAtr, faults, restarts, beat, top, gained, seen, missed,
                 again, boost>>

Restart ==
  /\ restarts < MaxRestarts
  /\ restarts' = restarts + 1
  /\ mark' = "none"
  /\ stopAtr' \in AdaptedStops
  /\ again' = IF row # NoRow THEN again + 1 ELSE 0
  /\ UNCHANGED <<mode, row, faults, top, gained, seen, counted, missed, first, boost, beat>>

Manage(look) == Hold(look) \/ Sell(look) \/ SaleRefused(look)

Next ==
  \/ /\ row = NoRow
     /\ \E s \in Snapshots, slip \in FillSlips, edge \in EffectiveEdges, tenths \in Boosts :
          Open(s, slip, edge, tenths)
  \/ \E look \in Looks : Manage(look)
  \/ \E price \in Prices : Flatten(price)
  \/ Raise \/ NewBar \/ Restart

Spec == Init /\ [][Next]_vars

(* A tick that can read the market, and whose sale is not refused.         *)
GoodTick ==
  \E look \in Looks : look.ready /\ Sellable(look.close) /\ (Hold(look) \/ Sell(look))

(* Bars go by, and in spite of the exchange a good tick comes again.       *)
FairSpec == Spec /\ WF_vars(NewBar) /\ SF_vars(GoodTick)

-----------------------------------------------------------------------------
TypeOK ==
  /\ mode \in EntryModes
  /\ row \in Rows
  /\ row # NoRow => row.qty > 0 /\ row.stop < row.entry /\ row.entry <= row.peak
  /\ mark \in {"none", "this", "earlier"}
  /\ stopAtr \in AdaptedStops
  /\ faults \in 0..MaxFaults /\ restarts \in 0..MaxRestarts
  /\ beat \in BOOLEAN
  /\ top \in Nat /\ gained \in BOOLEAN
  /\ seen \in Nat /\ missed \in Nat /\ again \in Nat /\ counted \in BOOLEAN
  /\ first \in Looks \cup {NoLook}
  /\ boost \in Boosts \cup {0}

(* The trailing stop knows the whole life of the position: over refused    *)
(* sales, restarts and exceptions, the peak of the row is the highest      *)
(* price a tick that wrote it saw, and it is armed just when one of them   *)
(* saw it worth more than it cost.                                         *)
PeakTrue ==
  row # NoRow => row.peak = top /\ row.armed = gained

(* bars_held is the number of bars a tick dealt with the position in, but  *)
(* for bars whose tick was lost after marking them, and bars counted once  *)
(* more after a restart.                                                   *)
HeldCount ==
  row # NoRow => row.bars \in (seen - missed)..(seen + again)

(* What the strategy buys it does not sell in the next tick: on the market *)
(* the entry was decided on no exit rule holds, the time stop apart.       *)
NoChurn ==
  first # NoLook => ExitKind(Cared(first), first) \in {"hold", "time"}

(* The stop that is placed loses no more than the size was computed for:   *)
(* risk_per_trade of the equity (risk.py:118), times the boost that the    *)
(* conviction gave this trade (risk.py:134, README.md:446), whatever the   *)
(* purchase slipped and the book cost.                                     *)
RiskAsSized ==
  row # NoRow => row.qty * (row.entry - row.stop + RoundTrip) * 10 <= RiskKrw * boost

(* No position is held for good: the time stop ends it, if nothing else    *)
(* did.                                                                    *)
PositionsEnd == row # NoRow ~> row = NoRow

(* The inductive invariants.  A bar that is marked and not counted is owed *)
(* to the lower bound, one that is counted and not marked to the upper.    *)
BarsTrue ==
  row # NoRow =>
    /\ row.bars >= seen - missed + (IF mark = "this" /\ ~counted THEN 1 ELSE 0)
    /\ row.bars + (IF mark # "this" /\ counted THEN 1 ELSE 0) <= seen + again

(* As long as the market is the one of the entry, no tick has seen a gain. *)
FirstSight ==
  first # NoLook =>
    /\ row # NoRow /\ ~row.armed /\ row.target > 0
    /\ first.ready /\ first.trend = 1
    /\ first.close > row.stop /\ first.close <= row.entry

IInv == TypeOK /\ PeakTrue /\ BarsTrue
=============================================================================
