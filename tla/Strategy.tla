------------------------------ MODULE Strategy ------------------------------
(***************************************************************************)
(* The decisions of FeeAwareTrendStrategy (src/ubbit/strategy.py): when to *)
(* buy, with which stop and target, and when to sell.  The engine and the  *)
(* backtest call the same two functions, and extend this module.           *)
(*                                                                         *)
(* Prices, ATR and costs are whole ticks.  The code's ratios become        *)
(* differences: a round trip costs RoundTrip ticks, so that a coin bought  *)
(* at 10 and sold at 10 has a net return of -RoundTrip.  What a snapshot   *)
(* keeps of the indicators is how they compare with the thresholds:        *)
(*   ready   no indicator is missing                                       *)
(*   trend   ema_fast against ema_slow: 1 above, 0 equal, -1 below         *)
(*   slope   the sign of slow_slope                                        *)
(*   rsi     "low" below rsi_min, "fit", "high" above rsi_max              *)
(*   signs   the other conditions of an entry that hold, see Signs         *)
(***************************************************************************)
EXTENDS Integers

CONSTANTS
  RoundTrip,      \* breakeven_edge: fees and slippage of a buy and a sale
  AtrFloor,       \* breakeven_edge * atr_cost_multiple
  AtrMax,         \* atr_max_pct
  TakeAtr,        \* take_profit_atr
  TrailAtr,       \* trail_atr
  MinTarget,      \* min_net_target
  MaxHoldBars     \* max_hold_bars

(* Costs and thresholds, as Config.validate lets them pass.                *)
StrategyParams ==
  /\ RoundTrip \in Nat \ {0}
  /\ AtrFloor \in Nat /\ AtrFloor >= RoundTrip
  /\ AtrMax \in Nat
  /\ TakeAtr \in Nat /\ TrailAtr \in Nat
  /\ MinTarget \in Nat /\ MinTarget > RoundTrip
  /\ MaxHoldBars \in Nat /\ MaxHoldBars >= 2

ASSUME StrategyConstants == StrategyParams

EntryModes == {"breakout", "squeeze", "pullback"}

Signs == {"channel",      \* close > donchian_up, the high of the bars before
          "squeezed",     \* atr / atr_median <= squeeze_ratio
          "dipped",       \* rsi_min_recent <= pullback_rsi_max
          "recovered",    \* rsi > rsi_min_recent + 5
          "overFast",     \* close > ema_fast
          "volume"}       \* vol_ratio >= volume_expansion

(* net_return: what is left per coin after the costs of both sides.        *)
NetReturn(entry, price) == price - entry - RoundTrip

(* The dead regime is the cost gate: bars that move less than their cost.  *)
(* An ATR of 0 leaves atr_pct empty, and passes both gates on the ATR.     *)
Regime(s) ==
  CASE ~s.ready                                      -> "unknown"
    [] s.ready /\ s.atr > AtrMax                     -> "chaos"
    [] s.ready /\ s.atr <= AtrMax /\ s.atr \in 1..(AtrFloor - 1) -> "dead"
    [] OTHER -> CASE s.trend = 1 /\ s.slope = 1       -> "bull_trend"
                  [] s.trend = -1 /\ s.slope = -1     -> "bear_trend"
                  [] OTHER                           -> "range"

EntryTrigger(mode, s) ==
  \/ mode = "breakout" /\ "channel" \in s.signs /\ s.rsi = "fit"
  \/ mode = "squeeze"  /\ {"squeezed", "channel"} \subseteq s.signs /\ s.rsi # "high"
  \/ mode = "pullback" /\ {"dipped", "recovered", "overFast"} \subseteq s.signs
                       /\ s.rsi # "high"

(* target_net: the ATR target net of costs, or the floor if that is more.  *)
TargetNet(s) ==
  LET net == s.atr * TakeAtr - RoundTrip
  IN  IF net >= MinTarget THEN net ELSE MinTarget

(* Slip: the cost gate asks for movement only, not for a trend.            *)
EntrySignalRange(mode, s) ==
  /\ Regime(s) \in {"bull_trend", "range"}
  /\ EntryTrigger(mode, s) /\ "volume" \in s.signs
  /\ TargetNet(s) > RoundTrip

EntrySignal(mode, s) ==
  /\ Regime(s) = "bull_trend"
  /\ EntryTrigger(mode, s) /\ "volume" \in s.signs
  /\ TargetNet(s) > RoundTrip

(* PositionView, as exit_signal sees it.                                   *)
Position(entry, qty, stop, target) ==
  [entry |-> entry, qty |-> qty, stop |-> stop, target |-> target,
   peak |-> entry, bars |-> 0, armed |-> FALSE]

(* The peak rises with the price, and the trailing stop is armed for good  *)
(* once the position has been worth more than it cost.                     *)
Follow(p, price) ==
  [p EXCEPT !.peak  = IF price > @ THEN price ELSE @,
            !.armed = @ \/ NetReturn(p.entry, price) > 0]

(* Slip: the time stop spares what is in profit.                           *)
ExitKindPatient(p, s) ==
  IF ~s.ready THEN "hold"
  ELSE IF s.close <= p.stop THEN "stop"
  ELSE IF p.armed /\ s.close <= p.peak - s.atr * TrailAtr THEN "trail"
  ELSE IF NetReturn(p.entry, s.close) >= p.target THEN "take_profit"
  ELSE IF s.trend = -1 THEN "regime"
  ELSE IF p.bars >= MaxHoldBars /\ NetReturn(p.entry, s.close) <= 0 THEN "time"
  ELSE "hold"

(* exit_signal: the first reason to sell, in the code's order.             *)
ExitKind(p, s) ==
  IF ~s.ready THEN "hold"
  ELSE IF s.close <= p.stop THEN "stop"
  ELSE IF p.armed /\ s.close <= p.peak - s.atr * TrailAtr THEN "trail"
  ELSE IF NetReturn(p.entry, s.close) >= p.target THEN "take_profit"
  ELSE IF s.trend = -1 THEN "regime"
  ELSE IF p.bars >= MaxHoldBars THEN "time"
  ELSE "hold"
=============================================================================
