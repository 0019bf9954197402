---------------------------- MODULE WalkForward ----------------------------
(***************************************************************************)
(* walk_forward (src/ubbit/adapt.py) over run_backtest: for each window of *)
(* the candles a combination of parameters is chosen on the training part  *)
(* and tested on the part that follows, with the money the last test ended *)
(* with.  The report is that of the tests; what it recommends is the most  *)
(* frequent value of each parameter, taken for itself.                     *)
(*                                                                         *)
(* A combination has two of the grid's axes: stop_atr, which the backtest  *)
(* uses, and breakout_period, of which it sees the conditions that hold.   *)
(* Training is a choice: config.validate keeps min_net_target above the    *)
(* costs, so that some combination always scores.                          *)
(***************************************************************************)
EXTENDS Backtest, Sequences, FiniteSets

CONSTANTS
  Candles,        \* len(candles)
  TrainBars,      \* train_bars; test_bars is Bars
  StepBars,       \* step_bars
  Breakouts       \* breakout_period

ASSUME WalkConstants ==
  /\ Candles \in Nat /\ TrainBars \in Nat
  /\ StepBars \in Nat \ {0}

VARIABLES
  stage,          \* "training", "testing" or "reported"
  start,          \* where the window begins
  chosen,         \* the combinations of the folds
  equity,         \* what the next test begins with
  report,         \* OOSReport, or NoReport
  \* history
  made,           \* the sum of the net_pnl of oos_trades
  carried         \* what the positions left open by tests had gained

walk  == <<start, chosen, equity, report, made, carried>>
wvars == <<vars, stage, walk>>

Combos == [stop : StopAtrs, breakout : Breakouts]
NoReport == [folds |-> 0, params |-> <<>>, ret |-> 0]

(* Slip: the last fold decides.                                            *)
LastOf(values) == values[Len(values)]

(* _mode_of, for one axis: of the values met most often the one met first. *)
ModeOf(values) ==
  LET times(v) == Cardinality({k \in DOMAIN values : values[k] = v})
      first == CHOOSE k \in DOMAIN values :
                 \A j \in DOMAIN values :
                   IF j < k THEN times(values[j]) < times(values[k])
                            ELSE times(values[j]) <= times(values[k])
  IN  values[first]

Winner(combos) ==
  [stop     |-> ModeOf([k \in DOMAIN combos |-> combos[k].stop]),
   breakout |-> ModeOf([k \in DOMAIN combos |-> combos[k].breakout])]

WalkInit ==
  /\ Init
  /\ stage = "training" /\ start = 0 /\ chosen = <<>>
  /\ equity = InitialKrw /\ report = NoReport
  /\ made = 0 /\ carried = 0

Fits == start + TrainBars + Bars <= Candles

-----------------------------------------------------------------------------
(* run_backtest begins, with this money and these parameters.              *)
Begin(krw, stop) ==
  /\ initial' = krw /\ stopAtr' = stop
  /\ i' = 0 /\ phase' = "open"
  /\ cash' = krw /\ final' = krw
  /\ position' = NoPosition /\ entryKrw' = 0 /\ entryBar' = 0
  /\ pending' = NoOrder
  /\ risk' = FreshRisk(0)
  /\ realised' = 0 /\ decided' = 0
  /\ entries' = [d \in Days |-> 0]

(* The training part has chosen, and the test begins.                      *)
Choose(combo) ==
  /\ stage = "training" /\ Fits
  /\ Begin(equity, combo.stop)
  /\ stage' = "testing"
  /\ chosen' = Append(chosen, combo)
  /\ UNCHANGED <<start, equity, report, made, carried>>

Test == stage = "testing" /\ Next /\ UNCHANGED <<stage, walk>>

(* The test is over.  A position still open is no trade, but it is in the  *)
(* equity, at the last close and without the cost of its sale.             *)
Collect ==
  /\ stage = "testing" /\ i = Bars /\ phase = "open"
  /\ stage' = "training"
  /\ start' = start + StepBars
  /\ equity' = final
  /\ made' = made + realised
  /\ carried' = carried + (final - cash - entryKrw)
  /\ UNCHANGED <<vars, chosen, report>>

(* Slip: the return is that of the last test.                              *)
ReportLast ==
  /\ stage = "training" /\ ~Fits
  /\ stage' = "reported"
  /\ report' = IF chosen = <<>> THEN NoReport
               ELSE [folds |-> Len(chosen), params |-> Winner(chosen),
                     ret |-> final - initial]
  /\ UNCHANGED <<vars, start, chosen, equity, made, carried>>

(* No window is left; without any there is no report.                      *)
Report ==
  /\ stage = "training" /\ ~Fits
  /\ stage' = "reported"
  /\ report' = IF chosen = <<>> THEN NoReport
               ELSE [folds |-> Len(chosen), params |-> Winner(chosen),
                     ret |-> equity - InitialKrw]
  /\ UNCHANGED <<vars, start, chosen, equity, made, carried>>

Reported == stage = "reported" /\ UNCHANGED wvars

WalkNext == (\E combo \in Combos : Choose(combo)) \/ Test \/ Collect \/ Report \/ Reported

WalkSpec == WalkInit /\ [][WalkNext]_wvars

-----------------------------------------------------------------------------
WalkTypeOK ==
  /\ stage \in {"training", "testing", "reported"}
  /\ start \in Nat /\ equity \in Nat /\ {made, carried} \subseteq Int
  /\ chosen \in Seq(Combos)

(* The return that is reported is what the trades of all tests made and    *)
(* what positions still open had gained: money passes from each test to    *)
(* the next, and no test is lost or counted twice.                         *)
ReportAgrees == report # NoReport => report.ret = made + carried

(* A value that more than half of the folds chose for a parameter is the   *)
(* one recommended for it, whatever the folds chose for the other one.     *)
MajorityWins ==
  report # NoReport =>
    /\ \A v \in StopAtrs :
         2 * Cardinality({k \in DOMAIN chosen : chosen[k].stop = v}) > Len(chosen)
           => report.params.stop = v
    /\ \A v \in Breakouts :
         2 * Cardinality({k \in DOMAIN chosen : chosen[k].breakout = v}) > Len(chosen)
           => report.params.breakout = v

(* Between the tests the money is accounted for, a test begins with it,    *)
(* and the books of every test balance; what is recommended stays what the *)
(* list of the choices says.                                               *)
WalkInv ==
  /\ WalkTypeOK /\ IInv
  /\ equity = InitialKrw + made + carried
  /\ stage = "testing" => initial = equity
  /\ ReportAgrees
  /\ report # NoReport => stage = "reported" /\ report.params = Winner(chosen)
=============================================================================
