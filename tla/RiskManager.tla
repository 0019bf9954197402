---------------------------- MODULE RiskManager ----------------------------
(***************************************************************************)
(* The hard stops of the bot (src/ubbit/risk.py).  The code keeps a        *)
(* RiskState in memory only; here it is a record and every method of       *)
(* RiskManager an operator from record to record, so that the engine and   *)
(* any other caller of the manager use the same definitions.               *)
(*                                                                         *)
(* Time is a natural number of minutes-like units; a calendar day is       *)
(* DayLength of them.  Profit, loss, exposure and account value are whole  *)
(* units: the two percentage limits of the code become LossLimit and       *)
(* MaxExposure, amounts of those units at the equity the day opened with.  *)
(***************************************************************************)
EXTENDS Integers

CONSTANTS
  Markets,            \* the markets the engine may trade
  MaxConcurrent,      \* max_concurrent: positions held at a time
  DailyTradeLimit,    \* daily_trade_limit: entries of a day
  LossLimit,          \* daily_loss_limit, in units of loss
  StreakPause,        \* consecutive_loss_pause
  CooldownTime,       \* cooldown_minutes
  ReentryTime,        \* reentry_cooldown_minutes
  MaxExposure,        \* max_total_exposure, in units of value
  DayLength           \* time units of a calendar day

(* The limits of the configuration.                                        *)
RiskParams ==
  /\ MaxConcurrent \in Nat \ {0}
  /\ DailyTradeLimit \in Nat \ {0}
  /\ LossLimit \in Nat \ {0}
  /\ StreakPause \in Nat \ {0}
  /\ CooldownTime \in Nat
  /\ ReentryTime \in Nat
  /\ MaxExposure \in Nat
  /\ DayLength \in Nat \ {0}

ASSUME RiskConstants == RiskParams

Never == -1           \* a market that was not sold since the process started

Day(t) == t \div DayLength

RiskState ==
  [day         : Nat,                    \* the day the counters belong to
   pnl         : Int,                    \* realized_pnl_today
   trades      : Nat,                    \* trades_today
   streak      : Nat,                    \* consecutive_losses
   pausedUntil : Nat,                    \* paused_until, 0 for None
   lastExit    : [Markets -> Int]]       \* last_exit_at, Never for no key

(* A RiskState as the process creates it.  day_start_equity starts at 0.0, *)
(* which makes the first roll_day reset counters that are zero already.    *)
FreshRisk(now) ==
  [day |-> Day(now), pnl |-> 0, trades |-> 0, streak |-> 0,
   pausedUntil |-> 0, lastExit |-> [m \in Markets |-> Never]]

(* Slip: the day's counters are cleared by every call.                     *)
RollDayAlways(r, now) ==
  [day |-> Day(now), pnl |-> 0, trades |-> 0, streak |-> r.streak,
   pausedUntil |-> r.pausedUntil, lastExit |-> r.lastExit]

(* A new day forgets the loss and the entries, and nothing else: a pause   *)
(* and a re-entry cooldown run on over midnight.                           *)
RollDay(r, now) ==
  IF r.day = Day(now) THEN r
  ELSE [day |-> Day(now), pnl |-> 0, trades |-> 0, streak |-> r.streak,
        pausedUntil |-> r.pausedUntil, lastExit |-> r.lastExit]

CoolingDown(r, m, now) ==
  r.lastExit[m] # Never /\ now - r.lastExit[m] < ReentryTime

(* Slip: one position, and one unit of loss, too many.                     *)
CanOpenAtLimit(r, m, openPositions, exposure, now) ==
  /\ now >= r.pausedUntil
  /\ r.pnl >= -LossLimit
  /\ r.trades < DailyTradeLimit
  /\ openPositions <= MaxConcurrent
  /\ exposure < MaxExposure
  /\ ~CoolingDown(r, m, now)

(* The streak check, the day's loss, the day's entries, the positions held *)
(* and the exposure, each a refusal of can_open; r has been rolled to now. *)
CanOpen(r, m, openPositions, exposure, now) ==
  /\ now >= r.pausedUntil
  /\ r.pnl > -LossLimit
  /\ r.trades < DailyTradeLimit
  /\ openPositions < MaxConcurrent
  /\ exposure < MaxExposure
  /\ ~CoolingDown(r, m, now)

(* Slip: the cap is applied to the order alone.                            *)
SizesUncapped(exposure, largest) == {size \in 1..largest : size <= MaxExposure}

(* The sizes position_size_krw may return: whole units that the exposure   *)
(* cap leaves room for, up to the largest order.  The risk, cash and       *)
(* position caps can only make it smaller, and 0 means no entry.           *)
SizesFor(exposure, largest) ==
  {size \in 1..largest : exposure + size <= MaxExposure}

RecordEntry(r) == [r EXCEPT !.trades = @ + 1]

(* Slip: the market's last exit is not kept.                               *)
RecordExitForgetful(r, m, pnl, now) == [r EXCEPT !.pnl = @ + pnl]

RecordExit(r, m, pnl, now) ==
  LET lost   == pnl < 0
      paused == lost /\ r.streak + 1 >= StreakPause
  IN  [day         |-> r.day,
       pnl         |-> r.pnl + pnl,
       trades      |-> r.trades,
       streak      |-> IF lost /\ ~paused THEN r.streak + 1 ELSE 0,
       pausedUntil |-> IF paused THEN now + CooldownTime ELSE r.pausedUntil,
       lastExit    |-> [r.lastExit EXCEPT ![m] = now]]
============================================================================
