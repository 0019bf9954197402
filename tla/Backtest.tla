------------------------------ MODULE Backtest ------------------------------
(***************************************************************************)
(* run_backtest (src/ubbit/backtest.py): one market's candles from first   *)
(* to last, with the strategy and the risk manager the engine uses.  What  *)
(* a bar's close decides is filled at the open of the next bar.  A bar is  *)
(* two steps, its open and its close; the candles are choices.             *)
(*                                                                         *)
(* Time is the index of the bar.  Money is in whole units, prices and      *)
(* costs in ticks, coins in whole lots: fill_buy spends all of its amount  *)
(* and rounds the lots down, fill_sell returns the price less SellCost.    *)
(* RiskKrw stands for the risk taken at any equity.                        *)
(***************************************************************************)
EXTENDS Strategy, RiskManager

CONSTANTS
  Market,
  Bars,           \* len(candles)
  Warmup,         \* warmup_bars
  Mode,           \* entry_mode
  Prices, Atrs, SignSets,   \* what the candles may show
  StopAtrs,       \* the stop_atr a caller may choose
  BuySlip, BuyFee,          \* slippage_buy, which is in the price, and fee_buy
  SellCost,                 \* slippage_sell and fee_sell
  RiskKrw,        \* equity * risk_per_trade
  MaxSize,        \* the least of the other caps on a size
  EntryFloor,     \* min_order_krw * dust_guard
  InitialKrw      \* initial_krw of the first backtest

ASSUME BacktestConstants ==
  /\ Market \in Markets
  /\ Bars \in Nat /\ Warmup \in Nat
  /\ Mode \in EntryModes
  /\ Prices \subseteq Nat \ {0} /\ Atrs \subseteq Nat \ {0}
  /\ SignSets \subseteq SUBSET Signs
  /\ StopAtrs \subseteq Nat \ {0}
  /\ {BuySlip, BuyFee, SellCost} \subseteq Nat /\ RoundTrip = BuySlip + BuyFee + SellCost
  /\ {RiskKrw, MaxSize, EntryFloor} \subseteq Nat \ {0}
  /\ InitialKrw \in Nat

VARIABLES
  initial, stopAtr,         \* arguments: initial_krw, and stop_atr of sparams
  i, phase,       \* the bar, and whether its open or its close comes next
  cash,
  position,       \* PositionView, or NoPosition
  entryKrw, entryBar,
  pending,        \* the order for the next open, or NoOrder
  risk,           \* the RiskState
  final,          \* result.final: cash and the position at its last close
  \* history
  realised,       \* the sum of the net_pnl of result.trades
  decided,        \* the bar the pending order was decided at
  entries         \* for each day, the entries decided on it and filled

books == <<cash, position, entryKrw, entryBar, realised>>
args == <<initial, stopAtr>>
vars == <<args, i, phase, books, pending, risk, final, decided, entries>>

Days == 0..Day(Bars)

NoPosition == [entry |-> 0, qty |-> 0, stop |-> 0, target |-> 0,
               peak |-> 0, bars |-> 0, armed |-> FALSE]
NoOrder == [kind |-> "none", krw |-> 0, atr |-> 0, target |-> 0]

(* Past the warm-up no indicator is missing.                               *)
Snapshots ==
  [ready : {TRUE}, close : Prices, atr : Atrs, trend : {-1, 0, 1},
   slope : {-1, 0, 1}, rsi : {"low", "fit", "high"}, signs : SignSets]

FillQty(krw, price)  == krw \div (price + BuySlip + BuyFee)
Proceeds(qty, price) == qty * (IF price > SellCost THEN price - SellCost ELSE 0)

Least(a, b) == IF a <= b THEN a ELSE b

(* Slip: the cash is not a cap.                                            *)
SizeOnCredit(s) ==
  Least((RiskKrw * s.close) \div (s.atr * stopAtr + RoundTrip), MaxSize)

(* position_size_krw: no size without a stop above 0.                      *)
Size(s) ==
  IF s.close <= s.atr * stopAtr THEN 0
  ELSE Least(Least((RiskKrw * s.close) \div (s.atr * stopAtr + RoundTrip), MaxSize), cash)

Init ==
  /\ initial = InitialKrw /\ stopAtr \in StopAtrs
  /\ i = 0 /\ phase = "open"
  /\ cash = InitialKrw /\ final = InitialKrw
  /\ position = NoPosition /\ entryKrw = 0 /\ entryBar = 0
  /\ pending = NoOrder
  /\ risk = FreshRisk(0)
  /\ realised = 0 /\ decided = 0
  /\ entries = [d \in Days |-> 0]

-----------------------------------------------------------------------------
(* The open of a bar: the pending order is filled, or dropped.             *)

(* Slip: the order filled is not cleared.                                  *)
OpeningKeeps ==
  i < Bars /\ phase = "open" /\ phase' = "close" /\ pending' = pending /\ UNCHANGED args

Opening ==
  i < Bars /\ phase = "open" /\ phase' = "close" /\ pending' = NoOrder /\ UNCHANGED args

NoFill ==
  /\ Opening
  /\ pending.kind = "none"
  /\ UNCHANGED <<i, books, risk, final, decided, entries>>

FillBuy(open) ==
  /\ Opening
  /\ pending.kind = "buy"
  /\ LET qty  == FillQty(pending.krw, open)
         fill == open + BuySlip
     IN  IF qty > 0
         THEN /\ cash' = cash - pending.krw
              /\ entryKrw' = pending.krw /\ entryBar' = i
              /\ position' = Position(fill, qty, fill - pending.atr * stopAtr,
                                      pending.target)
              /\ risk' = RecordEntry(risk)
              /\ entries' = [entries EXCEPT ![Day(decided)] = @ + 1]
         ELSE UNCHANGED <<cash, entryKrw, entryBar, position, risk, entries>>
  /\ UNCHANGED <<i, final, realised, decided>>

(* Slip: the amount spent is charged again, at the sale.                   *)
FillSellTwice(open) ==
  /\ Opening
  /\ pending.kind = "sell"
  /\ LET net == Proceeds(position.qty, open) - entryKrw
     IN  /\ cash' = cash + net
         /\ realised' = realised + net
         /\ risk' = RecordExit(risk, Market, net, i)
  /\ position' = NoPosition /\ entryKrw' = 0
  /\ UNCHANGED <<i, entryBar, final, decided, entries>>

FillSell(open) ==
  /\ Opening
  /\ pending.kind = "sell"
  /\ LET net == Proceeds(position.qty, open) - entryKrw
     IN  /\ cash' = cash + Proceeds(position.qty, open)
         /\ realised' = realised + net
         /\ risk' = RecordExit(risk, Market, net, i)
  /\ position' = NoPosition /\ entryKrw' = 0
  /\ UNCHANGED <<i, entryBar, final, decided, entries>>

-----------------------------------------------------------------------------
(* The close of a bar: the account is valued, and a decision made.         *)

Closing(s) ==
  /\ phase = "close" /\ phase' = "open"
  /\ i' = i + 1
  /\ final' = cash + position.qty * s.close
  /\ UNCHANGED args

Warming(s) ==
  /\ Closing(s)
  /\ i < Warmup
  /\ UNCHANGED <<books, pending, risk, decided, entries>>

(* Slip: the bars are counted from the first close after the entry's.      *)
CaredLate(s) == [Follow(position, s.close) EXCEPT !.bars = i - entryBar - 1]

Cared(s) == [Follow(position, s.close) EXCEPT !.bars = i - entryBar]

JudgeExit(s) ==
  /\ Closing(s)
  /\ i >= Warmup /\ position # NoPosition
  /\ position' = Cared(s)
  /\ IF ExitKind(Cared(s), s) = "hold"
     THEN UNCHANGED <<pending, decided>>
     ELSE pending' = [NoOrder EXCEPT !.kind = "sell"] /\ decided' = i
  /\ UNCHANGED <<cash, entryKrw, entryBar, realised, risk, entries>>

(* The day is rolled only where the strategy wants to enter.               *)
JudgeEntry(s) ==
  /\ Closing(s)
  /\ i >= Warmup /\ position = NoPosition
  /\ IF EntrySignal(Mode, s)
     THEN /\ risk' = RollDay(risk, i)
          /\ IF CanOpen(RollDay(risk, i), Market, 0, 0, i) /\ Size(s) >= EntryFloor
             THEN /\ pending' = [kind |-> "buy", krw |-> Size(s), atr |-> s.atr,
                                 target |-> TargetNet(s)]
                  /\ decided' = i
             ELSE UNCHANGED <<pending, decided>>
     ELSE UNCHANGED <<risk, pending, decided>>
  /\ UNCHANGED <<books, entries>>

Done == i = Bars /\ phase = "open" /\ UNCHANGED vars

Next ==
  \/ NoFill
  \/ \E open \in Prices : FillBuy(open) \/ FillSell(open)
  \/ \E s \in Snapshots : Warming(s) \/ JudgeExit(s) \/ JudgeEntry(s)
  \/ Done

Spec == Init /\ [][Next]_vars

-----------------------------------------------------------------------------
Amounts == [entry : Nat, qty : Nat, stop : Int, target : Nat,
            peak : Nat, bars : Nat, armed : BOOLEAN]

TypeOK ==
  /\ i \in 0..Bars /\ phase \in {"open", "close"} /\ (phase = "close" => i < Bars)
  /\ initial \in Nat /\ stopAtr \in StopAtrs
  /\ {cash, realised} \subseteq Int /\ final \in Nat
  /\ position \in Amounts
  /\ position # NoPosition => position.qty > 0
  /\ entryKrw \in Nat /\ entryBar \in Nat
  /\ pending \in [kind : {"none", "buy", "sell"}, krw : Nat, atr : Nat, target : Nat]
  /\ risk \in RiskState
  /\ decided \in Nat
  /\ entries \in [Days -> Nat]

(* Double entry: what is not in cash is in the position at cost, and all   *)
(* of it is the initial amount and the net_pnl of the trades reported.     *)
BooksBalance == cash + entryKrw = initial + realised

(* The account never owes money, also with an order decided and not filled.*)
CashCovered == cash >= 0 /\ pending.krw <= cash

(* Nothing is filled on the bar that decided it, nor later than the next:  *)
(* an order waits for the one open that follows its close.                 *)
NextOpen ==
  pending.kind # "none" =>
    /\ decided = i - 1 /\ phase = "open"
    /\ (pending.kind = "sell") <=> (position # NoPosition)

(* The time stop bounds a position: its sale is decided at the latest at   *)
(* the close of bar MaxHoldBars after the one it was bought in.            *)
HeldAtMost ==
  position # NoPosition =>
    i - entryBar <= MaxHoldBars + (IF pending.kind = "sell" THEN 1 ELSE 0)

(* daily_trade_limit holds for every day, though the day of the risk       *)
(* manager is rolled at entry signals only and an order decided on the     *)
(* last bar of a day is filled, and counted, on the next day.              *)
DayEntries == \A d \in Days : entries[d] <= DailyTradeLimit

(* The counter of the risk manager is that of its day, later days have no  *)
(* entries, and a waiting order to buy belongs to its day.                 *)
DayCounts ==
  /\ risk.day <= Day(i)
  /\ risk.trades = entries[risk.day]
  /\ \A d \in Days : d > risk.day => entries[d] = 0
  /\ pending.kind = "buy" => Day(decided) = risk.day /\ risk.trades < DailyTradeLimit

(* No position without its bar, no cost without a position, and nothing    *)
(* before the warm-up is over.                                             *)
Settled ==
  /\ entryBar <= i
  /\ position = NoPosition => entryKrw = 0
  /\ position # NoPosition \/ pending.kind # "none" => i >= Warmup

Accounts == TypeOK /\ BooksBalance /\ CashCovered /\ NextOpen /\ HeldAtMost /\ Settled

IInv == Accounts /\ DayEntries /\ DayCounts
=============================================================================
