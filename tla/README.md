# ubbit in TLA+

Models, model-checking runs and proofs about **ubbit**, a trading bot for the
Upbit exchange (Python, `src/ubbit/`). The bot holds a handful of positions,
decides once per poll interval what to sell and what to buy, keeps its
positions in SQLite, and is meant to run unattended next to an account that its
owner also uses by hand. What makes it hard is not the strategy but everything
around it: an order is a call over a network that may time out after it was
accepted, books and account are two systems without a common transaction, the
process may die between any two steps, and the limits that protect the capital
are counters in memory.

`PROJECT.json` lists the components, runs, mutants, hazards, findings and
theorems, and maps every definition to the lines of code it stands for. To
repeat a run or a proof in this directory:

    tlc -config EngineBooks.cfg MCTradingEngine
    tlapm TradingEngineProof.tla

## 1. The system

| Part (`src/ubbit/`) | State it keeps | Operations | Talks to |
|---|---|---|---|
| Engine `engine.py` | `_stop`, `paused`, `_last_bar_ts`, `markets`, `_universe_refreshed_at`, `_reconciled` (memory) | `run`, `startup_checks`, `refresh_universe`, `tick`, `_manage_position`, `_open_position`, `_close_position`, `_flatten_all` | all below; one thread |
| Store `state.py` | tables `positions`, `trades`, `orders`, `equity` | one commit per call | engine; dashboard reads |
| Risk manager `risk.py` | `RiskState`: day, loss, entries, streak, pause, last exits (memory) | `roll_day`, `can_open`, `position_size_krw`, `record_entry`, `record_exit` | engine, backtest |
| Reconciliation `reconcile.py` | none | `reconcile`: rows against balances at start-up | store, broker |
| Broker `broker.py` | paper: cash and holdings (memory); live: none | `buy`, `sell`, `balances`, `equity` | Upbit client |
| Upbit client `upbit.py` | none | `_request` with retries, `place_order`, `wait_fill` | network, rate limiter |
| Rate limiter `ratelimit.py` | a token bucket per group, under a lock | `acquire`, `penalize` | threads of the client |
| Strategy, indicators, fees | none (pure) | `compute`, `entry_signal`, `exit_signal`, cost arithmetic | engine, backtest |
| Session `session.py` | none (pure) | `evaluate` | engine |
| Supervisor `supervisor.py` | engine thread, server thread | start, serve, join | operating system |
| Dashboard `dashboard.py` | `PriceCache`, request threads | `POST /api/kill`, `GET /api/live`, `GET /api/state` | engine flag, kill file, store |
| Universe `universe.py` | none | `build_universe`: the markets worth trading | engine, once per refresh interval |
| Smoke test `smoketest.py` | none | one real purchase and its sale, by hand | broker |
| Backtest `backtest.py` | cash, position, pending order of one pass | `run_backtest` | strategy, risk manager |
| Adaptation `adapt.py`, `cli.py` | `params.json`, one cache per process | `walk_forward`, `evaluate_promotion`, `ParamStore` | engine reads the file |
| Replay, validate, Monte Carlo, notifier, config, logging, deploy scripts | see `PROJECT.json` | | |

How they interact. A tick reads the kill switch and the session, the candles of
every market, then the account; it rolls the risk manager's day; it considers
an exit for every row of the store; and, if entries are allowed, an entry for
every other market. Each order goes through the broker to the client, which
posts it, repeats the POST on failures and polls the order for some seconds.
Each result is one or two commits to the store and a call to the risk manager.
The dashboard and the signals reach the engine only by two flags and a file.
`optimize` runs in processes of its own and reaches it only by a file.

What is hard, and therefore modelled: lost, late and duplicated order messages;
answers that time out while the order executes; crashes between an order and
its commit, and between two commits; failed reads and writes in the middle of a
tick; the owner's trades between any two steps; time passing and days changing
while counters are kept; threads that overtake one another at the bucket and at
the kill switch; processes that write the same file.

What makes each part correct:

* engine and store: rows and account agree; the owner's coins are not sold; no
  row vanishes without a trade; the limits hold over whole histories; every
  position ends.
* reconciliation: rows only shrink, to what the account has; a process that read
  the account begins to trade on rows the account backs.
* broker and client: a call places at most one order, comes back, never answers
  more than was executed, and when nothing failed exactly that.
* rate limiter: no window sees too many requests; the last penalty holds; a
  thread nobody overtakes does not wait itself out.
* supervisor and dashboard: the kill switch stays thrown, and no tick that
  starts after it opens a position; no page says otherwise; a signal is heeded.
* a position: sized for its stop and its conviction, counted and trailed over its whole life, not
  sold on the market it was bought on.
* universe: a refresh that fails must not stop the exits, nor drop a held market.
* smoke test: it sells what it bought and nothing else, and says what it leaves.
* backtest and walk-forward: the books balance, nothing looks ahead, a day's
  entries are bounded, the report is the sum of its tests.
* parameter store: the engine gets promoted parameters or none; a champion only
  gives way to a better one.

## 2. The modules

| Module | Models | Extends |
|---|---|---|
| `RiskManager` | `risk.py`: every method an operator on a `RiskState` record | |
| `Universe` | `build_universe`: three filters over what a refresh sees | |
| `TradingEngine` | engine, store, reconciliation and account; the core | `RiskManager`, `Universe`; refines `PositionBook` |
| `PositionBook` | what the tables `positions` and `trades` promise a reader | |
| `BrokerOrder` | the contract of a broker call | |
| `OrderGateway` | `LiveBroker` and `UpbitClient` order calls over the network | refines `BrokerOrder` |
| `SmokeTest` | the two callers of the gateway: engine and smoke test | `OrderGateway` |
| `RateLimiter` | one bucket and its threads | |
| `Supervisor` | main, engine and request threads, kill switch, signals, what the page is told | |
| `Strategy` | entry and exit rules, stop, target, trailing | |
| `PositionLife` | one row from `_open_position` to `_close_position` | `Strategy` |
| `Backtest` | `run_backtest` | `Strategy`, `RiskManager` |
| `WalkForward` | `walk_forward`: windows, chosen parameters, the report | `Backtest` |
| `ParamStore` | promotion and the parameter file | |
| `MC…` | values for TLC that a `.cfg` cannot write | |
| `LimitsProof` | the risk limits, sums over coins, the list of markets | `TradingEngineProof` |
| other `…Proof` | theorems and proofs about the module of that name (`SmokeTest` in `OrderGatewayProof`, `WalkForward` in `BacktestProof`) | |

Definitions keep the names of the code where TLA+ allows it. A definition whose
comment begins with *Slip:* is not part of the model: it is a plausible mistake
in one definition, used by a mutant in `PROJECT.json` to show that a property
notices it.

### TradingEngine

`row`, `booked` and `ledger` are the database; `coins`, `lateBuy` and
`lateSell` the exchange account and the orders nobody polls any more; `pc`,
`tick`, `todo`, `act`, `audit`, `markets`, `due` and `risk` the process. `user`, `taint` and
`opened` are history.

Every commit and every order is a step: `SubmitBuy`, execution at the exchange
(`Execute`, `CancelRest`), then `BuyFilled`, `BuyUnfilled`, `BuyTimesOut` or
`BuyReplyLost`, then `OpenRow`; for a sale `SubmitSell`, one of four outcomes,
`BookSale` (`record_trade`) and `CloseRow` (`delete_position`). Start-up is
`Boot`, `ReadBalances` or `BalancesFail`, per row `KeepRow`, `ShrinkRow` or
`BookMissing` and `DropRow`, then `FinishReconcile`. `Stop` is a crash at any
point. A tick that is `due` tries a `Refresh` first: any answer of `Selections`,
joined with the held markets, becomes the list, an empty one changes nothing,
and `RefreshFails` ends the tick. `due` is cleared before the attempt, as
`_universe_refreshed_at` is set before it. `StoreFails` and `ReadMarketFails` are exceptions that the loop of `run`
swallows. `UserBuys`, `UserSells` are the owner in the exchange's app.

Abstractions: whole units of coins at a constant price, so the 1 % tolerance of
`reconcile.py` (`DUST_RATIO`) is zero; candles, signals, session and kill
switch are choices made each tick (the switch has a model of its own); sizes
are any that the caps allow. The refresh interval is longer than a tick, so
that at most one refresh falls due while a tick runs.

A market is in `taint` from the moment its account leaves the bot's control: a
reply was lost, a wait timed out, an exit was filled in part, the process died
or a write failed over an order, or the owner sold coins of the bot. Agreement
of the books is claimed for the other markets, and a market stays in `taint`
for the rest of the history: this is the line between what the code guarantees
and what it cannot. The tables' and reconciliation's own promises
(`TablesAreBook`, `RowsBacked`, `HaltHonoured`) are claimed for every market,
tainted or not.

`PositionBook` keeps `row` and `booked` and nothing else: `Open`, `Lower`,
`Record` and `Close` are all a reader of the database can see happen. The
refinement mapping is the identity on the two; every order, crash, reading and
tick is a stutter.

### OrderGateway and BrokerOrder

The identifier of an order is drawn once per call (`Ident`, broker.py:131) and
sent with each try. Copies of a POST stay on the wire until the exchange takes
or drops them, in any order; replies are lost; a 5xx may follow an accepted
order; `wait_fill` polls until the order is final or its time is up. `clean`
says that a call has met no fault. The refinement mapping of `BrokerContract`:
what a call may still execute is the rest of its order or, while a copy might
be accepted, all that was asked for.

`TradingEngine` does not use `OrderGateway` directly. Its order steps are those
`BrokerOrder` allows, and `OrderGateway` is shown to allow no others.

### SmokeTest

The smoke test uses the broker like the engine does, on the real account: a
purchase, then a sale of what the purchase answered. `stage` says how far it is,
`faultless` that none of its calls met a fault. Whoever began is the caller
until the end, and a call in progress dies with the process. The comparison
fails a test whose sale brings back less than its purchase spent by more than
`Tolerated` per mille; what is missing within that may pass. In the code that
is 0.5 % and the prediction's own cost, to which a rise of the price between the
two orders adds, so `Tolerated` is any number.

### RateLimiter

Tokens are counted in the time it takes to earn them, so the level rises by one
per unit of the clock. The block under the lock is one step: `Grant`, or
`Measure`, which leaves what is lacking. The deadline is tested afterwards,
outside the lock and with a second reading of the clock (ratelimit.py:68), in
`TimesOut` and `Sleep`; time, grants and penalties may come in between. `read`
(history) is the first reading. `WakeUp` may come later than asked for.
`Observe` starts a window of observation anywhere. `Longest` bounds the
penalties, and `Timeout - (Longest + Cost)` is what a penalty and a token leave
of a caller's patience: more than 24 of its 30 seconds.

### Supervisor

The two parts of the kill switch, the flag and the file, are set by two steps
of each request; a tick reads them in two steps. `engaged` (history) says that
the switch was thrown and no release is under way; `early` that this was before
the present tick. Two requests that overlap, one of which releases, leave flag
and file in any combination; the properties claim nothing for that case. A page
asks on two paths: `ReadLive` reads the flag and `AnswerLive` looks for the file,
`ReadState` for the file alone; `since` says that the switch was thrown before
it asked.

### Strategy and PositionLife

Indicators are reduced to how they compare with their thresholds, ratios to
differences in ticks. `PositionLife` follows one row through the ticks. `mark`
is `_last_bar_ts`, which an exception leaves ahead of the row and a restart
forgets. `RiskKrw` stands for the equity times `risk_per_trade`; the conviction's boost of
`position_size_krw` (risk.py:134), in tenths from `Boosts`, is a choice of each
entry and kept in `boost` (history). `MaxSize` is the smallest of the other caps. An order
book gives a cost or is `Thin`, in which case the code goes on with the
configured cost. The model's ATR values exclude 0, for which the code skips
both of its ATR gates.

### Backtest

A bar is two steps: its open, where the pending order is filled, and its close,
where the next is decided. `fill_buy` spends all of its amount in whole lots.
Every combination of values the strategy distinguishes may follow every other.
`decided` and `entries` (history) give the bar at which the last order was decided,
and how many entries decided on a day were filled.

### WalkForward

`Choose` begins a fold: the training part picks any combination of two axes of
the grid (`stop_atr`, which the backtest uses, and `breakout_period`, which only
chooses the conditions that hold), and `run_backtest` starts on the test part
with the money the last test ended with. `Collect` adds its result, `Report`
writes the `OOSReport`. `made` and `carried` (history) are the sum of the trades
and of what positions still open at a test's end had gained.

### ParamStore

A file is absent, cut off, or a store. All `optimize` processes write one
temporary file; a descriptor follows its inode through a rename, so a process
may be writing to what has become the real file. `walk_forward` is the set
`Reports` of what it can return, whose folds are `WalkForward`'s. `overlap` (history) says that two processes
have been alive at once: nothing in the code prevents it, and only
`EngineOnPromoted` survives it.

## 3. The runs

| Run | Question | Bounds | States |
|---|---|---|---|
| `EngineBooks` | do books and account agree, whatever goes wrong? | 2 markets, 1 position, live, 1 fault, 1 crash, 1 owner's trade, orders of up to 2 units | 2.4 M |
| `EngineLimits` | do the risk limits hold over whole histories? | 2 markets, 2 positions, paper, clock to 3 with days of 2, losing sales | 282 k |
| `EngineProgress` | does every position end? | 2 markets, 1 position, live, 1 fault, 1 crash, six looks per market, top 1, refreshes that fail without bound, fairness | 177 k |
| `OrderGateway` | is a broker call what its callers take it for? | 2 calls of up to 3 units, 2 tries, engine or smoke test, one unit of 3 tolerated | 36 k |
| `RateLimiter` | are rate, penalty and patience kept? | 2 threads, capacity 3, cost 2, penalties 1 and 3, patience 6 (slack 1), clock to 7 | 4.0 M |
| `Supervisor` | do kill switch, page and signals work? | 2 overlapping requests, 1 page | 14 k |
| `PositionLife` | is a position what it was sized and counted for? | 3 prices, 2 ATR values, 3 entry modes, boosts 1.0 and 1.6, 4 bars, 2 faults, 1 restart | 90 k |
| `Backtest` | is the simulation's account sound, and the report over it? | 3 folds of 5 bars, days of 4 bars, 2 prices, 2 ATR values, 2 stops, 2 breakout periods | 151 k |
| `ParamStore` | is the parameter file sound? | 2 processes, 2 markets, 3 promotions | 619 k |
| `LossLimitAfterRestart`, `CtrlC`, `AdaptedStop` | findings, see section 6 | | |

Why the bounds are enough to mean something. Two markets are needed for an
entry after an exit in one tick and for two rows competing for a limit; no
action relates three. Orders of two units make partial execution possible. One
fault and one crash together already reach the interesting compositions (an
order that times out, a crash, a reconciliation over what it left, a second
start); the proofs of section 5 remove these bounds for all safety properties
of `EngineBooks`. Two tries of a POST make a late first copy and a second one;
two calls let a copy of the first arrive in the second; of three units one may
be missing from the smoke test's sale within the tolerance, and two not. Three
prices with a round trip of one or two ticks reach every exit rule, and bars
up to twice the time stop's reach show it late. The backtest's run has two
prices, since its questions are about money and order and not about exit
rules, but three folds, so that two can outvote one, and a midnight in each
test. Six looks are one for each way build_universe passes or drops a market,
and a top 1 of two markets makes a held market fall out of the selection. A
clock of three with days of two has a midnight and a cooldown over it. Where a
run has a fault bound of 0 or a clock of 0 it leaves that aspect to another
run: `EngineBooks` has no time because time matters to limits only,
`EngineLimits` no crash because the limits do not survive one (section 6).

`MidnightInTick` is a bound of its own: `EngineLimits` keeps each tick within a
day. With it TRUE the limits on entries, exposure and re-entry still hold, by
TLC; the loss limit does not, since a sale after midnight is credited to the
day the tick began on and cleared by the next `roll_day` (engine.py:482).
`DailyEntries` counts entries on the day their tick began.

That a variable has its type is proved for every module (`TypeCorrect`) and
checked by TLC only where it says more, in `EngineBooks`: the account never goes
below zero coins.

`OrderGateway` turns off the deadlock check: after its last call and with
nothing at the exchange the model is done. All other runs check deadlock.

### Properties

*Engine.* `Accounted`: in a market nothing was lost for, coins are the owner's
plus the row plus what the order in hand has moved, at every step.
`OwnerCoinsSafe`: the owner's coins are never sold there. `RowsBounded`:
`max_concurrent` bounds the rows over all failures. `TablesAreBook`: the engine
implements `PositionBook`: no purchase overwrites a row or is one too many, no
row grows, and none goes to zero without a trade in the table, over a crash
between the two commits too. `RowsBacked`: a process that read its balances
begins to trade with no row above what it read. `HaltHonoured`: with
`halt_on_mismatch` a process that compared its rows with the account trades only
if they agreed. Neither speaks of a process whose read failed, which trades on
rows nobody compared, nor `HaltHonoured` of the start that follows a halt
(section 6).
`DailyEntries`, `ExposureCap`, `ReentryHonoured`, `LossLimitHonoured`: the
limits, judged by the account and the trades table instead of the counters that
enforce them. `PositionsClose`: every position ends, or its market was tainted,
over refreshes that fail and markets that fall out of the universe.

*Broker.* `AtMostOnce`, `CallReturns`, `BrokerContract`. `HonestAnswer`: a call
never answers more than its order has executed, over lost replies, errors and
the time limit; one that met no fault answers exactly that, of an order that is
final, and leaves no copy behind. A call that ran into the time limit may answer
less than executes later: that is the code's, and `Accounted` leaves its market
out. *Smoke test.* `NeverOversold`: whatever is lost or late, the sale is covered by what the
purchase executed. `NothingLeftBehind`: a test that met no fault leaves no
order when it gave up before the sale or passed, and no coins, or when it passed
no more than its comparison tolerates.

*Limiter.* `WindowBound`: capacity and earnings bound every window;
`PenaltyHonoured`: nothing is granted before the end of the last penalty, which a
shorter one may have brought forward; `InTime`: a thread times out only if
another was granted tokens, or penalised the bucket, since it came, or if it
stood still for longer than the slack between its two readings of the clock.

*Supervisor.* `KillSurvives`, `KillRespected`, `SignalHeeded`, and `PageHonest`: no
answer to a page says that trading goes on under a switch thrown before it asked.

*Position.* `PeakTrue`, `HeldCount`, `NoChurn`, `PositionsEnd`. `RiskAsSized`: the
stop that is placed loses at most `risk_per_trade` of the equity times the boost
of that entry, over the slip of the purchase and the cost the book gave.

*Backtest.* `BooksBalance`, `CashCovered`, `NextOpen`, `HeldAtMost`; `DayEntries`:
the entries decided on a day and filled stay within its limit, over orders that
wait past midnight. *Walk-forward.* `ReportAgrees`: the reported return is what
trades made and open positions gained; `MajorityWins`: of each parameter by
itself, the value that more than half of the folds chose is recommended.

*Parameters.* `EngineOnPromoted`, `FileWhole`, `ChampionsRise`.

## 4. Fairness

Liveness is claimed only from what the code's own scheduling gives.

* `TradingEngine!FairSpec`: weak fairness of `Engine`, since `run` catches
  every exception and loops; strong fairness of `SubmitSell`, since the time
  stop keeps making the exit signal whenever the candles can be read (that a
  row ends so is `PositionsEnd` of `PositionLife`); strong fairness of
  `Execute` and weak fairness of late executions: the exchange does not leave a
  market order open for good.
* `SmokeTest!FairTestSpec`: weak fairness of the client thread, whose sleeps and
  time limits are finite. Nothing is assumed of network or exchange.
* `Supervisor!FairSpec`: weak fairness of the engine thread, strong fairness of
  `EndTick` (a tick's loops are finite and every broker call returns, which is
  `CallReturns`), weak fairness of the end of the start-up checks. None for the
  main thread or the requests.
* `PositionLife!FairSpec`: bars go by, and strong fairness of a tick that can
  read the market and whose sale is not refused.

## 5. What is proved

TLAPS checks every theorem for all values of the constants that the named
assumptions allow: any number of markets, threads, calls, bars, processes,
faults and crashes.

* **TradingEngine.** `IInv` = `TypeOK`, `LockedCovered`, `Points`, `Accounted`,
  `AtEntries`, `RowsBounded`. `Accounted` alone is not inductive: a sale could
  execute more than the row has, or a row be opened over another. `Points`
  says what the engine knows at each point of its program (what is still to
  sell is covered by the row, the market bought in has no row, the trade of a
  row about to be deleted is written, balances read at start-up are above the
  rows of untainted markets); `LockedCovered` that the exchange never promises
  coins it has not. `AtEntries` makes the hand-kept count of `tick` the number
  of rows. From it: `TypeCorrect`, `BooksAgree`, `OwnerSafe`,
  `PositionsBounded`, `TradeForEveryRow`, `RowsCorrectedDown`,
  `TradingOnBackedRows`, `MismatchHalts`.
  `ImplementsPositionBook`: every step of the engine is a step of
  `PositionBook` or a stutter. It needs `OrdersSized` besides: a sale is booked
  only if something of it executed (else a trade could be recorded for a row
  reconcile has emptied), and no row is above the largest order.
  `PaperBooksAgree`: what `Accounted` excepts comes from the exchange, the
  owner and the end of a process alone; on paper, while the process lives and
  its writes succeed, `taint` stays empty, because a sale asks for the whole
  row (`SaleWhole`).
* **Limits** (`LimitsProof`). The counters live in memory, so each limit is one
  of a process. `DailyLimitPerProcess`: over any restarts, a day has at most
  `daily_trade_limit` entries for each process that ran, from `DayCounts` (the
  day of the counter is never behind an entry's, what earlier processes entered
  is within their allowance, and no later day has entries); `DailyLimit` is the
  case without a restart. `ReentryKept`, from `LastExits` (the risk manager
  remembers a sale no older than the trades table does), and `LossLimitKept`,
  from `LossCounts` (the counter is what the table has for its day, but for the
  sale just written), are about a process that lives on (`MaxCrashes = 0`).
  `LossLimitKept` has two more conditions, no failed write and no midnight
  inside a tick; TLC finds a counterexample to the loss limit when either is
  dropped, as it does for a restart.
* **Exposure** (`ExposureKept`). What the bot has invested is a sum over all
  markets, what the tick reads one over those with a price, and the cap is
  applied to the second. `ExposureCounts` keeps the first below the second at
  every point of a tick; it needs that no coin of the bot's is in a market the
  tick does not read, which is `PaperCoins` or `ListedCoins`. Conditions: no
  failed request, and with the live broker no crash and a fixed list of
  markets. Each is needed: a market without a price counts for nothing; an
  order that executes after its process died is not in the reading it competes
  with; and, by TLC, a sale that was filled in part leaves coins without a row
  (engine.py:481), whose market the next refresh drops, after which they count
  no more and the cap is exceeded.
  The sums are folds that CHOOSE their elements. What is needed of them
  (`SumTake`, `SumSplit`, `SumGrows`, `SumChange`) is proved without an
  induction theorem: `SmallestSet` gives, from the library's well-founded
  ordering of finite sets, a smallest set for which a claim fails, and the fold
  of one element less refutes it.
* **Universe** (`LimitsProof`). `FewMarketsNoneMissed`: while at most 3 `top_n` markets are liquid,
  the early slices drop nothing and the answer is the `top_n` best of all that
  pass the filters; with more, a cheap and moving market may fall to a more
  liquid one that is dropped later. `ListKeepsBounded`: the list is the
  configured one or has at most `top_n + max_concurrent` markets, over any
  number of refreshes and crashes.
* **OrderGateway.** `IInv` adds where orders and copies can be and what a clean
  call has left on the wire. `OneOrderPerCall`, `AnswersHonest` (`CleanAnswer`: the
  detail a poll takes for final counts all its order executed), and
  `ImplementsContract`: every step is a step of `BrokerOrder` or a stutter.
  `TestSellsItsOwn` adds `TestOK`, what each stage of the smoke test knows, and
  `TestLeavesNothing` `QuietOK`: without a fault the purchase is settled before
  the sale, which asks for all of it (the bound on calls leaves room for two), so
  that what the sale is short of is what the comparison sees.
* **RateLimiter.** The argument is a potential: granted tokens plus the level
  never exceed the capacity and the time passed, and the level never runs ahead
  of the last penalty. `RequestsBounded`, `PenaltyKept`; `NoTimeoutAlone`: what a
  thread nobody overtook still lacks is earned at `Longest + Cost` after it came
  at the latest (`SoonEnough`), so at its reading under the lock its deadline is
  at least the slack away (`ReadInTime`).
* **Supervisor.** `SwitchStays`, `NoEntryAfterKill`, `PageTold`: no release is under way
  while `engaged`, and a tick or a page that began afterwards has read the switch.
* **PositionLife.** `LossAsSized` from the rounding down of `Size` and the cost
  in its divisor (`SizeFacts`). A bar that is marked and not counted is owed to one bound
  of `HeldCount`, one that is counted and not marked to the other (`BarsTrue`).
  `TrailKnowsAll`, `BarsCounted`. Two theorems carry a condition: `LossAsSized`
  that no adapted `stop_atr` is below the configured one (`AdaptedStop` shows
  what happens otherwise), `BoughtToKeep` that a purchase slips by less than
  its stop.
* **Backtest.** `BooksAlwaysBalance`, `CashAlwaysCovers`, `NoLookAhead`,
  `HoldingBounded`, `DailyLimitKept`, over any candles; `TestsKeep`, the same for
  every test of a walk-forward, since a fold begins in a state in which `IInv` holds;
  `ReportsAgree` from `WalkInv` (between tests the money is what was made and
  carried).
  `MajorityRecommended`: a value that more than half of the folds chose for a
  parameter is its `ModeOf` wherever it stands, since any other would have to be
  met more often than there are folds left (`MajorityIsMode`); so it is on each
  axis, whichever folds make the majority there (`MajorityPerAxis`); `WalkInv`
  keeps the report equal to the winner of the choices.
* **ParamStore.** `PromotedOnly` without a condition; `WholeFile` and
  `ChampionsOnlyRise` while no two processes overlap, since then the one that
  runs works on what the file holds (`OneAtATime`).

Only model-checked: the liveness properties (`PositionsClose`, `CallReturns`,
`SignalHeeded`, `PositionsEnd`), since TLAPS treats neither fairness nor
ENABLED. Every safety property of a passing run is a theorem. The conditions
of those that have one (`ReentryKept`, `LossLimitKept`, `ExposureKept`,
`LossAsSized`, `BoughtToKeep`, `WholeFile`, `ChampionsOnlyRise`) are hypotheses
on constants or on the history, satisfied by the runs that check the property.
No module has a RECURSIVE operator.

## 6. Findings

1. `LossLimitAfterRestart`: the daily loss limit is forgotten by a restart
   (`RiskState` is memory, risk.py:39), against README.md:337 of the bot.
2. `CtrlC`: the engine's SIGINT handler (engine.py:93) replaces the default one,
   so `serve_forever` never sees KeyboardInterrupt: Ctrl+C stops the engine and
   leaves the dashboard up, the state supervisor.py:14-15 says does not occur.
3. `AdaptedStop`: with adaptive parameters a position is sized for one stop and
   gets another (engine.py:382), against README.md:336. The run gives no boost,
   so that the whole excess is the stop's.

Two disagreements of documents with code are stated here and refuted by no run:

* README.md:336 fixes the loss of a trade at 0.4 to 0.5 % of the capital, and
  risk.py:118 at `risk_per_trade`. `position_size_krw` multiplies it by the
  conviction's boost (risk.py:134-135), up to `conviction_max`, 1.6, which
  README.md:446 describes: a trade of full conviction is sized to lose 1.6 times
  `risk_per_trade`. `RiskAsSized` states the bound with the boost.
* README.md:548 has a mismatch keep the bot from starting. A read of the
  balances that fails is reported as a clean comparison (reconcile.py:70-74),
  on purpose, and the bot starts on rows nobody compared. `RowsBacked` and
  `HaltHonoured` are about processes that compared.

Met on the way, confirmed by TLC on earlier versions of the runs, and kept as
hazards: a sale that was filled in part deletes the whole row (engine.py:481);
`halt_on_mismatch` halts once, since the database is corrected before it does
and the service manager starts the process again (engine.py:166); a
sale whose reply was lost is repeated and may sell the owner's coins
(broker.py:144); a kill switch thrown during a tick still lets that tick buy
(engine.py:253). The bucket admits capacity plus a second's earnings in one
second, 16 orders, where ratelimit.py:18 speaks of 70 % of 12. A book too thin
for the order does not stop it (engine.py:500 against fees.py:166). The mode of
the folds' parameters, axis by axis, may be a combination no fold tested
(adapt.py:187 against adapt.py:15-16). The smoke test reports a purchase whose
reply was lost as a failed one (smoketest.py:100), coins or not. After a kill
request whose write failed, `/api/live` says paused and `/api/state` does not
(dashboard.py:114, 189). A backtest credits a loss sold on a new day to the day
before and forgets it at the next signal (backtest.py:204).

## 7. Not modelled

Replay (it drives the engine's own tick with another clock), the statistics of
`validate` and `montecarlo`, the notifier, authentication, logging, the reading
of configuration files, the page and the rest of the dashboard's JSON, most
commands of `cli.py`, and the numerical recursions of the indicators: read-only,
statistical or presentational parts, listed with reasons in `PROJECT.json`. The
session's clock arithmetic is a choice of every tick. Of the engine, restarts
of the paper broker with rows left in the database and dust notifications are
left out; of `walk_forward`, the scoring of the training part. `src/tests` was
read as documentation and is not modelled.

## 8. Plan

Done, in this order: `RiskManager` and `TradingEngine`; `OrderGateway` and its
contract; `RateLimiter`; `Supervisor`; `Strategy` and `PositionLife`;
`Backtest`; `ParamStore`; the proofs about each. Then `Universe` in the engine;
`SmokeTest`; the page in `Supervisor`; days in `Backtest`; `WalkForward`; the
proofs about these and about the limits. Then the sums and the exposure, the
majority, the limits over restarts, `PositionBook`, and the selection of
markets.

Next:

1. Theorems about single calls of `LimitsProof` that drop a condition: the
   cool-down and the day's loss for each process of a history with restarts,
   which needs the start of the process as a history variable.
2. A refinement of `BrokerOrder`'s environment: that the outcomes of an order
   in `TradingEngine` are all of `BrokerOrder`'s, up to the order of steps
   that commute. The converse inclusion alone would say little, since the
   contract is meant to allow more than any caller sees.
3. Paper restarts, and a quantity for partial exits in the trades table.
4. The session's clock arithmetic as operators checked against a definition by
   intervals.
