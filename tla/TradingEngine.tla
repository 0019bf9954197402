--------------------------- MODULE TradingEngine ---------------------------
(***************************************************************************)
(* The trading engine (src/ubbit/engine.py) between its SQLite store and   *)
(* the exchange account.  One thread runs start-up, then ticks: read the   *)
(* market, consider an exit for every position row, then entries for the   *)
(* other markets.  Every database commit and every order is a step of its  *)
(* own, so that a crash, a late execution, or the owner of the account     *)
(* acting in the exchange's app can come between any two of them.          *)
(*                                                                         *)
(* Quantities are small whole units at a constant price: a coin unit is    *)
(* worth one unit of value.  What the strategy decides, candles, costs and *)
(* sizes below the caps are choices (see README).                          *)
(***************************************************************************)
EXTENDS RiskManager, Universe, Functions

CONSTANTS
  OrderQty,           \* the largest order, in coin units
  PnlValues,          \* net_pnl a sale may realise
  Live,               \* TRUE: LiveBroker, FALSE: PaperBroker
  ReconcileOnStart,   \* reconcile_on_start
  HaltOnMismatch,     \* halt_on_mismatch
  UniverseAuto,       \* universe_auto
  StartMarkets,       \* markets, the list the configuration gives
  MidnightInTick,     \* bound: may the day change while a tick runs
  MaxClock,           \* bound on the clock
  MaxFaults,          \* bound on lost replies, time-outs and failed reads
  MaxCrashes,         \* bound on process stops
  MaxUserActs,        \* bound on the owner's trades in the app
  UserStart           \* coins of a market the owner may hold from the start

(* What the configuration and the bounds may be.                           *)
EngineParams ==
  /\ IsFiniteSet(Markets) /\ Markets # {}
  /\ OrderQty \in Nat \ {0}
  /\ PnlValues \subseteq Int
  /\ {Live, ReconcileOnStart, HaltOnMismatch, UniverseAuto, MidnightInTick} \subseteq BOOLEAN
  /\ StartMarkets \subseteq Markets
  /\ {MaxClock, MaxFaults, MaxCrashes, MaxUserActs} \subseteq Nat
  /\ UserStart \subseteq Nat

ASSUME EngineConstants == EngineParams

VARIABLES
  \* the database
  row,        \* qty of the positions row of a market, 0 where there is none
  booked,     \* trades rows that carry the opened_at of the present row
  ledger,     \* of the trades table: net_pnl by closing day, last closed_at
  \* the exchange account
  coins,      \* coins of a market, locked ones included
  lateBuy,    \* what orders the engine no longer watches may still buy
  lateSell,   \* and sell
  \* the process
  pc,         \* where the engine thread is
  risk,       \* the RiskState in memory
  tick,       \* what the present tick read: see NoTick
  expo,       \* exposure, as the present tick last read it
  todo,       \* markets the present loop has not come to
  act,        \* the order, or the row, being worked on: see NoAct
  audit,      \* what reconcile read: see NoAudit
  markets,    \* self.markets, the list entries are considered for
  due,        \* is a refresh of that list due
  \* the rest of the world
  clock, crashes, faults, userActs,
  \* history, to state properties with
  user,       \* the coins that are the owner's own
  taint,      \* markets whose account left the bot's control: see README
  opened      \* rows opened, by the day of the tick that opened them

dbVars   == <<row, booked, ledger>>
exVars   == <<coins, lateBuy, lateSell>>
univ     == <<markets, due>>
procVars == <<pc, risk, tick, expo, todo, act, audit, univ>>
envVars  == <<clock, crashes, faults, userActs>>
histVars == <<user, taint, opened>>
vars     == <<dbVars, exVars, procVars, envVars, histVars>>

Days  == {Day(t) : t \in 0..MaxClock}
Modes == {"open", "exitsOnly", "flatten"}

Held == {m \in Markets : row[m] > 0}

(* The value broker.equity puts on the coins: those with a price.          *)
Exposure(priced) == SumFunctionOnSet(coins, priced)

NoTick  == [now |-> 0, mode |-> "open", priced |-> {}, open |-> 0]
Act(m, rem) == [m |-> m, rem |-> rem, done |-> 0, pnl |-> 0]
NoAct   == Act(CHOOSE m \in Markets : TRUE, 0)
NoAudit == [bal |-> [m \in Markets |-> 0], mismatch |-> FALSE]

Ordering == pc \in {"selling", "buying"}
Working  == {"selling", "sold", "booked", "buying", "bought"}
InFault  == faults < MaxFaults

(* The writes of Store, each committed on its own.                         *)
upsert_position(m, qty) == row' = [row EXCEPT ![m] = qty]
record_trade(m)         == booked' = [booked EXCEPT ![m] = @ + 1]
delete_position(m) ==
  /\ row' = [row EXCEPT ![m] = 0]
  /\ booked' = [booked EXCEPT ![m] = 0]

Init ==
  /\ row = [m \in Markets |-> 0]
  /\ booked = [m \in Markets |-> 0]
  /\ ledger = [pnl |-> [d \in Days |-> 0], last |-> [m \in Markets |-> Never]]
  /\ user \in [Markets -> UserStart]
  /\ coins = user
  /\ Live \/ user = [m \in Markets |-> 0]
  /\ lateBuy = [m \in Markets |-> 0]
  /\ lateSell = [m \in Markets |-> 0]
  /\ pc = "down"
  /\ risk = FreshRisk(0)
  /\ tick = NoTick
  /\ expo = 0
  /\ todo = {}
  /\ act = NoAct
  /\ audit = NoAudit
  /\ markets = StartMarkets /\ due = FALSE
  /\ clock = 0 /\ crashes = 0 /\ faults = 0 /\ userActs = 0
  /\ taint = {}
  /\ opened = [d \in Days |-> 0]

-----------------------------------------------------------------------------
(* Start-up: startup_checks and reconcile.                                 *)

(* The memory of a new process.  "Never refreshed" is the time 0 of a clock*)
(* that counts from the start of the machine: due, unless that was recent. *)
Boot ==
  /\ pc = "down"
  /\ pc' = IF Live /\ ReconcileOnStart THEN "boot" ELSE "idle"
  /\ risk' = FreshRisk(clock)
  /\ markets' = StartMarkets
  /\ due' \in {FALSE, UniverseAuto}
  /\ UNCHANGED <<dbVars, exVars, tick, expo, todo, act, audit, envVars, histVars>>

(* Slip: coins without a row are no mismatch.                              *)
MismatchOfRows(bal) == \E m \in Markets : row[m] > 0 /\ bal[m] < row[m]

(* A row that claims more than the account has, or coins without a row.    *)
Mismatch(bal) ==
  \E m \in Markets : (row[m] > 0 /\ bal[m] < row[m]) \/ (row[m] = 0 /\ bal[m] > 0)

ReadBalances ==
  /\ pc = "boot"
  /\ pc' = "reconcile"
  /\ audit' = [bal |-> coins, mismatch |-> Mismatch(coins)]
  /\ todo' = Held
  /\ UNCHANGED <<dbVars, exVars, risk, tick, expo, act, univ, envVars, histVars>>

(* reconcile returns an empty report when balances() raises: a clean one.  *)
BalancesFail ==
  /\ pc = "boot" /\ InFault
  /\ pc' = "idle"
  /\ faults' = faults + 1
  /\ UNCHANGED <<dbVars, exVars, risk, tick, expo, todo, act, audit, univ,
                 clock, crashes, userActs, histVars>>

(* Slip: a surplus is taken over into the row.                             *)
KeepRowAdopts(m) ==
  /\ pc = "reconcile" /\ m \in todo
  /\ audit.bal[m] >= row[m]
  /\ upsert_position(m, audit.bal[m])
  /\ todo' = todo \ {m}
  /\ UNCHANGED <<booked, ledger, exVars, pc, risk, tick, expo, act, audit, univ, envVars, histVars>>

KeepRow(m) ==
  /\ pc = "reconcile" /\ m \in todo
  /\ audit.bal[m] >= row[m]
  /\ todo' = todo \ {m}
  /\ UNCHANGED <<dbVars, exVars, pc, risk, tick, expo, act, audit, univ, envVars, histVars>>

ShrinkRow(m) ==
  /\ pc = "reconcile" /\ m \in todo
  /\ 0 < audit.bal[m] /\ audit.bal[m] < row[m]
  /\ upsert_position(m, audit.bal[m])
  /\ todo' = todo \ {m}
  /\ UNCHANGED <<booked, ledger, exVars, pc, risk, tick, expo, act, audit, univ, envVars, histVars>>

(* The coins are gone: a trade with net_pnl 0 is recorded, then the row is *)
(* deleted, in two commits.  The risk manager is not told.                 *)
BookMissing(m) ==
  /\ pc = "reconcile" /\ m \in todo
  /\ audit.bal[m] = 0
  /\ record_trade(m)
  /\ ledger' = [ledger EXCEPT !.last[m] = clock]
  /\ act' = Act(m, 0)
  /\ pc' = "dropping"
  /\ UNCHANGED <<row, exVars, risk, tick, expo, todo, audit, univ, envVars, histVars>>

(* Slip: the row of the missing coins stays.                               *)
DropRowNever ==
  /\ pc = "dropping"
  /\ todo' = todo \ {act.m}
  /\ act' = NoAct
  /\ pc' = "reconcile"
  /\ UNCHANGED <<dbVars, exVars, risk, tick, expo, audit, univ, envVars, histVars>>

DropRow ==
  /\ pc = "dropping"
  /\ delete_position(act.m)
  /\ todo' = todo \ {act.m}
  /\ act' = NoAct
  /\ pc' = "reconcile"
  /\ UNCHANGED <<ledger, exVars, risk, tick, expo, audit, univ, envVars, histVars>>

FinishReconcile ==
  /\ pc = "reconcile" /\ todo = {}
  /\ pc' = IF HaltOnMismatch /\ audit.mismatch THEN "down" ELSE "idle"
  /\ audit' = NoAudit
  /\ UNCHANGED <<dbVars, exVars, risk, tick, expo, todo, act, univ, envVars, histVars>>

-----------------------------------------------------------------------------
(* The tick up to the reading of the account.                              *)

(* The kill switch and the session are read once, first.  "exitsOnly" is a *)
(* kill switch seen, or a session that refuses entries.  A refresh of the  *)
(* market list counts as done before it is tried.                          *)
StartTick ==
  /\ pc = "idle"
  /\ \E mode \in Modes : tick' = [NoTick EXCEPT !.mode = mode]
  /\ pc' = IF due THEN "refresh" ELSE "fetch"
  /\ due' = FALSE
  /\ UNCHANGED <<dbVars, exVars, risk, expo, todo, act, audit, markets, envVars, histVars>>

(* No market selected, or the list of markets failed: the old list stays.  *)
(* A market held stays listed until the next refresh, also after its sale. *)
Refresh ==
  /\ pc = "refresh"
  /\ \E look \in [Markets -> Looks] : \E selected \in Selections(look) :
       markets' = IF selected = {} THEN markets ELSE selected \cup Held
  /\ pc' = "fetch"
  /\ UNCHANGED <<dbVars, exVars, risk, tick, expo, todo, act, audit, due, envVars, histVars>>

(* Slip: a refresh counts as done when it succeeds.                        *)
RefreshFailsStaysDue ==
  /\ pc = "refresh"
  /\ tick' = NoTick
  /\ due' = TRUE
  /\ pc' = "idle"
  /\ UNCHANGED <<dbVars, exVars, risk, expo, todo, act, audit, markets, envVars, histVars>>

(* Anything but an UpbitError in it ends the tick, before any exit.        *)
RefreshFails ==
  /\ pc = "refresh"
  /\ tick' = NoTick
  /\ pc' = "idle"
  /\ UNCHANGED <<dbVars, exVars, risk, expo, todo, act, audit, univ, envVars, histVars>>

(* By the time the tick has read the market the next refresh may be due.   *)
TimeToRefresh == due' \in {FALSE, UniverseAuto} /\ UNCHANGED markets

(* Candles, clock, equity, roll_day, in this order.  A market whose candle *)
(* request returns no row has no price, and its coins count for nothing.   *)
ReadMarket ==
  /\ pc = "fetch"
  /\ \E priced \in SUBSET (markets \cup Held) :
       /\ IF priced = markets \cup Held
          THEN UNCHANGED faults ELSE InFault /\ faults' = faults + 1
       /\ tick' = [now |-> clock, mode |-> tick.mode, priced |-> priced, open |-> 0]
       /\ expo' = Exposure(priced)
  /\ risk' = RollDay(risk, clock)
  /\ todo' = Held
  /\ TimeToRefresh
  /\ pc' = "exits"
  /\ UNCHANGED <<dbVars, exVars, act, audit, clock, crashes, userActs, histVars>>

(* A request that raises ends the tick: no exit is considered.             *)
ReadMarketFails ==
  /\ pc = "fetch" /\ InFault
  /\ faults' = faults + 1
  /\ tick' = NoTick /\ expo' = 0
  /\ TimeToRefresh
  /\ pc' = "idle"
  /\ UNCHANGED <<dbVars, exVars, risk, todo, act, audit, clock, crashes, userActs, histVars>>

-----------------------------------------------------------------------------
(* Exits.                                                                  *)

(* No candles, no exit signal, a dust position, or a sale refused at once: *)
(* the row stays as it is until the next tick.                             *)
KeepPosition(m) ==
  /\ pc = "exits" /\ m \in todo
  /\ todo' = todo \ {m}
  /\ UNCHANGED <<dbVars, exVars, pc, risk, tick, expo, act, audit, univ, envVars, histVars>>

Sellable(m) == coins[m] - lateSell[m]

(* Slips: all the account has is sold; a balance is not needed.            *)
SellAll(m)     == IF row[m] > 0 THEN Sellable(m) ELSE 0
SellBlindly(m) == row[m]

(* The exchange takes a sale of the row's quantity when that many coins    *)
(* are not locked; the paper broker sells what it has, if it has any.      *)
SellSize(m) ==
  IF Live THEN IF Sellable(m) >= row[m] THEN row[m] ELSE 0
  ELSE IF coins[m] < row[m] THEN coins[m] ELSE row[m]

(* A position without candles can be sold in a flatten tick alone, at the  *)
(* ticker's price.                                                         *)
SubmitSell(m) ==
  /\ pc = "exits" /\ m \in todo
  /\ m \in tick.priced \/ tick.mode = "flatten"
  /\ SellSize(m) > 0
  /\ act' = Act(m, SellSize(m))
  /\ pc' = "selling"
  /\ UNCHANGED <<dbVars, exVars, risk, tick, expo, todo, audit, univ, envVars, histVars>>

(* Slip: the row is deleted first.                                         *)
SellFilledUnbooked ==
  /\ pc = "selling" /\ act.rem = 0 /\ act.done > 0
  /\ pc' = "booked"
  /\ UNCHANGED <<dbVars, exVars, risk, tick, expo, todo, act, audit, univ, envVars, histVars>>

(* wait_fill saw "done" or "cancel", with something executed.              *)
SellFilled ==
  /\ pc = "selling" /\ act.rem = 0 /\ act.done > 0
  /\ pc' = "sold"
  /\ UNCHANGED <<dbVars, exVars, risk, tick, expo, todo, act, audit, univ, envVars, histVars>>

(* ... and nothing executed: the position is kept for the next tick.       *)
SellUnfilled ==
  /\ pc = "selling" /\ act.rem = 0 /\ act.done = 0
  /\ pc' = "exits"
  /\ todo' = todo \ {act.m}
  /\ act' = NoAct
  /\ UNCHANGED <<dbVars, exVars, risk, tick, expo, audit, univ, envVars, histVars>>

(* wait_fill gave up: what executed so far is taken for the whole sale.    *)
SellTimesOut ==
  /\ pc = "selling" /\ Live /\ InFault /\ act.rem > 0
  /\ lateSell' = [lateSell EXCEPT ![act.m] = @ + act.rem]
  /\ IF act.done > 0
     THEN /\ pc' = "sold" /\ act' = [act EXCEPT !.rem = 0]
          /\ UNCHANGED todo
     ELSE /\ pc' = "exits" /\ act' = NoAct
          /\ todo' = todo \ {act.m}
  /\ taint' = taint \cup {act.m}
  /\ faults' = faults + 1
  /\ UNCHANGED <<dbVars, coins, lateBuy, risk, tick, expo, audit, univ,
                 clock, crashes, userActs, user, opened>>

(* The reply to the order, or one of the polls, was lost: an order the     *)
(* exchange works on is reported as a sale that failed.                    *)
SellReplyLost ==
  /\ pc = "selling" /\ Live /\ InFault
  /\ lateSell' = [lateSell EXCEPT ![act.m] = @ + act.rem]
  /\ pc' = "exits"
  /\ todo' = todo \ {act.m}
  /\ act' = NoAct
  /\ taint' = taint \cup {act.m}
  /\ faults' = faults + 1
  /\ UNCHANGED <<dbVars, coins, lateBuy, risk, tick, expo, audit, univ,
                 clock, crashes, userActs, user, opened>>

BookSale ==
  /\ pc = "sold"
  /\ \E pnl \in PnlValues :
       /\ act' = [act EXCEPT !.pnl = pnl]
       /\ ledger' = [pnl  |-> [ledger.pnl EXCEPT ![Day(clock)] = @ + pnl],
                     last |-> [ledger.last EXCEPT ![act.m] = clock]]
  /\ record_trade(act.m)
  /\ pc' = "booked"
  /\ UNCHANGED <<row, exVars, risk, tick, expo, todo, audit, univ, envVars, histVars>>

(* The whole row goes, whatever part of it was sold.                       *)
CloseRow ==
  /\ pc = "booked"
  /\ delete_position(act.m)
  /\ risk' = RecordExit(risk, act.m, act.pnl, clock)
  /\ taint' = IF act.done < row[act.m] THEN taint \cup {act.m} ELSE taint
  /\ todo' = todo \ {act.m}
  /\ act' = NoAct
  /\ pc' = "exits"
  /\ UNCHANGED <<ledger, exVars, tick, expo, audit, univ, envVars, user, opened>>

FinishExits ==
  /\ pc = "exits" /\ todo = {}
  /\ IF tick.mode = "open"
     THEN /\ pc' = "entries"
          /\ todo' = markets
          /\ tick' = [tick EXCEPT !.open = Cardinality(Held)]
          /\ UNCHANGED expo
     ELSE /\ pc' = "idle"
          /\ tick' = NoTick /\ expo' = 0
          /\ UNCHANGED todo
  /\ UNCHANGED <<dbVars, exVars, risk, act, audit, univ, envVars, histVars>>

-----------------------------------------------------------------------------
(* Entries.                                                                *)

(* Not listed, no candles, held already, no signal, illiquid, refused by a *)
(* gate, too small, eaten by the measured cost, or an order that failed.   *)
SkipMarket(m) ==
  /\ pc = "entries" /\ m \in todo
  /\ todo' = todo \ {m}
  /\ UNCHANGED <<dbVars, exVars, pc, risk, tick, expo, act, audit, univ, envVars, histVars>>

(* can_open rolls the day itself, to the time the tick started with.       *)
SubmitBuy(m) ==
  LET rolled == RollDay(risk, tick.now)
  IN  /\ pc = "entries" /\ m \in todo
      /\ m \in tick.priced
      /\ row[m] = 0
      /\ CanOpen(rolled, m, tick.open, expo, tick.now)
      /\ risk' = rolled
      /\ \E size \in SizesFor(expo, OrderQty) :
           act' = Act(m, size)
      /\ pc' = "buying"
      /\ UNCHANGED <<dbVars, exVars, tick, expo, todo, audit, univ, envVars, histVars>>

BuyFilled ==
  /\ pc = "buying" /\ act.rem = 0 /\ act.done > 0
  /\ pc' = "bought"
  /\ UNCHANGED <<dbVars, exVars, risk, tick, expo, todo, act, audit, univ, envVars, histVars>>

BuyUnfilled ==
  /\ pc = "buying" /\ act.rem = 0 /\ act.done = 0
  /\ pc' = "entries"
  /\ todo' = todo \ {act.m}
  /\ act' = NoAct
  /\ UNCHANGED <<dbVars, exVars, risk, tick, expo, audit, univ, envVars, histVars>>

BuyTimesOut ==
  /\ pc = "buying" /\ Live /\ InFault /\ act.rem > 0
  /\ lateBuy' = [lateBuy EXCEPT ![act.m] = @ + act.rem]
  /\ IF act.done > 0
     THEN /\ pc' = "bought" /\ act' = [act EXCEPT !.rem = 0]
          /\ UNCHANGED todo
     ELSE /\ pc' = "entries" /\ act' = NoAct
          /\ todo' = todo \ {act.m}
  /\ taint' = taint \cup {act.m}
  /\ faults' = faults + 1
  /\ UNCHANGED <<dbVars, coins, lateSell, risk, tick, expo, audit, univ,
                 clock, crashes, userActs, user, opened>>

BuyReplyLost ==
  /\ pc = "buying" /\ Live /\ InFault
  /\ lateBuy' = [lateBuy EXCEPT ![act.m] = @ + act.rem]
  /\ pc' = "entries"
  /\ todo' = todo \ {act.m}
  /\ act' = NoAct
  /\ taint' = taint \cup {act.m}
  /\ faults' = faults + 1
  /\ UNCHANGED <<dbVars, coins, lateSell, risk, tick, expo, audit, univ,
                 clock, crashes, userActs, user, opened>>

(* The row is written, the entry counted, and the account read again; when *)
(* that reading raises, the tick ends there.                               *)
OpenRow(reads) ==
  /\ pc = "bought"
  /\ upsert_position(act.m, act.done)
  /\ risk' = RecordEntry(risk)
  /\ opened' = [opened EXCEPT ![Day(tick.now)] = @ + 1]
  /\ act' = NoAct
  /\ IF reads
     THEN /\ tick' = [tick EXCEPT !.open = @ + 1]
          /\ expo' = Exposure(tick.priced)
          /\ todo' = todo \ {act.m}
          /\ pc' = "entries"
          /\ UNCHANGED faults
     ELSE /\ InFault /\ faults' = faults + 1
          /\ tick' = NoTick /\ expo' = 0
          /\ todo' = {}
          /\ pc' = "idle"
  /\ UNCHANGED <<booked, ledger, exVars, audit, univ, clock, crashes, userActs, user, taint>>

(* A database write after an order that filled raises: run logs it and the *)
(* tick ends, with the order executed and the books as they were.          *)
StoreFails ==
  /\ pc \in {"sold", "booked", "bought"} /\ InFault
  /\ faults' = faults + 1
  /\ tick' = NoTick /\ expo' = 0 /\ todo' = {} /\ act' = NoAct
  /\ taint' = taint \cup {act.m}
  /\ pc' = "idle"
  /\ UNCHANGED <<dbVars, exVars, risk, audit, univ, clock, crashes, userActs, user, opened>>

FinishEntries ==
  /\ pc = "entries" /\ todo = {}
  /\ tick' = NoTick /\ expo' = 0
  /\ pc' = "idle"
  /\ UNCHANGED <<dbVars, exVars, risk, todo, act, audit, univ, envVars, histVars>>

-----------------------------------------------------------------------------
(* The exchange, the owner of the account, time, and the process's end.    *)

(* A market order executes a unit at a time; the exchange may cancel the   *)
(* rest of it (the paper broker always fills).                             *)
Execute ==
  /\ Ordering /\ act.rem > 0
  /\ act' = [m |-> act.m, rem |-> act.rem - 1, done |-> act.done + 1, pnl |-> 0]
  /\ coins' = [coins EXCEPT ![act.m] = IF pc = "buying" THEN @ + 1 ELSE @ - 1]
  /\ UNCHANGED <<dbVars, lateBuy, lateSell, pc, risk, tick, expo, todo, audit, univ, envVars, histVars>>

CancelRest ==
  /\ Ordering /\ act.rem > 0 /\ Live
  /\ act' = [act EXCEPT !.rem = 0]
  /\ UNCHANGED <<dbVars, exVars, pc, risk, tick, expo, todo, audit, univ, envVars, histVars>>

ExecuteLateBuy(m) ==
  /\ lateBuy[m] > 0
  /\ lateBuy' = [lateBuy EXCEPT ![m] = @ - 1]
  /\ coins' = [coins EXCEPT ![m] = @ + 1]
  /\ UNCHANGED <<dbVars, lateSell, procVars, envVars, histVars>>

ExecuteLateSell(m) ==
  /\ lateSell[m] > 0
  /\ lateSell' = [lateSell EXCEPT ![m] = @ - 1]
  /\ coins' = [coins EXCEPT ![m] = @ - 1]
  /\ UNCHANGED <<dbVars, lateBuy, procVars, envVars, histVars>>

CancelLate(m) ==
  /\ lateBuy[m] + lateSell[m] > 0
  /\ lateBuy' = [lateBuy EXCEPT ![m] = 0]
  /\ lateSell' = [lateSell EXCEPT ![m] = 0]
  /\ UNCHANGED <<dbVars, coins, procVars, envVars, histVars>>

Locked(m) == lateSell[m] + (IF pc = "selling" /\ act.m = m THEN act.rem ELSE 0)

UserBuys(m) ==
  /\ Live /\ userActs < MaxUserActs
  /\ userActs' = userActs + 1
  /\ coins' = [coins EXCEPT ![m] = @ + 1]
  /\ user' = [user EXCEPT ![m] = @ + 1]
  /\ UNCHANGED <<dbVars, lateBuy, lateSell, procVars, clock, crashes, faults, taint, opened>>

(* The owner sells a coin: one of the owner's own, or one the bot bought.  *)
UserSells(m) ==
  /\ Live /\ userActs < MaxUserActs
  /\ coins[m] > Locked(m)
  /\ userActs' = userActs + 1
  /\ coins' = [coins EXCEPT ![m] = @ - 1]
  /\ \/ user[m] > 0 /\ user' = [user EXCEPT ![m] = @ - 1] /\ UNCHANGED taint
     \/ coins[m] > user[m] /\ taint' = taint \cup {m} /\ UNCHANGED user
  /\ UNCHANGED <<dbVars, lateBuy, lateSell, procVars, clock, crashes, faults, opened>>

TimePasses ==
  /\ clock < MaxClock
  /\ Day(clock + 1) = Day(clock) \/ MidnightInTick \/ pc \in {"down", "idle"}
  /\ clock' = clock + 1
  /\ UNCHANGED <<dbVars, exVars, procVars, crashes, faults, userActs, histVars>>

(* A crash anywhere, or a requested stop at "idle".  What the engine was   *)
(* watching goes on at the exchange; paper holdings go with the process.   *)
Stop ==
  /\ pc # "down" /\ crashes < MaxCrashes
  /\ crashes' = crashes + 1
  /\ pc' = "down"
  /\ tick' = NoTick /\ expo' = 0 /\ todo' = {} /\ act' = NoAct /\ audit' = NoAudit
  /\ taint' = taint \cup (IF pc \in Working THEN {act.m} ELSE {})
                    \cup (IF Live THEN {} ELSE Held)
  /\ IF Live
     THEN /\ lateBuy' = IF pc = "buying"
                        THEN [lateBuy EXCEPT ![act.m] = @ + act.rem] ELSE lateBuy
          /\ lateSell' = IF pc = "selling"
                         THEN [lateSell EXCEPT ![act.m] = @ + act.rem] ELSE lateSell
          /\ UNCHANGED coins
     ELSE /\ coins' = [m \in Markets |-> 0]
          /\ UNCHANGED <<lateBuy, lateSell>>
  /\ UNCHANGED <<dbVars, risk, univ, clock, faults, userActs, user, opened>>

-----------------------------------------------------------------------------
StartUp == Boot \/ ReadBalances \/ BalancesFail \/ FinishReconcile \/ DropRow
           \/ \E m \in Markets : KeepRow(m) \/ ShrinkRow(m) \/ BookMissing(m)

Exits == SellFilled \/ SellUnfilled \/ SellTimesOut \/ SellReplyLost
         \/ BookSale \/ CloseRow \/ FinishExits
         \/ \E m \in Markets : KeepPosition(m) \/ SubmitSell(m)

Entries == BuyFilled \/ BuyUnfilled \/ BuyTimesOut \/ BuyReplyLost
           \/ OpenRow(TRUE) \/ OpenRow(FALSE) \/ FinishEntries
           \/ \E m \in Markets : SkipMarket(m) \/ SubmitBuy(m)

Engine == StartUp \/ StartTick \/ Refresh \/ RefreshFails \/ ReadMarket \/ ReadMarketFails \/ Exits \/ Entries
          \/ StoreFails

Exchange == Execute \/ CancelRest
            \/ \E m \in Markets : ExecuteLateBuy(m) \/ ExecuteLateSell(m) \/ CancelLate(m)

World == TimePasses \/ Stop \/ \E m \in Markets : UserBuys(m) \/ UserSells(m)

Next == Engine \/ Exchange \/ World

Spec == Init /\ [][Next]_vars

(* The engine thread runs on, a live order executes, and an exit signal    *)
(* that stands is acted on: the time stop makes every position exit in the *)
(* end, and nothing but a refusal keeps the order from the exchange.       *)
FairSpec ==
  /\ Spec
  /\ WF_vars(Engine)
  /\ \A m \in Markets : /\ SF_vars(SubmitSell(m))
                        /\ SF_vars(Execute /\ act.m = m)
                        /\ WF_vars(ExecuteLateBuy(m))
                        /\ WF_vars(ExecuteLateSell(m))

-----------------------------------------------------------------------------
(* Invariants.                                                             *)

TypeOK ==
  /\ row \in [Markets -> Nat]
  /\ booked \in [Markets -> Nat]
  /\ ledger \in [pnl : [Days -> Int], last : [Markets -> Int]]
  /\ coins \in [Markets -> Nat]
  /\ lateBuy \in [Markets -> Nat]
  /\ lateSell \in [Markets -> Nat]
  /\ pc \in {"down", "boot", "reconcile", "dropping", "idle", "refresh", "fetch",
             "exits", "entries"} \cup Working
  /\ risk \in RiskState
  /\ tick \in [now : 0..MaxClock, mode : Modes, priced : SUBSET Markets, open : Nat]
  /\ todo \subseteq Markets
  /\ act \in [m : Markets, rem : Nat, done : Nat, pnl : Int]
  /\ audit \in [bal : [Markets -> Nat], mismatch : BOOLEAN]
  /\ markets \subseteq Markets
  /\ due \in BOOLEAN
  /\ clock \in 0..MaxClock
  /\ {crashes, faults, userActs} \subseteq Nat
  /\ user \in [Markets -> Nat]
  /\ taint \subseteq Markets
  /\ opened \in [Days -> Nat]

(* An order being sold never promises coins the account does not have: the *)
(* exchange locks them, and neither the owner nor another order takes them.*)
LockedCovered == \A m \in Markets : Locked(m) <= coins[m]

(* What the order being worked on has moved, not yet written to the row.   *)
SoldNow(m)   == IF pc \in {"selling", "sold", "booked"} /\ act.m = m THEN act.done ELSE 0
BoughtNow(m) == IF pc \in {"buying", "bought"} /\ act.m = m THEN act.done ELSE 0

(* The books agree with the account: as long as no reply was lost, no      *)
(* order timed out or was filled in part on the way out, no process died   *)
(* over an order and the owner sold none of the bot's coins, the account   *)
(* holds the owner's coins and what the rows record, coin for coin, at     *)
(* every step of a tick, and no order runs unwatched.                      *)
Accounted ==
  \A m \in Markets \ taint :
    /\ coins[m] + SoldNow(m) = user[m] + row[m] + BoughtNow(m)
    /\ lateBuy[m] = 0 /\ lateSell[m] = 0

(* The bot never sells a coin of the owner's in such a market, also across *)
(* restarts and their reconciliation (tests/test_reconcile.py, 3-5).       *)
OwnerCoinsSafe == \A m \in Markets \ taint : coins[m] >= user[m]

(* max_concurrent bounds the rows of the database over restarts, failed    *)
(* orders, reconciliation and the count the entry loop keeps by hand.      *)
RowsBounded == Cardinality(Held) <= MaxConcurrent

(* daily_trade_limit bounds the rows opened on a day.                      *)
DailyEntries == \A d \in Days : opened[d] <= DailyTradeLimit

(* The count is in memory only: each process that ends may leave as many   *)
(* behind, and the next begins anew.                                       *)
EnteredBefore          == DailyTradeLimit * crashes
DailyEntriesPerProcess == \A d \in Days : opened[d] <= EnteredBefore + DailyTradeLimit

(* max_total_exposure bounds what the bot has in the market at cost.       *)
Invested    == SumFunctionOnSet(coins, Markets) - SumFunctionOnSet(user, Markets)
ExposureCap == Invested <= MaxExposure

(***************************************************************************)
(* What the engine knows at each point of its program, for the proofs.     *)
(***************************************************************************)
AtSale      == pc \in {"selling", "sold", "booked"} => act.rem + act.done <= row[act.m]
AtPurchase  ==
  /\ pc \in {"buying", "bought"} => row[act.m] = 0 /\ tick.open < MaxConcurrent
  /\ pc = "bought" => act.done > 0
AtEntries   == pc \in {"entries", "buying", "bought"} => tick.open = Cardinality(Held)
AtDeletion  == pc \in {"booked", "dropping"} => booked[act.m] >= 1
AtReconcile ==
  pc \in {"reconcile", "dropping"} =>
    /\ \A m \in todo : row[m] > 0
    /\ \A m \in todo \ taint : audit.bal[m] >= row[m]
    /\ \A m \in Markets \ todo : audit.bal[m] >= row[m]
    /\ ~audit.mismatch =>
         \A m \in Markets : audit.bal[m] >= row[m] /\ (row[m] = 0 => audit.bal[m] = 0)
    /\ pc = "dropping" => act.m \in taint /\ row[act.m] > 0 /\ audit.bal[act.m] = 0
OnPaper ==
  ~Live => \A m \in Markets : user[m] = 0 /\ lateBuy[m] = 0 /\ lateSell[m] = 0

OrdersSized ==
  /\ \A m \in Markets : row[m] <= OrderQty
  /\ pc \in {"sold", "booked"} => act.done > 0
  /\ pc \in {"buying", "bought"} => act.rem + act.done <= OrderQty

Points == AtSale /\ AtPurchase /\ AtDeletion /\ AtReconcile /\ OnPaper

IInv ==
  /\ TypeOK
  /\ LockedCovered
  /\ Points
  /\ Accounted
  /\ AtEntries
  /\ RowsBounded

StartingUp == {"down", "boot", "reconcile", "dropping"}
InTick     == {"exits", "entries"} \cup Working

(* What keeps the counters of the day honest: they are rolled to the time  *)
(* of the tick before any entry, and never back.                           *)
DayCounts ==
  /\ \A d \in Days : /\ opened[d] <= EnteredBefore + DailyTradeLimit
                     /\ d = risk.day => opened[d] <= EnteredBefore + risk.trades
                     /\ d > risk.day \/ pc \in StartingUp => opened[d] <= EnteredBefore
  /\ risk.trades <= DailyTradeLimit
  /\ risk.day <= Day(clock)
  /\ pc \in InTick => risk.day = Day(tick.now)
  /\ pc \in {"buying", "bought"} => risk.trades < DailyTradeLimit
  /\ crashes <= MaxCrashes

(* What keeps the re-entry cooldown honest while the process lives: a      *)
(* market without a row was last sold, by the trades table, no later than  *)
(* the risk manager remembers.                                             *)
LastExits ==
  /\ \A m \in Markets :
       /\ ledger.last[m] = Never \/ ledger.last[m] \in 0..clock
       /\ risk.lastExit[m] <= clock
       /\ pc \in StartingUp => row[m] = 0 /\ ledger.last[m] = Never
       /\ row[m] = 0 => ledger.last[m] = Never \/ risk.lastExit[m] >= ledger.last[m]
  /\ pc = "sold" => act.done > 0
  /\ pc \in InTick => tick.now <= clock

(* What keeps the day's loss honest while the process lives, no write fails*)
(* and no tick runs over midnight: the counter is what the trades table has*)
(* for its day, but for the sale just written there.                       *)
LossCounts ==
  /\ \A d \in Days :
       /\ d > risk.day \/ pc \in StartingUp => ledger.pnl[d] = 0
       /\ d = risk.day =>
            ledger.pnl[d] = risk.pnl + (IF pc = "booked" THEN act.pnl ELSE 0)
  /\ risk.day <= Day(clock)
  /\ pc \in InTick => risk.day = Day(clock) /\ risk.day = Day(tick.now)

(* What keeps the exposure honest while no reading fails: no coin of the   *)
(* bot's is in a market the tick does not read, and the reading is at most *)
(* what the order in hand has bought behind what is invested.              *)
ExposureCounts ==
  /\ expo \in Int
  /\ ExposureCap
  /\ pc \in {"exits", "selling", "sold", "booked", "entries"} => Invested <= expo
  /\ pc = "buying" =>
       Invested <= expo + act.done /\ expo + act.done + act.rem <= MaxExposure
  /\ pc \in {"buying", "bought"} => act.m \in tick.priced
  /\ pc \in InTick => \A m \in Markets \ tick.priced : coins[m] <= user[m]

(* Where the bot's coins are.  On paper: behind a row, or behind the order *)
(* that buys them.  With a broker and a fixed list of markets, no fault  *)
(* and no crash: in a market of that list.                                 *)
PaperCoins ==
  /\ pc \notin {"boot", "reconcile", "dropping"}
  /\ \A m \in Markets :
       coins[m] <= IF pc \in {"buying", "bought"} /\ act.m = m THEN act.done ELSE row[m]
  /\ pc \in {"selling", "sold", "booked"} => coins[act.m] <= act.rem
  /\ pc \in {"sold", "booked"} => act.rem = 0

ListedCoins ==
  /\ markets = StartMarkets /\ ~due /\ pc # "refresh"
  /\ tick.priced \subseteq StartMarkets
  /\ pc \in {"buying", "bought"} => act.m \in StartMarkets
  /\ \A m \in Markets : lateBuy[m] = 0
  /\ \A m \in Markets \ StartMarkets : row[m] = 0 /\ coins[m] <= user[m]

-----------------------------------------------------------------------------
(* Action properties.                                                      *)

(* The tables, seen by who reads nothing else, are a PositionBook: no       *)
(* purchase overwrites a row or is one too many, no row grows, none closes *)
(* without a trade or is recorded when it is gone, over crashes, failed    *)
(* writes, lost replies and what the owner does with the account.          *)
Books         == INSTANCE PositionBook WITH qty <- row, trades <- booked, MaxQty <- OrderQty
TablesAreBook == Books!Spec

(* No position leaves the books without a trade that records it: neither   *)
(* when it is sold, nor when reconcile drops it, nor over a crash between  *)
(* the two commits of either.                                              *)
LedgerComplete ==
  [][\A m \in Markets : row[m] > 0 /\ row'[m] = 0 => booked[m] >= 1]_vars

(* reconcile corrects a row in one direction only: down, to the quantity   *)
(* the account showed, and only where that is less.                       *)
ReconcileOnlyLowers ==
  [][\A m \in Markets :
       pc \in {"reconcile", "dropping"} /\ row'[m] # row[m]
         => row'[m] = audit.bal[m] /\ audit.bal[m] < row[m]]_vars

(* A process that read its balances begins to trade with no row above what *)
(* it read.  One whose read failed trades on rows it compared with nothing *)
(* (BalancesFail): of that one nothing is claimed.                         *)
RowsBacked ==
  [][pc = "reconcile" /\ pc' = "idle" =>
       \A m \in Markets : row[m] <= audit.bal[m]]_vars

(* With halt_on_mismatch a process that compared its rows with the account *)
(* trades only if each was backed and no market without a row had coins.   *)
(* Neither a process whose read of the balances failed nor the one started *)
(* after a halt, on the rows reconcile corrected, is kept from trading.    *)
HaltHonoured ==
  [][HaltOnMismatch /\ pc = "reconcile" /\ pc' = "idle" =>
       \A m \in Markets : row[m] <= audit.bal[m] /\ (row[m] = 0 => audit.bal[m] = 0)]_vars

Buys == pc = "entries" /\ pc' = "buying"

(* "Trading stops for the day at the daily loss limit", by the trades      *)
(* table: no entry on a day whose recorded net result is at the limit.     *)
LossLimitHonoured == [][Buys => ledger.pnl[Day(clock)] > -LossLimit]_vars

(* A market is not entered again within the re-entry cooldown of the last  *)
(* trade the table records for it.                                         *)
ReentryHonoured ==
  [][Buys => LET last == ledger.last[act'.m]
             IN  last # Never => clock - last >= ReentryTime]_vars

(* Every position is closed in the end, unless the account left the bot's  *)
(* control on the way.                                                     *)
PositionsClose ==
  \A m \in Markets : row[m] > 0 ~> (row[m] = 0 \/ m \in taint)
============================================================================
