------------------------------ MODULE SmokeTest ------------------------------
(***************************************************************************)
(* The two callers of the order gateway.  The engine asks for what it      *)
(* likes.  The smoke test (src/ubbit/smoketest.py) buys a little on the    *)
(* real account, sells what the purchase answered, and compares: run once, *)
(* by hand, before the bot is trusted with money.                          *)
(*                                                                         *)
(* The comparison is one of costs: what a sale is short of shows as a      *)
(* cost, which may be off the prediction by half a percent of the order    *)
(* and by what the price gained meanwhile.                                 *)
(***************************************************************************)
EXTENDS OrderGateway, Integers

CONSTANT
  Tolerated       \* per mille of a purchase that may be missing from its sale
                  \* and pass as a cost: 5, and the gain of the price

ASSUME ComparisonConstants == Tolerated \in Nat

VARIABLES
  stage,      \* "engine" if that is the caller, or how far the test has come
  bought,     \* qty of the Fill of the test's purchase
  faultless   \* no call of the test that came back met a fault

test     == <<stage, bought, faultless>>
testVars == <<vars, test>>

Ended == {"aborted", "holding", "failed", "passed", "died"}

TestInit ==
  /\ Init
  /\ stage \in {"engine", "checks"}
  /\ bought = 0
  /\ faultless = TRUE

EngineCalls ==
  /\ stage = "engine"
  /\ \E q \in Quantities : Call(q)
  /\ UNCHANGED test

EngineDies == stage = "engine" /\ Crash /\ UNCHANGED test

(* No keys, an amount above the cap, below the minimum or above the cash,  *)
(* or a request that failed: nothing was ordered.                          *)
ChecksFail ==
  /\ stage = "checks"
  /\ stage' = "aborted"
  /\ UNCHANGED <<vars, bought, faultless>>

TestBuys ==
  /\ stage = "checks"
  /\ \E q \in Quantities : Call(q)
  /\ stage' = "buying"
  /\ UNCHANGED <<bought, faultless>>

(* A purchase that failed ends the test, with whatever it really bought.   *)
PurchaseFails ==
  /\ stage = "buying" /\ pc = "idle" /\ answer = 0
  /\ stage' = "aborted"
  /\ faultless' = clean
  /\ UNCHANGED <<vars, bought>>

TestSells ==
  /\ stage = "buying" /\ pc = "idle" /\ answer > 0
  /\ Call(answer)
  /\ bought' = answer
  /\ faultless' = clean
  /\ stage' = "selling"

(* Slip: unit prices are compared, not the money that went and came back.  *)
ComparePrices ==
  /\ stage = "selling" /\ pc = "idle"
  /\ stage' \in IF answer = 0 THEN {"holding"} ELSE {"failed", "passed"}
  /\ faultless' = (faultless /\ clean)
  /\ UNCHANGED <<vars, bought>>

(* What the sale is short of costs more than the comparison tolerates.     *)
Short == 1000 * (bought - answer) > Tolerated * bought

(* A failed sale is reported as coins to be sold by hand; a short one as a *)
(* cost out of line, and so may prices and fees that differ.               *)
Compare ==
  /\ stage = "selling" /\ pc = "idle"
  /\ stage' \in CASE answer = 0 -> {"holding"}
                  [] answer # 0 /\ Short -> {"failed"}
                  [] OTHER      -> {"failed", "passed"}
  /\ faultless' = (faultless /\ clean)
  /\ UNCHANGED <<vars, bought>>

TestDies ==
  /\ stage \in {"checks", "buying", "selling"}
  /\ Crash \/ (pc = "idle" /\ UNCHANGED vars)
  /\ stage' = "died"
  /\ UNCHANGED <<bought, faultless>>

Runs == Client /\ UNCHANGED test
Elsewhere == Environment /\ UNCHANGED test

TestNext ==
  \/ EngineCalls \/ EngineDies
  \/ ChecksFail \/ TestBuys \/ PurchaseFails \/ TestSells \/ Compare \/ TestDies
  \/ Runs
  \/ Elsewhere

TestSpec == TestInit /\ [][TestNext]_testVars

(* The client's thread runs: its sleeps, its read time-out and wait_fill's *)
(* deadline end.  Nothing is assumed of the network and the exchange.      *)
FairTestSpec == TestSpec /\ WF_testVars(Runs)

-----------------------------------------------------------------------------
(* The test never sells more than it bought: the coins the owner had in    *)
(* the market before are safe, whatever was lost, late or sent twice in    *)
(* either call, also when the purchase timed out half executed.            *)
NeverOversold ==
  stage # "engine" =>
    \A i \in Calls \X Attempts :
      i[1] = 2 => orders[i].rem + orders[i].done <= First(1).done

(* A test that met no fault leaves nothing behind unless it says so: when  *)
(* it passes, or gives up before the sale, no order of its own runs on,    *)
(* and the account holds none of the coins it bought, or when it passes no *)
(* more of them than the comparison of costs tolerates.                    *)
NothingLeftBehind ==
  stage \in {"aborted", "passed"} /\ faultless =>
    /\ wire = {} /\ \A i \in Calls \X Attempts : orders[i].rem = 0
    /\ IF stage = "aborted"
       THEN First(1).done = 0
       ELSE 1000 * (First(1).done - First(2).done) <= Tolerated * First(1).done

(* What is known on the way, for the proof.                                *)
TestOK ==
  stage # "engine" =>
    /\ stage \in {"checks", "buying", "selling"} \cup Ended
    /\ stage = "checks" => call = 0
    /\ stage = "buying" =>
         call = 1 /\ asked[1] \in Quantities
    /\ stage = "selling" => call = 2
    /\ call <= 2
    /\ call = 2 => asked[2] <= First(1).done

(* And, as long as no call met a fault: before the sale the purchase is    *)
(* settled, and the sale asks for all it bought.                           *)
QuietOK ==
  /\ bought \in Nat
  /\ stage \in {"aborted", "passed"} => pc = "idle"
  /\ stage = "selling" /\ faultless =>
       /\ CopiesOf(1) = {} /\ First(1).rem = 0
       /\ First(1).done = bought /\ asked[2] = bought
  /\ NothingLeftBehind
=============================================================================
