---------------------------- MODULE BrokerOrder ----------------------------
(***************************************************************************)
(* What the engine may assume of a broker call, and no more: the contract  *)
(* of Broker.buy and Broker.sell (src/ubbit/broker.py).  TradingEngine is  *)
(* written against it; OrderGateway is shown to implement it.              *)
(*                                                                         *)
(* A call asks for a quantity and comes back with an answer, the quantity  *)
(* of a Fill, 0 for one that failed.  In between and afterwards the order  *)
(* executes in parts or is cancelled, whatever the answer said.            *)
(***************************************************************************)
EXTENDS Naturals

CONSTANTS
  MaxCalls,       \* bound on the calls
  Quantities      \* what a call may ask for, in whole units above 0

VARIABLES
  phase,      \* "idle", or "open" while the caller waits
  call,       \* calls made
  asked,      \* by call: the quantity asked for
  left,       \* by call: what may still execute
  done,       \* by call: what executed
  answer      \* the answer of the last call that came back

vars == <<phase, call, asked, left, done, answer>>

Calls == 1..MaxCalls

Init ==
  /\ phase = "idle" /\ call = 0 /\ answer = 0
  /\ asked = [c \in Calls |-> 0]
  /\ left = asked /\ done = asked

Submit(q) ==
  /\ phase = "idle" /\ call < MaxCalls
  /\ phase' = "open"
  /\ call' = call + 1
  /\ asked' = [asked EXCEPT ![call + 1] = q]
  /\ left' = [left EXCEPT ![call + 1] = q]
  /\ answer' = 0
  /\ UNCHANGED done

Execute(c) ==
  /\ left[c] > 0
  /\ left' = [left EXCEPT ![c] = @ - 1]
  /\ done' = [done EXCEPT ![c] = @ + 1]
  /\ UNCHANGED <<phase, call, asked, answer>>

Cancel(c) ==
  /\ left[c] > 0
  /\ left' = [left EXCEPT ![c] = 0]
  /\ UNCHANGED <<phase, call, asked, done, answer>>

(* Of an order nobody watches any more nothing may be left.                *)
Leave == left' = left \/ left' = [left EXCEPT ![call] = 0]

(* The answer never exceeds what executed; it may fall short of it, and    *)
(* the order may go on.                                                    *)
Answer ==
  /\ phase = "open"
  /\ phase' = "idle"
  /\ answer' \in 0..done[call]
  /\ Leave
  /\ UNCHANGED <<call, asked, done>>

(* The process dies over the call: no answer.                              *)
Abandon ==
  /\ phase = "open"
  /\ phase' = "idle"
  /\ Leave
  /\ UNCHANGED <<call, asked, done, answer>>

Next ==
  \/ \E q \in Quantities : Submit(q)
  \/ \E c \in Calls : Execute(c) \/ Cancel(c)
  \/ Answer
  \/ Abandon

Spec == Init /\ [][Next]_vars
============================================================================
