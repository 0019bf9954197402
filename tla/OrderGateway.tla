---------------------------- MODULE OrderGateway ----------------------------
(***************************************************************************)
(* One live order, from LiveBroker.buy or sell (src/ubbit/broker.py) over  *)
(* UpbitClient._request and wait_fill (src/ubbit/upbit.py) to the exchange *)
(* and back.  The two sides differ in nothing that matters here.           *)
(*                                                                         *)
(* A POST is tried up to MaxRetries times under one identifier.  Each try  *)
(* puts a copy on the wire; a copy may arrive late, after the client has   *)
(* given up on it, and in any order with the copies after it.  The answer  *)
(* to a copy may be lost, and a gateway in front of the exchange may       *)
(* answer 5xx for an order that was taken.                                 *)
(***************************************************************************)
EXTENDS Naturals

CONSTANTS
  MaxRetries,     \* max_retries of UpbitClient
  MaxCalls,       \* bound on the calls
  Quantities      \* what a call may ask for, in whole units

ASSUME GatewayConstants ==
  /\ MaxRetries \in Nat \ {0}
  /\ MaxCalls \in Nat
  /\ Quantities \subseteq Nat \ {0}
  /\ \A q \in Quantities : 1..q \subseteq Quantities

VARIABLES
  \* the client
  pc,         \* "idle", "posting", "awaiting" a reply, "polling" the order
  call,       \* calls made so far; the present one while pc # "idle"
  asked,      \* by call: the quantity
  attempt,    \* tries of the present POST
  seen,       \* executed_volume in the last detail wait_fill read
  answer,     \* qty of the Fill the last call returned, 0 for Fill(False, ...) and for none
  \* the network
  wire,       \* copies of POSTs on their way: <<call, attempt>>
  reply,      \* to the copy awaited: "none" yet, or "taken", "refused", "busy"
  \* the exchange
  orders,     \* by identifier: [placed, rem, done]
  \* history
  clean       \* nothing was lost, late or busy in the present call

client == <<pc, call, asked, attempt, seen, answer>>
vars == <<client, wire, reply, orders, clean>>

Calls    == 1..MaxCalls
Attempts == 1..MaxRetries
NoOrder  == [placed |-> FALSE, rem |-> 0, done |-> 0]

(* Slip: an identifier for every try.                                      *)
IdentPerAttempt(c, n) == <<c, n>>

(* The identifier is drawn once for a call, before the first try.          *)
Ident(c, n) == <<c, 1>>

Init ==
  /\ pc = "idle" /\ call = 0 /\ attempt = 0 /\ seen = 0 /\ answer = 0
  /\ asked = [c \in Calls |-> 0]
  /\ wire = {} /\ reply = "none"
  /\ orders = [i \in Calls \X Attempts |-> NoOrder]
  /\ clean = TRUE

-----------------------------------------------------------------------------
(* The client.                                                             *)

Call(q) ==
  /\ pc = "idle" /\ call < MaxCalls
  /\ pc' = "posting"
  /\ call' = call + 1
  /\ asked' = [asked EXCEPT ![call + 1] = q]
  /\ attempt' = 0 /\ seen' = 0 /\ answer' = 0
  /\ clean' = TRUE
  /\ UNCHANGED <<wire, reply, orders>>

Post ==
  /\ pc = "posting"
  /\ pc' = "awaiting"
  /\ attempt' = attempt + 1
  /\ wire' = wire \cup {<<call, attempt + 1>>}
  /\ reply' = "none"
  /\ UNCHANGED <<call, asked, seen, answer, orders, clean>>

Return(qty) ==
  /\ pc' = "idle"
  /\ answer' = qty
  /\ reply' = "none"
  /\ UNCHANGED <<call, asked, attempt, seen, wire, orders>>

(* 2xx: the order has a uuid, and wait_fill polls it.                      *)
Taken ==
  /\ pc = "awaiting" /\ reply = "taken"
  /\ pc' = "polling"
  /\ UNCHANGED <<call, asked, attempt, seen, answer, wire, reply, orders, clean>>

(* 4xx is final: also when it refuses a second copy of an order taken.     *)
Refused ==
  /\ pc = "awaiting" /\ reply = "refused"
  /\ Return(0)
  /\ UNCHANGED clean

(* Slip: the tries are not counted.                                        *)
RetryUncounted ==
  /\ pc = "awaiting" /\ reply \in {"busy", "none"}
  /\ clean' = FALSE
  /\ pc' = "posting" /\ reply' = "none" /\ attempt' = 0
  /\ UNCHANGED <<call, asked, seen, answer, wire, orders>>

(* 429, 418 and 5xx, or a network error such as the read timing out: the   *)
(* next try, or the end of them.                                           *)
Retry ==
  /\ pc = "awaiting" /\ reply \in {"busy", "none"}
  /\ clean' = FALSE
  /\ \/ /\ attempt < MaxRetries
        /\ pc' = "posting" /\ reply' = "none"
        /\ UNCHANGED <<call, asked, attempt, seen, answer, wire, orders>>
     \/ attempt = MaxRetries /\ Return(0)

Order == orders[Ident(call, attempt)]
First(c) == orders[<<c, 1>>]

(* Slip: a final order is taken to have executed in full.                  *)
PollReportsAsked ==
  /\ pc = "polling"
  /\ Order.rem = 0 /\ Return(asked[call]) /\ UNCHANGED clean

(* One order_detail: a final state ends the call with what executed.       *)
Poll ==
  /\ pc = "polling"
  /\ \/ Order.rem = 0 /\ Return(Order.done)
     \/ /\ Order.rem > 0
        /\ seen' = Order.done
        /\ UNCHANGED <<pc, call, asked, attempt, answer, wire, reply, orders>>
  /\ UNCHANGED clean

(* order_detail raises after its own retries: the call has failed.         *)
PollFails == pc = "polling" /\ Return(0) /\ clean' = FALSE

(* The deadline: the last detail read, final or not, becomes the Fill.     *)
GiveUp == pc = "polling" /\ Return(seen) /\ clean' = FALSE

Crash ==
  /\ pc # "idle"
  /\ pc' = "idle" /\ reply' = "none" /\ clean' = FALSE
  /\ UNCHANGED <<call, asked, attempt, seen, answer, wire, orders>>

-----------------------------------------------------------------------------
(* The network and the exchange.                                           *)

Awaited(copy) == pc = "awaiting" /\ copy = <<call, attempt>>

(* The reply reaches a client that still waits on the copy, or it is lost. *)
Respond(copy, outcome) ==
  /\ wire' = wire \ {copy}
  /\ reply' = IF Awaited(copy) THEN outcome ELSE reply
  /\ clean' = (clean /\ ~(Awaited(copy) /\ outcome \in {"busy", "none"}))
  /\ UNCHANGED client

(* The exchange takes the order unless it has one under the identifier.    *)
Accept(copy) ==
  /\ copy \in wire
  /\ ~orders[Ident(copy[1], copy[2])].placed
  /\ orders' = [orders EXCEPT ![Ident(copy[1], copy[2])] =
                  [placed |-> TRUE, rem |-> asked[copy[1]], done |-> 0]]
  /\ \E outcome \in {"taken", "busy", "none"} : Respond(copy, outcome)

(* It refuses a used identifier or nonce, or for want of funds; it has no  *)
(* time; or the copy never arrives.                                        *)
Reject(copy) ==
  /\ copy \in wire
  /\ \E outcome \in {"refused", "busy", "none"} : Respond(copy, outcome)
  /\ UNCHANGED orders

ExecuteUnit(i) ==
  /\ orders[i].rem > 0
  /\ orders' = [orders EXCEPT ![i] =
                  [placed |-> TRUE, rem |-> @.rem - 1, done |-> @.done + 1]]
  /\ UNCHANGED <<client, wire, reply, clean>>

CancelOrder(i) ==
  /\ orders[i].rem > 0
  /\ orders' = [orders EXCEPT ![i] = [placed |-> TRUE, rem |-> 0, done |-> @.done]]
  /\ UNCHANGED <<client, wire, reply, clean>>

-----------------------------------------------------------------------------
Client == Post \/ Taken \/ Refused \/ Retry \/ Poll \/ PollFails \/ GiveUp

Environment ==
  \/ \E copy \in wire : Accept(copy) \/ Reject(copy)
  \/ \E i \in Calls \X Attempts : ExecuteUnit(i) \/ CancelOrder(i)

Next ==
  \/ \E q \in Quantities : Call(q)
  \/ Client
  \/ Crash
  \/ Environment

Spec == Init /\ [][Next]_vars

-----------------------------------------------------------------------------
TypeOK ==
  /\ pc \in {"idle", "posting", "awaiting", "polling"}
  /\ call \in 0..MaxCalls
  /\ asked \in [Calls -> Nat]
  /\ attempt \in 0..MaxRetries
  /\ seen \in Nat /\ answer \in Nat
  /\ wire \subseteq Calls \X Attempts
  /\ reply \in {"none", "taken", "refused", "busy"}
  /\ orders \in [Calls \X Attempts -> [placed : BOOLEAN, rem : Nat, done : Nat]]
  /\ clean \in BOOLEAN

(* However often a POST is sent and whatever becomes of its copies, a call *)
(* has at most one order at the exchange, and it executes no more than the *)
(* call asked for.                                                         *)
AtMostOnce ==
  \A i, j \in Calls \X Attempts :
    orders[i].placed /\ orders[j].placed /\ i[1] = j[1] =>
      i = j /\ orders[i].rem + orders[i].done <= asked[i[1]]

(* A call never answers more than executed, whatever was lost, late or cut *)
(* short by the time limit; and one that met no fault answers exactly what *)
(* executed, of an order that is final, with no copy left on the wire.     *)
HonestAnswer ==
  pc = "idle" /\ call > 0 =>
    /\ answer <= First(call).done
    /\ clean => /\ answer = First(call).done
                /\ \A i \in Calls \X Attempts : i[1] = call => orders[i].rem = 0
                /\ \A copy \in wire : copy[1] # call

(***************************************************************************)
(* What holds on the way, for the proofs: where orders and copies may be,  *)
(* what the client may conclude from a reply, and what a call that met no  *)
(* fault yet has left on the wire and at the exchange.                     *)
(***************************************************************************)
OrdersOK ==
  \A i \in Calls \X Attempts :
    IF orders[i].placed
    THEN i[2] = 1 /\ i[1] <= call /\ orders[i].rem + orders[i].done <= asked[i[1]]
    ELSE orders[i].rem = 0 /\ orders[i].done = 0

CopiesOf(c) == {copy \in wire : copy[1] = c}

ClientOK ==
  /\ \A copy \in wire : copy[1] <= call
  /\ pc # "idle" => call > 0 /\ answer = 0 /\ seen <= orders[<<call, 1>>].done
  /\ pc \in {"awaiting", "polling"} => attempt > 0
  /\ pc = "posting" => attempt < MaxRetries
  /\ pc = "polling" \/ (pc = "awaiting" /\ reply = "taken") => orders[<<call, 1>>].placed

CleanOK ==
  clean =>
    /\ pc = "posting" =>
         attempt = 0 /\ CopiesOf(call) = {} /\ ~orders[<<call, 1>>].placed
    /\ pc = "awaiting" =>
         /\ reply # "busy"
         /\ CopiesOf(call) = IF reply = "none" THEN {<<call, attempt>>} ELSE {}
         /\ reply # "taken" => ~orders[<<call, 1>>].placed
    /\ pc = "polling" => CopiesOf(call) = {}

IInv == TypeOK /\ OrdersOK /\ ClientOK /\ CleanOK /\ HonestAnswer

(* Every call comes back, whatever the network and the exchange do.        *)
CallReturns == pc # "idle" ~> pc = "idle"

-----------------------------------------------------------------------------
(* The contract.  What a call may still execute is what is left of its     *)
(* order or, while a copy may yet be taken, all it asked for.              *)
MayPlace(c) ==
  \/ c = call /\ pc \in {"posting", "awaiting"}
  \/ \E copy \in wire : copy[1] = c

Left(c) ==
  IF First(c).placed THEN First(c).rem ELSE IF MayPlace(c) THEN asked[c] ELSE 0

Contract == INSTANCE BrokerOrder WITH
  phase <- IF pc = "idle" THEN "idle" ELSE "open",
  left  <- [c \in Calls |-> Left(c)],
  done  <- [c \in Calls |-> First(c).done]

(* LiveBroker's calls are the calls TradingEngine assumes.                 *)
BrokerContract == Contract!Spec
============================================================================
