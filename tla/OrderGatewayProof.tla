-------------------------- MODULE OrderGatewayProof --------------------------
(***************************************************************************)
(* Proofs about OrderGateway: its invariants, and that it implements       *)
(* BrokerOrder, for every number of retries, calls and quantities; and of  *)
(* SmokeTest, a caller of it, that it sells no more than it bought.        *)
(***************************************************************************)
EXTENDS SmokeTest, TLAPS

(* Calls and first tries are what orders are found under.                  *)
LEMMA FirstTry == \A c \in Calls : <<c, 1>> \in Calls \X Attempts
  BY GatewayConstants DEF Calls, Attempts

(* A call that runs has a number among Calls.                              *)
LEMMA CallInRange == ASSUME TypeOK, ClientOK, pc # "idle" PROVE call \in Calls
  BY GatewayConstants DEF TypeOK, ClientOK, Calls

-----------------------------------------------------------------------------
LEMMA InitInvariant == Init => IInv
  <1> SUFFICES ASSUME Init PROVE IInv
    OBVIOUS
  <1>1. TypeOK
    BY GatewayConstants DEF Init, TypeOK, NoOrder
  <1>2. OrdersOK
    BY DEF Init, OrdersOK, NoOrder
  <1>3. ClientOK /\ CleanOK /\ HonestAnswer
    BY DEF Init, ClientOK, CleanOK, HonestAnswer
  <1> QED
    BY <1>1, <1>2, <1>3 DEF IInv

(* Types.                                                                  *)
LEMMA TypeStep == TypeOK /\ OrdersOK /\ ClientOK /\ Next => TypeOK'
  <1> SUFFICES ASSUME TypeOK, OrdersOK, ClientOK, Next PROVE TypeOK'
    OBVIOUS
  <1> USE GatewayConstants DEF TypeOK, client
  <1>1. ASSUME NEW q \in Quantities, Call(q) PROVE TypeOK'
    BY <1>1 DEF Call, Calls
  <1>2. CASE Post
    BY <1>2, CallInRange DEF Post, ClientOK, Attempts
  <1>3. CASE Taken
    BY <1>3 DEF Taken
  <1>4. CASE Refused
    BY <1>4 DEF Refused, Return
  <1>5. CASE Retry
    <2>1. CASE attempt < MaxRetries /\ pc' = "posting"
      BY <1>5, <2>1 DEF Retry, Return
    <2>2. CASE Return(0)
      BY <1>5, <2>2 DEF Retry, Return
    <2> QED
      BY <1>5, <2>1, <2>2 DEF Retry
  <1>6. CASE Poll
    <2>1. <<call, 1>> \in Calls \X Attempts
      BY <1>6, CallInRange, FirstTry DEF Poll
    <2>2. Order.done \in Nat
      BY <2>1 DEF Order, Ident
    <2>3. CASE Return(Order.done)
      BY <1>6, <2>2, <2>3 DEF Poll, Return
    <2>4. CASE seen' = Order.done /\ pc' = pc
      BY <1>6, <2>2, <2>4 DEF Poll, Return
    <2> QED
      BY <1>6, <2>3, <2>4 DEF Poll
  <1>7. CASE PollFails
    BY <1>7 DEF PollFails, Return
  <1>8. CASE GiveUp
    BY <1>8 DEF GiveUp, Return
  <1>9. CASE Crash
    BY <1>9 DEF Crash
  <1>10. ASSUME NEW copy \in wire, Accept(copy) PROVE TypeOK'
    <2>1. copy[1] \in Calls /\ Ident(copy[1], copy[2]) \in Calls \X Attempts
      BY FirstTry DEF Ident
    <2> QED
      BY <1>10, <2>1 DEF Accept, Respond
  <1>11. ASSUME NEW copy \in wire, Reject(copy) PROVE TypeOK'
    BY <1>11 DEF Reject, Respond
  <1>12. ASSUME NEW i \in Calls \X Attempts, ExecuteUnit(i) \/ CancelOrder(i) PROVE TypeOK'
    <2>1. orders[i].rem \in Nat /\ orders[i].done \in Nat
      OBVIOUS
    <2>2. CASE ExecuteUnit(i)
      BY <2>1, <2>2 DEF ExecuteUnit
    <2>3. CASE CancelOrder(i)
      BY <2>1, <2>3 DEF CancelOrder
    <2> QED
      BY <1>12, <2>2, <2>3
  <1> QED
    BY <1>1, <1>2, <1>3, <1>4, <1>5, <1>6, <1>7, <1>8, <1>9, <1>10, <1>11, <1>12
    DEF Next, Environment, Client

(* Orders are placed under the first identifier alone, and never execute   *)
(* more than the call asked for.                                           *)
LEMMA OrdersStep == TypeOK /\ OrdersOK /\ ClientOK /\ Next => OrdersOK'
  <1> SUFFICES ASSUME TypeOK, OrdersOK, ClientOK, Next PROVE OrdersOK'
    OBVIOUS
  <1>1. ASSUME NEW q \in Quantities, Call(q) PROVE OrdersOK'
    <2>1. \A c \in Calls : c <= call => asked'[c] = asked[c]
      BY <1>1, GatewayConstants DEF Call, TypeOK, Calls
    <2>2. \A i \in Calls \X Attempts : i[1] <= call => i[1] <= call'
      BY <1>1, GatewayConstants DEF Call, TypeOK, Calls
    <2> QED
      BY <1>1, <2>1, <2>2 DEF Call, OrdersOK
  <1>2. ASSUME NEW copy \in wire, Accept(copy) PROVE OrdersOK'
    <2> DEFINE j == Ident(copy[1], copy[2])
    <2>1. /\ j \in Calls \X Attempts /\ j[2] = 1 /\ j[1] = copy[1] /\ j[1] <= call
          /\ asked[j[1]] \in Nat
      BY FirstTry DEF Ident, ClientOK, TypeOK
    <2>2. orders' = [orders EXCEPT ![j] = [placed |-> TRUE, rem |-> asked[j[1]], done |-> 0]]
      BY <1>2, <2>1 DEF Accept
    <2>3. call' = call /\ asked' = asked
      BY <1>2 DEF Accept, Respond, client
    <2> HIDE DEF j
    <2> QED
      BY <2>1, <2>2, <2>3 DEF OrdersOK, TypeOK
  <1>3. ASSUME NEW i \in Calls \X Attempts, ExecuteUnit(i) \/ CancelOrder(i) PROVE OrdersOK'
    <2>1. orders[i].placed /\ orders[i].rem \in Nat /\ orders[i].done \in Nat
      BY <1>3 DEF OrdersOK, ExecuteUnit, CancelOrder, TypeOK
    <2>2. asked[i[1]] \in Nat /\ asked' = asked /\ call' = call
      BY <1>3 DEF ExecuteUnit, CancelOrder, client, TypeOK
    <2> QED
      BY <1>3, <2>1, <2>2 DEF OrdersOK, ExecuteUnit, CancelOrder, TypeOK
  <1>4. ASSUME UNCHANGED <<orders, call, asked>> PROVE OrdersOK'
    BY <1>4 DEF OrdersOK
  <1> QED
    BY <1>1, <1>2, <1>3, <1>4
    DEF Next, Environment, Client, Post, Taken, Refused, Retry, Return, Poll, PollFails, GiveUp, Crash,
        Reject, Respond, client

(* What the client knows.                                                  *)
LEMMA ClientStep == TypeOK /\ OrdersOK /\ ClientOK /\ Next => ClientOK'
  <1> SUFFICES ASSUME TypeOK, OrdersOK, ClientOK, Next PROVE ClientOK'
    OBVIOUS
  <1> USE GatewayConstants DEF client
  <1>1. ASSUME NEW q \in Quantities, Call(q) PROVE ClientOK'
    <2>1. <<call + 1, 1>> \in Calls \X Attempts
      BY <1>1, FirstTry DEF Call, TypeOK, Calls
    <2>2. orders[<<call + 1, 1>>].done \in Nat
      BY <2>1 DEF TypeOK
    <2> QED
      BY <1>1, <2>2 DEF Call, ClientOK, TypeOK, Calls, Attempts
  <1>2. CASE Post
    BY <1>2 DEF Post, ClientOK, TypeOK
  <1>3. CASE Taken
    BY <1>3 DEF Taken, ClientOK
  <1>4. CASE Refused \/ PollFails \/ GiveUp \/ Crash
    BY <1>4 DEF Refused, PollFails, GiveUp, Crash, Return, ClientOK
  <1>5. CASE Retry
    BY <1>5 DEF Retry, Return, ClientOK
  <1>6. CASE Poll
    <2>1. <<call, 1>> \in Calls \X Attempts
      BY <1>6, CallInRange, FirstTry DEF Poll
    <2>2. orders[<<call, 1>>].done \in Nat
      BY <2>1 DEF TypeOK
    <2> QED
      BY <1>6, <2>2 DEF Poll, Return, Order, Ident, ClientOK
  <1>7. ASSUME NEW copy \in wire, Accept(copy) PROVE ClientOK'
    <2> DEFINE j == <<copy[1], 1>>
    <2>1. j \in Calls \X Attempts
      BY FirstTry DEF TypeOK
    <2>2. /\ ~orders[j].placed
          /\ orders' = [orders EXCEPT ![j] = [placed |-> TRUE, rem |-> asked[copy[1]], done |-> 0]]
          /\ wire' \subseteq wire
          /\ Awaited(copy) \/ reply' = reply
          /\ UNCHANGED client
      BY <1>7 DEF Accept, Respond, Ident
    <2>3. orders[j].done = 0
      BY <2>1, <2>2 DEF OrdersOK
    <2>4. pc # "idle" => <<call, 1>> \in Calls \X Attempts
      BY CallInRange, FirstTry
    <2>5. Awaited(copy) => j = <<call, 1>>
      BY DEF Awaited
    <2>6. pc # "idle" => /\ orders'[<<call, 1>>].done = orders[<<call, 1>>].done
                         /\ orders[<<call, 1>>].placed \/ j = <<call, 1>>
                              => orders'[<<call, 1>>].placed
      BY <2>1, <2>2, <2>3, <2>4 DEF TypeOK
    <2> HIDE DEF j
    <2> QED
      BY <2>2, <2>4, <2>5, <2>6 DEF ClientOK, Awaited
  <1>8. ASSUME NEW copy \in wire, Reject(copy) PROVE ClientOK'
    BY <1>8 DEF Reject, Respond, ClientOK
  <1>9. ASSUME NEW i \in Calls \X Attempts, ExecuteUnit(i) \/ CancelOrder(i) PROVE ClientOK'
    <2>1. orders[i].placed /\ orders[i].done \in Nat
      BY <1>9 DEF ExecuteUnit, CancelOrder, OrdersOK, TypeOK
    <2>2. pc # "idle" => /\ <<call, 1>> \in Calls \X Attempts
                         /\ orders[<<call, 1>>].done \in Nat
      BY CallInRange, FirstTry DEF TypeOK
    <2>3. pc # "idle" => /\ orders'[<<call, 1>>].done >= orders[<<call, 1>>].done
                         /\ orders'[<<call, 1>>].done \in Nat
                         /\ orders[<<call, 1>>].placed => orders'[<<call, 1>>].placed
      BY <1>9, <2>1, <2>2 DEF ExecuteUnit, CancelOrder, TypeOK
    <2>4. UNCHANGED <<client, wire, reply>>
      BY <1>9 DEF ExecuteUnit, CancelOrder
    <2> QED
      BY <2>2, <2>3, <2>4 DEF ClientOK, TypeOK
  <1> QED
    BY <1>1, <1>2, <1>3, <1>4, <1>5, <1>6, <1>7, <1>8, <1>9 DEF Next, Environment, Client

(* What executed stays executed.                                           *)
LEMMA DoneGrows ==
  ASSUME IInv, Next, NEW c \in Calls
  PROVE  First(c).done <= First(c)'.done
  <1>1. /\ orders \in [Calls \X Attempts -> [placed : BOOLEAN, rem : Nat, done : Nat]]
        /\ <<c, 1>> \in Calls \X Attempts /\ First(c).done \in Nat
    BY FirstTry DEF IInv, TypeOK, First
  <1>2. CASE UNCHANGED orders
    BY <1>1, <1>2 DEF First
  <1>3. ASSUME NEW copy \in wire, Accept(copy) PROVE First(c).done <= First(c)'.done
    <2>1. CASE Ident(copy[1], copy[2]) = <<c, 1>>
      <3>1. First(c).done = 0
        BY <1>1, <1>3, <2>1 DEF Accept, IInv, OrdersOK, First
      <3>2. First(c)'.done = 0
        BY <1>1, <1>3, <2>1 DEF Accept, First
      <3> QED BY <3>1, <3>2
    <2>2. CASE Ident(copy[1], copy[2]) # <<c, 1>>
      BY <1>1, <1>3, <2>2 DEF Accept, First
    <2> QED BY <2>1, <2>2
  <1>4. ASSUME NEW i \in Calls \X Attempts, ExecuteUnit(i) \/ CancelOrder(i)
        PROVE  First(c).done <= First(c)'.done
    <2>1. CASE i = <<c, 1>>
      BY <1>1, <1>4, <2>1 DEF ExecuteUnit, CancelOrder, First
    <2>2. CASE i # <<c, 1>>
      BY <1>1, <1>4, <2>2 DEF ExecuteUnit, CancelOrder, First
    <2> QED BY <2>1, <2>2
  <1>5. CASE Client \/ Crash \/ \E q \in Quantities : Call(q)
    BY <1>5, <1>2 DEF Client, Crash, Call, Post, Taken, Refused, Retry, Return, Poll,
          PollFails, GiveUp
  <1>6. ASSUME NEW copy \in wire, Reject(copy) PROVE First(c).done <= First(c)'.done
    BY <1>6, <1>2 DEF Reject
  <1> QED BY <1>3, <1>4, <1>5, <1>6 DEF Next, Environment

(* A call that comes back answers no more than its order executed.         *)
LEMMA AnswerCovered ==
  ASSUME IInv, Client, pc' = "idle"
  PROVE  answer' <= First(call).done
  <1>1. call \in Calls /\ <<call, 1>> \in Calls \X Attempts
    BY CallInRange, FirstTry DEF IInv, Client, Post, Taken, Refused, Retry, Poll, PollFails, GiveUp
  <1>2. First(call).done \in Nat /\ seen \in Nat
    BY <1>1 DEF IInv, TypeOK, First
  <1>3. CASE Refused \/ Retry \/ PollFails
    BY <1>2, <1>3 DEF Refused, Retry, PollFails, Return
  <1>4. CASE Poll
    BY <1>2, <1>4 DEF Poll, Return, Order, Ident, First
  <1>5. CASE GiveUp
    BY <1>1, <1>2, <1>5 DEF GiveUp, Return, IInv, ClientOK, First
  <1> QED BY <1>3, <1>4, <1>5 DEF Client, Post, Taken

(* And however a call ends, its answer is covered by what executed.        *)
LEMMA CoverStep ==
  ASSUME IInv, Next, pc' = "idle", call' > 0
  PROVE  answer' <= First(call)'.done
  <1>1. CASE Client
    <2>1. orders' = orders /\ call' = call
      BY <1>1 DEF Client, Post, Taken, Refused, Retry, Return, Poll, PollFails, GiveUp
    <2> QED BY <1>1, <2>1, AnswerCovered DEF First
  <1>2. CASE Crash
    <2>1. answer' = 0 /\ orders' = orders /\ call' = call
      BY <1>2 DEF Crash, IInv, ClientOK
    <2>2. <<call, 1>> \in Calls \X Attempts
      BY <1>2, CallInRange, FirstTry DEF Crash, IInv
    <2> QED BY <2>1, <2>2 DEF First, IInv, TypeOK
  <1>3. CASE Environment
    <2>1. UNCHANGED client
      BY <1>3 DEF Environment, Accept, Reject, Respond, ExecuteUnit, CancelOrder
    <2>2. call \in Calls /\ answer <= First(call).done
      BY <2>1, GatewayConstants DEF client, IInv, HonestAnswer, TypeOK, Calls
    <2>3. /\ First(call).done <= orders'[<<call, 1>>].done
          /\ First(call).done \in Nat /\ answer \in Nat
      BY <1>3, <2>2, DoneGrows, FirstTry DEF First, IInv, TypeOK
    <2>4. orders'[<<call, 1>>].done \in Nat
      BY <2>2, FirstTry, TypeStep DEF IInv, TypeOK
    <2> QED BY <2>1, <2>2, <2>3, <2>4 DEF First, client
  <1>4. ASSUME NEW q \in Quantities, Call(q) PROVE FALSE
    BY <1>4 DEF Call
  <1> QED BY <1>1, <1>2, <1>3, <1>4 DEF Next

(* What HonestAnswer says of a call that met no fault.                     *)
CleanAnswer ==
  pc = "idle" /\ call > 0 /\ clean =>
    /\ answer = First(call).done
    /\ \A i \in Calls \X Attempts : i[1] = call => orders[i].rem = 0
    /\ \A copy \in wire : copy[1] # call

(* What a call that met no fault has left on the wire and at the exchange. *)
LEMMA CleanStep == IInv /\ Next => CleanOK' /\ CleanAnswer'
  <1> SUFFICES ASSUME IInv, Next PROVE CleanOK' /\ CleanAnswer'
    OBVIOUS
  <1> USE DEF IInv, client
  <1>0. CleanAnswer
    BY DEF CleanAnswer, HonestAnswer
  <1>1. ASSUME NEW q \in Quantities, Call(q) PROVE CleanOK' /\ CleanAnswer'
    <2>1. <<call + 1, 1>> \in Calls \X Attempts
      BY <1>1, GatewayConstants, FirstTry DEF Call, TypeOK, Calls
    <2>2. call \in Nat /\ ~orders[<<call + 1, 1>>].placed
      BY <2>1, GatewayConstants DEF OrdersOK, TypeOK
    <2>3. \A copy \in wire : copy[1] # call + 1
      BY <2>2 DEF ClientOK, TypeOK
    <2> QED
      BY <1>1, <2>2, <2>3 DEF Call, CleanOK, CleanAnswer, CopiesOf
  <1>2. CASE Post
    <2>1. clean => CopiesOf(call)' = {<<call, attempt + 1>>}
      BY <1>2 DEF Post, CleanOK, CopiesOf
    <2> QED
      BY <1>2, <2>1 DEF Post, CleanOK, CleanAnswer, CopiesOf
  <1>3. CASE Taken
    BY <1>3 DEF Taken, CleanOK, CleanAnswer, CopiesOf
  <1>4. CASE Refused
    <2>1. clean => CopiesOf(call) = {} /\ ~orders[<<call, 1>>].placed
      BY <1>4 DEF Refused, CleanOK
    <2>2. clean => \A i \in Calls \X Attempts :
                     i[1] = call => orders[i].rem = 0 /\ orders[i].done = 0
      BY <2>1 DEF OrdersOK
    <2>3. clean => First(call).done = 0
      BY <1>4, <2>2, CallInRange, FirstTry DEF Refused, First
    <2> QED
      BY <1>4, <2>1, <2>2, <2>3 DEF First, Refused, Return, CleanOK, CleanAnswer, CopiesOf
  <1>5. CASE Retry \/ PollFails \/ GiveUp \/ Crash
    BY <1>5 DEF Retry, PollFails, GiveUp, Crash, Return, CleanOK, CleanAnswer
  <1>6. CASE Poll
    <2>1. CASE Return(Order.done)
      <3>1. Order.rem = 0 /\ clean' = clean
        BY <1>6, <2>1 DEF Poll, Return
      <3>2. Order = orders[<<call, 1>>] /\ Order.done \in Nat
        BY <1>6, CallInRange, FirstTry DEF Order, Ident, Poll, TypeOK
      <3>3. \A i \in Calls \X Attempts :
              i[1] = call => orders[i].rem = 0
        BY <3>1, <3>2 DEF OrdersOK
      <3>4. clean => \A copy \in wire : copy[1] # call
        BY <1>6 DEF Poll, CleanOK, CopiesOf
      <3> QED
        BY <2>1, <3>1, <3>2, <3>3, <3>4 DEF Return, CleanOK, CleanAnswer, First
    <2>2. CASE seen' = Order.done /\ pc' = pc
      BY <1>6, <2>2 DEF Poll, Return, CleanOK, CleanAnswer, CopiesOf
    <2> QED
      BY <1>6, <2>1, <2>2 DEF Poll
  <1>7. ASSUME NEW copy \in wire, clean, ~Awaited(copy), call > 0 PROVE copy[1] # call
    <2>1. CASE pc = "idle"
      BY <1>0, <1>7, <2>1 DEF CleanAnswer
    <2>2. CASE pc \in {"posting", "polling"}
      BY <1>7, <2>2 DEF CleanOK, CopiesOf
    <2>3. CASE pc = "awaiting"
      BY <1>7, <2>3 DEF CleanOK, CopiesOf, Awaited
    <2> QED
      BY <2>1, <2>2, <2>3 DEF TypeOK
  <1>8. ASSUME NEW copy \in wire, Awaited(copy), clean
        PROVE \A other \in wire \ {copy} : other[1] # call
    BY <1>8 DEF CleanOK, CopiesOf, Awaited
  <1>9. ASSUME NEW copy \in wire, Accept(copy) PROVE CleanOK' /\ CleanAnswer'
    <2> DEFINE j == <<copy[1], 1>>
    <2>1. j \in Calls \X Attempts /\ call \in Nat /\ copy[1] > 0 /\ copy[1] <= call
      BY FirstTry, GatewayConstants DEF TypeOK, ClientOK, Calls
    <2>2. /\ orders' = [orders EXCEPT ![j] = [placed |-> TRUE, rem |-> asked[copy[1]], done |-> 0]]
          /\ wire' = wire \ {copy}
          /\ UNCHANGED client
      BY <1>9 DEF Accept, Respond, Ident
    <2>3. CASE Awaited(copy)
      <3>1. clean' => clean /\ reply' = "taken"
        BY <1>9, <2>3 DEF Accept, Respond
      <3> QED
        BY <1>8, <2>2, <2>3, <3>1 DEF CleanOK, CleanAnswer, CopiesOf, Awaited
    <2>4. CASE ~Awaited(copy)
      <3>1. clean' = clean /\ reply' = reply
        BY <1>9, <2>4 DEF Accept, Respond, TypeOK
      <3>2. clean => copy[1] # call
        BY <1>7, <2>1, <2>4
      <3>3. clean => /\ CopiesOf(call)' = CopiesOf(call)
                     /\ \A i \in Calls \X Attempts : i[1] = call => orders'[i] = orders[i]
        BY <2>1, <2>2, <3>2 DEF CopiesOf, TypeOK
      <3>4. call > 0 => <<call, 1>> \in Calls \X Attempts
        BY FirstTry, GatewayConstants DEF TypeOK, Calls
      <3>5. clean /\ call > 0 => orders'[<<call, 1>>] = orders[<<call, 1>>]
        BY <3>3, <3>4
      <3>6. pc # "idle" => call > 0
        BY DEF ClientOK
      <3>7. clean => CleanOK'
        BY <2>2, <3>1, <3>3, <3>5, <3>6 DEF CleanOK
      <3>8. CleanAnswer'
        BY <1>0, <2>2, <3>1, <3>3, <3>5 DEF CleanAnswer, First
      <3> QED
        BY <3>1, <3>7, <3>8 DEF CleanOK, CleanAnswer, CopiesOf
    <2> QED
      BY <2>3, <2>4
  <1>10. ASSUME NEW copy \in wire, Reject(copy) PROVE CleanOK' /\ CleanAnswer'
    <2>1. wire' = wire \ {copy} /\ UNCHANGED <<client, orders>>
      BY <1>10 DEF Reject, Respond
    <2>2. CASE Awaited(copy)
      <3>1. clean' => clean /\ reply' = "refused"
        BY <1>10, <2>2 DEF Reject, Respond
      <3>2. clean => ~orders[<<call, 1>>].placed
        BY <1>10, <2>2 DEF CleanOK, CopiesOf, Awaited
      <3> QED
        BY <1>8, <2>1, <2>2, <3>1, <3>2 DEF CleanOK, CleanAnswer, CopiesOf, Awaited
    <2>3. CASE ~Awaited(copy)
      <3>1. clean' = clean /\ reply' = reply
        BY <1>10, <2>3 DEF Reject, Respond, TypeOK
      <3>2. call > 0
        BY GatewayConstants DEF TypeOK, ClientOK, Calls
      <3>3. clean => CopiesOf(call)' = CopiesOf(call)
        BY <1>7, <2>1, <2>3, <3>2 DEF CopiesOf
      <3> QED
        BY <1>0, <2>1, <3>1, <3>3 DEF CleanOK, CleanAnswer, CopiesOf, First
    <2> QED
      BY <2>2, <2>3
  <1>11. ASSUME NEW i \in Calls \X Attempts, ExecuteUnit(i) \/ CancelOrder(i)
         PROVE CleanOK' /\ CleanAnswer'
    <2>1. orders[i].placed /\ orders[i].rem # 0
      BY <1>11 DEF ExecuteUnit, CancelOrder, OrdersOK, TypeOK
    <2>2. UNCHANGED <<client, wire, reply, clean>>
      BY <1>11 DEF ExecuteUnit, CancelOrder
    <2>3. \A k \in Calls \X Attempts : /\ orders'[k].placed <=> orders[k].placed
                                       /\ k # i => orders'[k] = orders[k]
      BY <1>11, <2>1 DEF ExecuteUnit, CancelOrder, TypeOK
    <2>4. pc # "idle" => <<call, 1>> \in Calls \X Attempts
      BY CallInRange, FirstTry
    <2>5. CleanOK'
      BY <2>2, <2>3, <2>4 DEF CleanOK, CopiesOf
    <2>6. CleanAnswer'
      <3>1. call > 0 => <<call, 1>> \in Calls \X Attempts
        BY FirstTry, GatewayConstants DEF TypeOK, Calls
      <3> QED
        BY <1>0, <2>1, <2>2, <2>3, <3>1 DEF CleanAnswer, First
    <2> QED
      BY <2>5, <2>6
  <1> QED
    BY <1>1, <1>2, <1>3, <1>4, <1>5, <1>6, <1>9, <1>10, <1>11 DEF Next, Environment, Client

LEMMA NextInvariant == IInv /\ [Next]_vars => IInv'
  <1> SUFFICES ASSUME IInv, [Next]_vars PROVE IInv'
    OBVIOUS
  <1>1. CASE Next
    <2>1. TypeOK' /\ OrdersOK' /\ ClientOK' /\ CleanOK' /\ CleanAnswer'
      BY <1>1, TypeStep, OrdersStep, ClientStep, CleanStep DEF IInv
    <2>2. HonestAnswer'
      BY <1>1, <2>1, CoverStep DEF CleanAnswer, HonestAnswer
    <2> QED
      BY <2>1, <2>2 DEF IInv
  <1>2. CASE UNCHANGED vars
    BY <1>2 DEF vars, client, IInv, TypeOK, OrdersOK, ClientOK, CleanOK, HonestAnswer, CopiesOf, First
  <1> QED
    BY <1>1, <1>2

-----------------------------------------------------------------------------
(* The invariant the theorems below rest on holds in every state.          *)
THEOREM Invariance == Spec => []IInv
  BY InitInvariant, NextInvariant, PTL DEF Spec

(* Every variable keeps its type; in particular the tries stay bounded.    *)
THEOREM TypeCorrect == Spec => []TypeOK
  BY Invariance, PTL DEF IInv

(* Retried POSTs, late copies and lost replies give a call no second order *)
(* and never make it execute more than it asked for.                       *)
THEOREM OneOrderPerCall == Spec => []AtMostOnce
  <1>1. IInv => AtMostOnce
    BY DEF IInv, OrdersOK, AtMostOnce
  <1> QED
    BY <1>1, Invariance, PTL

(* No Fill claims more than executed, and without a fault it claims all of *)
(* it, of an order that is final.                                          *)
THEOREM AnswersHonest == Spec => []HonestAnswer
  BY Invariance, PTL DEF IInv

-----------------------------------------------------------------------------
(* The contract: the initial state, then every step.                       *)

LEMMA InitContract == Init => Contract!Init
  <1> SUFFICES ASSUME Init PROVE Contract!Init
    OBVIOUS
  <1>1. \A c \in Calls : First(c) = NoOrder /\ ~MayPlace(c)
    BY FirstTry DEF Init, First, MayPlace
  <1>2. \A c \in Calls : Left(c) = 0 /\ First(c).done = 0
    BY <1>1 DEF Left, NoOrder
  <1> QED
    BY <1>2 DEF Init, Contract!Init, Contract!Calls, Calls

(* Where no order, no copy and no expectation of one changes, neither does *)
(* what is left.                                                           *)
LEMMA SameLeft ==
  ASSUME NEW c \in Calls, First(c)' = First(c), asked'[c] = asked[c],
         First(c).placed \/ (MayPlace(c)' <=> MayPlace(c))
  PROVE  Left(c)' = Left(c)
  BY DEF Left

(* The end of a call: what is left of its order stays, or is dropped.      *)
LEMMA CallEnds ==
  ASSUME IInv, pc # "idle", pc' = "idle", UNCHANGED <<call, asked, wire, orders>>
  PROVE  /\ Contract!Leave
         /\ [c \in Calls |-> First(c).done]' = [c \in Calls |-> First(c).done]
  <1>1. call \in Calls
    BY CallInRange DEF IInv
  <1>2. \A c \in Calls : First(c)' = First(c)
    BY DEF First
  <1>3. \A c \in Calls \ {call} : Left(c)' = Left(c)
    BY <1>2 DEF Left, MayPlace
  <1>4. Left(call)' = Left(call) \/ Left(call)' = 0
    BY <1>1, <1>2 DEF Left, MayPlace
  <1> QED
    BY <1>1, <1>2, <1>3, <1>4 DEF Contract!Leave

(* An answer that is no more than what executed is one the contract allows.*)
LEMMA ReturnAnswers ==
  ASSUME IInv, pc # "idle", NEW qty \in Nat, qty <= First(call).done, Return(qty)
  PROVE  Contract!Next
  <1>1. call \in Calls /\ First(call).done \in Nat
    BY CallInRange, FirstTry DEF IInv, First, TypeOK
  <1>2. /\ Contract!Leave
        /\ [c \in Calls |-> First(c).done]' = [c \in Calls |-> First(c).done]
    BY CallEnds DEF Return
  <1>3. answer' \in 0..([c \in Calls |-> First(c).done][call])
    BY <1>1 DEF Return
  <1>4. Contract!Answer
    BY <1>2, <1>3 DEF Return, Contract!Answer
  <1> QED
    BY <1>4 DEF Contract!Next

LEMMA StepContract == IInv /\ Next => [Contract!Next]_(Contract!vars)
  <1> SUFFICES ASSUME IInv, Next PROVE [Contract!Next]_(Contract!vars)
    OBVIOUS
  <1> USE DEF IInv
  <1>0. \A c \in Calls : /\ First(c) \in [placed : BOOLEAN, rem : Nat, done : Nat]
                         /\ Left(c) \in Nat
    BY FirstTry DEF TypeOK, First, Left
  <1>1. ASSUME NEW q \in Quantities, Call(q) PROVE Contract!Next
    <2>1. call + 1 \in Calls /\ call \in Nat
      BY <1>1, GatewayConstants DEF Call, TypeOK, Calls
    <2>2. \A c \in Calls : First(c)' = First(c)
      BY <1>1 DEF Call, First
    <2>3. \A c \in Calls \ {call + 1} : Left(c)' = Left(c)
      BY <1>1, <2>1, <2>2 DEF Call, Left, MayPlace, TypeOK
    <2>4. ~First(call + 1).placed
      BY <2>1, FirstTry DEF OrdersOK, First
    <2>5. \A c \in Calls : c = call + 1 => Left(c)' = q
      BY <1>1, <2>1, <2>2, <2>4 DEF Call, Left, MayPlace, TypeOK
    <2>6. Contract!Submit(q)
      BY <1>1, <2>1, <2>2, <2>3, <2>5 DEF Call, Contract!Submit
    <2> QED
      BY <2>6 DEF Contract!Next
  <1>2. CASE Post \/ Taken
    <2>1. \A c \in Calls : First(c)' = First(c)
      BY <1>2 DEF Post, Taken, First
    <2>2. \A c \in Calls : First(c).placed \/ (MayPlace(c)' <=> MayPlace(c))
      BY <1>2 DEF Post, Taken, First, MayPlace, ClientOK
    <2>3. \A c \in Calls : Left(c)' = Left(c)
      BY <1>2, <2>1, <2>2 DEF Left, Post, Taken
    <2> QED
      BY <1>2, <2>1, <2>3 DEF Post, Taken, Contract!vars
  <1>3. CASE Refused \/ PollFails
    BY <1>0, <1>3, CallInRange, ReturnAnswers DEF Refused, PollFails
  <1>4. CASE Retry
    <2>1. CASE Return(0)
      BY <1>0, <1>4, <2>1, CallInRange, ReturnAnswers DEF Retry
    <2>2. CASE pc' = "posting" /\ UNCHANGED <<call, asked, answer, wire, orders>>
      <3>1. \A c \in Calls : First(c)' = First(c) /\ Left(c)' = Left(c)
        BY <1>4, <2>2 DEF Retry, First, Left, MayPlace
      <3> QED
        BY <1>4, <2>2, <3>1 DEF Retry, Contract!vars
    <2> QED
      BY <1>4, <2>1, <2>2 DEF Retry
  <1>5. CASE Poll
    <2>1. CASE Return(Order.done)
      BY <1>0, <1>5, <2>1, CallInRange, ReturnAnswers DEF Poll, Order, Ident, First
    <2>2. CASE seen' = Order.done /\ UNCHANGED <<pc, call, asked, answer, wire, orders>>
      BY <2>2 DEF Contract!vars, First, Left, MayPlace
    <2> QED
      BY <1>5, <2>1, <2>2 DEF Poll
  <1>6. CASE GiveUp
    BY <1>6, ReturnAnswers DEF GiveUp, ClientOK, First, TypeOK
  <1>7. CASE Crash
    BY <1>7, CallEnds DEF Crash, Contract!Next, Contract!Abandon
  <1>8. ASSUME NEW copy \in wire, Accept(copy) PROVE UNCHANGED Contract!vars
    <2> DEFINE k == copy[1]
    <2>1. k \in Calls /\ <<k, 1>> \in Calls \X Attempts /\ asked[k] \in Nat
      BY FirstTry DEF TypeOK
    <2>2. /\ ~First(k).placed
          /\ orders' = [orders EXCEPT ![<<k, 1>>] = [placed |-> TRUE, rem |-> asked[k], done |-> 0]]
          /\ wire' = wire \ {copy}
          /\ UNCHANGED client
      BY <1>8 DEF Accept, Respond, Ident, First
    <2>3. MayPlace(k)
      BY DEF MayPlace
    <2>4. First(k).done = 0 /\ First(k)' = [placed |-> TRUE, rem |-> asked[k], done |-> 0]
      BY <2>1, <2>2 DEF OrdersOK, First, TypeOK
    <2>5. Left(k)' = Left(k) /\ First(k).done' = First(k).done
      BY <2>2, <2>3, <2>4 DEF Left
    <2>6. \A c \in Calls \ {k} : First(c)' = First(c) /\ (MayPlace(c)' <=> MayPlace(c))
      BY <2>1, <2>2 DEF First, MayPlace, TypeOK, client
    <2>7. \A c \in Calls : Left(c)' = Left(c) /\ First(c).done' = First(c).done
      BY <2>2, <2>5, <2>6 DEF Left, client
    <2> QED
      BY <2>2, <2>7 DEF Contract!vars, client
  <1>9. ASSUME NEW copy \in wire, Reject(copy) PROVE [Contract!Next]_(Contract!vars)
    <2> DEFINE k == copy[1]
    <2>1. k \in Calls
      BY DEF TypeOK
    <2>2. wire' = wire \ {copy} /\ UNCHANGED <<client, orders>>
      BY <1>9 DEF Reject, Respond
    <2>3. \A c \in Calls : First(c)' = First(c)
      BY <2>2 DEF First
    <2>4. \A c \in Calls \ {k} : Left(c)' = Left(c)
      BY <2>2, <2>3 DEF Left, MayPlace, client
    <2>5. Left(k)' = Left(k) \/ (Left(k) > 0 /\ Left(k)' = 0)
      BY <1>0, <2>1, <2>2, <2>3 DEF Left, MayPlace, client
    <2>6. CASE Left(k)' = Left(k)
      BY <2>2, <2>3, <2>4, <2>6 DEF Contract!vars, client
    <2>7. CASE Left(k) > 0 /\ Left(k)' = 0
      <3>1. Contract!Cancel(k)
        BY <2>1, <2>2, <2>3, <2>4, <2>7 DEF Contract!Cancel, client
      <3> QED
        BY <2>1, <3>1 DEF Contract!Next, Contract!Calls, Calls
    <2> QED
      BY <2>5, <2>6, <2>7
  <1>10. ASSUME NEW i \in Calls \X Attempts, ExecuteUnit(i) \/ CancelOrder(i)
         PROVE Contract!Next
    <2> DEFINE k == i[1]
    <2>1. orders[i].placed /\ i = <<k, 1>> /\ k \in Calls
      BY <1>10 DEF ExecuteUnit, CancelOrder, OrdersOK, TypeOK
    <2>2. First(k) = orders[i] /\ First(k)' = orders'[i]
      BY <2>1 DEF First
    <2>3. UNCHANGED <<client, wire>>
      BY <1>10 DEF ExecuteUnit, CancelOrder
    <2>4. \A c \in Calls \ {k} : First(c)' = First(c)
      <3>1. \A c \in Calls \ {k} : <<c, 1>> # i
        OBVIOUS
      <3>2. \A j \in Calls \X Attempts : j # i => orders'[j] = orders[j]
        <4>1. orders \in [Calls \X Attempts -> [placed : BOOLEAN, rem : Nat, done : Nat]]
          BY DEF TypeOK
        <4>2. CASE ExecuteUnit(i)
          BY <4>1, <4>2 DEF ExecuteUnit
        <4>3. CASE CancelOrder(i)
          BY <4>1, <4>3 DEF CancelOrder
        <4> QED
          BY <1>10, <4>2, <4>3
      <3> QED
        BY <3>1, <3>2, FirstTry DEF First
    <2>5. \A c \in Calls \ {k} : Left(c)' = Left(c)
      BY <2>3, <2>4 DEF Left, MayPlace, client
    <2>6. CASE ExecuteUnit(i)
      <3>1. orders'[i] = [placed |-> TRUE, rem |-> orders[i].rem - 1, done |-> orders[i].done + 1]
        BY <2>6 DEF ExecuteUnit, TypeOK
      <3>2. /\ Left(k) > 0 /\ Left(k)' = Left(k) - 1
            /\ First(k).done' = First(k).done + 1
        BY <2>1, <2>2, <2>6, <3>1 DEF Left, ExecuteUnit
      <3>3. Contract!Execute(k)
        BY <2>1, <2>3, <2>4, <2>5, <3>2 DEF Contract!Execute, client
      <3> QED
        BY <2>1, <3>3 DEF Contract!Next, Contract!Calls, Calls
    <2>7. CASE CancelOrder(i)
      <3>1. orders'[i] = [placed |-> TRUE, rem |-> 0, done |-> orders[i].done]
        BY <2>7 DEF CancelOrder, TypeOK
      <3>2. Left(k) > 0 /\ Left(k)' = 0 /\ First(k).done' = First(k).done
        BY <2>1, <2>2, <2>7, <3>1 DEF Left, CancelOrder
      <3>3. \A c \in Calls : First(c).done' = First(c).done
        BY <2>4, <3>2
      <3>4. Contract!Cancel(k)
        BY <2>1, <2>3, <2>5, <3>2, <3>3 DEF Contract!Cancel, client
      <3> QED
        BY <2>1, <3>4 DEF Contract!Next, Contract!Calls, Calls
    <2> QED
      BY <1>10, <2>6, <2>7
  <1> QED
    BY <1>1, <1>2, <1>3, <1>4, <1>5, <1>6, <1>7, <1>8, <1>9, <1>10 DEF Next, Environment, Client

(* A live broker call is a call as TradingEngine assumes it: it answers no *)
(* more than executed, and executes no more than asked for.                *)
THEOREM ImplementsContract == Spec => BrokerContract
  <1>1. UNCHANGED vars => UNCHANGED Contract!vars
    BY DEF vars, client, Contract!vars, First, Left, MayPlace
  <1>2. IInv /\ [Next]_vars => [Contract!Next]_(Contract!vars)
    BY <1>1, StepContract
  <1> QED
    BY <1>2, InitContract, Invariance, PTL DEF Spec, BrokerContract, Contract!Spec

-----------------------------------------------------------------------------
(* The smoke test.                                                         *)

(* What the purchase answered is a quantity a call may ask for.            *)
LEMMA PurchaseAnswer ==
  ASSUME IInv, TestOK, stage = "buying", pc = "idle", answer > 0
  PROVE  answer \in Quantities /\ 1 \in Calls /\ answer <= First(1).done
  <1>1. call = 1 /\ asked[1] \in Quantities /\ answer <= First(1).done
    BY DEF TestOK, IInv, HonestAnswer
  <1>2. 1 \in Calls
    BY <1>1, GatewayConstants DEF IInv, TypeOK, Calls
  <1>3. /\ <<1, 1>> \in Calls \X Attempts /\ First(1).done \in Nat
        /\ First(1).rem \in Nat /\ answer \in Nat /\ asked[1] \in Nat
    BY <1>2, FirstTry DEF IInv, TypeOK, First
  <1>4. First(1).placed /\ First(1).rem + First(1).done <= asked[1]
    BY <1>1, <1>3 DEF IInv, OrdersOK, First
  <1>5. answer \in 1..asked[1]
    BY <1>1, <1>3, <1>4
  <1> QED BY <1>1, <1>2, <1>5, GatewayConstants

(* Every step with the smoke test about is a step of the gateway.          *)
LEMMA TestOnGateway ==
  ASSUME IInv, TestOK, [TestNext]_testVars
  PROVE  [Next]_vars
  <1>1. CASE TestSells
    <2>1. answer \in Quantities
      BY <1>1, PurchaseAnswer DEF TestSells, IInv, TypeOK
    <2> QED BY <1>1, <2>1 DEF TestSells, Next
  <1>2. CASE EngineCalls \/ EngineDies \/ TestBuys \/ TestDies \/ Runs \/ Elsewhere
    BY <1>2 DEF EngineCalls, EngineDies, TestBuys, TestDies, Runs, Elsewhere, Next
  <1>3. CASE ChecksFail \/ PurchaseFails \/ Compare \/ UNCHANGED testVars
    BY <1>3 DEF ChecksFail, PurchaseFails, Compare, testVars
  <1> QED BY <1>1, <1>2, <1>3 DEF TestNext

(* How far the test has come bounds its second call by its first.          *)
LEMMA TestStep ==
  ASSUME IInv, IInv', TestOK, [TestNext]_testVars
  PROVE  TestOK'
  <1> USE DEF TestOK, Ended
  <1>1. CASE EngineCalls \/ EngineDies
    BY <1>1 DEF EngineCalls, EngineDies, test
  <1>2. CASE ChecksFail \/ PurchaseFails \/ Compare
    BY <1>2 DEF ChecksFail, PurchaseFails, Compare, vars, client, First
  <1>3. CASE TestBuys
    <2>1. PICK q \in Quantities : Call(q)
      BY <1>3 DEF TestBuys
    <2>2. call' = 1 /\ asked'[1] = q /\ pc' = "posting" /\ stage' = "buying"
      BY <1>3, <2>1, GatewayConstants DEF TestBuys, Call, IInv, TypeOK, Calls
    <2> QED BY <2>2
  <1>4. CASE TestSells
    <2>1. /\ stage = "buying" /\ pc = "idle" /\ answer > 0 /\ call = 1
          /\ stage' = "selling" /\ Call(answer)
      BY <1>4 DEF TestSells
    <2>2. answer <= First(1).done
      BY <2>1, PurchaseAnswer
    <2>3. call' = 2 /\ asked'[2] = answer /\ First(1)' = First(1)
      BY <2>1, GatewayConstants DEF Call, IInv, TypeOK, Calls, First
    <2> QED BY <2>1, <2>2, <2>3
  <1>5. CASE TestDies
    BY <1>5 DEF TestDies, Crash, vars, client, First
  <1>6. CASE Runs \/ Elsewhere
    <2>1. /\ Next /\ stage' = stage /\ call' = call /\ asked' = asked
      BY <1>6 DEF Runs, Elsewhere, test, Next, Environment, Client, Post, Taken, Refused,
            Retry, Return, Poll, PollFails, GiveUp, Accept, Reject, Respond, client,
            ExecuteUnit, CancelOrder
    <2> SUFFICES ASSUME stage # "engine" PROVE TestOK'
      BY <2>1
    <2>2. ASSUME call \in {1, 2} PROVE First(1).done <= First(1)'.done
      <3>1. 1 \in Calls
        BY <2>2, GatewayConstants DEF IInv, TypeOK, Calls
      <3> QED BY <2>1, <3>1, DoneGrows
    <2>4. ASSUME call = 2 PROVE asked'[2] <= First(1)'.done
      <3>1. /\ asked[2] \in Nat /\ 1 \in Calls /\ <<1, 1>> \in Calls \X Attempts
        BY <2>4, FirstTry, GatewayConstants DEF IInv, TypeOK, Calls
      <3>2. First(1).done \in Nat /\ First(1)'.done \in Nat
        BY <3>1 DEF IInv, TypeOK, First
      <3> QED BY <2>1, <2>2, <2>4, <3>1, <3>2
    <2> QED BY <2>1, <2>4
  <1>7. CASE UNCHANGED testVars
    BY <1>7 DEF testVars, test, vars, client, First
  <1> QED BY <1>1, <1>2, <1>3, <1>4, <1>5, <1>6, <1>7 DEF TestNext

(* The smoke test sells no coin of the owner's, however its two calls go.  *)
THEOREM TestSellsItsOwn == TestSpec => []NeverOversold
  <1>1. TestInit => IInv /\ TestOK
    BY InitInvariant DEF TestInit, TestOK, Init
  <1>2. IInv /\ TestOK /\ [TestNext]_testVars => IInv' /\ TestOK'
    BY TestOnGateway, NextInvariant, TestStep
  <1>3. ASSUME IInv, TestOK PROVE NeverOversold
    <2> SUFFICES ASSUME stage # "engine", NEW i \in Calls \X Attempts, i[1] = 2
                 PROVE  orders[i].rem + orders[i].done <= First(1).done
      BY DEF NeverOversold
    <2>1. 1 \in Calls /\ 2 \in Calls
      BY GatewayConstants DEF Calls
    <2>2. /\ orders[i].rem \in Nat /\ orders[i].done \in Nat /\ First(1).done \in Nat
          /\ asked[2] \in Nat
      BY <1>3, <2>1, FirstTry DEF IInv, TypeOK, First
    <2>3. CASE orders[i].placed
      <3>1. 2 <= call /\ orders[i].rem + orders[i].done <= asked[2]
        BY <1>3, <2>3 DEF IInv, OrdersOK
      <3>2. asked[2] <= First(1).done
        BY <1>3, <3>1, GatewayConstants DEF TestOK, IInv, TypeOK
      <3> QED BY <2>2, <3>1, <3>2
    <2>4. CASE ~orders[i].placed
      BY <1>3, <2>2, <2>4 DEF IInv, OrdersOK
    <2> QED BY <2>3, <2>4
  <1> QED BY <1>1, <1>2, <1>3, PTL DEF TestSpec

(* A call that came back without a fault is settled: its answer is what    *)
(* executed.                                                               *)
LEMMA Settled ==
  ASSUME IInv, pc = "idle", clean, NEW c \in Calls, c = call
  PROVE  /\ CopiesOf(c) = {} /\ First(c).rem = 0 /\ First(c).done = answer
         /\ c = 1 => wire = {}
         /\ \A i \in Calls \X Attempts : i[1] >= c => orders[i].rem = 0
  <1>1. <<c, 1>> \in Calls \X Attempts /\ c \in Nat /\ c > 0
    BY FirstTry, GatewayConstants DEF Calls
  <1>2. /\ First(c).done = answer
        /\ \A i \in Calls \X Attempts : i[1] = c => orders[i].rem = 0
        /\ \A copy \in wire : copy[1] # c
    BY <1>1 DEF IInv, HonestAnswer
  <1>3. First(c).rem = 0
    BY <1>1, <1>2 DEF First
  <1>4. ASSUME c = 1 PROVE wire = {}
    <2>1. \A copy \in wire : copy[1] \in Calls /\ copy[1] <= c
      BY DEF IInv, TypeOK, ClientOK
    <2>2. \A copy \in wire : copy[1] = 1
      BY <1>4, <2>1, GatewayConstants DEF Calls
    <2> QED BY <1>2, <1>4, <2>2
  <1>5. ASSUME NEW i \in Calls \X Attempts, i[1] >= c PROVE orders[i].rem = 0
    <2>1. CASE i[1] = c
      BY <1>2, <2>1
    <2>2. CASE i[1] # c
      <3>1. i[1] \in Nat /\ ~(i[1] <= call)
        BY <1>1, <1>5, <2>2, GatewayConstants DEF Calls
      <3> QED BY <3>1 DEF IInv, OrdersOK
    <2> QED BY <2>1, <2>2
  <1> QED BY <1>2, <1>3, <1>4, <1>5 DEF CopiesOf

(* In a call without copies on the wire and with a final order nothing     *)
(* happens any more, once another call is made.                            *)
LEMMA StaysSettled ==
  ASSUME IInv, Client \/ Environment, NEW c \in Calls, c # call,
         CopiesOf(c) = {}, First(c).rem = 0
  PROVE  CopiesOf(c)' = {} /\ First(c)' = First(c)
  <1>1. /\ orders \in [Calls \X Attempts -> [placed : BOOLEAN, rem : Nat, done : Nat]]
        /\ <<c, 1>> \in Calls \X Attempts
        /\ \A copy \in wire : copy[1] # c
    BY FirstTry DEF IInv, TypeOK, CopiesOf
  <1>2. CASE Client
    <2>1. orders' = orders /\ wire' \subseteq wire \cup {<<call, attempt + 1>>}
      BY <1>2 DEF Client, Post, Taken, Refused, Retry, Return, Poll, PollFails, GiveUp
    <2> QED BY <1>1, <2>1 DEF CopiesOf, First
  <1>3. ASSUME NEW copy \in wire, Accept(copy) PROVE CopiesOf(c)' = {} /\ First(c)' = First(c)
    <2>1. wire' \subseteq wire /\ Ident(copy[1], copy[2]) # <<c, 1>>
      BY <1>1, <1>3 DEF Accept, Respond, Ident
    <2>2. First(c)' = First(c)
      BY <1>1, <1>3, <2>1 DEF Accept, First
    <2> QED BY <1>1, <2>1, <2>2 DEF CopiesOf
  <1>4. ASSUME NEW copy \in wire, Reject(copy) PROVE CopiesOf(c)' = {} /\ First(c)' = First(c)
    BY <1>1, <1>4 DEF Reject, Respond, CopiesOf, First
  <1>5. ASSUME NEW i \in Calls \X Attempts, ExecuteUnit(i) \/ CancelOrder(i)
        PROVE  CopiesOf(c)' = {} /\ First(c)' = First(c)
    <2>1. i # <<c, 1>> /\ wire' = wire
      BY <1>5 DEF ExecuteUnit, CancelOrder, First
    <2>2. First(c)' = First(c)
      BY <1>1, <1>5, <2>1 DEF ExecuteUnit, CancelOrder, First
    <2> QED BY <1>1, <2>1, <2>2 DEF CopiesOf
  <1> QED BY <1>2, <1>3, <1>4, <1>5 DEF Environment

(* A test that met no fault stays settled, stage by stage.                 *)
LEMMA QuietStep ==
  ASSUME IInv, IInv', TestOK, TestOK', QuietOK, [TestNext]_testVars, {1, 2} \subseteq Calls
  PROVE  QuietOK'
  <1>0. /\ <<1, 1>> \in Calls \X Attempts /\ <<2, 1>> \in Calls \X Attempts
        /\ orders \in [Calls \X Attempts -> [placed : BOOLEAN, rem : Nat, done : Nat]]
        /\ answer \in Nat /\ asked \in [Calls -> Nat]
    BY FirstTry DEF IInv, TypeOK
  <1>1. CASE EngineCalls \/ EngineDies
    BY <1>1 DEF EngineCalls, EngineDies, test, QuietOK, NothingLeftBehind
  <1>2. CASE ChecksFail
    <2>1. /\ call = 0 /\ stage' = "aborted" /\ bought' = bought
          /\ pc' = pc /\ wire' = wire /\ orders' = orders
      BY <1>2 DEF ChecksFail, TestOK, vars, client
    <2>2. wire = {}
      <3>1. \A copy \in wire : copy[1] \in Calls /\ copy[1] <= 0
        BY <2>1 DEF IInv, TypeOK, ClientOK
      <3> QED BY <3>1, GatewayConstants DEF Calls
    <2>3. \A i \in Calls \X Attempts : ~(i[1] <= call)
      BY <2>1, GatewayConstants DEF Calls
    <2>4. \A i \in Calls \X Attempts : orders[i].rem = 0 /\ orders[i].done = 0
      BY <2>3 DEF IInv, OrdersOK
    <2>5. pc = "idle"
      BY <2>1 DEF IInv, ClientOK
    <2>6. First(1)'.done = 0
      BY <1>0, <2>1, <2>4 DEF First
    <2> QED BY <2>1, <2>2, <2>4, <2>5, <2>6 DEF QuietOK, NothingLeftBehind
  <1>3. CASE PurchaseFails
    <2>1. /\ stage = "buying" /\ pc = "idle" /\ answer = 0 /\ call = 1
          /\ stage' = "aborted" /\ faultless' = clean /\ bought' = bought
          /\ pc' = pc /\ wire' = wire /\ orders' = orders
      BY <1>3 DEF PurchaseFails, TestOK, vars, client
    <2>2. ASSUME clean
          PROVE  wire = {} /\ First(1).done = 0 /\ \A i \in Calls \X Attempts : orders[i].rem = 0
      <3>1. \A i \in Calls \X Attempts : i[1] >= 1
        BY GatewayConstants DEF Calls
      <3> QED BY <2>1, <2>2, <3>1, Settled
    <2>3. First(1)' = First(1)
      BY <2>1 DEF First
    <2> QED BY <2>1, <2>2, <2>3 DEF QuietOK, NothingLeftBehind
  <1>4. CASE TestSells
    <2>1. /\ stage = "buying" /\ pc = "idle" /\ call = 1 /\ Call(answer)
          /\ stage' = "selling" /\ faultless' = clean /\ bought' = answer
      BY <1>4 DEF TestSells, TestOK
    <2>2. /\ pc' = "posting" /\ wire' = wire /\ orders' = orders /\ asked'[2] = answer
      BY <1>0, <2>1 DEF Call
    <2>3. ASSUME clean
          PROVE  CopiesOf(1) = {} /\ First(1).rem = 0 /\ First(1).done = answer
      BY <2>1, <2>3, Settled
    <2>4. First(1)' = First(1) /\ CopiesOf(1)' = CopiesOf(1)
      BY <2>2 DEF First, CopiesOf
    <2> QED BY <1>0, <2>1, <2>2, <2>3, <2>4 DEF QuietOK, NothingLeftBehind
  <1>5. CASE Compare
    <2>1. /\ stage = "selling" /\ pc = "idle" /\ call = 2
          /\ stage' \in {"holding", "failed", "passed"}
          /\ stage' = "passed" => ~Short
          /\ faultless' = (faultless /\ clean) /\ bought' = bought /\ bought \in Nat
          /\ pc' = pc /\ wire' = wire /\ orders' = orders
      BY <1>0, <1>5 DEF Compare, TestOK, vars, client, QuietOK
    <2>2. ASSUME stage' = "passed", faultless' PROVE NothingLeftBehind'
      <3>1. /\ CopiesOf(2) = {} /\ First(2).rem = 0 /\ First(2).done = answer
            /\ \A i \in Calls \X Attempts : i[1] >= 2 => orders[i].rem = 0
        BY <2>1, <2>2, Settled
      <3>2. /\ CopiesOf(1) = {} /\ First(1).rem = 0 /\ First(1).done = bought
            /\ asked[2] = bought
        BY <2>1, <2>2 DEF QuietOK
      <3>3. wire = {}
        <4>1. \A copy \in wire : copy[1] \in Calls /\ copy[1] <= 2
          BY <2>1 DEF IInv, TypeOK, ClientOK
        <4>2. \A copy \in wire : copy[1] \in {1, 2}
          BY <4>1, GatewayConstants DEF Calls
        <4> QED BY <3>1, <3>2, <4>2 DEF CopiesOf
      <3>4. ASSUME NEW i \in Calls \X Attempts PROVE orders[i].rem = 0
        <4>1. CASE i = <<1, 1>>
          BY <3>2, <4>1 DEF First
        <4>2. CASE i[1] >= 2
          BY <3>1, <4>2
        <4>3. CASE i # <<1, 1>> /\ ~(i[1] >= 2)
          <5>1. i[1] = 1 /\ i[2] # 1
            BY <4>3, GatewayConstants DEF Calls, Attempts
          <5> QED BY <5>1 DEF IInv, OrdersOK
        <4> QED BY <4>1, <4>2, <4>3
      <3>6. 1000 * (First(1).done - First(2).done) <= Tolerated * First(1).done
        BY <1>0, <2>1, <2>2, <3>1, <3>2, ComparisonConstants DEF Short
      <3>7. First(1)' = First(1) /\ First(2)' = First(2)
        BY <2>1 DEF First
      <3> QED BY <2>1, <2>2, <3>3, <3>4, <3>6, <3>7 DEF NothingLeftBehind
    <2> QED BY <2>1, <2>2 DEF QuietOK, NothingLeftBehind
  <1>6. CASE TestDies
    BY <1>6 DEF TestDies, QuietOK, NothingLeftBehind
  <1>7. CASE Runs \/ Elsewhere
    <2>1. /\ Client \/ Environment
          /\ stage' = stage /\ bought' = bought /\ faultless' = faultless
      BY <1>7 DEF Runs, Elsewhere, test
    <2>2. /\ call' = call /\ asked' = asked /\ (Environment => pc' = pc /\ answer' = answer)
      BY <2>1 DEF Client, Environment, Post, Taken, Refused, Retry, Return, Poll, PollFails,
            GiveUp, Accept, Reject, Respond, client, ExecuteUnit, CancelOrder
    <2>3. ASSUME stage \in {"aborted", "passed"} PROVE pc' = "idle"
      <3>1. pc = "idle"
        BY <2>3 DEF QuietOK
      <3>2. ~Client
        BY <3>1 DEF Client, Post, Taken, Refused, Retry, Poll, PollFails, GiveUp
      <3> QED BY <2>1, <2>2, <3>1, <3>2
    <2>5. ASSUME stage = "selling", faultless
          PROVE  /\ CopiesOf(1)' = {} /\ First(1)'.rem = 0
                 /\ First(1)'.done = bought /\ asked'[2] = bought
      <3>1. /\ CopiesOf(1) = {} /\ First(1).rem = 0 /\ First(1).done = bought
            /\ asked[2] = bought /\ call = 2
        BY <2>5 DEF QuietOK, TestOK
      <3> QED BY <2>1, <2>2, <3>1, StaysSettled
    <2>6. NothingLeftBehind'
      <3> SUFFICES ASSUME stage \in {"aborted", "passed"}, faultless PROVE NothingLeftBehind'
        BY <2>1 DEF NothingLeftBehind
      <3>1. pc = "idle" /\ wire = {} /\ \A i \in Calls \X Attempts : orders[i].rem = 0
        BY DEF QuietOK, NothingLeftBehind
      <3>2. ~Client
        BY <3>1 DEF Client, Post, Taken, Refused, Retry, Poll, PollFails, GiveUp
      <3>3. ~Environment
        BY <1>0, <3>1 DEF Environment, ExecuteUnit, CancelOrder
      <3> QED BY <2>1, <3>2, <3>3
    <2> QED BY <2>1, <2>3, <2>5, <2>6 DEF QuietOK
  <1>8. CASE TestBuys
    BY <1>8 DEF TestBuys, QuietOK, NothingLeftBehind
  <1>9. CASE UNCHANGED testVars
    BY <1>9 DEF testVars, test, vars, client, QuietOK, NothingLeftBehind, First, CopiesOf
  <1> QED BY <1>1, <1>2, <1>3, <1>4, <1>5, <1>6, <1>7, <1>8, <1>9 DEF TestNext

(* A smoke test that met no fault and passes, or gives up before the sale, *)
(* leaves no orders, and no coins beyond what the comparison tolerates, in *)
(* whatever order its two calls, their copies and the exchange went.       *)
THEOREM TestLeavesNothing ==
  ASSUME {1, 2} \subseteq Calls PROVE TestSpec => []NothingLeftBehind
  <1>1. TestInit => IInv /\ TestOK /\ QuietOK
    BY InitInvariant DEF TestInit, TestOK, Init, QuietOK, NothingLeftBehind
  <1>2. IInv /\ TestOK /\ QuietOK /\ [TestNext]_testVars => IInv' /\ TestOK' /\ QuietOK'
    BY TestOnGateway, NextInvariant, TestStep, QuietStep
  <1>3. QuietOK => NothingLeftBehind
    BY DEF QuietOK
  <1> QED BY <1>1, <1>2, <1>3, PTL DEF TestSpec
=============================================================================
