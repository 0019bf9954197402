-------------------------- MODULE RateLimiterProof --------------------------
(***************************************************************************)
(* Proofs about RateLimiter, for any number of threads and every capacity, *)
(* rate, time-out and penalty that LimiterConstants allows.                *)
(***************************************************************************)
EXTENDS RateLimiter, TLAPS

USE DEF Limits

(* The level is the refilled bucket, or its capacity where that is less.   *)
LEMMA LevelFacts ==
  ASSUME TypeOK, NEW n \in Int
  PROVE  /\ Level(n) \in Int /\ Level(n) <= Capacity
         /\ Level(n) <= tokens + (n - updated)
         /\ Level(n) < Capacity => Level(n) = tokens + (n - updated)
  BY LimiterConstants DEF TypeOK, Level, Lower

-----------------------------------------------------------------------------
LEMMA InitInvariant == Init => IInv
  <1> SUFFICES ASSUME Init PROVE IInv
    OBVIOUS
  <1> USE LimiterConstants DEF Init
  <1>1. TypeOK
    BY DEF TypeOK
  <1>2. Level(now) = Capacity
    BY DEF Level, Lower
  <1>3. PaidFor /\ AfterQuiet /\ SoonEnough
    BY <1>2 DEF PaidFor, WindowBound, AfterQuiet, SoonEnough
  <1>4. DeadlineMet /\ ReadInTime
    BY DEF DeadlineMet, ReadInTime, Waiting
  <1> QED
    BY <1>1, <1>3, <1>4 DEF IInv

LEMMA NextInvariant == IInv /\ [Next]_vars => IInv'
  <1> SUFFICES ASSUME IInv, [Next]_vars PROVE IInv'
    OBVIOUS
  <1> USE LimiterConstants
  <1>0. /\ TypeOK /\ now \in Int /\ tokens \in Int /\ updated \in Int
        /\ Slack \in Nat /\ Slack + Cost + Longest = Timeout
    BY DEF IInv, TypeOK, Slack
  <1>1. ASSUME NEW t \in Threads, Enter(t) PROVE IInv'
    <2>1. TypeOK'
      BY <1>0, <1>1 DEF TypeOK, Enter, bucket
    <2>2. PaidFor' /\ AfterQuiet' /\ SoonEnough'
      BY <1>1 DEF IInv, PaidFor, WindowBound, AfterQuiet, SoonEnough, Level, Enter, bucket
    <2>3. DeadlineMet'
      <3>1. deadline'[t] = now + Timeout /\ updated - tokens + Cost + Slack <= now + Timeout
        BY <1>0, <1>1 DEF IInv, TypeOK, SoonEnough, Enter
      <3>2. \A u \in Threads \ {t} : deadline'[u] = deadline[u] /\ pc'[u] = pc[u]
        BY <1>1 DEF IInv, TypeOK, Enter
      <3>3. UNCHANGED <<tokens, updated>> /\ overtaken' = overtaken \ {t}
        BY <1>1 DEF Enter, bucket
      <3> QED
        BY <3>1, <3>2, <3>3 DEF IInv, DeadlineMet, Waiting, Slack
    <2>4. ReadInTime'
      BY <1>1 DEF IInv, TypeOK, ReadInTime, Slack, Enter
    <2> QED
      BY <2>1, <2>2, <2>3, <2>4 DEF IInv
  <1>2. ASSUME NEW t \in Threads, Grant(t) PROVE IInv'
    <2>1. tokens' = Level(now) - Cost /\ updated' = now /\ Level(now) \in Int /\ Level(now) >= Cost
      BY <1>0, <1>2, LevelFacts DEF Grant
    <2>2. Level(now) <= Capacity /\ Level(now) <= tokens + (now - updated)
      BY <1>0, LevelFacts
    <2>3. TypeOK'
      BY <1>2, <2>1, <2>2 DEF IInv, TypeOK, Waiting, Grant
    <2>4. Level(now)' = Level(now) - Cost
      BY <1>0, <1>2, <2>1, <2>2 DEF Level, Lower, Grant
    <2>5. PaidFor'
      BY <1>2, <2>1, <2>4 DEF IInv, TypeOK, PaidFor, WindowBound, Grant
    <2>6. AfterQuiet' /\ SoonEnough'
      BY <1>2, <2>1, <2>2 DEF IInv, TypeOK, AfterQuiet, SoonEnough, Grant
    <2>7. Waiting' \ overtaken' = {}
      BY <1>2 DEF IInv, TypeOK, Waiting, Grant
    <2>8. DeadlineMet' /\ ReadInTime'
      BY <2>7 DEF DeadlineMet, ReadInTime, Waiting
    <2> QED
      BY <2>3, <2>5, <2>6, <2>8 DEF IInv
  <1>3. ASSUME NEW t \in Threads, Measure(t) PROVE IInv'
    <2>1. /\ tokens' = Level(now) /\ updated' = now /\ Level(now) < Cost
          /\ UNCHANGED <<now, deadline, wake, since, spent, quiet, overtaken>>
      BY <1>3 DEF Measure
    <2>2. Level(now) = tokens + (now - updated)
      BY <1>0, <2>1, LevelFacts
    <2>3. Cost - Level(now) \in Nat /\ now \in Nat
      BY <1>0, <2>1, <2>2 DEF TypeOK
    <2>4. TypeOK'
      BY <1>0, <1>3, <2>1, <2>2, <2>3 DEF TypeOK, Measure
    <2>5. Level(now)' = Level(now)
      BY <1>0, <2>1, <2>2 DEF Level, Lower
    <2>6. PaidFor' /\ AfterQuiet' /\ SoonEnough'
      BY <1>0, <2>1, <2>2, <2>5 DEF IInv, TypeOK, PaidFor, WindowBound, AfterQuiet, SoonEnough
    <2>7. /\ lack'[t] = Cost - Level(now) /\ read'[t] = now /\ pc[t] = "trying"
          /\ \A u \in Threads \ {t} : UNCHANGED <<lack[u], read[u], pc[u]>>
          /\ Waiting' \subseteq Waiting
      BY <1>3 DEF Measure, IInv, TypeOK, Waiting
    <2>8. updated' - tokens' = updated - tokens
      BY <1>0, <2>1, <2>2
    <2>9. DeadlineMet'
      BY <2>1, <2>7, <2>8 DEF IInv, DeadlineMet, Slack
    <2>10. t \notin overtaken => read'[t] + lack'[t] + Slack <= deadline[t]
      <3>1. t \in Waiting
        BY <2>7 DEF Waiting
      <3> QED
        BY <1>0, <2>2, <2>7, <3>1 DEF IInv, TypeOK, DeadlineMet
    <2>11. ReadInTime'
      BY <2>1, <2>7, <2>10 DEF IInv, ReadInTime, Slack
    <2> QED
      BY <2>4, <2>6, <2>9, <2>11 DEF IInv
  <1>4. ASSUME NEW t \in Threads, Sleep(t) \/ TimesOut(t) \/ WakeUp(t) \/ Answered(t) PROVE IInv'
    <2>1. now + Lower(lack[t], Nap) \in Nat
      BY <1>0 DEF TypeOK, Lower
    <2>2. TypeOK'
      BY <1>0, <1>4, <2>1 DEF TypeOK, Sleep, TimesOut, WakeUp, Answered, bucket, locals
    <2>3. /\ UNCHANGED <<now, tokens, updated, since, spent, quiet, overtaken>>
          /\ Waiting' \subseteq Waiting
          /\ \A u \in Waiting' : deadline'[u] = deadline[u]
      BY <1>0, <1>4 DEF Sleep, TimesOut, WakeUp, Answered, bucket, locals, TypeOK, Waiting
    <2>4. \A u \in Threads : pc'[u] = "short" => pc[u] = "short" /\ UNCHANGED <<read[u], lack[u], deadline[u]>>
      BY <1>0, <1>4 DEF Sleep, TimesOut, WakeUp, Answered, locals, TypeOK
    <2>5. PaidFor' /\ AfterQuiet' /\ SoonEnough'
      BY <2>3 DEF IInv, PaidFor, WindowBound, AfterQuiet, SoonEnough, Level
    <2>6. DeadlineMet' /\ ReadInTime'
      BY <2>3, <2>4 DEF IInv, DeadlineMet, ReadInTime, Slack
    <2> QED
      BY <2>2, <2>5, <2>6 DEF IInv
  <1>5. ASSUME NEW t \in Threads, NEW s \in Penalties, Penalize(t, s) PROVE IInv'
    <2>1. s \in Nat /\ s <= Longest
      OBVIOUS
    <2>2. /\ tokens' = 0 /\ updated' = now + s /\ quiet' = now + s
          /\ UNCHANGED <<now, locals, since, spent>>
      BY <1>5 DEF Penalize
    <2>3. TypeOK'
      BY <1>5, <2>1, <2>2 DEF IInv, TypeOK, Penalize, Waiting, locals
    <2>4. Level(now)' <= 0 /\ Level(now)' \in Int
      BY <1>0, <2>1, <2>2 DEF Level, Lower
    <2>5. PaidFor' /\ AfterQuiet' /\ SoonEnough'
      BY <1>0, <2>1, <2>2, <2>4 DEF IInv, TypeOK, PaidFor, WindowBound, AfterQuiet, SoonEnough
    <2>6. Waiting' \ overtaken' = {}
      BY <1>5 DEF IInv, TypeOK, Waiting, Penalize
    <2> QED
      BY <2>3, <2>5, <2>6 DEF IInv, DeadlineMet, ReadInTime, Waiting
  <1>6. CASE Tick
    <2>1. now' = now + 1 /\ UNCHANGED <<tokens, updated, pc, locals, since, spent, quiet, overtaken>>
      BY <1>6 DEF Tick, bucket
    <2>2. TypeOK'
      BY <1>6 DEF IInv, TypeOK, Tick, bucket, locals
    <2>3. Level(now)' <= Level(now) + 1 /\ Level(now)' \in Int /\ Level(now) \in Int
      BY <1>0, <2>1 DEF Level, Lower
    <2>4. PaidFor' /\ AfterQuiet' /\ SoonEnough'
      BY <1>0, <2>1, <2>3 DEF IInv, TypeOK, PaidFor, WindowBound, AfterQuiet, SoonEnough
    <2>5. DeadlineMet' /\ ReadInTime'
      BY <2>1 DEF IInv, DeadlineMet, ReadInTime, Waiting, Slack, locals
    <2> QED
      BY <2>2, <2>4, <2>5 DEF IInv
  <1>7. CASE Observe
    <2>1. /\ since' = now /\ spent' = 0
          /\ UNCHANGED <<now, tokens, updated, pc, locals, quiet, overtaken>>
      BY <1>7 DEF Observe, bucket
    <2>2. TypeOK'
      BY <2>1 DEF IInv, TypeOK, locals
    <2>3. Level(now)' = Level(now) /\ Level(now) <= Capacity /\ Level(now) \in Int
      BY <1>0, <2>1, LevelFacts DEF Level
    <2>4. PaidFor'
      BY <1>0, <2>1, <2>3 DEF PaidFor, WindowBound
    <2>5. AfterQuiet' /\ SoonEnough' /\ DeadlineMet' /\ ReadInTime'
      BY <2>1 DEF IInv, AfterQuiet, SoonEnough, DeadlineMet, ReadInTime, Waiting, Slack, locals
    <2> QED
      BY <2>2, <2>4, <2>5 DEF IInv
  <1>8. CASE UNCHANGED vars
    BY <1>8 DEF vars, bucket, locals, IInv, TypeOK, PaidFor, WindowBound, AfterQuiet, SoonEnough,
                DeadlineMet, ReadInTime, Waiting, Level, Slack
  <1> QED
    BY <1>1, <1>2, <1>3, <1>4, <1>5, <1>6, <1>7, <1>8 DEF Next

-----------------------------------------------------------------------------
(* The invariant the theorems below rest on holds in every state.          *)
THEOREM Invariance == Spec => []IInv
  BY InitInvariant, NextInvariant, PTL DEF Spec

(* Every variable keeps its type; the bucket never exceeds its capacity.   *)
THEOREM TypeCorrect == Spec => []TypeOK
  BY Invariance, PTL DEF IInv

(* The bound on requests in any window of time.                            *)
THEOREM RequestsBounded == Spec => []WindowBound
  BY Invariance, PTL DEF IInv, PaidFor

(* A thread nobody overtakes times out only if it stood still for longer   *)
(* than the slack between reading the clock and testing its deadline.      *)
THEOREM NoTimeoutAlone == Spec => InTime
  <1>1. IInv /\ [Next]_vars =>
          [\A t \in Threads :
             pc[t] = "short" /\ pc'[t] = "idle" => t \in overtaken \/ now - read[t] > Slack]_vars
    <2> SUFFICES ASSUME IInv, Next, NEW t \in Threads \ overtaken,
                        pc[t] = "short", pc'[t] = "idle"
                 PROVE  now - read[t] > Slack
      OBVIOUS
    <2>1. now + lack[t] > deadline[t]
      BY DEF IInv, TypeOK, Next, Enter, Grant, Measure, Sleep, TimesOut, WakeUp, Answered,
             Penalize, Tick, Observe
    <2>2. read[t] + lack[t] + Slack <= deadline[t]
      BY DEF IInv, ReadInTime
    <2>3. now \in Int /\ read[t] \in Int /\ lack[t] \in Int /\ deadline[t] \in Int /\ Slack \in Int
      BY LimiterConstants DEF IInv, TypeOK, Slack
    <2> QED
      BY <2>1, <2>2, <2>3
  <1> QED
    BY <1>1, Invariance, PTL DEF Spec, InTime

(* Nothing is granted before a penalty is over and a token earned.         *)
THEOREM PenaltyKept == Spec => PenaltyHonoured
  <1>1. IInv /\ [Next]_vars =>
          [\A t \in Threads :
             pc[t] = "trying" /\ pc'[t] = "requesting" => now >= quiet + Cost]_vars
    <2> SUFFICES ASSUME IInv, Next, NEW t \in Threads,
                        pc[t] = "trying", pc'[t] = "requesting"
                 PROVE  now >= quiet + Cost
      OBVIOUS
    <2>1. Level(now) >= Cost
      BY DEF IInv, TypeOK, Next, Enter, Grant, Measure, Sleep, TimesOut, WakeUp,
             Answered, Penalize, Tick, Observe
    <2>2. TypeOK /\ now \in Int
      BY DEF IInv, TypeOK
    <2>3. Level(now) \in Int /\ Level(now) <= tokens + (now - updated)
      BY <2>2, LevelFacts
    <2> QED
      BY <2>1, <2>2, <2>3, LimiterConstants DEF IInv, TypeOK, AfterQuiet
  <1> QED
    BY <1>1, Invariance, PTL DEF Spec, PenaltyHonoured
=============================================================================
