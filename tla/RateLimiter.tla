---------------------------- MODULE RateLimiter ----------------------------
(***************************************************************************)
(* One token bucket of src/ubbit/ratelimit.py, and the threads that draw   *)
(* on it from UpbitClient._request (src/ubbit/upbit.py).                   *)
(*                                                                         *)
(* Tokens are counted in the time it takes to earn them, so that a bucket  *)
(* gains one unit in a unit of time: a request costs Cost = 1 / rate, and  *)
(* Capacity is capacity / rate.  The block under the lock is one step.     *)
(* The test of the deadline after it reads the clock again, and is a step  *)
(* of its own: any time may pass between the two.                          *)
(***************************************************************************)
EXTENDS Integers

CONSTANTS
  Threads,
  Capacity,       \* of the bucket
  Cost,           \* of a request
  Nap,            \* the longest sleep, 0.25 s
  Timeout,        \* the timeout of acquire, 30 s
  Penalties,      \* the seconds penalize is called with: 0.5, 1, 2, 4
  Longest,        \* of them
  MaxClock        \* bound on the clock

(* A group's limits: a request costs no more than the bucket holds, and it *)
(* and a penalty fit into the caller's patience.                           *)
Limits ==
  /\ Cost \in Nat \ {0} /\ Capacity \in Nat /\ Cost <= Capacity
  /\ Nap \in Nat \ {0}
  /\ MaxClock \in Nat
  /\ Penalties \subseteq Nat
  /\ Longest \in Nat /\ \A s \in Penalties : s <= Longest
  /\ Timeout \in Nat /\ Longest + Cost <= Timeout

ASSUME LimiterConstants == Limits

VARIABLES
  now,
  tokens, updated,    \* the bucket
  pc,                 \* "idle", "trying", "short", "sleeping" in acquire, "requesting" after it
  deadline,           \* locals of a thread in acquire, 0 outside: when to give up,
  lack,               \* what the bucket was short of when the lock was held,
  wake,               \* and the end of the sleep
  \* history
  since,              \* start of the window under observation, and
  spent,              \* what was granted in it
  quiet,              \* end of the last penalty
  read,               \* when a thread that is "short" read the clock under the lock
  overtaken           \* threads in acquire while another was granted or penalised

bucket == <<tokens, updated>>
locals == <<deadline, lack, wake, read>>
vars == <<now, bucket, pc, locals, since, spent, quiet, overtaken>>

Lower(a, b) == IF a < b THEN a ELSE b

(* What the bucket holds at time n; after a penalty less than nothing.     *)
Level(n) == Lower(Capacity, tokens + (n - updated))

Waiting == {t \in Threads : pc[t] \in {"trying", "short", "sleeping"}}

Init ==
  /\ now = 0
  /\ tokens = Capacity /\ updated = 0
  /\ pc = [t \in Threads |-> "idle"]
  /\ deadline = [t \in Threads |-> 0]
  /\ lack = [t \in Threads |-> 0]
  /\ wake = [t \in Threads |-> 0]
  /\ read = [t \in Threads |-> 0]
  /\ since = 0 /\ spent = 0
  /\ quiet = 0 - Capacity
  /\ overtaken = {}

-----------------------------------------------------------------------------
Enter(t) ==
  /\ pc[t] = "idle"
  /\ pc' = [pc EXCEPT ![t] = "trying"]
  /\ deadline' = [deadline EXCEPT ![t] = now + Timeout]
  /\ overtaken' = overtaken \ {t}
  /\ UNCHANGED <<now, bucket, lack, wake, read, since, spent, quiet>>

(* Slip: the refill is not stamped, and counts again the next time.        *)
GrantUnstamped(t) ==
  /\ pc[t] = "trying" /\ Level(now) >= Cost
  /\ tokens' = Level(now) - Cost
  /\ updated' = updated
  /\ pc' = [pc EXCEPT ![t] = "requesting"]
  /\ spent' = spent + Cost
  /\ overtaken' = overtaken \cup (Waiting \ {t})
  /\ deadline' = [deadline EXCEPT ![t] = 0]
  /\ UNCHANGED <<now, lack, wake, read, since, quiet>>

Grant(t) ==
  /\ pc[t] = "trying" /\ Level(now) >= Cost
  /\ tokens' = Level(now) - Cost
  /\ updated' = now
  /\ pc' = [pc EXCEPT ![t] = "requesting"]
  /\ spent' = spent + Cost
  /\ overtaken' = overtaken \cup (Waiting \ {t})
  /\ deadline' = [deadline EXCEPT ![t] = 0]
  /\ UNCHANGED <<now, lack, wake, read, since, quiet>>

(* Too little: what is missing is a local of the thread from here on.      *)
Measure(t) ==
  /\ pc[t] = "trying" /\ Level(now) < Cost
  /\ tokens' = Level(now) /\ updated' = now
  /\ lack' = [lack EXCEPT ![t] = Cost - Level(now)]
  /\ read' = [read EXCEPT ![t] = now]
  /\ pc' = [pc EXCEPT ![t] = "short"]
  /\ UNCHANGED <<now, deadline, wake, since, spent, quiet, overtaken>>

(* Sleep for it, but never long, and try again.                            *)
Sleep(t) ==
  /\ pc[t] = "short" /\ now + lack[t] <= deadline[t]
  /\ wake' = [wake EXCEPT ![t] = now + Lower(lack[t], Nap)]
  /\ lack' = [lack EXCEPT ![t] = 0]
  /\ read' = [read EXCEPT ![t] = 0]
  /\ pc' = [pc EXCEPT ![t] = "sleeping"]
  /\ UNCHANGED <<now, bucket, deadline, since, spent, quiet, overtaken>>

(* TimeoutError.  No caller in the program catches it as its own.          *)
TimesOut(t) ==
  /\ pc[t] = "short" /\ now + lack[t] > deadline[t]
  /\ deadline' = [deadline EXCEPT ![t] = 0]
  /\ lack' = [lack EXCEPT ![t] = 0]
  /\ read' = [read EXCEPT ![t] = 0]
  /\ pc' = [pc EXCEPT ![t] = "idle"]
  /\ UNCHANGED <<now, bucket, wake, since, spent, quiet, overtaken>>

WakeUp(t) ==
  /\ pc[t] = "sleeping" /\ now >= wake[t]
  /\ pc' = [pc EXCEPT ![t] = "trying"]
  /\ wake' = [wake EXCEPT ![t] = 0]
  /\ UNCHANGED <<now, bucket, deadline, lack, read, since, spent, quiet, overtaken>>

(* Any answer to the request but 429 and 418.                              *)
Answered(t) ==
  /\ pc[t] = "requesting"
  /\ pc' = [pc EXCEPT ![t] = "idle"]
  /\ UNCHANGED <<now, bucket, locals, since, spent, quiet, overtaken>>

(* Slips: the bucket is emptied and refills at once; penalties add up.     *)
PenalizeMild(t, s) ==
  /\ pc[t] = "requesting"
  /\ tokens' = 0 /\ updated' = now
  /\ pc' = [pc EXCEPT ![t] = "idle"]
  /\ quiet' = now + s
  /\ overtaken' = overtaken \cup Waiting
  /\ UNCHANGED <<now, locals, since, spent>>

PenalizeMore(t, s) ==
  /\ pc[t] = "requesting"
  /\ tokens' = 0
  /\ updated' = (IF updated > now THEN updated ELSE now) + s
  /\ pc' = [pc EXCEPT ![t] = "idle"]
  /\ quiet' = now + s
  /\ overtaken' = overtaken \cup Waiting
  /\ UNCHANGED <<now, locals, since, spent>>

(* 429 or 418: the bucket is empty until s from now, whatever penalty ran. *)
Penalize(t, s) ==
  /\ pc[t] = "requesting"
  /\ tokens' = 0 /\ updated' = now + s
  /\ pc' = [pc EXCEPT ![t] = "idle"]
  /\ quiet' = now + s
  /\ overtaken' = overtaken \cup Waiting
  /\ UNCHANGED <<now, locals, since, spent>>

Tick ==
  /\ now < MaxClock
  /\ now' = now + 1
  /\ UNCHANGED <<bucket, pc, locals, since, spent, quiet, overtaken>>

(* History: the window under observation starts here.                      *)
Observe ==
  /\ since' = now /\ spent' = 0
  /\ UNCHANGED <<now, bucket, pc, locals, quiet, overtaken>>

Next ==
  \/ \E t \in Threads :
       \/ Enter(t) \/ Grant(t) \/ Measure(t) \/ Sleep(t) \/ TimesOut(t)
       \/ WakeUp(t) \/ Answered(t)
       \/ \E s \in Penalties : Penalize(t, s)
  \/ Tick
  \/ Observe

Spec == Init /\ [][Next]_vars

-----------------------------------------------------------------------------
TypeOK ==
  /\ now \in 0..MaxClock
  /\ tokens \in Int /\ tokens <= Capacity /\ updated \in Int
  /\ pc \in [Threads -> {"idle", "trying", "short", "sleeping", "requesting"}]
  /\ deadline \in [Threads -> Nat]
  /\ lack \in [Threads -> Nat]
  /\ wake \in [Threads -> Nat]
  /\ read \in [Threads -> Nat]
  /\ since \in 0..now /\ spent \in Nat
  /\ quiet \in Int
  /\ overtaken \subseteq Threads

(* In no window of time, wherever it starts, are more requests granted     *)
(* than the bucket's capacity and what it earns in the window pay for:     *)
(* over concurrent callers, naps, time-outs and penalties, of which a new  *)
(* one may cut an old one short.                                           *)
WindowBound == spent <= Capacity + (now - since)

(* After a 429 nothing is granted until the penalty is over and a token    *)
(* has been earned since.                                                  *)
PenaltyHonoured ==
  [][\A t \in Threads :
       pc[t] = "trying" /\ pc'[t] = "requesting" => now >= quiet + Cost]_vars

(* What a penalty and a token leave of a caller's patience: 24 s and more  *)
(* of its 30.                                                              *)
Slack == Timeout - (Longest + Cost)

(* acquire raises TimeoutError only on a thread that another thread has    *)
(* overtaken, or that stood still for longer than the slack between its    *)
(* two readings of the clock: the one thread of a client never waits       *)
(* itself out, whatever penalties ran when it came and however long its    *)
(* sleeps took.                                                            *)
InTime ==
  [][\A t \in Threads :
       pc[t] = "short" /\ pc'[t] = "idle" => t \in overtaken \/ now - read[t] > Slack]_vars

(***************************************************************************)
(* What makes them inductive: the level never runs ahead of the window,    *)
(* nor of the last penalty; a penalty ends in time for any deadline set    *)
(* later; a thread nobody overtook finds its token by its deadline, and    *)
(* what it measured was in time with the slack to spare.                   *)
(***************************************************************************)
PaidFor     == spent + Level(now) <= Capacity + (now - since) /\ WindowBound
AfterQuiet  == tokens - updated <= 0 - quiet
SoonEnough  == updated - tokens <= now + Longest
DeadlineMet == \A t \in Waiting \ overtaken : updated - tokens + Cost + Slack <= deadline[t]
ReadInTime  == \A t \in Threads \ overtaken :
                 pc[t] = "short" => read[t] + lack[t] + Slack <= deadline[t]

IInv == TypeOK /\ PaidFor /\ AfterQuiet /\ SoonEnough /\ DeadlineMet /\ ReadInTime
============================================================================
