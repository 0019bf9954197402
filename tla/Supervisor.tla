----------------------------- MODULE Supervisor -----------------------------
(***************************************************************************)
(* `ubbit run`: one process with the engine in a daemon thread and the     *)
(* dashboard's HTTP server in the main thread (src/ubbit/supervisor.py,    *)
(* src/ubbit/dashboard.py), the two switches by which trading is stopped,  *)
(* and a service manager that starts the process again.                    *)
(*                                                                         *)
(* The kill switch is two things: engine.paused, in memory, and a file.    *)
(* POST /api/kill writes them one after the other, each request in a       *)
(* thread of its own; the operator makes or removes the file; a tick reads *)
(* them one after the other at its top.  The stop flag is set by the       *)
(* signal handler the engine installs, and read between ticks.             *)
(***************************************************************************)
CONSTANT
  Requests        \* POSTs to /api/kill that may be under way at a time

VARIABLES
  main,           \* the main thread: see TypeOK
  engine,         \* the engine thread: see TypeOK
  stop,           \* engine._stop
  paused,         \* engine.paused
  file,           \* the kill switch file exists
  killed,         \* what the present tick read of the switch
  entry,          \* the order under way opens a position
  request,        \* a POST: "none", "received", or "flagged" when paused is set
  engage,         \* what it asks for
  page,           \* a GET: "none", "flagRead", or its answer
  seen,           \* what it read of paused
  \* history
  engaged,        \* the switch was thrown, and nothing released it since
  early,          \* and that was before the present tick began
  since           \* and that was before the GET began

process == <<main, engine, stop, paused, killed, entry>>
posts   == <<request, engage>>
viewer  == <<page, seen, since>>
outside == <<posts, viewer, file, engaged, early>>
vars    == <<process, outside>>

Init ==
  /\ main = "down" /\ engine = "none"
  /\ stop = FALSE /\ paused = FALSE /\ killed = FALSE /\ entry = FALSE
  /\ file \in BOOLEAN
  /\ request = [r \in Requests |-> "none"]
  /\ engage = [r \in Requests |-> FALSE]
  /\ page = "none" /\ seen = FALSE /\ since = FALSE
  /\ engaged = file /\ early = FALSE

-----------------------------------------------------------------------------
(* The main thread.                                                        *)

(* A TradingEngine is made: its flags are clear, its handlers installed.   *)
Start ==
  /\ main = "down"
  /\ main' = "checking"
  /\ stop' = FALSE /\ paused' = FALSE
  /\ UNCHANGED <<engine, killed, entry, outside>>

(* What a process keeps in memory goes with it, its threads included.      *)
Gone ==
  /\ main' = "down" /\ engine' = "none"
  /\ stop' = FALSE /\ paused' = FALSE /\ killed' = FALSE /\ entry' = FALSE
  /\ request' = [r \in Requests |-> "none"]
  /\ engage' = [r \in Requests |-> FALSE]
  /\ early' = FALSE
  /\ page' = "none" /\ seen' = FALSE /\ since' = FALSE
  /\ UNCHANGED <<file, engaged>>

ChecksFail == main = "checking" /\ Gone

(* Slip: the engine clears its stop flag as it begins to run.              *)
LaunchAfresh ==
  /\ main = "checking"
  /\ main' = "binding"
  /\ engine' = "top"
  /\ stop' = FALSE
  /\ UNCHANGED <<paused, killed, entry, outside>>

(* startup_checks is passed, and the engine's thread started.              *)
Launch ==
  /\ main = "checking"
  /\ main' = "binding"
  /\ engine' = "top"
  /\ UNCHANGED <<stop, paused, killed, entry, outside>>

Serve ==
  /\ main = "binding"
  /\ main' = "serving"
  /\ UNCHANGED <<engine, stop, paused, killed, entry, outside>>

(* No port is free.  The serving loop itself never ends: the engine took   *)
(* the signal whose default would raise KeyboardInterrupt in it.           *)
BindFails ==
  /\ main = "binding"
  /\ main' = "joining"
  /\ stop' = TRUE
  /\ UNCHANGED <<engine, paused, killed, entry, outside>>

Joined == main = "joining" /\ engine = "stopped" /\ Gone

(* The join times out: the daemon thread dies with the process, also in    *)
(* the middle of an order.                                                 *)
JoinTimesOut == main = "joining" /\ engine # "stopped" /\ Gone

Crash == main # "down" /\ Gone

(* SIGINT or SIGTERM: _handle_signal.                                      *)
Signal ==
  /\ main # "down"
  /\ stop' = TRUE
  /\ UNCHANGED <<main, engine, paused, killed, entry, outside>>

-----------------------------------------------------------------------------
(* The engine's thread.                                                    *)

Stopped ==
  /\ engine = "top" /\ stop
  /\ engine' = "stopped"
  /\ UNCHANGED <<main, stop, paused, killed, entry, outside>>

StartTick ==
  /\ engine = "top" /\ ~stop
  /\ engine' = "flagRead"
  /\ killed' = paused
  /\ early' = engaged
  /\ UNCHANGED <<main, stop, paused, entry, posts, file, engaged, viewer>>

(* Slip: the flag is trusted alone.                                        *)
ReadFlagAlone ==
  /\ engine = "flagRead"
  /\ engine' = "working"
  /\ UNCHANGED <<main, stop, paused, killed, entry, outside>>

ReadFile ==
  /\ engine = "flagRead"
  /\ engine' = "working"
  /\ killed' = (killed \/ file)
  /\ UNCHANGED <<main, stop, paused, entry, outside>>

(* Exits run in every tick, entries unless the tick read the switch thrown.*)
SubmitOrder ==
  /\ engine = "working"
  /\ \E opens \in BOOLEAN : (opens => ~killed) /\ entry' = opens
  /\ engine' = "ordering"
  /\ UNCHANGED <<main, stop, paused, killed, outside>>

OrderReturns ==
  /\ engine = "ordering"
  /\ engine' = "working"
  /\ entry' = FALSE
  /\ UNCHANGED <<main, stop, paused, killed, outside>>

(* The tick ends, and the sleep after it.                                  *)
EndTick ==
  /\ engine = "working"
  /\ engine' = "top"
  /\ killed' = FALSE /\ early' = FALSE
  /\ UNCHANGED <<main, stop, paused, entry, posts, file, engaged, viewer>>

-----------------------------------------------------------------------------
(* POST /api/kill and the operator.                                        *)

Releasing == {r \in Requests : request[r] # "none" /\ ~engage[r]}

Post(r, on) ==
  /\ main = "serving" /\ request[r] = "none"
  /\ request' = [request EXCEPT ![r] = "received"]
  /\ engage' = [engage EXCEPT ![r] = on]
  /\ engaged' = (engaged /\ on)
  /\ early' = (early /\ on) /\ since' = (since /\ on)
  /\ UNCHANGED <<process, file, page, seen>>

SetPaused(r) ==
  /\ request[r] = "received"
  /\ paused' = engage[r]
  /\ request' = [request EXCEPT ![r] = "flagged"]
  /\ UNCHANGED <<main, engine, stop, killed, entry, engage, file, engaged, early, viewer>>

(* Slip: the flag is thought to be enough to stop trading.                 *)
SetFileOnRelease(r) ==
  /\ request[r] = "flagged"
  /\ file' = (file /\ engage[r])
  /\ request' = [request EXCEPT ![r] = "none"]
  /\ engage' = [engage EXCEPT ![r] = FALSE]
  /\ engaged' = (engaged \/ (engage[r] /\ Releasing = {}))
  /\ UNCHANGED <<process, early, viewer>>

(* The file is made or removed, and the request answered 200.              *)
SetFile(r) ==
  /\ request[r] = "flagged"
  /\ file' = engage[r]
  /\ request' = [request EXCEPT ![r] = "none"]
  /\ engage' = [engage EXCEPT ![r] = FALSE]
  /\ engaged' = (engaged \/ (engage[r] /\ Releasing = {}))
  /\ UNCHANGED <<process, early, viewer>>

(* OSError: answered 500, with the flag set and the file as it was.        *)
SetFileFails(r) ==
  /\ request[r] = "flagged"
  /\ request' = [request EXCEPT ![r] = "none"]
  /\ engage' = [engage EXCEPT ![r] = FALSE]
  /\ UNCHANGED <<process, file, engaged, early, viewer>>

TouchFile ==
  /\ file' = TRUE
  /\ engaged' = (engaged \/ Releasing = {})
  /\ UNCHANGED <<process, posts, early, viewer>>

RemoveFile ==
  /\ file' = FALSE
  /\ engaged' = FALSE /\ early' = FALSE /\ since' = FALSE
  /\ UNCHANGED <<process, posts, page, seen>>

-----------------------------------------------------------------------------
(* The page asks for the state of the switch.                              *)

Shows(thrown) == page' = (IF thrown THEN "thrown" ELSE "released")

(* GET /api/live reads the flag, and then looks for the file ...           *)
ReadLive ==
  /\ main = "serving" /\ page = "none"
  /\ page' = "flagRead"
  /\ seen' = paused
  /\ since' = engaged
  /\ UNCHANGED <<process, posts, file, engaged, early>>

(* Slip: the flag is taken for the switch.                                 *)
AnswerLiveByFlag ==
  /\ page = "flagRead"
  /\ Shows(seen)
  /\ UNCHANGED <<process, posts, file, engaged, early, seen, since>>

AnswerLive ==
  /\ page = "flagRead"
  /\ Shows(seen \/ file)
  /\ UNCHANGED <<process, posts, file, engaged, early, seen, since>>

(* ... while build_state, for GET /api/state, looks for the file alone.    *)
ReadState ==
  /\ main = "serving" /\ page = "none"
  /\ Shows(file)
  /\ since' = engaged
  /\ UNCHANGED <<process, posts, file, engaged, early, seen>>

(* The page is drawn, and asks again later.                                *)
Drawn ==
  /\ page \in {"thrown", "released"}
  /\ page' = "none" /\ seen' = FALSE /\ since' = FALSE
  /\ UNCHANGED <<process, posts, file, engaged, early>>

-----------------------------------------------------------------------------
Main   == Start \/ ChecksFail \/ Launch \/ Serve \/ BindFails \/ Joined \/ JoinTimesOut
Engine == Stopped \/ StartTick \/ ReadFile \/ SubmitOrder \/ OrderReturns \/ EndTick
Switch == \/ \E r \in Requests : \/ \E on \in BOOLEAN : Post(r, on)
                                 \/ SetPaused(r) \/ SetFile(r) \/ SetFileFails(r)
          \/ TouchFile \/ RemoveFile
Page   == ReadLive \/ AnswerLive \/ ReadState \/ Drawn

Next == Main \/ Engine \/ Switch \/ Page \/ Signal \/ Crash

Spec == Init /\ [][Next]_vars

(* The engine's thread runs, and every tick ends: its loops are over the   *)
(* markets, and every broker call returns.  The start-up checks end, too:  *)
(* their requests have time-outs.                                          *)
FairSpec ==
  Spec /\ WF_vars(Engine) /\ SF_vars(EndTick) /\ WF_vars(ChecksFail \/ Launch)

-----------------------------------------------------------------------------
TypeOK ==
  /\ main \in {"down", "checking", "binding", "serving", "joining"}
  /\ engine \in {"none", "top", "flagRead", "working", "ordering", "stopped"}
  /\ stop \in BOOLEAN /\ paused \in BOOLEAN /\ file \in BOOLEAN
  /\ killed \in BOOLEAN /\ entry \in BOOLEAN
  /\ page \in {"none", "flagRead", "thrown", "released"} /\ seen \in BOOLEAN
  /\ engaged \in BOOLEAN /\ early \in BOOLEAN /\ since \in BOOLEAN
  /\ request \in [Requests -> {"none", "received", "flagged"}]
  /\ engage \in [Requests -> BOOLEAN]
  /\ main \in {"down", "checking"} <=> engine = "none"

(* A kill switch that was thrown and answered, with no release under way,  *)
(* stays thrown until somebody asks to release it: the file outlives the   *)
(* process, and no step of an older request or of a new process undoes it. *)
KillSurvives == engaged => file

(* No tick that began after the switch was thrown opens a position: in     *)
(* any process, with either way to throw it, whatever else is under way.   *)
KillRespected ==
  [][engine = "working" /\ engine' = "ordering" /\ entry' => ~early]_vars

(* No answer to a page tells the operator that trading goes on when the    *)
(* switch was thrown before the page asked, and not released since: on     *)
(* neither path, in a new process as in the old one.                       *)
PageHonest == page = "released" => ~since

(* After a signal the engine comes to rest, also when the signal came      *)
(* during start-up, unless the process is gone.                            *)
SignalHeeded == stop /\ main # "down" ~> main = "down" \/ engine = "stopped"

(* "A window that is open while trading has stopped does not occur"        *)
(* (supervisor.py:14-15).                                                  *)
NoIdleWindow == ~(main = "serving" /\ engine = "stopped")

(***************************************************************************)
(* With it, for the proofs: no release is under way, and a tick that began *)
(* after the switch was thrown has read it so; a page is told so.          *)
(***************************************************************************)
IInv ==
  /\ TypeOK
  /\ KillSurvives
  /\ engaged => Releasing = {}
  /\ early => engaged
  /\ since => engaged
  /\ PageHonest
  /\ early /\ engine \in {"working", "ordering"} => killed
  /\ engine \in {"none", "top"} => ~early
=============================================================================
