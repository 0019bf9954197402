-------------------------- MODULE SupervisorProof --------------------------
(***************************************************************************)
(* Proofs about the kill switch of Supervisor, for any number of requests. *)
(***************************************************************************)
EXTENDS Supervisor, TLAPS

LEMMA InitInvariant == Init => IInv
  <1> SUFFICES ASSUME Init PROVE IInv
    OBVIOUS
  <1>1. TypeOK
    BY DEF Init, TypeOK
  <1>2. Releasing = {}
    BY DEF Init, Releasing
  <1> QED
    BY <1>1, <1>2 DEF Init, IInv, KillSurvives, PageHonest

(* When nothing releases the switch now, nothing does in a step that adds  *)
(* no release.                                                             *)
LEMMA NoNewRelease ==
  ASSUME Releasing = {},
         \A r \in Requests : request'[r] # "none" /\ ~engage'[r]
                              => request[r] # "none" /\ ~engage[r]
  PROVE  Releasing' = {}
  BY DEF Releasing

LEMMA NextInvariant == IInv /\ [Next]_vars => IInv'
  <1> SUFFICES ASSUME IInv, [Next]_vars PROVE IInv'
    OBVIOUS
  <1> USE DEF IInv, PageHonest
  <1>1. CASE Start
    BY <1>1 DEF Start, posts, outside, viewer, TypeOK, KillSurvives, Releasing
  <1>2. CASE Gone
    BY <1>2 DEF Gone, TypeOK, KillSurvives, Releasing
  <1>3. CASE Launch
    BY <1>3 DEF Launch, posts, outside, viewer, TypeOK, KillSurvives, Releasing
  <1>4. CASE Serve \/ BindFails \/ Signal
    <2>1. TypeOK'
      <3>1. CASE Serve
        BY <3>1 DEF Serve, TypeOK, posts, outside, viewer
      <3>2. CASE BindFails
        BY <3>2 DEF BindFails, TypeOK, posts, outside, viewer
      <3>3. CASE Signal
        BY <3>3 DEF Signal, TypeOK, posts, outside, viewer
      <3> QED
        BY <1>4, <3>1, <3>2, <3>3
    <2>2. Releasing' = Releasing
      BY <1>4 DEF Serve, BindFails, Signal, posts, outside, viewer, Releasing
    <2> QED
      BY <1>4, <2>1, <2>2 DEF Serve, BindFails, Signal, TypeOK, KillSurvives, posts, outside, viewer
  <1>5. CASE Stopped \/ StartTick \/ ReadFile
    BY <1>5 DEF Stopped, StartTick, ReadFile, posts, outside, viewer, TypeOK, KillSurvives, Releasing
  <1>6. CASE SubmitOrder \/ OrderReturns \/ EndTick
    <2>1. TypeOK'
      <3>1. CASE SubmitOrder
        BY <3>1 DEF SubmitOrder, TypeOK, posts, outside, viewer
      <3>2. CASE OrderReturns
        BY <3>2, ZenonT(60) DEF OrderReturns, TypeOK, posts, outside, viewer
      <3>3. CASE EndTick
        BY <3>3, ZenonT(60) DEF EndTick, TypeOK, posts, outside, viewer
      <3> QED
        BY <1>6, <3>1, <3>2, <3>3
    <2>2. Releasing' = Releasing
      BY <1>6 DEF SubmitOrder, OrderReturns, EndTick, posts, outside, viewer, Releasing
    <2> QED
      BY <1>6, <2>1, <2>2 DEF SubmitOrder, OrderReturns, EndTick, TypeOK, KillSurvives, posts, outside, viewer
  <1>7. ASSUME NEW r \in Requests, NEW on \in BOOLEAN, Post(r, on) PROVE IInv'
    <2>1. TypeOK'
      BY <1>7 DEF Post, process, viewer, TypeOK
    <2>2. engaged' => engaged /\ on
      BY <1>7 DEF Post
    <2>3. on /\ Releasing = {} => Releasing' = {}
      BY <1>7 DEF Post, TypeOK, Releasing
    <2> QED
      BY <1>7, <2>1, <2>2, <2>3 DEF Post, process, viewer, KillSurvives
  <1>8. ASSUME NEW r \in Requests, SetPaused(r) PROVE IInv'
    <2>1. TypeOK'
      BY <1>8 DEF SetPaused, viewer, TypeOK
    <2>2. Releasing = {} => Releasing' = {}
      BY <1>8 DEF SetPaused, TypeOK, Releasing
    <2> QED
      BY <1>8, <2>1, <2>2 DEF SetPaused, viewer, KillSurvives
  <1>9. ASSUME NEW r \in Requests, SetFile(r) PROVE IInv'
    <2>1. TypeOK'
      BY <1>9 DEF SetFile, process, viewer, TypeOK
    <2>2. Releasing = {} => Releasing' = {}
      BY <1>9 DEF SetFile, TypeOK, Releasing
    <2>3. engaged => engage[r]
      BY <1>9 DEF SetFile, Releasing
    <2>4. engaged' => Releasing = {} /\ engage[r]
      BY <1>9, <2>3 DEF SetFile
    <2>5. /\ UNCHANGED <<process, early, viewer>> /\ file' = engage[r]
          /\ (engaged => engaged')
      BY <1>9 DEF SetFile
    <2>6. KillSurvives'
      BY <2>4, <2>5 DEF KillSurvives
    <2> QED
      BY <2>1, <2>2, <2>4, <2>5, <2>6 DEF process, viewer
  <1>10. ASSUME NEW r \in Requests, SetFileFails(r) PROVE IInv'
    <2>1. TypeOK'
      BY <1>10 DEF SetFileFails, process, viewer, TypeOK
    <2>2. Releasing = {} => Releasing' = {}
      BY <1>10 DEF SetFileFails, TypeOK, Releasing
    <2> QED
      BY <1>10, <2>1, <2>2 DEF SetFileFails, process, viewer, KillSurvives
  <1>11. CASE TouchFile \/ RemoveFile
    <2>1. TypeOK'
      <3>1. CASE TouchFile
        BY <3>1 DEF TouchFile, TypeOK, posts, outside, viewer, process
      <3>2. CASE RemoveFile
        BY <3>2, ZenonT(60) DEF RemoveFile, TypeOK, posts, outside, viewer, process
      <3> QED
        BY <1>11, <3>1, <3>2
    <2>2. Releasing' = Releasing
      BY <1>11 DEF TouchFile, RemoveFile, posts, outside, viewer, Releasing
    <2> QED
      BY <1>11, <2>1, <2>2 DEF TouchFile, RemoveFile, TypeOK, KillSurvives, posts, outside, viewer, process
  <1>12. CASE Page
    <2>1. /\ UNCHANGED <<process, posts, file, engaged, early>>
          /\ page' \in {"none", "flagRead", "thrown", "released"} /\ seen' \in BOOLEAN
          /\ since' => engaged
          /\ page' = "released" => ~since' \/ ~file
          /\ since' \in BOOLEAN
      <3>1. CASE ReadLive
        BY <3>1 DEF ReadLive, TypeOK
      <3>2. CASE AnswerLive \/ ReadState
        BY <3>2 DEF AnswerLive, ReadState, Shows, TypeOK
      <3>3. CASE Drawn
        BY <3>3 DEF Drawn
      <3> QED
        BY <1>12, <3>1, <3>2, <3>3 DEF Page
    <2>2. TypeOK'
      BY <2>1 DEF TypeOK, process, posts
    <2>3. Releasing' = Releasing /\ KillSurvives'
      BY <2>1 DEF Releasing, posts, KillSurvives
    <2>4. page' = "released" => ~since'
      BY <2>1 DEF KillSurvives
    <2> QED
      BY <2>1, <2>2, <2>3, <2>4 DEF process, viewer
  <1>13. CASE UNCHANGED vars
    BY <1>13 DEF vars, process, posts, outside, viewer, TypeOK, KillSurvives, Releasing
  <1> QED
    BY <1>1, <1>2, <1>3, <1>4, <1>5, <1>6, <1>7, <1>8, <1>9, <1>10, <1>11, <1>12, <1>13
    DEF Next, Main, Engine, Switch, ChecksFail, Joined, JoinTimesOut, Crash

-----------------------------------------------------------------------------
(* The invariant the theorems below rest on holds in every state.          *)
THEOREM Invariance == Spec => []IInv
  BY InitInvariant, NextInvariant, PTL DEF Spec

(* Every variable keeps its type; no engine outlives its process.          *)
THEOREM TypeCorrect == Spec => []TypeOK
  BY Invariance, PTL DEF IInv

(* The kill switch survives restarts, failed writes and older requests.    *)
THEOREM SwitchStays == Spec => []KillSurvives
  BY Invariance, PTL DEF IInv

(* No answer tells the page that trading goes on under a thrown switch.    *)
THEOREM PageTold == Spec => []PageHonest
  BY Invariance, PTL DEF IInv

(* No tick that began with the switch thrown opens a position.             *)
THEOREM NoEntryAfterKill == Spec => KillRespected
  <1>1. IInv /\ [Next]_vars =>
          [engine = "working" /\ engine' = "ordering" /\ entry' => ~early]_vars
    <2> SUFFICES ASSUME IInv, Next, engine = "working", engine' = "ordering", entry', early
                 PROVE  FALSE
      OBVIOUS
    <2>1. killed
      BY DEF IInv
    <2>2. SubmitOrder
      BY DEF Next, Main, Engine, Switch, Start, Gone, ChecksFail, Launch, Serve, BindFails,
             Joined, JoinTimesOut, Crash, Signal, Stopped, StartTick, ReadFile, OrderReturns,
             EndTick, Post, SetPaused, SetFile, SetFileFails, TouchFile, RemoveFile, process,
             Page, ReadLive, AnswerLive, ReadState, Drawn
    <2> QED
      BY <2>1, <2>2 DEF SubmitOrder
  <1> QED
    BY <1>1, Invariance, PTL DEF Spec, KillRespected
=============================================================================
