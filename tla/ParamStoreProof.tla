-------------------------- MODULE ParamStoreProof --------------------------
(***************************************************************************)
(* Proofs about ParamStore, for any number of markets and of optimize      *)
(* processes, any reports, and every margin and threshold.                 *)
(*                                                                         *)
(* IInv of ParamStore is the inductive invariant: what any file or process *)
(* holds was judged sound once, and a process that runs alone has a file   *)
(* and a temporary file to itself.                                         *)
(***************************************************************************)
EXTENDS ParamStore, TLAPS

USE AdaptConstants DEF PromotionRules

-----------------------------------------------------------------------------
(* Contents of files.                                                      *)

(* The three kinds of content are told apart.                              *)
LEMMA StoreFacts ==
  \A e : /\ Store(e).whole /\ Store(e).there /\ Store(e).entries = e
         /\ Entries(Store(e)) = e
         /\ Store(e) # Absent /\ Store(e) # Partial
  BY DEF Store, Absent, Partial, Entries

LEMMA AbsentFacts ==
  /\ Entries(Absent) = Empty /\ Entries(Partial) = Empty /\ Absent # Partial
  /\ ~Absent.there
  BY DEF Absent, Partial, Entries

LEMMA EmptyType == Empty \in [Markets -> Entry] /\ OnlySound(Empty)
  BY DEF Empty, Entry, OnlySound

(* What a content holds for the markets is well formed, and a store is     *)
(* nothing but that.                                                       *)
LEMMA EntriesType ==
  \A content : IsContent(content) =>
    /\ Entries(content) \in [Markets -> Entry]
    /\ content.there /\ content # Partial => content = Store(Entries(content))
  <1> SUFFICES ASSUME NEW content, IsContent(content)
               PROVE  /\ Entries(content) \in [Markets -> Entry]
                      /\ content.there /\ content # Partial =>
                           content = Store(Entries(content))
    OBVIOUS
  <1>1. CASE content \in {Absent, Partial}
    BY <1>1, AbsentFacts, EmptyType
  <1>2. CASE content = Store(content.entries) /\ content.entries \in [Markets -> Entry]
    BY <1>2, StoreFacts
  <1> QED
    BY <1>1, <1>2 DEF IsContent

LEMMA ContentTypes ==
  /\ IsContent(Absent) /\ IsContent(Partial)
  /\ \A e \in [Markets -> Entry] : IsContent(Store(e))
  BY StoreFacts DEF IsContent

(* ParamStore.__init__ reads what the file holds.                          *)
LEMMA LoadedEntries == \A content : Loaded(content) = Entries(content)
  BY DEF Loaded, Entries

(* A promotion changes one entry, to a sound and better report.            *)
LEMMA Promotion ==
  ASSUME NEW e \in [Markets -> Entry], NEW m \in Markets, NEW report \in Reports,
         Promotes(report, e[m]), OnlySound(e)
  PROVE  /\ [e EXCEPT ![m] = report] \in [Markets -> Entry]
         /\ OnlySound([e EXCEPT ![m] = report])
         /\ Better(e, [e EXCEPT ![m] = report])
  BY DEF Entry, OnlySound, Better, Promotes

-----------------------------------------------------------------------------
LEMMA InitInvariant == Init => IInv
  <1> SUFFICES ASSUME Init PROVE IInv
    OBVIOUS
  <1>1. TypeOK
    <2>1. IsContent(file) /\ IsContent(tmp) /\ IsContent(engine)
      BY ContentTypes DEF Init
    <2>2. cache \in [Optimisers -> [Markets -> Entry]] /\ overlap \in BOOLEAN
      BY EmptyType DEF Init
    <2>3. /\ pc \in [Optimisers -> {"off", "judging", "writing", "replacing"}]
          /\ todo \in [Optimisers -> SUBSET Markets]
          /\ fd \in [Optimisers -> {"closed", "tmp", "file", "lost"}]
          /\ \A o \in Optimisers : pc[o] # "writing" => fd[o] = "closed"
      BY DEF Init
    <2>4. promotions \in 0..MaxPromotions
      BY DEF Init
    <2> QED
      BY <2>1, <2>2, <2>3, <2>4 DEF TypeOK
  <1>2. SoundEverywhere
    BY EmptyType, AbsentFacts DEF Init, SoundEverywhere
  <1>3. OneAtATime
    BY AbsentFacts DEF Init, OneAtATime
  <1> QED
    BY <1>1, <1>2, <1>3 DEF IInv

LEMMA NextInvariant == IInv /\ [Next]_vars => IInv'
  <1> SUFFICES ASSUME IInv, [Next]_vars PROVE IInv'
    OBVIOUS
  <1>0. TypeOK /\ SoundEverywhere /\ (~overlap => OneAtATime)
    BY DEF IInv
  <1>1. ASSUME NEW o \in Optimisers, Start(o) PROVE IInv'
    <2>1. cache' = [cache EXCEPT ![o] = Entries(file)] /\ UNCHANGED <<file, tmp, fd, engine>>
      BY <1>1, LoadedEntries DEF Start
    <2>2. TypeOK'
      BY <1>0, <1>1, <2>1, EntriesType DEF Start, TypeOK
    <2>3. SoundEverywhere'
      BY <1>0, <2>1 DEF TypeOK, SoundEverywhere
    <2>4. ASSUME ~overlap' PROVE OneAtATime'
      <3>1. ~overlap /\ \A p \in Optimisers : pc[p] = "off"
        BY <1>0, <1>1, <2>4 DEF Start, TypeOK
      <3>2. pc' = [pc EXCEPT ![o] = "judging"]
        BY <1>1 DEF Start
      <3>3. \A p \in Optimisers : pc'[p] = IF p = o THEN "judging" ELSE "off"
        BY <1>0, <3>1, <3>2 DEF TypeOK
      <3>4. cache'[o] = Entries(file')
        BY <1>0, <2>1 DEF TypeOK
      <3> QED
        BY <1>0, <2>1, <3>1, <3>3, <3>4 DEF OneAtATime
    <2> QED
      BY <2>2, <2>3, <2>4 DEF IInv
  <1>2. ASSUME NEW o \in Optimisers, Dump(o) PROVE IInv'
    <2>1. cache[o] \in [Markets -> Entry] /\ IsContent(Store(cache[o]))
      BY <1>0, ContentTypes DEF TypeOK
    <2>2. \A content : Written(o, content) \subseteq {Store(cache[o]), Partial}
      BY DEF Written
    <2>3. /\ tmp' \in {tmp, Store(cache[o]), Partial}
          /\ file' \in {file, Store(cache[o]), Partial}
      BY <1>2, <2>2 DEF Dump
    <2>4. /\ pc' = [pc EXCEPT ![o] = "replacing"] /\ fd' = [fd EXCEPT ![o] = "closed"]
          /\ UNCHANGED <<cache, todo, engine, promotions, overlap>>
      BY <1>2 DEF Dump
    <2>5. TypeOK'
      <3>1. IsContent(file)' /\ IsContent(tmp)' /\ IsContent(engine)'
        BY <1>0, <2>1, <2>3, <2>4, ContentTypes DEF TypeOK, IsContent
      <3> QED
        BY <1>0, <2>4, <3>1 DEF TypeOK
    <2>6. SoundEverywhere'
      BY <1>0, <2>3, <2>4, StoreFacts, AbsentFacts, EmptyType DEF SoundEverywhere
    <2>7. ASSUME ~overlap' PROVE OneAtATime'
      <3>1. OneAtATime /\ pc[o] = "writing" /\ fd[o] = "tmp" /\ tmp = Partial
        BY <1>0, <1>2, <2>4, <2>7 DEF Dump, OneAtATime
      <3>2. tmp' = Store(cache[o]) /\ file' = file
        BY <1>2, <3>1 DEF Dump, Written
      <3>3. \A p \in Optimisers : pc'[p] = IF p = o THEN "replacing" ELSE "off"
        BY <1>0, <2>4, <3>1 DEF TypeOK, OneAtATime
      <3> QED
        BY <2>4, <3>1, <3>2, <3>3 DEF OneAtATime
    <2> QED
      BY <2>5, <2>6, <2>7 DEF IInv
  <1>3. ASSUME NEW o \in Optimisers, Replace(o) PROVE IInv'
    <2>1. /\ file' = tmp /\ tmp' = Absent /\ pc' = [pc EXCEPT ![o] = "judging"]
          /\ UNCHANGED <<cache, todo, engine, promotions, overlap>>
      BY <1>3 DEF Replace
    <2>2. TypeOK'
      <3>1. \A p \in Optimisers : fd'[p] \in {"closed", "tmp", "file", "lost"}
                                  /\ (fd[p] = "closed" => fd'[p] = "closed")
        BY <1>0, <1>3 DEF Replace, TypeOK
      <3>2. fd' \in [Optimisers -> {"closed", "tmp", "file", "lost"}]
        BY <3>1, <1>3 DEF Replace
      <3>3. IsContent(file)' /\ IsContent(tmp)' /\ IsContent(engine)'
        BY <1>0, <2>1, ContentTypes DEF TypeOK, IsContent
      <3>4. pc[o] = "replacing"
        BY <1>3 DEF Replace
      <3> QED
        BY <1>0, <2>1, <3>1, <3>2, <3>3, <3>4 DEF TypeOK
    <2>3. SoundEverywhere'
      BY <1>0, <2>1, AbsentFacts, EmptyType DEF SoundEverywhere
    <2>4. ASSUME ~overlap' PROVE OneAtATime'
      <3>1. OneAtATime /\ pc[o] = "replacing" /\ tmp = Store(cache[o])
        BY <1>0, <1>3, <2>1, <2>4 DEF Replace, OneAtATime
      <3>2. file' # Partial /\ cache'[o] = Entries(file')
        BY <2>1, <3>1, StoreFacts
      <3>3. \A p \in Optimisers : pc'[p] = IF p = o THEN "judging" ELSE "off"
        BY <1>0, <2>1, <3>1 DEF TypeOK, OneAtATime
      <3> QED
        BY <3>2, <3>3 DEF OneAtATime
    <2> QED
      BY <2>2, <2>3, <2>4 DEF IInv
  <1>4. ASSUME NEW o \in Optimisers, Exit(o) PROVE IInv'
    <2>1. /\ pc' = [pc EXCEPT ![o] = "off"] /\ cache' = [cache EXCEPT ![o] = Empty]
          /\ fd' = [fd EXCEPT ![o] = "closed"] /\ todo' = [todo EXCEPT ![o] = {}]
          /\ UNCHANGED <<file, tmp, engine, promotions, overlap>>
      BY <1>4 DEF Exit
    <2>2. TypeOK'
      BY <1>0, <2>1, EmptyType DEF TypeOK, IsContent
    <2>3. SoundEverywhere'
      BY <1>0, <2>1, EmptyType DEF TypeOK, SoundEverywhere
    <2>4. ASSUME ~overlap' PROVE OneAtATime'
      <3>1. OneAtATime
        BY <1>0, <2>1, <2>4
      <3>2. \A p \in Optimisers : pc'[p] # "off" =>
              p # o /\ pc'[p] = pc[p] /\ cache'[p] = cache[p] /\ fd'[p] = fd[p]
        BY <1>0, <2>1 DEF TypeOK
      <3> QED
        BY <2>1, <3>1, <3>2 DEF OneAtATime
    <2> QED
      BY <2>2, <2>3, <2>4 DEF IInv
  <1>5. ASSUME NEW o \in Optimisers, NEW m \in Markets, Reject(o, m) PROVE IInv'
    <2>1. /\ todo' = [todo EXCEPT ![o] = @ \ {m}]
          /\ UNCHANGED <<file, tmp, pc, cache, fd, engine, promotions, overlap>>
      BY <1>5 DEF Reject
    <2>2. TypeOK'
      BY <1>0, <2>1 DEF TypeOK, IsContent
    <2>3. SoundEverywhere' /\ (~overlap' => OneAtATime')
      BY <1>0, <2>1 DEF SoundEverywhere, OneAtATime
    <2> QED
      BY <2>2, <2>3 DEF IInv
  <1>6. ASSUME NEW o \in Optimisers, NEW m \in Markets, NEW report \in Reports,
               Promote(o, m, report)
        PROVE  IInv'
    <2> DEFINE after == [cache[o] EXCEPT ![m] = report]
    <2>1. /\ pc[o] = "judging" /\ pc' = [pc EXCEPT ![o] = "writing"]
          /\ tmp' = Partial /\ fd' = [fd EXCEPT ![o] = "tmp"]
          /\ todo' = [todo EXCEPT ![o] = @ \ {m}]
          /\ promotions < MaxPromotions /\ promotions' = promotions + 1
          /\ UNCHANGED <<file, engine, overlap>>
      BY <1>6 DEF Promote
    <2>2. cache' = [cache EXCEPT ![o] = after]
      BY <1>6 DEF Promote
    <2>3. /\ after \in [Markets -> Entry] /\ OnlySound(after) /\ Better(cache[o], after)
      <3>1. cache[o] \in [Markets -> Entry] /\ OnlySound(cache[o])
        BY <1>0 DEF TypeOK, SoundEverywhere
      <3>2. Promotes(report, cache[o][m])
        BY <1>6 DEF Promote
      <3> QED
        BY <3>1, <3>2, Promotion
    <2>4. TypeOK'
      <3>1. IsContent(file)' /\ IsContent(tmp)' /\ IsContent(engine)'
        BY <1>0, <2>1, ContentTypes DEF TypeOK, IsContent
      <3>2. cache' \in [Optimisers -> [Markets -> Entry]]
        BY <1>0, <2>2, <2>3 DEF TypeOK
      <3>3. /\ pc' \in [Optimisers -> {"off", "judging", "writing", "replacing"}]
            /\ todo' \in [Optimisers -> SUBSET Markets]
            /\ fd' \in [Optimisers -> {"closed", "tmp", "file", "lost"}]
            /\ \A p \in Optimisers : pc'[p] # "writing" => fd'[p] = "closed"
        BY <1>0, <2>1 DEF TypeOK
      <3>4. promotions' \in 0..MaxPromotions /\ overlap' \in BOOLEAN
        BY <1>0, <2>1 DEF TypeOK
      <3> QED
        BY <3>1, <3>2, <3>3, <3>4 DEF TypeOK
    <2>5. SoundEverywhere'
      <3>1. \A p \in Optimisers : cache'[p] = IF p = o THEN after ELSE cache[p]
        BY <1>0, <2>2 DEF TypeOK
      <3> QED
        BY <1>0, <2>1, <2>3, <3>1, AbsentFacts, EmptyType DEF SoundEverywhere
    <2>6. ASSUME ~overlap' PROVE OneAtATime'
      <3>1. OneAtATime /\ cache[o] = Entries(file)
        BY <1>0, <2>1, <2>6 DEF OneAtATime
      <3>2. cache'[o] = after /\ fd'[o] = "tmp"
        BY <1>0, <2>1, <2>2 DEF TypeOK
      <3>3. \A p \in Optimisers : pc'[p] = IF p = o THEN "writing" ELSE "off"
        BY <1>0, <2>1, <3>1 DEF TypeOK, OneAtATime
      <3> QED
        BY <2>1, <2>3, <3>1, <3>2, <3>3 DEF OneAtATime
    <2> QED
      BY <2>4, <2>5, <2>6 DEF IInv
  <1>7. ASSUME EngineStarts \/ EngineStops PROVE IInv'
    <2>1. /\ engine' \in {Absent, Store(Entries(file))}
          /\ UNCHANGED <<file, tmp, pc, cache, todo, fd, promotions, overlap>>
      BY <1>7, LoadedEntries DEF EngineStarts, EngineStops
    <2>2. IsContent(engine') /\ OnlySound(Entries(engine'))
      <3>1. Entries(file) \in [Markets -> Entry] /\ OnlySound(Entries(file))
        BY <1>0, EntriesType DEF TypeOK, SoundEverywhere
      <3> QED
        BY <2>1, <3>1, StoreFacts, AbsentFacts, EmptyType, ContentTypes
    <2>3. TypeOK'
      BY <1>0, <2>1, <2>2 DEF TypeOK, IsContent
    <2>4. SoundEverywhere' /\ (~overlap' => OneAtATime')
      BY <1>0, <2>1, <2>2 DEF SoundEverywhere, OneAtATime
    <2> QED
      BY <2>3, <2>4 DEF IInv
  <1>8. CASE UNCHANGED vars
    BY <1>0, <1>8 DEF vars, IInv, TypeOK, IsContent, SoundEverywhere, OneAtATime
  <1> QED
    BY <1>1, <1>2, <1>3, <1>4, <1>5, <1>6, <1>7, <1>8 DEF Next

(* The inductive invariant holds in every reachable state.                 *)
THEOREM Invariance == Spec => []IInv
  BY InitInvariant, NextInvariant, PTL DEF Spec

-----------------------------------------------------------------------------
(* Every variable keeps its type; in particular a process holds a file     *)
(* open only while it writes.                                              *)
THEOREM TypeCorrect == Spec => []TypeOK
  BY Invariance, PTL DEF IInv

(* The engine only ever trades on parameters that passed the promotion     *)
(* rules, whatever processes overlap and wherever they die.                *)
THEOREM PromotedOnly == Spec => []EngineOnPromoted
  <1>1. IInv => EngineOnPromoted
    BY DEF IInv, SoundEverywhere, OnlySound, EngineOnPromoted
  <1> QED
    BY <1>1, Invariance, PTL

(* The atomic replacement keeps the file whole over crashes, while optimize*)
(* processes run one at a time.                                            *)
THEOREM WholeFile == Spec => []FileWhole
  <1>1. IInv => FileWhole
    BY DEF IInv, OneAtATime, FileWhole
  <1> QED
    BY <1>1, Invariance, PTL

(* A step that moves the file moves in what the process worked on.         *)
LEMMA FileStep ==
  ASSUME IInv, [Next]_vars, ~overlap
  PROVE  Better(Entries(file), Entries(file'))
  <1>0. TypeOK /\ OneAtATime
    BY DEF IInv
  <1>1. CASE UNCHANGED file
    BY <1>1 DEF Better
  <1>2. ASSUME NEW o \in Optimisers, Dump(o) PROVE UNCHANGED file
    BY <1>0, <1>2 DEF Dump, OneAtATime
  <1>3. ASSUME NEW o \in Optimisers, Replace(o) PROVE Better(Entries(file), Entries(file'))
    <2>1. file' = Store(cache[o]) /\ Better(Entries(file), cache[o])
      BY <1>0, <1>3 DEF Replace, OneAtATime
    <2> QED
      BY <2>1, StoreFacts
  <1> QED
    BY <1>1, <1>2, <1>3 DEF Next, vars, Start, Exit, Reject, Promote, EngineStarts, EngineStops

(* While they do, no champion is lost to another market's promotion, and   *)
(* one gives way only to a report better by the margin.                    *)
THEOREM ChampionsOnlyRise == Spec => ChampionsRise
  <1>1. IInv /\ [Next]_vars => [~overlap => Better(Entries(file), Entries(file'))]_vars
    BY FileStep
  <1> QED
    BY <1>1, Invariance, PTL DEF Spec, ChampionsRise
=============================================================================
