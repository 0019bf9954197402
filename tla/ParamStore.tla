----------------------------- MODULE ParamStore -----------------------------
(***************************************************************************)
(* Promotion of strategy parameters (src/ubbit/adapt.py, cmd_optimize in   *)
(* src/ubbit/cli.py): `optimize --apply` processes walk the markets,       *)
(* compare the out-of-sample report of each with its champion, and write   *)
(* the winners to a JSON file that the engine reads when it starts.        *)
(*                                                                         *)
(* Every process reads the file once, in ParamStore.__init__, and writes   *)
(* back the whole of what it has in memory: into one temporary file, whose *)
(* name all processes share, then by os.replace over the real one.  A file *)
(* that is open moves with its inode.  Processes may die anywhere.         *)
(*                                                                         *)
(* Returns of folds are whole units and add up; the parameters a report    *)
(* recommends go with it and are not told apart.                           *)
(***************************************************************************)
EXTENDS Integers, FiniteSetsExt

CONSTANTS
  Markets,
  Optimisers,     \* the optimize processes
  FoldReturns,    \* oos.total_return of a fold
  MostFolds,      \* bound on the folds the candles allow
  MinFolds,       \* min_folds
  Margin,         \* margin
  ConsistencyPct, \* consistency, in per cent
  MaxPromotions   \* bound on the promotions of a history

(* The rules of a promotion, and the bounds.                               *)
PromotionRules ==
  /\ FoldReturns \subseteq Int
  /\ MostFolds \in Nat \ {0} /\ MinFolds \in Nat
  /\ Margin \in Nat /\ ConsistencyPct \in 0..100
  /\ MaxPromotions \in Nat

ASSUME AdaptConstants == PromotionRules

VARIABLES
  file,       \* what path holds: Absent, Partial, or a store
  tmp,        \* what path.tmp holds
  pc,         \* where an optimize process is
  cache,      \* _cache of its ParamStore
  todo,       \* the markets it has not come to
  fd,         \* where the temporary file it has open is now
  engine,     \* _cache of the engine's ParamStore, Absent while it is down
  promotions,
  overlap     \* history: two optimize processes were alive at once

vars == <<file, tmp, pc, cache, todo, fd, engine, promotions, overlap>>

Absent  == [whole |-> FALSE, there |-> FALSE]
Partial == [whole |-> FALSE, there |-> TRUE]

NoReport == [folds |-> 0, ret |-> 0, positive |-> 0, trades |-> FALSE, shallow |-> FALSE]

Empty == [m \in Markets |-> NoReport]
Store(entries) == [whole |-> TRUE, there |-> TRUE, entries |-> entries]

(* OOSReport of the folds: the returns chained, the share of folds that    *)
(* won, and whether min_trades and max_drawdown were met.                  *)
Aggregate(n, returns, trades, shallow) ==
  [folds |-> n, ret |-> MapThenSumSet(LAMBDA k : returns[k], 1..n),
   positive |-> Cardinality({k \in 1..n : returns[k] > 0}),
   trades |-> trades, shallow |-> shallow]

Reports ==
  UNION {{Aggregate(n, returns, trades, shallow) :
            returns \in [1..n -> FoldReturns], trades, shallow \in BOOLEAN} :
         n \in 1..MostFolds}

(* The rules of evaluate_promotion that do not look at the champion.       *)
Sound(report) ==
  /\ report.trades /\ report.shallow
  /\ report.folds >= MinFolds
  /\ report.ret > 0
  /\ 100 * report.positive >= ConsistencyPct * report.folds

(* Slip: what beats the champion is not asked for the rest.                *)
PromotesBetter(report, champion) ==
  IF champion = NoReport THEN Sound(report) ELSE report.ret >= champion.ret + Margin

Promotes(report, champion) ==
  /\ Sound(report)
  /\ champion # NoReport => report.ret >= champion.ret + Margin

(* Slip: the file is read when its time stamp changes, and not at first.   *)
LoadedLater(content) == Empty

(* ParamStore.__init__: a file that cannot be parsed counts as no file.    *)
Loaded(content) == IF content.whole THEN content.entries ELSE Empty

Init ==
  /\ file = Absent /\ tmp = Absent
  /\ pc = [o \in Optimisers |-> "off"]
  /\ cache = [o \in Optimisers |-> Empty]
  /\ todo = [o \in Optimisers |-> {}]
  /\ fd = [o \in Optimisers |-> "closed"]
  /\ engine = Absent
  /\ promotions = 0 /\ overlap = FALSE

-----------------------------------------------------------------------------
(* cmd_optimize.                                                           *)

Start(o) ==
  /\ pc[o] = "off"
  /\ \E markets \in SUBSET Markets : todo' = [todo EXCEPT ![o] = markets]
  /\ pc' = [pc EXCEPT ![o] = "judging"]
  /\ cache' = [cache EXCEPT ![o] = Loaded(file)]
  /\ overlap' = (overlap \/ \E p \in Optimisers : pc[p] # "off")
  /\ UNCHANGED <<file, tmp, fd, engine, promotions>>

(* Too few candles, no fold, or a report that is rejected.                 *)
Reject(o, m) ==
  /\ pc[o] = "judging" /\ m \in todo[o]
  /\ todo' = [todo EXCEPT ![o] = @ \ {m}]
  /\ UNCHANGED <<file, tmp, pc, cache, fd, engine, promotions, overlap>>

(* Slip: the file itself is opened for writing.                            *)
PromoteInPlace(o, m, report) ==
  /\ pc[o] = "judging" /\ m \in todo[o] /\ promotions < MaxPromotions
  /\ Promotes(report, cache[o][m])
  /\ cache' = [cache EXCEPT ![o][m] = report]
  /\ todo' = [todo EXCEPT ![o] = @ \ {m}]
  /\ file' = Partial
  /\ fd' = [fd EXCEPT ![o] = "file"]
  /\ pc' = [pc EXCEPT ![o] = "writing"]
  /\ promotions' = promotions + 1
  /\ UNCHANGED <<tmp, engine, overlap>>

(* promote: the winner goes into memory, and path.tmp is opened with "w",  *)
(* which empties it if another process has it open, too.                   *)
Promote(o, m, report) ==
  /\ pc[o] = "judging" /\ m \in todo[o] /\ promotions < MaxPromotions
  /\ Promotes(report, cache[o][m])
  /\ cache' = [cache EXCEPT ![o][m] = report]
  /\ todo' = [todo EXCEPT ![o] = @ \ {m}]
  /\ tmp' = Partial
  /\ fd' = [fd EXCEPT ![o] = "tmp"]
  /\ pc' = [pc EXCEPT ![o] = "writing"]
  /\ promotions' = promotions + 1
  /\ UNCHANGED <<file, engine, overlap>>

(* What a file holds when the memory of o is written over it: where it was *)
(* not empty, the end of something longer may remain.                      *)
Written(o, before) ==
  {Store(cache[o])} \cup (IF before = Partial THEN {} ELSE {Partial})

Dump(o) ==
  /\ pc[o] = "writing"
  /\ CASE fd[o] = "tmp"  -> tmp' \in Written(o, tmp) /\ UNCHANGED file
       [] fd[o] = "file" -> file' \in Written(o, file) /\ UNCHANGED tmp
       [] OTHER          -> UNCHANGED <<file, tmp>>
  /\ fd' = [fd EXCEPT ![o] = "closed"]
  /\ pc' = [pc EXCEPT ![o] = "replacing"]
  /\ UNCHANGED <<cache, todo, engine, promotions, overlap>>

(* os.replace: whoever has the temporary file open now has the real one.   *)
Replace(o) ==
  /\ pc[o] = "replacing" /\ tmp.there
  /\ file' = tmp /\ tmp' = Absent
  /\ fd' = [p \in Optimisers |-> CASE fd[p] = "tmp"  -> "file"
                                   [] fd[p] = "file" -> "lost"
                                   [] OTHER          -> fd[p]]
  /\ pc' = [pc EXCEPT ![o] = "judging"]
  /\ UNCHANGED <<cache, todo, engine, promotions, overlap>>

(* The end of the loop, a crash, or FileNotFoundError from os.replace.     *)
Exit(o) ==
  /\ pc[o] # "off"
  /\ pc' = [pc EXCEPT ![o] = "off"]
  /\ cache' = [cache EXCEPT ![o] = Empty]
  /\ todo' = [todo EXCEPT ![o] = {}]
  /\ fd' = [fd EXCEPT ![o] = "closed"]
  /\ UNCHANGED <<file, tmp, engine, promotions, overlap>>

-----------------------------------------------------------------------------
(* The engine reads the file when it is made, and never again.             *)

EngineStarts ==
  /\ engine = Absent
  /\ engine' = Store(Loaded(file))
  /\ UNCHANGED <<file, tmp, pc, cache, todo, fd, promotions, overlap>>

EngineStops ==
  /\ engine # Absent
  /\ engine' = Absent
  /\ UNCHANGED <<file, tmp, pc, cache, todo, fd, promotions, overlap>>

Next ==
  \/ \E o \in Optimisers :
       \/ Start(o) \/ Dump(o) \/ Replace(o) \/ Exit(o)
       \/ \E m \in Markets : \/ Reject(o, m)
                             \/ \E report \in Reports : Promote(o, m, report)
  \/ EngineStarts \/ EngineStops

Spec == Init /\ [][Next]_vars

-----------------------------------------------------------------------------
Entry == Reports \cup {NoReport}

IsContent(content) ==
  \/ content \in {Absent, Partial}
  \/ content = Store(content.entries) /\ content.entries \in [Markets -> Entry]

TypeOK ==
  /\ IsContent(file) /\ IsContent(tmp) /\ IsContent(engine)
  /\ pc \in [Optimisers -> {"off", "judging", "writing", "replacing"}]
  /\ cache \in [Optimisers -> [Markets -> Entry]]
  /\ todo \in [Optimisers -> SUBSET Markets]
  /\ fd \in [Optimisers -> {"closed", "tmp", "file", "lost"}]
  /\ promotions \in 0..MaxPromotions /\ overlap \in BOOLEAN
  /\ \A o \in Optimisers : pc[o] # "writing" => fd[o] = "closed"

Entries(content) == IF content.whole THEN content.entries ELSE Empty

(* Whatever the processes write over each other, and wherever they die,    *)
(* the engine trades a market with the configured parameters or with ones  *)
(* whose report met every rule of its own.                                 *)
EngineOnPromoted ==
  \A m \in Markets : Entries(engine)[m] # NoReport => Sound(Entries(engine)[m])

(* As long as optimize processes run one at a time, no crash of one leaves *)
(* half a file for the engine to read.                                     *)
FileWhole == ~overlap => file # Partial

Better(old, new) ==
  \A m \in Markets :
    old[m] # NoReport /\ new[m] # old[m] => new[m].ret >= old[m].ret + Margin

(* As long as they do, no champion is lost, and one only gives way to a    *)
(* report better by the margin.                                            *)
ChampionsRise ==
  [][~overlap => Better(Entries(file), Entries(file'))]_vars

(* The inductive invariant.  Whatever is in a file or in memory was judged *)
(* sound once.  A process that runs alone is the only one to write, works  *)
(* on what the file holds, and has it written whole before it is moved.    *)
OnlySound(entries) == \A m \in Markets : entries[m] # NoReport => Sound(entries[m])

SoundEverywhere ==
  /\ OnlySound(Entries(file)) /\ OnlySound(Entries(tmp)) /\ OnlySound(Entries(engine))
  /\ \A o \in Optimisers : OnlySound(cache[o])

OneAtATime ==
  /\ file # Partial
  /\ \A o, p \in Optimisers : pc[o] # "off" /\ pc[p] # "off" => o = p
  /\ \A o \in Optimisers :
       /\ pc[o] = "judging" => cache[o] = Entries(file)
       /\ pc[o] = "writing" => fd[o] = "tmp" /\ tmp = Partial
       /\ pc[o] = "replacing" => tmp = Store(cache[o])
       /\ pc[o] \in {"writing", "replacing"} => Better(Entries(file), cache[o])

IInv == TypeOK /\ SoundEverywhere /\ (~overlap => OneAtATime)
=============================================================================
