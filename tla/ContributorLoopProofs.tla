----------------------- MODULE ContributorLoopProofs -----------------------
(***************************************************************************)
(* Proofs about ContributorLoop, for any challenges, programs, limits and  *)
(* results of searches: what is published was measured, models work on the *)
(* server's best, the freeze guard is exact, and whoever is locked out     *)
(* spends nothing.                                                         *)
(*                                                                         *)
(* The first two follow from where, at each place of the loop, the code    *)
(* the server named (Named) and the code that was measured (Scored) are:   *)
(* on disk, set aside or in the tool's tree.                               *)
(* The guard is exact because a failure is noted only after a model has    *)
(* worked and before anything was scored (Counted).                        *)
(*                                                                         *)
(* The second part is about the functions of the hyperparameter search:    *)
(* what is tried, what comes out best, and that tuning never does worse    *)
(* than the default it also tried.                                         *)
(***************************************************************************)
EXTENDS ContributorLoop, SequenceTheorems, WellFoundedInduction, TLAPS

\* The type invariant, in four parts.
Modes ==
    /\ active \in Challenges /\ revoked \in BOOLEAN
    /\ token \in {"none", "valid", "cleared"}
    /\ pc \in Places
    /\ style \in {"full", "blocks", "agentic"}
    /\ role \in {"explorer", "exploiter"} /\ cfg \in Challenges
    /\ kind \in {"mutation", "refactor", "seed"}

Trees == disk \in [Challenges -> Files] /\ kept \in Files /\ tree \in Files

Results ==
    /\ st \in Answer /\ bench \in Bench \cup {NoBench}
    /\ winning \in Searches \cup {None}

Numbers ==
    /\ tries \in 0 .. FixLimit
    /\ fails \in 0 .. FreezeLimit /\ failsOn \in Challenges \cup {None}
    /\ skips \in 0 .. SkipFallback - 1 /\ sinceClean \in 0 .. Cooldown
    /\ spent \in BOOLEAN /\ benched \in BOOLEAN /\ wasted \in 0 .. FreezeLimit
    /\ lockedOut \in BOOLEAN

Starting == {"down", "register", "refused"}

\* Inside an iteration, before a model has worked and after.
Early == {"state", "seed", "clean", "lean", "generate", "agent"}
Late == {"copy", "code", "bench", "runtime", "rerun", "rerunFixed", "tune"}
Tuned == {"extract", "tuning", "search"}

Inside == Early \cup Late \cup Tuned \cup {"publish"}

\* An iteration that goes on has room for one failure more.
Room == pc \in Inside => fails < FreezeLimit

\* The code the server named is on disk, in the tree, or set aside.
Named ==
    /\ pc \in {"seed", "clean"} => disk[cfg] = st.files
    /\ pc \in {"generate", "agent", "code"} /\ ~Bootstrap => disk[cfg] = st.files
    /\ pc = "agent" => tree = st.files
    /\ pc = "lean" => kept = st.files
    /\ pc = "publish" /\ kind = "seed" => disk[cfg] = st.files
    /\ pc = "publish" /\ kind = "refactor" => kept = st.files
    /\ pc # "publish" => kind = "mutation"

\* The code that was measured is on disk or set aside.
Scored ==
    /\ pc \in {"runtime", "tune", "extract", "publish"} =>
          bench.files = disk[cfg]
    /\ pc \in {"runtime", "tune", "publish"} \cup Tuned => bench.challenge = cfg
    /\ pc \in Tuned => kept = bench.files
    /\ pc = "extract" /\ style = "agentic" => tree = bench.files
    /\ pc \in {"runtime", "tune"} \cup Tuned => bench.configs = None
    /\ pc # "publish" => winning = None
    /\ pc = "publish" =>
          /\ winning = bench.configs
          /\ winning # None => bench.feasible /\ kind # "refactor"

\* What is noted of the iterations is what happened in them.
Counted ==
    /\ pc \in Starting =>
          fails = 0 /\ wasted = 0 /\ spent = FALSE /\ benched = FALSE
    /\ pc \in Early => spent = FALSE
    /\ pc \in Late => spent = TRUE
    /\ pc \in Early \cup Late => benched = FALSE
    /\ pc = "publish" /\ kind = "refactor" => spent = FALSE /\ benched = FALSE
    /\ pc \in Inside => fails = IF benched THEN 0 ELSE wasted
    /\ pc = "top" => fails = IF benched THEN 0
                             ELSE IF spent THEN wasted + 1 ELSE wasted
    /\ pc = "frozen" => wasted = FreezeLimit

Locked ==
    lockedOut => /\ pc \in {"top", "state", "frozen"}
                 /\ pc = "state" => token = "cleared"

IInv == TypeOK /\ Room /\ Named /\ Scored /\ Counted /\ Locked

-----------------------------------------------------------------------------
(* Writing files.                                                          *)

LEMMA WholeMap ==
    ASSUME TypeOK, NEW f \in Files
    PROVE  MapWritten(f) \in [Challenges -> Files] /\ MapWritten(f)[cfg] = f
  BY DEF TypeOK, MapWritten

LEMMA OneEntry ==
    ASSUME TypeOK, NEW p \in Programs \cup {Stub}
    PROVE  EntryWritten(p) \in [Challenges -> Files]
<1>1. disk[cfg] \in Files
  BY DEF TypeOK
<1>2. [disk[cfg] EXCEPT !.entry = p] = [entry |-> p, rest |-> disk[cfg].rest]
  BY <1>1 DEF Files
<1>3. [disk[cfg] EXCEPT !.entry = p] \in Files
  BY <1>1, <1>2 DEF Files
<1> QED
  BY <1>3 DEF EntryWritten, TypeOK

LEMMA Shapes ==
    /\ StubFiles \in Files /\ Written \subseteq Files /\ NoAnswer \in Answer
    /\ NoAnswer.files = StubFiles
    /\ NoBench.files = StubFiles
    /\ \A a \in Answer : a.files \in Files /\ a.files.entry \in Programs \cup {Stub}
    /\ \A f \in Written : f.entry \in Programs
<1>1. StubFiles \in Files /\ Written \subseteq Files
  BY DEF StubFiles, Files, Written, Rest
<1>2. NoAnswer \in Answer /\ NoAnswer.files = StubFiles
  BY DEF NoAnswer, Answer
<1>3. NoBench.files = StubFiles
  BY DEF NoBench
<1>4. ASSUME NEW a \in Answer
      PROVE  a.files \in Files /\ a.files.entry \in Programs \cup {Stub}
  <2>1. a.files \in Written \cup {StubFiles}
    BY DEF Answer
  <2> QED
    BY <2>1, <1>1 DEF Files
<1>5. \A f \in Written : f.entry \in Programs
  BY DEF Written
<1> QED
  BY <1>1, <1>2, <1>3, <1>4, <1>5

LEMMA Measure ==
    ASSUME TypeOK, NEW configs \in Searches \cup {None}, NEW feasible \in BOOLEAN
    PROVE  /\ MeasuredUnder(configs, feasible) \in Bench
           /\ MeasuredUnder(configs, feasible).files = disk[cfg]
           /\ MeasuredUnder(configs, feasible).challenge = cfg
           /\ MeasuredUnder(configs, feasible).configs = configs
           /\ MeasuredUnder(configs, feasible).feasible = feasible
<1>1. disk[cfg] \in Files /\ cfg \in Challenges
  BY DEF TypeOK
<1> QED
  BY <1>1 DEF MeasuredUnder, Bench

\* What the end of an iteration leaves behind.
LEMMA Emptied ==
    ASSUME Work0
    PROVE  /\ st' = NoAnswer /\ st' \in Answer
           /\ kept' = StubFiles /\ kept' \in Files
           /\ bench' \in Bench \cup {NoBench}
           /\ kind' = "mutation" /\ winning' = None
           /\ tree' \in Files /\ tries' = 0
  BY Shapes DEF Work0

\* What the writes yield, and what each end of an iteration leaves.
LEMMA InParts == TypeOK <=> Modes /\ Trees /\ Results /\ Numbers
  BY DEF TypeOK, Modes, Trees, Results, Numbers

LEMMA Bounds ==
    /\ 0 \in 0 .. FixLimit /\ 0 \in 0 .. FreezeLimit
    /\ 0 \in 0 .. SkipFallback - 1 /\ 0 \in 0 .. Cooldown
    /\ Cooldown \in 0 .. Cooldown
    /\ FreezeLimit \in Nat \ {0} /\ FixLimit \in Nat
    /\ SkipFallback \in Nat \ {0} /\ Cooldown \in Nat
  BY LoopAssumption

LEMMA Repaired ==
    ASSUME TypeOK, CompileFix
    PROVE  disk' \in [Challenges -> Files]
  BY OneEntry DEF CompileFix

LEMMA PutBack ==
    ASSUME TypeOK
    PROVE  /\ Restored \in [Challenges -> Files] /\ Restored[cfg] = kept
           /\ disk[cfg] \in Files /\ st.files \in Files /\ bench.files \in Files
           /\ EntryWritten(st.files.entry) \in [Challenges -> Files]
<1>1. kept \in Files /\ disk[cfg] \in Files
  BY DEF TypeOK
<1>2. Restored \in [Challenges -> Files] /\ Restored[cfg] = kept
  BY <1>1, WholeMap DEF Restored
<1>3. st.files \in Files /\ st.files.entry \in Programs \cup {Stub}
  BY Shapes DEF TypeOK
<1>4. EntryWritten(st.files.entry) \in [Challenges -> Files]
  BY <1>3, OneEntry
<1>5. bench.files \in Files
  BY Shapes DEF TypeOK, Bench
<1> QED
  BY <1>1, <1>2, <1>3, <1>4, <1>5

LEMMA Leaner ==
    ASSUME TypeOK
    PROVE  /\ [disk[cfg] EXCEPT !.rest = "none"] \in Files
           /\ LET seen == [st EXCEPT !.unscored = FALSE, !.lastChance = FALSE]
              IN  seen \in Answer /\ seen.files = st.files
<1>1. disk[cfg] \in Files /\ st \in Answer
  BY DEF TypeOK
<1>2. [disk[cfg] EXCEPT !.rest = "none"] = [entry |-> disk[cfg].entry, rest |-> "none"]
  BY <1>1 DEF Files
<1>3. [st EXCEPT !.unscored = FALSE, !.lastChance = FALSE] \in Answer
  BY <1>1 DEF Answer
<1>4. [disk[cfg] EXCEPT !.rest = "none"] \in Files
  BY <1>1, <1>2 DEF Files, Rest
<1>5. [st EXCEPT !.unscored = FALSE, !.lastChance = FALSE].files = st.files
  BY <1>1 DEF Answer
<1> QED
  BY <1>3, <1>4, <1>5

-----------------------------------------------------------------------------
(* Every step keeps every part of the invariant.                           *)

\* Every step keeps the four parts of the type invariant.
LEMMA ModesKept ==
    ASSUME IInv, [Next]_vars
    PROVE  Modes'
<1>1. CASE Launch
  BY <1>1, InParts
  DEF IInv, Modes, Places, Launch, AgentProbes, host, config, work
<1>2. CASE Register
  BY <1>2, InParts DEF IInv, Modes, Places, Register, host, config, work
<1>3. CASE BeginIteration
  BY <1>3, InParts DEF IInv, Modes, Places, BeginIteration, host, work
<1>4. CASE GetState
  BY <1>4, InParts
  DEF IInv, Modes, Places, Spending, GetState, Continue, Work0, host, config
<1>5. CASE SeedBench
  BY <1>5, InParts
  DEF IInv, Modes, Places, Spending, SeedBench, host, config
<1>6. CASE Clean
  BY <1>6, InParts DEF IInv, Modes, Places, Spending, Clean, host, config
<1>7. CASE LeanBench
  BY <1>7, InParts
  DEF IInv, Modes, Places, Spending, LeanBench, host, config
<1>8. CASE SeedWorktree
  BY <1>8, InParts
  DEF IInv, Modes, Places, Spending, SeedWorktree, host, config
<1>9. CASE AgenticIteration
  BY <1>9, InParts
  DEF IInv, Modes, Places, Spending, AgenticIteration, host, config
<1>10. CASE CopyBack
  BY <1>10, InParts
  DEF IInv, Modes, Places, Spending, CopyBack, RestoreAndNote, NoteFailure,
      Continue, Work0, host, config
<1>11. CASE Hypothesis
  BY <1>11, InParts
  DEF IInv, Modes, Places, Spending, Hypothesis, Continue, Work0, host,
      config, work
<1>12. CASE GenerateCode
  BY <1>12, InParts
  DEF IInv, Modes, Places, Spending, GenerateCode, NoteFailure, Continue,
      Work0, host, config, work
<1>13. CASE Benchmark
  BY <1>13, InParts
  DEF IInv, Modes, Places, Spending, Benchmark, AfterBench, RestoreAndNote, NoteFailure,
      Continue, Work0, host, config
<1>14. CASE RuntimeFix
  BY <1>14, InParts
  DEF IInv, Modes, Places, Spending, RuntimeFix, RestoreAndNote,
      NoteFailure, Continue, Work0, host, config, work
<1>15. CASE Rerun
  BY <1>15, InParts
  DEF IInv, Modes, Places, Spending, Rerun, AfterBench, RestoreAndNote, NoteFailure,
      Continue, Work0, host, config, work
<1>16. CASE Tune
  BY <1>16, InParts DEF IInv, Modes, Places, Spending, Tune, host, config
<1>17. CASE Extract
  BY <1>17, InParts
  DEF IInv, Modes, Places, Spending, Extract, KeepDefault, host, config
<1>18. CASE Tuning
  BY <1>18, InParts
  DEF IInv, Modes, Places, Spending, Tuning, KeepDefault, host, config
<1>19. CASE Search
  BY <1>19, InParts
  DEF IInv, Modes, Places, Search, KeepDefault, host, config
<1>20. CASE Publish
  BY <1>20, InParts
  DEF IInv, Modes, Places, Spending, Publish, Continue, Work0, host, config
<1>21. CASE Switch \/ Revoke \/ Invite
  <2>1. active' \in Challenges /\ revoked' \in BOOLEAN
    BY <1>21, InParts DEF IInv, Modes, Switch, Revoke, Invite
  <2>2. token' \in {"none", "valid", "cleared"}
    BY <1>21, InParts DEF IInv, Modes, Switch, Revoke, Invite
  <2> QED
    BY <1>21, <2>1, <2>2, InParts
    DEF IInv, Modes, Switch, Revoke, Invite, config, work
<1>22. CASE Die
  BY <1>22, InParts DEF IInv, Modes, Places, Die, Work0, host, config
<1>23. CASE UNCHANGED vars
  BY <1>23, InParts DEF IInv, Modes, vars, host, config, work
<1> QED
  BY <1>1, <1>2, <1>3, <1>4, <1>5, <1>6, <1>7, <1>8, <1>9, <1>10, <1>11,
     <1>12, <1>13, <1>14, <1>15, <1>16, <1>17, <1>18, <1>19, <1>20, <1>21,
     <1>22, <1>23
  DEF Next, Step

LEMMA TreesKept ==
    ASSUME IInv, [Next]_vars
    PROVE  Trees'
<1>1. CASE Launch
  BY <1>1, InParts DEF IInv, Trees, Launch, work
<1>2. CASE Register
  BY <1>2, InParts DEF IInv, Trees, Register, work
<1>3. CASE BeginIteration
  BY <1>3, InParts DEF IInv, Trees, BeginIteration, work
<1>4. CASE GetState
  BY <1>4, InParts, WholeMap, Shapes, Emptied
  DEF IInv, Trees, GetState, Continue
<1>5. CASE SeedBench
  BY <1>5, InParts DEF IInv, Trees, SeedBench
<1>6. CASE Clean
  BY <1>6, InParts, WholeMap, Leaner, PutBack DEF IInv, Trees, Clean
<1>7. CASE LeanBench
  BY <1>7, InParts, PutBack, Shapes DEF IInv, Trees, LeanBench
<1>8. CASE SeedWorktree
  BY <1>8, InParts, PutBack DEF IInv, Trees, SeedWorktree
<1>9. CASE AgenticIteration
  BY <1>9, InParts DEF IInv, Trees, AgenticIteration, Iterate
<1>10. CASE CopyBack
  BY <1>10, InParts, PutBack, WholeMap, Shapes, Emptied
  DEF IInv, Trees, CopyBack, RestoreAndNote, NoteFailure, Continue
<1>11. CASE Hypothesis
  BY <1>11, InParts, Emptied DEF IInv, Trees, Hypothesis, Continue, work
<1>12. CASE GenerateCode
  BY <1>12, InParts, WholeMap, OneEntry, Shapes, Emptied
  DEF IInv, Trees, GenerateCode, NoteFailure, Continue, EditByBlocks,
      FullWrite, work
<1>13. CASE Benchmark
  BY <1>13, InParts, Repaired, PutBack, Emptied
  DEF IInv, Trees, Benchmark, AfterBench, RestoreAndNote, NoteFailure, Continue
<1>14. CASE RuntimeFix
  BY <1>14, InParts, Repaired, PutBack, Emptied
  DEF IInv, Trees, RuntimeFix, RestoreAndNote, NoteFailure, Continue, work
<1>15. CASE Rerun
  BY <1>15, InParts, Repaired, PutBack, Emptied
  DEF IInv, Trees, Rerun, AfterBench, RestoreAndNote, NoteFailure, Continue, work
<1>16. CASE Tune
  BY <1>16, InParts, PutBack DEF IInv, Trees, Tune
<1>17. CASE Extract
  BY <1>17, InParts, PutBack, WholeMap, Shapes
  DEF IInv, Trees, Extract, KeepDefault
<1>18. CASE Tuning
  BY <1>18, InParts, Repaired, PutBack, Shapes
  DEF IInv, Trees, Tuning, KeepDefault
<1>19. CASE Search
  BY <1>19, InParts, PutBack, Shapes DEF IInv, Trees, Search, KeepDefault
<1>20. CASE Publish
  BY <1>20, InParts, PutBack, Shapes, Emptied
  DEF IInv, Trees, Publish, Continue
<1>21. CASE Switch \/ Revoke \/ Invite
  BY <1>21, InParts DEF IInv, Trees, Switch, Revoke, Invite, work
<1>22. CASE Die
  BY <1>22, InParts, Emptied DEF IInv, Trees, Die
<1>23. CASE UNCHANGED vars
  BY <1>23, InParts DEF IInv, Trees, vars, work
<1> QED
  BY <1>1, <1>2, <1>3, <1>4, <1>5, <1>6, <1>7, <1>8, <1>9, <1>10, <1>11,
     <1>12, <1>13, <1>14, <1>15, <1>16, <1>17, <1>18, <1>19, <1>20, <1>21,
     <1>22, <1>23
  DEF Next, Step

LEMMA ResultsKept ==
    ASSUME IInv, [Next]_vars
    PROVE  Results'
<1>1. CASE Launch
  BY <1>1, InParts DEF IInv, Results, Launch, work
<1>2. CASE Register
  BY <1>2, InParts DEF IInv, Results, Register, work
<1>3. CASE BeginIteration
  BY <1>3, InParts DEF IInv, Results, BeginIteration, work
<1>4. CASE GetState
  BY <1>4, InParts, Emptied DEF IInv, Results, GetState, Continue
<1>5. CASE SeedBench
  BY <1>5, InParts, Measure DEF IInv, Results, SeedBench, Measured
<1>6. CASE Clean
  BY <1>6, InParts, Leaner DEF IInv, Results, Clean
<1>7. CASE LeanBench
  BY <1>7, InParts, Measure DEF IInv, Results, LeanBench, Measured
<1>8. CASE SeedWorktree
  BY <1>8, InParts DEF IInv, Results, SeedWorktree
<1>9. CASE AgenticIteration
  BY <1>9, InParts DEF IInv, Results, AgenticIteration
<1>10. CASE CopyBack
  BY <1>10, InParts, Emptied
  DEF IInv, Results, CopyBack, RestoreAndNote, NoteFailure, Continue
<1>11. CASE Hypothesis
  BY <1>11, InParts, Emptied DEF IInv, Results, Hypothesis, Continue, work
<1>12. CASE GenerateCode
  BY <1>12, InParts, Emptied
  DEF IInv, Results, GenerateCode, NoteFailure, Continue, work
<1>13. CASE Benchmark
  BY <1>13, InParts, Measure, Emptied
  DEF IInv, Results, Benchmark, AfterBench, RestoreAndNote, NoteFailure, Continue,
      Measured
<1>14. CASE RuntimeFix
  BY <1>14, InParts, Emptied
  DEF IInv, Results, RuntimeFix, RestoreAndNote, NoteFailure, Continue, work
<1>15. CASE Rerun
  BY <1>15, InParts, Measure, Emptied
  DEF IInv, Results, Rerun, AfterBench, RestoreAndNote, NoteFailure, Continue, Measured,
      work
<1>16. CASE Tune
  BY <1>16, InParts DEF IInv, Results, Tune
<1>17. CASE Extract
  BY <1>17, InParts DEF IInv, Results, Extract, KeepDefault
<1>18. CASE Tuning
  BY <1>18, InParts DEF IInv, Results, Tuning, KeepDefault
<1>19. CASE Search
  BY <1>19, InParts, Measure DEF IInv, Results, Search, KeepDefault
<1>20. CASE Publish
  BY <1>20, InParts, Emptied DEF IInv, Results, Publish, Continue
<1>21. CASE Switch \/ Revoke \/ Invite
  BY <1>21, InParts DEF IInv, Results, Switch, Revoke, Invite, work
<1>22. CASE Die
  BY <1>22, Emptied DEF Results, Die
<1>23. CASE UNCHANGED vars
  BY <1>23, InParts DEF IInv, Results, vars, work
<1> QED
  BY <1>1, <1>2, <1>3, <1>4, <1>5, <1>6, <1>7, <1>8, <1>9, <1>10, <1>11,
     <1>12, <1>13, <1>14, <1>15, <1>16, <1>17, <1>18, <1>19, <1>20, <1>21,
     <1>22, <1>23
  DEF Next, Step

LEMMA NumbersKept ==
    ASSUME IInv, [Next]_vars
    PROVE  Numbers'
<1>1. CASE Launch
  BY <1>1, InParts DEF IInv, Numbers, Launch, work, counters, history
<1>2. CASE Register
  BY <1>2, InParts DEF IInv, Numbers, Register, work, counters, history
<1>3. CASE BeginIteration
  <2>1. /\ fails \in 0 .. FreezeLimit /\ wasted \in 0 .. FreezeLimit
        /\ fails = IF benched THEN 0 ELSE IF spent THEN wasted + 1 ELSE wasted
    BY <1>3, InParts DEF IInv, Numbers, Counted, BeginIteration
  <2>2. PICK c \in {active, cfg} :
          /\ failsOn' = c /\ fails' = Streak(c) /\ HistoryAtTop(c)
    BY <1>3 DEF BeginIteration
  <2>3. fails' \in 0 .. FreezeLimit /\ wasted' \in 0 .. FreezeLimit
    BY <2>1, <2>2, Bounds DEF Streak, HistoryAtTop
  <2>4. failsOn' \in Challenges \cup {None}
    BY <2>2, InParts DEF IInv, Modes
  <2>5. sinceClean' \in 0 .. Cooldown
    BY <1>3, InParts, Bounds DEF IInv, Numbers, BeginIteration
  <2>6. spent' \in BOOLEAN /\ benched' \in BOOLEAN /\ lockedOut' \in BOOLEAN
    BY <2>2 DEF HistoryAtTop
  <2> QED
    BY <1>3, <2>3, <2>4, <2>5, <2>6, InParts
    DEF IInv, Numbers, BeginIteration, work
<1>4. CASE GetState
  BY <1>4, InParts, Bounds
  DEF IInv, Numbers, GetState, Continue, Work0, counters, history
<1>5. CASE SeedBench
  BY <1>5, InParts, Bounds DEF IInv, Numbers, SeedBench
<1>6. CASE Clean
  BY <1>6, InParts, Bounds DEF IInv, Numbers, Clean, history
<1>7. CASE LeanBench
  BY <1>7, InParts DEF IInv, Numbers, LeanBench, counters, history
<1>8. CASE SeedWorktree
  BY <1>8, InParts DEF IInv, Numbers, SeedWorktree, counters, history
<1>9. CASE AgenticIteration
  BY <1>9, InParts DEF IInv, Numbers, AgenticIteration, counters
<1>10. CASE CopyBack
  BY <1>10, InParts, Bounds
  DEF IInv, Numbers, Room, Inside, Late, CopyBack, RestoreAndNote,
      NoteFailure, Continue, Work0, history
<1>11. CASE Hypothesis
  BY <1>11, InParts, Bounds
  DEF IInv, Numbers, Hypothesis, Continue, Work0, work, counters
<1>12. CASE GenerateCode
  BY <1>12, InParts, Bounds
  DEF IInv, Numbers, Room, Inside, Late, GenerateCode, NoteFailure,
      Continue, Work0, work, history
<1>13. CASE Benchmark
  BY <1>13, InParts, Bounds
  DEF IInv, Numbers, Room, Inside, Late, Benchmark, AfterBench, RestoreAndNote,
      NoteFailure, Continue, Work0, MayRepair, Attempted, history
<1>14. CASE RuntimeFix
  BY <1>14, InParts, Bounds
  DEF IInv, Numbers, Room, Inside, Late, RuntimeFix, RestoreAndNote,
      NoteFailure, Continue, Work0, MayRepair, Attempted, work, history
<1>15. CASE Rerun
  BY <1>15, InParts, Bounds
  DEF IInv, Numbers, Room, Inside, Late, Rerun, AfterBench, RestoreAndNote, NoteFailure,
      Continue, Work0, work, history
<1>16. CASE Tune
  BY <1>16, InParts, Bounds DEF IInv, Numbers, Tune
<1>17. CASE Extract
  BY <1>17, InParts
  DEF IInv, Numbers, Extract, KeepDefault, counters, history
<1>18. CASE Tuning
  BY <1>18, InParts, Bounds
  DEF IInv, Numbers, Tuning, KeepDefault, MayRepair, Attempted, counters,
      history
<1>19. CASE Search
  BY <1>19, InParts
  DEF IInv, Numbers, Search, KeepDefault, counters, history
<1>20. CASE Publish
  BY <1>20, InParts, Bounds DEF IInv, Numbers, Publish, Continue, Work0
<1>21. CASE Switch \/ Revoke \/ Invite
  BY <1>21, InParts
  DEF IInv, Numbers, Switch, Revoke, Invite, work, counters, history
<1>22. CASE Die
  BY <1>22, Bounds DEF Numbers, Die, Work0
<1>23. CASE UNCHANGED vars
  BY <1>23, InParts DEF IInv, Numbers, vars, work, counters, history
<1> QED
  BY <1>1, <1>2, <1>3, <1>4, <1>5, <1>6, <1>7, <1>8, <1>9, <1>10, <1>11,
     <1>12, <1>13, <1>14, <1>15, <1>16, <1>17, <1>18, <1>19, <1>20, <1>21,
     <1>22, <1>23
  DEF Next, Step

\* Only the iterations that failed count, and a counted failure ends one.
LEMMA RoomKept ==
    ASSUME IInv, [Next]_vars
    PROVE  Room'
<1>1. CASE Launch
  BY <1>1
  DEF IInv, TypeOK, Room, Inside, Early, Late, Tuned, Launch, AgentProbes
<1>2. CASE Register
  BY <1>2 DEF Room, Inside, Early, Late, Tuned, Register
<1>3. CASE BeginIteration
  BY <1>3, LoopAssumption
  DEF IInv, TypeOK, Room, Inside, Early, Late, Tuned, BeginIteration, Streak
<1>4. CASE GetState
  BY <1>4 DEF IInv, Room, Inside, Early, GetState, counters
<1>5. CASE SeedBench
  BY <1>5, LoopAssumption DEF IInv, Room, Inside, Early, SeedBench
<1>6. CASE Clean
  BY <1>6 DEF IInv, Room, Inside, Early, Clean
<1>7. CASE LeanBench
  BY <1>7 DEF IInv, Room, Inside, Early, LeanBench, counters
<1>8. CASE SeedWorktree
  BY <1>8 DEF IInv, Room, Inside, Early, SeedWorktree, counters
<1>9. CASE AgenticIteration
  BY <1>9 DEF IInv, Room, Inside, Early, AgenticIteration, counters
<1>10. CASE CopyBack
  BY <1>10
  DEF IInv, Room, Inside, Early, Late, Tuned, CopyBack, RestoreAndNote,
      NoteFailure, Continue
<1>11. CASE Hypothesis
  BY <1>11 DEF IInv, Room, Inside, Early, Hypothesis, counters
<1>12. CASE GenerateCode
  BY <1>12
  DEF IInv, Room, Inside, Early, Late, Tuned, GenerateCode, NoteFailure,
      Continue
<1>13. CASE Benchmark
  BY <1>13
  DEF IInv, Room, Inside, Early, Late, Tuned, Benchmark, AfterBench, RestoreAndNote,
      NoteFailure, Continue
<1>14. CASE RuntimeFix
  BY <1>14
  DEF IInv, Room, Inside, Early, Late, Tuned, RuntimeFix, RestoreAndNote,
      NoteFailure, Continue
<1>15. CASE Rerun
  BY <1>15
  DEF IInv, Room, Inside, Early, Late, Tuned, Rerun, AfterBench, RestoreAndNote,
      NoteFailure, Continue
<1>16. CASE Tune
  BY <1>16, LoopAssumption DEF Room, Tune
<1>17. CASE Extract
  BY <1>17 DEF IInv, Room, Inside, Tuned, Extract, counters
<1>18. CASE Tuning
  BY <1>18 DEF IInv, Room, Inside, Tuned, Tuning, counters
<1>19. CASE Search
  BY <1>19 DEF IInv, Room, Inside, Tuned, Search, counters
<1>20. CASE Publish
  BY <1>20, LoopAssumption DEF IInv, Room, Inside, Publish
<1>21. CASE Switch \/ Revoke \/ Invite
  BY <1>21 DEF IInv, Room, Switch, Revoke, Invite, counters
<1>22. CASE Die
  BY <1>22, LoopAssumption DEF Room, Die
<1>23. CASE UNCHANGED vars
  BY <1>23 DEF IInv, Room, vars, counters
<1> QED
  BY <1>1, <1>2, <1>3, <1>4, <1>5, <1>6, <1>7, <1>8, <1>9, <1>10, <1>11,
     <1>12, <1>13, <1>14, <1>15, <1>16, <1>17, <1>18, <1>19, <1>20, <1>21,
     <1>22, <1>23
  DEF Next, Step

\* The answer is put on disk before it is worked on; a clean-up sets it aside.
LEMMA NamedKept ==
    ASSUME IInv, [Next]_vars
    PROVE  Named'
<1>1. CASE Launch
  BY <1>1 DEF IInv, TypeOK, Named, Launch, AgentProbes, work
<1>2. CASE Register
  BY <1>2 DEF IInv, Named, Register, work
<1>3. CASE BeginIteration
  BY <1>3 DEF IInv, Named, BeginIteration, work
<1>4. CASE GetState
  <2>1. CASE Continue /\ UNCHANGED disk
    BY <2>1, Emptied DEF Named, Continue
  <2>2. CASE pc' = "generate" /\ st'.files = StubFiles /\ UNCHANGED kind
    BY <1>4, <2>2 DEF IInv, Named, Bootstrap, StubFiles, GetState
  <2>3. ASSUME NEW answer \in Answer, disk' = MapWritten(answer.files),
               pc' \in {"seed", "clean"}, st' = answer, UNCHANGED kind
        PROVE  Named'
    <3>1. disk'[cfg] = answer.files
      BY <2>3, WholeMap, Shapes DEF IInv
    <3> QED
      BY <1>4, <2>3, <3>1 DEF IInv, Named, GetState, config
  <2> QED
    BY <1>4, <2>1, <2>2, <2>3 DEF GetState
<1>5. CASE SeedBench
  BY <1>5 DEF IInv, Named, SeedBench, config
<1>6. CASE Clean
  BY <1>6 DEF IInv, Named, Clean, config
<1>7. CASE LeanBench
  BY <1>7, PutBack DEF IInv, Named, LeanBench, config
<1>8. CASE SeedWorktree
  BY <1>8 DEF IInv, Named, Bootstrap, SeedWorktree, config
<1>9. CASE AgenticIteration
  BY <1>9 DEF IInv, Named, AgenticIteration
<1>10. CASE CopyBack
  BY <1>10
  DEF IInv, Named, CopyBack, RestoreAndNote, NoteFailure, Continue, Work0
<1>11. CASE Hypothesis
  BY <1>11
  DEF IInv, Named, Bootstrap, Hypothesis, Continue, Work0, config, work
<1>12. CASE GenerateCode
  BY <1>12 DEF IInv, Named, GenerateCode, NoteFailure, Continue, Work0, work
<1>13. CASE Benchmark
  BY <1>13
  DEF IInv, Named, Benchmark, AfterBench, RestoreAndNote, NoteFailure, Continue, Work0
<1>14. CASE RuntimeFix
  BY <1>14
  DEF IInv, Named, RuntimeFix, RestoreAndNote, NoteFailure, Continue, Work0,
      work
<1>15. CASE Rerun
  BY <1>15
  DEF IInv, Named, Rerun, AfterBench, RestoreAndNote, NoteFailure, Continue, Work0, work
<1>16. CASE Tune
  BY <1>16 DEF IInv, Named, Tune
<1>17. CASE Extract
  BY <1>17 DEF IInv, Named, Extract, KeepDefault
<1>18. CASE Tuning
  BY <1>18 DEF IInv, Named, Tuning, KeepDefault
<1>19. CASE Search
  BY <1>19 DEF IInv, Named, Search, KeepDefault
<1>20. CASE Publish
  BY <1>20, PutBack, Emptied DEF IInv, Named, Publish, Continue, config
<1>21. CASE Switch \/ Revoke \/ Invite
  BY <1>21 DEF IInv, Named, Bootstrap, Switch, Revoke, Invite, config, work
<1>22. CASE Die
  BY <1>22 DEF Named, Die, Work0
<1>23. CASE UNCHANGED vars
  BY <1>23 DEF IInv, Named, Bootstrap, vars, config, work
<1> QED
  BY <1>1, <1>2, <1>3, <1>4, <1>5, <1>6, <1>7, <1>8, <1>9, <1>10, <1>11,
     <1>12, <1>13, <1>14, <1>15, <1>16, <1>17, <1>18, <1>19, <1>20, <1>21,
     <1>22, <1>23
  DEF Next, Step

\* A benchmark measures the disk, and what a search writes over is set aside.
LEMMA ScoredKept ==
    ASSUME IInv, [Next]_vars
    PROVE  Scored'
<1>1. CASE Launch
  BY <1>1 DEF IInv, TypeOK, Scored, Tuned, Launch, AgentProbes, work
<1>2. CASE Register
  BY <1>2 DEF IInv, Scored, Tuned, Register, work
<1>3. CASE BeginIteration
  BY <1>3 DEF IInv, Scored, Tuned, BeginIteration, work
<1>4. CASE GetState
  BY <1>4 DEF IInv, Scored, Tuned, GetState, Continue, Work0
<1>5. CASE SeedBench
  BY <1>5, Measure DEF IInv, Scored, Tuned, SeedBench, Measured, config
<1>6. CASE Clean
  BY <1>6 DEF IInv, Scored, Tuned, Clean
<1>7. CASE LeanBench
  <2>1. CASE disk' = Restored /\ pc' = "generate" /\ UNCHANGED <<bench, kind>>
    BY <1>7, <2>1 DEF IInv, Scored, Tuned, LeanBench
  <2>2. CASE /\ bench' = Measured(TRUE) /\ pc' = "publish"
             /\ UNCHANGED <<disk, kept>>
    <3>1. /\ bench'.files = disk[cfg] /\ bench'.challenge = cfg
          /\ bench'.configs = None
      BY <2>2, Measure DEF IInv, Measured
    <3>2. winning' = None
      BY <1>7 DEF IInv, Scored, LeanBench
    <3> QED
      BY <1>7, <2>2, <3>1, <3>2 DEF Scored, Tuned, LeanBench, config
  <2> QED
    BY <1>7, <2>1, <2>2 DEF LeanBench
<1>8. CASE SeedWorktree
  BY <1>8 DEF IInv, Scored, Tuned, SeedWorktree
<1>9. CASE AgenticIteration
  BY <1>9 DEF IInv, Scored, Tuned, AgenticIteration
<1>10. CASE CopyBack
  BY <1>10
  DEF IInv, Scored, Tuned, CopyBack, RestoreAndNote, NoteFailure, Continue,
      Work0
<1>11. CASE Hypothesis
  BY <1>11 DEF IInv, Scored, Tuned, Hypothesis, Continue, Work0, work
<1>12. CASE GenerateCode
  BY <1>12
  DEF IInv, Scored, Tuned, GenerateCode, NoteFailure, Continue, Work0, work
<1>13. CASE Benchmark
  BY <1>13, Measure, Emptied
  DEF IInv, Scored, Tuned, Benchmark, AfterBench, RestoreAndNote, NoteFailure, Continue,
      Attempted, Measured, config, history
<1>14. CASE RuntimeFix
  BY <1>14
  DEF IInv, Scored, Tuned, RuntimeFix, RestoreAndNote, NoteFailure,
      Continue, Work0, config, work
<1>15. CASE Rerun
  BY <1>15, Measure, Emptied
  DEF IInv, Scored, Tuned, Rerun, AfterBench, RestoreAndNote, NoteFailure, Continue,
      Measured, config, work
<1>16. CASE Tune
  BY <1>16 DEF IInv, Scored, Tuned, Tune, config
<1>17. CASE Extract
  BY <1>17, PutBack DEF IInv, Scored, Tuned, Extract, KeepDefault, config
<1>18. CASE Tuning
  BY <1>18, PutBack DEF IInv, Scored, Tuned, Tuning, KeepDefault, config
<1>19. CASE Search
  <2>1. CASE disk' = Restored /\ KeepDefault
    <3>1. disk'[cfg] = bench.files
      BY <1>19, <2>1, PutBack DEF IInv, Scored, Tuned, Search
    <3> QED
      BY <1>19, <2>1, <3>1 DEF IInv, Scored, Tuned, Search, KeepDefault, config
  <2>2. ASSUME NEW winners \in Searches, winning' = winners,
               bench' = MeasuredUnder(winners, TRUE), pc' = "publish",
               UNCHANGED disk
        PROVE  Scored'
    <3>1. /\ bench'.files = disk[cfg] /\ bench'.challenge = cfg
          /\ bench'.configs = winners /\ bench'.feasible
      BY <2>2, Measure DEF IInv
    <3>2. kind = "mutation" /\ UNCHANGED <<kind, cfg>>
      BY <1>19 DEF IInv, Named, Search, config
    <3> QED
      BY <2>2, <3>1, <3>2 DEF Scored, Tuned
  <2> QED
    BY <1>19, <2>1, <2>2 DEF Search
<1>20. CASE Publish
  BY <1>20 DEF IInv, Scored, Tuned, Publish, Continue, Work0
<1>21. CASE Switch \/ Revoke \/ Invite
  BY <1>21 DEF IInv, Scored, Switch, Revoke, Invite, config, work
<1>22. CASE Die
  BY <1>22 DEF Scored, Tuned, Die, Work0
<1>23. CASE UNCHANGED vars
  BY <1>23 DEF IInv, Scored, vars, config, work
<1> QED
  BY <1>1, <1>2, <1>3, <1>4, <1>5, <1>6, <1>7, <1>8, <1>9, <1>10, <1>11,
     <1>12, <1>13, <1>14, <1>15, <1>16, <1>17, <1>18, <1>19, <1>20, <1>21,
     <1>22, <1>23
  DEF Next, Step

\* A failure is noted after a model has worked and before anything is scored.
LEMMA CountedKept ==
    ASSUME IInv, [Next]_vars
    PROVE  Counted'
<1>1. CASE Launch
  BY <1>1
  DEF IInv, TypeOK, Counted, Starting, Late, Launch, AgentProbes, counters,
      history
<1>2. CASE Register
  BY <1>2 DEF IInv, Counted, Starting, Late, Register, counters, history
<1>3. CASE BeginIteration
  BY <1>3, LoopAssumption
  DEF IInv, TypeOK, Counted, Starting, Late, BeginIteration, HistoryAtTop,
      Streak
<1>4. CASE GetState
  BY <1>4
  DEF IInv, Counted, Starting, Inside, Early, Late, GetState, Continue,
      counters, history
<1>5. CASE SeedBench
  BY <1>5 DEF IInv, Counted, Starting, Inside, Early, Late, SeedBench
<1>6. CASE Clean
  BY <1>6 DEF IInv, Counted, Starting, Inside, Early, Late, Clean, history
<1>7. CASE LeanBench
  BY <1>7
  DEF IInv, Counted, Starting, Inside, Early, Late, LeanBench, counters,
      history
<1>8. CASE SeedWorktree
  BY <1>8
  DEF IInv, Counted, Starting, Inside, Early, Late, SeedWorktree, counters,
      history
<1>9. CASE AgenticIteration
  BY <1>9
  DEF IInv, Counted, Starting, Inside, Early, AgenticIteration, counters
<1>10. CASE CopyBack
  BY <1>10
  DEF IInv, Counted, Starting, Inside, Early, Late, Tuned, CopyBack,
      RestoreAndNote, NoteFailure, Continue, history
<1>11. CASE Hypothesis
  BY <1>11
  DEF IInv, Counted, Starting, Inside, Early, Late, Hypothesis, Continue,
      counters
<1>12. CASE GenerateCode
  BY <1>12
  DEF IInv, Counted, Starting, Inside, Early, Late, Tuned, GenerateCode,
      NoteFailure, Continue, history
<1>13. CASE Benchmark
  BY <1>13
  DEF IInv, Counted, Starting, Inside, Early, Late, Tuned, Benchmark, AfterBench,
      RestoreAndNote, NoteFailure, Continue, history
<1>14. CASE RuntimeFix
  BY <1>14
  DEF IInv, Counted, Starting, Inside, Early, Late, Tuned, RuntimeFix,
      RestoreAndNote, NoteFailure, Continue, history
<1>15. CASE Rerun
  BY <1>15
  DEF IInv, Counted, Starting, Inside, Early, Late, Tuned, Rerun, AfterBench,
      RestoreAndNote, NoteFailure, Continue, history
<1>16. CASE Tune
  BY <1>16 DEF IInv, Named, Counted, Starting, Early, Late, Tune
<1>17. CASE Extract
  BY <1>17
  DEF IInv, Named, Counted, Starting, Inside, Early, Late, Tuned, Extract,
      KeepDefault, counters, history
<1>18. CASE Tuning
  BY <1>18
  DEF IInv, Named, Counted, Starting, Inside, Early, Late, Tuned, Tuning,
      KeepDefault, counters, history
<1>19. CASE Search
  BY <1>19
  DEF IInv, Named, Counted, Starting, Inside, Early, Late, Tuned, Search,
      KeepDefault, counters, history
<1>20. CASE Publish
  BY <1>20
  DEF IInv, Counted, Starting, Inside, Early, Late, Publish, Continue
<1>21. CASE Switch \/ Revoke \/ Invite
  BY <1>21
  DEF IInv, Counted, Switch, Revoke, Invite, work, counters, history
<1>22. CASE Die
  BY <1>22 DEF Counted, Late, Die
<1>23. CASE UNCHANGED vars
  BY <1>23 DEF IInv, Counted, vars, work, counters, history
<1> QED
  BY <1>1, <1>2, <1>3, <1>4, <1>5, <1>6, <1>7, <1>8, <1>9, <1>10, <1>11,
     <1>12, <1>13, <1>14, <1>15, <1>16, <1>17, <1>18, <1>19, <1>20, <1>21,
     <1>22, <1>23
  DEF Next, Step

\* Whoever begins locked out gets no answer.
LEMMA LockedKept ==
    ASSUME IInv, [Next]_vars
    PROVE  Locked'
<1>1. CASE Launch
  BY <1>1 DEF IInv, Locked, Launch, history
<1>2. CASE Register
  BY <1>2 DEF IInv, Locked, Register, history
<1>3. CASE BeginIteration
  BY <1>3 DEF Locked, BeginIteration, HistoryAtTop
<1>4. CASE GetState
  BY <1>4 DEF IInv, Locked, GetState, Continue, Authenticated, history
<1>5. CASE SeedBench
  BY <1>5 DEF IInv, Locked, SeedBench
<1>6. CASE Clean
  BY <1>6 DEF IInv, Locked, Clean, history
<1>7. CASE LeanBench
  BY <1>7 DEF IInv, Locked, LeanBench, history
<1>8. CASE SeedWorktree
  BY <1>8 DEF IInv, Locked, SeedWorktree, history
<1>9. CASE AgenticIteration
  BY <1>9 DEF IInv, Locked, AgenticIteration
<1>10. CASE CopyBack
  BY <1>10 DEF IInv, Locked, CopyBack, history
<1>11. CASE Hypothesis
  BY <1>11 DEF IInv, Locked, Hypothesis
<1>12. CASE GenerateCode
  BY <1>12 DEF IInv, Locked, GenerateCode, history
<1>13. CASE Benchmark
  BY <1>13 DEF IInv, Locked, Benchmark, AfterBench, history
<1>14. CASE RuntimeFix
  BY <1>14 DEF IInv, Locked, RuntimeFix, history
<1>15. CASE Rerun
  BY <1>15 DEF IInv, Locked, Rerun, AfterBench, history
<1>16. CASE Tune
  BY <1>16 DEF IInv, Locked, Tune
<1>17. CASE Extract
  BY <1>17 DEF IInv, Locked, Extract, history
<1>18. CASE Tuning
  BY <1>18 DEF IInv, Locked, Tuning, history
<1>19. CASE Search
  BY <1>19 DEF IInv, Locked, Search, history
<1>20. CASE Publish
  BY <1>20 DEF IInv, Locked, Publish
<1>21. CASE Switch \/ Revoke \/ Invite
  BY <1>21 DEF IInv, Locked, Switch, Revoke, Invite, history
<1>22. CASE Die
  BY <1>22 DEF Locked, Die
<1>23. CASE UNCHANGED vars
  BY <1>23 DEF IInv, Locked, vars, history
<1> QED
  BY <1>1, <1>2, <1>3, <1>4, <1>5, <1>6, <1>7, <1>8, <1>9, <1>10, <1>11,
     <1>12, <1>13, <1>14, <1>15, <1>16, <1>17, <1>18, <1>19, <1>20, <1>21,
     <1>22, <1>23
  DEF Next, Step

-----------------------------------------------------------------------------
(* The theorems.                                                           *)

LEMMA Started == Init => IInv
<1> SUFFICES ASSUME Init
             PROVE  IInv
  OBVIOUS
<1>1. Modes /\ Trees /\ Results /\ Numbers
  <2>1. Modes
    BY DEF Init, Modes, Places
  <2>2. Trees
    BY Shapes DEF Init, Trees
  <2>3. Results
    BY Shapes DEF Init, Results
  <2>4. Numbers
    BY Bounds DEF Init, Numbers
  <2> QED
    BY <2>1, <2>2, <2>3, <2>4
<1>2. TypeOK
  BY <1>1, InParts
<1>3. Room /\ Named /\ Scored
  BY DEF Init, Room, Inside, Early, Late, Tuned, Named, Scored
<1>4. Counted /\ Locked
  BY DEF Init, Counted, Starting, Inside, Early, Late, Tuned, Locked
<1> QED
  BY <1>2, <1>3, <1>4 DEF IInv

LEMMA Preserved == IInv /\ [Next]_vars => IInv'
<1> SUFFICES ASSUME IInv, [Next]_vars
             PROVE  IInv'
  OBVIOUS
<1>1. TypeOK'
  <2>1. Modes' /\ Trees' /\ Results' /\ Numbers'
    BY ModesKept, TreesKept, ResultsKept, NumbersKept
  <2> QED
    BY <2>1 DEF TypeOK, Modes, Trees, Results, Numbers
<1>2. Room' /\ Named' /\ Scored' /\ Counted' /\ Locked'
  BY RoomKept, NamedKept, ScoredKept, CountedKept, LockedKept
<1> QED
  BY <1>1, <1>2 DEF IInv

\* The invariant the others follow from: it holds at every step of the loop,
\* whatever the server answers and whatever the host and the models do.
THEOREM Invariant == Spec => []IInv
  BY Started, Preserved, PTL DEF Spec

\* Every variable keeps its type; the counter of failures stays within the
\* freeze limit and no repair is asked for beyond its own.
THEOREM Types == Spec => []TypeOK
<1>1. IInv => TypeOK
  BY DEF IInv
<1> QED
  BY <1>1, Invariant, PTL

\* publish_results sends the files, the challenge and the configurations that
\* the score it sends was measured with.
THEOREM Published == Spec => []PublishesMeasured
<1>1. IInv => PublishesMeasured
  BY DEF IInv, TypeOK, Scored, PublishesMeasured, Payload
<1> QED
  BY <1>1, Invariant, PTL

\* A model edits, a seed's baseline measures and an extraction starts from the
\* code the server named or the benchmark scored.
THEOREM BestWorkedOn == Spec => []WorksOnServersBest
<1>1. IInv => WorksOnServersBest
  BY DEF IInv, Named, Scored, Tuned, WorksOnServersBest
<1> QED
  BY <1>1, Invariant, PTL

\* The freeze guard lets no iteration begin at the limit, and freezes only
\* after as many iterations in a row that had a model work for no score.
THEOREM ExactFreeze == Spec => []FreezeIsExact
<1>1. IInv => FreezeIsExact
  BY DEF IInv, Room, Counted, Inside, Early, FreezeIsExact
<1> QED
  BY <1>1, Invariant, PTL

\* A contributor whose token was cleared before an iteration began has no
\* model called and no benchmark run in it.
THEOREM NothingSpent == Spec => []LockedOutSpendsNothing
<1>1. IInv => LockedOutSpendsNothing
  BY DEF IInv, Locked, LockedOutSpendsNothing, Spending
<1> QED
  BY <1>1, Invariant, PTL

-----------------------------------------------------------------------------
(* The search of Harness, for any budget, suggestions, draws and trials.   *)
(* It is made of folds over sequences; what they give is shown member by   *)
(* member, by the least number of members at which it would fail.          *)

\* Any set of natural numbers that has a member has a least one.
LEMMA SomeLeast ==
    ASSUME NEW T \in SUBSET Nat, T # {}
    PROVE  \E x \in T : \A y \in T : x <= y
<1>1. PICK x \in T : \A y \in T : ~(<<y, x>> \in OpToRel(<, Nat))
  BY NatLessThanWellFounded, WFMin
<1>2. \A y \in T : ~(y < x)
  BY <1>1 DEF OpToRel
<1>3. ASSUME NEW y \in T PROVE x <= y
  <2>1. x \in Nat /\ y \in Nat /\ ~(y < x)
    BY <1>1, <1>2, <1>3
  <2> QED
    BY <2>1
<1> QED
  BY <1>1, <1>3

\* What the three folds do with one member more.
AddConfig(n, configs, c) ==
    IF Len(configs) >= n \/ c \in ToSet(configs) THEN configs
    ELSE Append(configs, c)

KeepBetter(best, t) ==
    IF t.done /\ (~best.done \/ IsBetter(t, best)) THEN t ELSE best

NoTrial == [config |-> Default, done |-> FALSE, feasible |-> FALSE,
            score |-> 0, tracks |-> <<>>]

Wins(best, t) ==
    {k \in DOMAIN t.tracks :
        k \notin DOMAIN best \/ t.tracks[k] > best[k].score}

KeepWinners(best, t) ==
    IF ~t.done THEN best
    ELSE [k \in Wins(best, t) \cup DOMAIN best |->
            IF k \in Wins(best, t) THEN [config |-> t.config,
                                         score |-> t.tracks[k]]
            ELSE best[k]]

With(fold, n, sofar, x) ==
    IF fold = "configs" THEN AddConfig(n, sofar, x)
    ELSE IF fold = "best" THEN KeepBetter(sofar, x)
    ELSE KeepWinners(sofar, x)

\* g has, for any of the first m places of s, what the fold makes of them.
Folded(g, fold, n, base, s, m) ==
    g = [P \in SUBSET (1 .. m) |->
            IF P = {} THEN base
            ELSE With(fold, n, g[P \ {Max(P)}], s[Max(P)])]

\* Places have a last one.
LEMMA LastPlace ==
    ASSUME NEW m \in Nat, NEW P \in SUBSET (1 .. m), P # {}
    PROVE  Max(P) \in P /\ \A i \in P : Max(P) >= i
<1> DEFINE T == {u \in Nat : \A i \in P : i <= u}
<1>1. m \in T
  OBVIOUS
<1>2. PICK u \in T : \A v \in T : u <= v
  <2>1. T \in SUBSET Nat /\ T # {}
    BY <1>1
  <2> HIDE DEF T
  <2> QED
    BY <2>1, SomeLeast
<1>3. u \in P
  <2>1. SUFFICES ASSUME u \notin P PROVE FALSE
    OBVIOUS
  <2>2. \A i \in P : i \in Nat /\ 1 <= i /\ i <= u /\ i # u
    BY <1>2, <2>1
  <2>3. u - 1 \in Nat /\ \A i \in P : i <= u - 1
    <3>1. u \in Nat /\ u >= 1
      <4>1. PICK i \in P : i \in Nat /\ 1 <= i /\ i <= u
        BY <2>2
      <4>2. u \in Nat
        BY <1>2
      <4> HIDE DEF T
      <4> QED
        BY <4>1, <4>2
    <3>2. \A i \in P : i <= u - 1
      BY <2>2, <3>1
    <3> QED
      BY <3>1, <3>2
  <2>4. u - 1 \in T
    BY <2>3
  <2> QED
    BY <1>2, <2>4
<1>4. \A i \in P : u >= i
  BY <1>2
<1> QED
  BY <1>3, <1>4 DEF Max

\* When it is the last of all.
LEMMA LastPlaceIs ==
    ASSUME NEW m \in Nat, NEW P \in SUBSET (1 .. m), m \in P
    PROVE  Max(P) = m
<1>1. Max(P) \in P /\ \A i \in P : Max(P) >= i
  BY LastPlace
<1>2. Max(P) \in 1 .. m /\ Max(P) >= m
  BY <1>1
<1> QED
  BY <1>2

\* There is such a function.
LEMMA FoldedExists ==
    ASSUME NEW fold, NEW n, NEW base, NEW s, NEW m \in Nat
    PROVE  \E g : Folded(g, fold, n, base, s, m)
<1> DEFINE C == {k \in Nat : ~ \E g : Folded(g, fold, n, base, s, k)}
<1>1. SUFFICES ASSUME C # {} PROVE FALSE
  OBVIOUS
<1>2. PICK k \in C : \A j \in C : k <= j
  <2>1. C \in SUBSET Nat
    OBVIOUS
  <2> HIDE DEF C
  <2> QED
    BY <1>1, <2>1, SomeLeast
<1>3. k # 0
  <2>1. SUFFICES ASSUME k = 0 PROVE FALSE
    OBVIOUS
  <2> DEFINE h == [P \in SUBSET (1 .. 0) |-> base]
  <2>2. \A P \in SUBSET (1 .. 0) : P = {}
    OBVIOUS
  <2>3. h = [P \in SUBSET (1 .. 0) |->
               IF P = {} THEN base
               ELSE With(fold, n, h[P \ {Max(P)}], s[Max(P)])]
    BY <2>2
  <2> HIDE DEF h
  <2>4. Folded(h, fold, n, base, s, 0)
    BY <2>3 DEF Folded
  <2> QED
    BY <1>2, <2>1, <2>4
<1>4. k - 1 \in Nat /\ k - 1 \notin C
  BY <1>2, <1>3
<1>5. PICK g : Folded(g, fold, n, base, s, k - 1)
  BY <1>4
<1>6. \A P \in SUBSET (1 .. k - 1) :
         g[P] = IF P = {} THEN base
                ELSE With(fold, n, g[P \ {Max(P)}], s[Max(P)])
  BY <1>5 DEF Folded
<1> DEFINE h == [P \in SUBSET (1 .. k) |->
                    IF k \in P THEN With(fold, n, g[P \ {k}], s[k])
                    ELSE g[P]]
<1>7. ASSUME NEW P \in SUBSET (1 .. k)
      PROVE  h[P] = IF P = {} THEN base
                    ELSE With(fold, n, h[P \ {Max(P)}], s[Max(P)])
  <2>1. k \in Nat
    BY <1>2
  <2>2. CASE k \in P
    <3>1. Max(P) = k
      BY <2>1, <2>2, LastPlaceIs
    <3>2. P \ {k} \in SUBSET (1 .. k) /\ k \notin P \ {k}
      OBVIOUS
    <3>3. h[P \ {k}] = g[P \ {k}]
      BY <3>2
    <3> QED
      BY <2>2, <3>1, <3>3
  <2>3. CASE k \notin P
    <3>1. P \in SUBSET (1 .. k - 1)
      BY <1>3, <2>1, <2>3
    <3>2. h[P] = g[P] /\ \A i : h[P \ {i}] = g[P \ {i}]
      BY <2>3
    <3> HIDE DEF h
    <3> QED
      BY <1>6, <3>1, <3>2
  <2> QED
    BY <2>2, <2>3
<1>8. h = [P \in SUBSET (1 .. k) |->
             IF P = {} THEN base
             ELSE With(fold, n, h[P \ {Max(P)}], s[Max(P)])]
  <2>1. h = [P \in SUBSET (1 .. k) |-> h[P]]
    OBVIOUS
  <2> HIDE DEF h
  <2> QED
    BY <1>7, <2>1
<1>9. Folded(h, fold, n, base, s, k)
  <2> HIDE DEF h
  <2> QED
    BY <1>8 DEF Folded
<1> QED
  BY <1>2, <1>9

\* f has what the fold made of the first members, for each number of them.
InTurn(f, fold, n, base, s) ==
    /\ f[0] = base
    /\ \A k \in 1 .. Len(s) : f[k] = With(fold, n, f[k - 1], s[k])

\* Any such function takes the members in turn.
LEMMA FoldsInTurn ==
    ASSUME NEW fold, NEW n, NEW base, NEW s, Len(s) \in Nat,
           NEW g, Folded(g, fold, n, base, s, Len(s))
    PROVE  \E f : /\ InTurn(f, fold, n, base, s)
                  /\ f[Len(s)] = g[1 .. Len(s)]
<1> DEFINE f == [k \in 0 .. Len(s) |-> g[1 .. k]]
<1>1. \A P \in SUBSET (1 .. Len(s)) :
         g[P] = IF P = {} THEN base
                ELSE With(fold, n, g[P \ {Max(P)}], s[Max(P)])
  BY DEF Folded
<1>2. f[0] = base
  <2>1. 1 .. 0 = {} /\ {} \in SUBSET (1 .. Len(s))
    OBVIOUS
  <2>2. g[{}] = base
    BY <1>1
  <2> QED
    BY <2>1, <2>2
<1>3. ASSUME NEW k \in 1 .. Len(s)
      PROVE  f[k] = With(fold, n, f[k - 1], s[k])
  <2>1. /\ k \in Nat /\ k - 1 \in 0 .. Len(s) /\ k \in 0 .. Len(s)
        /\ 1 .. k \in SUBSET (1 .. Len(s)) /\ k \in 1 .. k
        /\ (1 .. k) \ {k} = 1 .. k - 1
    OBVIOUS
  <2>2. Max(1 .. k) = k
    BY <2>1, LastPlaceIs
  <2>3. g[1 .. k] = With(fold, n, g[(1 .. k) \ {k}], s[k])
    BY <1>1, <2>1, <2>2
  <2> QED
    BY <2>1, <2>3
<1> HIDE DEF f
<1>4. InTurn(f, fold, n, base, s)
  BY <1>2, <1>3 DEF InTurn
<1>5. f[Len(s)] = g[1 .. Len(s)]
  BY DEF f
<1> QED
  BY <1>4, <1>5

\* GlobalBest takes the trials in turn.
LEMMA BestInTurn ==
    ASSUME NEW trials, Len(trials) \in Nat, DOMAIN trials = 1 .. Len(trials)
    PROVE  \E f : /\ InTurn(f, "best", 0, NoTrial, trials)
                  /\ GlobalBest(trials) = f[Len(trials)]
<1> DEFINE Iter(g) == g = [P \in SUBSET DOMAIN trials |->
                            IF P = {} THEN NoTrial
                            ELSE KeepBetter(g[P \ {Max(P)}], trials[Max(P)])]
<1>1. GlobalBest(trials) = (CHOOSE g : Iter(g))[DOMAIN trials]
  BY DEF GlobalBest, FoldLeft, MapThenFoldSet, KeepBetter, NoTrial
<1>2. ASSUME NEW g
      PROVE  Iter(g) <=> Folded(g, "best", 0, NoTrial, trials, Len(trials))
  BY DEF Folded, With
<1> DEFINE h == CHOOSE g : Iter(g)
<1>3. \E g : Iter(g)
  BY <1>2, FoldedExists
<1> HIDE DEF Iter
<1>4. Iter(h)
  BY <1>3
<1> HIDE DEF h
<1>5. Folded(h, "best", 0, NoTrial, trials, Len(trials))
  BY <1>2, <1>4
<1>6. PICK f : /\ InTurn(f, "best", 0, NoTrial, trials)
               /\ f[Len(trials)] = h[1 .. Len(trials)]
  BY <1>5, FoldsInTurn
<1> QED
  BY <1>1, <1>6 DEF h

\* TrackWinners takes them in turn.
LEMMA WinnersInTurn ==
    ASSUME NEW trials, Len(trials) \in Nat, DOMAIN trials = 1 .. Len(trials)
    PROVE  \E f : /\ InTurn(f, "tracks", 0, <<>>, trials)
                  /\ TrackWinners(trials)
                       = [x \in DOMAIN f[Len(trials)] |->
                            f[Len(trials)][x].config]
<1> DEFINE Iter(g) == g = [P \in SUBSET DOMAIN trials |->
                            IF P = {} THEN <<>>
                            ELSE KeepWinners(g[P \ {Max(P)}], trials[Max(P)])]
<1>1. TrackWinners(trials)
        = [x \in DOMAIN (CHOOSE g : Iter(g))[DOMAIN trials] |->
             (CHOOSE g : Iter(g))[DOMAIN trials][x].config]
  BY DEF TrackWinners, FoldLeft, MapThenFoldSet, KeepWinners, Wins
<1>2. ASSUME NEW g
      PROVE  Iter(g) <=> Folded(g, "tracks", 0, <<>>, trials, Len(trials))
  BY DEF Folded, With
<1> DEFINE h == CHOOSE g : Iter(g)
<1>3. \E g : Iter(g)
  BY <1>2, FoldedExists
<1> HIDE DEF Iter
<1>4. Iter(h)
  BY <1>3
<1> HIDE DEF h
<1>5. Folded(h, "tracks", 0, <<>>, trials, Len(trials))
  BY <1>2, <1>4
<1>6. PICK f : /\ InTurn(f, "tracks", 0, <<>>, trials)
               /\ f[Len(trials)] = h[1 .. Len(trials)]
  BY <1>5, FoldsInTurn
<1>7. TrackWinners(trials) = [x \in DOMAIN f[Len(trials)] |->
                                f[Len(trials)][x].config]
  BY <1>1, <1>6, Zenon DEF h
<1> QED
  BY <1>6, <1>7

\* What is tried after the default, in its order.
Candidates(suggested, draws, most) ==
    SubSeq(suggested, 1, Min({most, Len(suggested)})) \o draws

\* ConfigSet takes the suggestions and the draws in turn.
LEMMA ConfigsInTurn ==
    ASSUME NEW suggested, NEW draws, NEW n, NEW most,
           Len(Candidates(suggested, draws, most)) \in Nat,
           DOMAIN Candidates(suggested, draws, most)
             = 1 .. Len(Candidates(suggested, draws, most))
    PROVE  \E f :
              /\ InTurn(f, "configs", n, <<Default>>,
                        Candidates(suggested, draws, most))
              /\ ConfigSet(suggested, draws, n, most)
                   = f[Len(Candidates(suggested, draws, most))]
<1> DEFINE some == Candidates(suggested, draws, most)
           Iter(g) == g = [P \in SUBSET DOMAIN some |->
                            IF P = {} THEN <<Default>>
                            ELSE AddConfig(n, g[P \ {Max(P)}], some[Max(P)])]
<1>1. ConfigSet(suggested, draws, n, most) = (CHOOSE g : Iter(g))[DOMAIN some]
  BY DEF ConfigSet, FoldLeft, MapThenFoldSet, AddConfig, Candidates
<1>2. ASSUME NEW g
      PROVE  Iter(g) <=> Folded(g, "configs", n, <<Default>>, some, Len(some))
  BY DEF Folded, With
<1> DEFINE h == CHOOSE g : Iter(g)
<1>3. \E g : Iter(g)
  BY <1>2, FoldedExists
<1> HIDE DEF Iter, some
<1>4. Iter(h)
  BY <1>3
<1> HIDE DEF h
<1>5. Folded(h, "configs", n, <<Default>>, some, Len(some))
  BY <1>2, <1>4
<1>6. PICK f : /\ InTurn(f, "configs", n, <<Default>>, some)
               /\ f[Len(some)] = h[1 .. Len(some)]
  BY <1>5, FoldsInTurn DEF some
<1> QED
  BY <1>1, <1>6 DEF h, some

\* What benchmarks give: whether they ran, are feasible, and scores.
Scorable(trials) ==
    \A i \in DOMAIN trials :
        /\ trials[i].done \in BOOLEAN /\ trials[i].feasible \in BOOLEAN
        /\ trials[i].score \in Int
        /\ \A x \in DOMAIN trials[i].tracks : trials[i].tracks[x] \in Int

\* best is the first trial among k that no other is better than.
BestAmong(best, trials, k) ==
    /\ best.done = (\E i \in 1 .. k : trials[i].done)
    /\ best.done =>
         \E i \in 1 .. k :
            /\ best = trials[i]
            /\ \A j \in 1 .. k : trials[j].done =>
                  /\ ~ IsBetter(trials[j], best)
                  /\ j < i => IsBetter(best, trials[j])

\* IsBetter in terms of truth values.
LEMMA BetterIs ==
    ASSUME NEW a, NEW b, a.feasible \in BOOLEAN, b.feasible \in BOOLEAN
    PROVE  IsBetter(a, b)
             <=> \/ a.feasible /\ ~ b.feasible
                 \/ (a.feasible <=> b.feasible) /\ a.score > b.score
BY DEF IsBetter

\* Feasibility and score order the trials.
LEMMA BetterOrders ==
    ASSUME NEW a, NEW b, NEW c,
           a.feasible \in BOOLEAN, b.feasible \in BOOLEAN,
           c.feasible \in BOOLEAN,
           a.score \in Int, b.score \in Int, c.score \in Int
    PROVE  /\ ~ IsBetter(a, a)
           /\ IsBetter(a, b) /\ ~ IsBetter(c, b) => IsBetter(a, c)
           /\ IsBetter(a, b) => ~ IsBetter(b, a)
<1> DEFINE Over(x, y) == \/ x.feasible /\ ~ y.feasible
                         \/ (x.feasible <=> y.feasible) /\ x.score > y.score
<1>1. /\ IsBetter(a, a) <=> Over(a, a)
      /\ IsBetter(a, b) <=> Over(a, b)
      /\ IsBetter(c, b) <=> Over(c, b)
      /\ IsBetter(a, c) <=> Over(a, c)
      /\ IsBetter(b, a) <=> Over(b, a)
  BY BetterIs
<1>2. ~ Over(a, a)
  OBVIOUS
<1>3. Over(a, b) /\ ~ Over(c, b) => Over(a, c)
  OBVIOUS
<1>4. Over(a, b) => ~ Over(b, a)
  OBVIOUS
<1> QED
  BY <1>1, <1>2, <1>3, <1>4

\* One trial more.
LEMMA BestGrows ==
    ASSUME NEW trials, Scorable(trials), NEW k \in Nat \ {0},
           1 .. k \subseteq DOMAIN trials, NEW best,
           BestAmong(best, trials, k - 1)
    PROVE  BestAmong(KeepBetter(best, trials[k]), trials, k)
<1> DEFINE t == trials[k]
           next == KeepBetter(best, t)
<1> SUFFICES BestAmong(next, trials, k)
  OBVIOUS
<1>1. \A i \in 1 .. k : /\ trials[i].done \in BOOLEAN
                        /\ trials[i].feasible \in BOOLEAN
                        /\ trials[i].score \in Int
  BY DEF Scorable
<1>2. /\ 1 .. k = (1 .. k - 1) \cup {k} /\ k \in 1 .. k
      /\ \A j \in 1 .. k - 1 : j < k
  OBVIOUS
<1>3. CASE ~ t.done
  <2>1. next = best
    BY <1>3 DEF KeepBetter
  <2> HIDE DEF next
  <2> QED
    BY <1>2, <1>3, <2>1 DEF BestAmong
<1>4. CASE t.done /\ ~ best.done
  <2>1. next = t
    BY <1>4 DEF KeepBetter
  <2>2. \A j \in 1 .. k - 1 : ~ trials[j].done
    BY <1>4 DEF BestAmong
  <2>3. ~ IsBetter(t, t)
    BY <1>1, <1>2, BetterOrders
  <2> HIDE DEF next
  <2>4. BestAmong(t, trials, k)
    BY <1>2, <1>4, <2>2, <2>3 DEF BestAmong
  <2> QED
    BY <2>1, <2>4
<1>5. CASE t.done /\ best.done
  <2>1. PICK i \in 1 .. k - 1 :
               /\ best = trials[i]
               /\ \A j \in 1 .. k - 1 : trials[j].done =>
                     /\ ~ IsBetter(trials[j], best)
                     /\ j < i => IsBetter(best, trials[j])
    BY <1>5 DEF BestAmong
  <2>2. CASE IsBetter(t, best)
    <3>1. next = t
      BY <1>5, <2>2 DEF KeepBetter
    <3>2. ~ IsBetter(t, t)
      BY <1>1, <1>2, BetterOrders
    <3>3. ASSUME NEW j \in 1 .. k - 1, trials[j].done
          PROVE  IsBetter(t, trials[j]) /\ ~ IsBetter(trials[j], t)
      <4>1. ~ IsBetter(trials[j], best)
        BY <2>1, <3>3
      <4> QED
        BY <1>1, <1>2, <2>1, <2>2, <4>1, BetterOrders
    <3> HIDE DEF next
    <3>4. BestAmong(t, trials, k)
      BY <1>2, <1>5, <3>2, <3>3 DEF BestAmong
    <3> QED
      BY <3>1, <3>4
  <2>3. CASE ~ IsBetter(t, best)
    <3>1. next = best
      BY <1>5, <2>3 DEF KeepBetter
    <3>2. ~ (k < i) /\ i \in 1 .. k
      OBVIOUS
    <3> HIDE DEF next
    <3>3. BestAmong(best, trials, k)
      BY <1>2, <1>5, <2>1, <2>3, <3>2 DEF BestAmong
    <3> QED
      BY <3>1, <3>3
  <2> QED
    BY <2>2, <2>3
<1>6. t.done \in BOOLEAN /\ best.done \in BOOLEAN
  BY <1>1, <1>2 DEF BestAmong
<1> QED
  BY <1>3, <1>4, <1>5

\* GlobalBest is the first of the trials that no other is better than.
THEOREM BestTrial ==
    ASSUME NEW trials, Len(trials) \in Nat, DOMAIN trials = 1 .. Len(trials),
           Scorable(trials)
    PROVE  BestAmong(GlobalBest(trials), trials, Len(trials))
<1>1. PICK f : /\ InTurn(f, "best", 0, NoTrial, trials)
               /\ GlobalBest(trials) = f[Len(trials)]
  BY BestInTurn
<1>2. f[0] = NoTrial
  BY <1>1 DEF InTurn
<1>3. \A k \in 1 .. Len(trials) : f[k] = KeepBetter(f[k - 1], trials[k])
  BY <1>1 DEF InTurn, With
<1> DEFINE C == {k \in 0 .. Len(trials) : ~ BestAmong(f[k], trials, k)}
<1>4. C = {}
  <2>1. SUFFICES ASSUME C # {} PROVE FALSE
    OBVIOUS
  <2>2. PICK k \in C : \A j \in C : k <= j
    <3>1. C \in SUBSET Nat
      OBVIOUS
    <3> HIDE DEF C
    <3> QED
      BY <2>1, <3>1, SomeLeast
  <2>3. CASE k = 0
    <3>1. NoTrial.done = FALSE
      BY DEF NoTrial
    <3>2. ~ \E i \in 1 .. 0 : trials[i].done
      OBVIOUS
    <3>3. BestAmong(NoTrial, trials, 0)
      BY <3>1, <3>2 DEF BestAmong
    <3> QED
      BY <1>2, <2>2, <2>3, <3>3
  <2>4. CASE k # 0
    <3>1. /\ k \in Nat \ {0} /\ k \in 1 .. Len(trials)
          /\ 1 .. k \subseteq DOMAIN trials
          /\ k - 1 \in 0 .. Len(trials) /\ k - 1 \notin C
      BY <2>2, <2>4
    <3>2. BestAmong(f[k - 1], trials, k - 1)
      BY <3>1
    <3> HIDE DEF C
    <3>3. BestAmong(f[k], trials, k)
      BY <1>3, <3>1, <3>2, BestGrows
    <3> QED
      BY <2>2, <3>3 DEF C
  <2> QED
    BY <2>3, <2>4
<1>5. Len(trials) \in 0 .. Len(trials)
  OBVIOUS
<1> QED
  BY <1>1, <1>4, <1>5

\* i is the first of k trials that scored best on track x.
WonBy(i, trials, k, x) ==
    /\ trials[i].done /\ x \in DOMAIN trials[i].tracks
    /\ \A j \in 1 .. k : trials[j].done /\ x \in DOMAIN trials[j].tracks =>
          /\ trials[j].tracks[x] <= trials[i].tracks[x]
          /\ j < i => trials[j].tracks[x] < trials[i].tracks[x]

\* best has, for each track some of k trials scored on, whoever won it.
WinnersKept(best, trials, k) ==
    \A x : IF \E i \in 1 .. k :
                trials[i].done /\ x \in DOMAIN trials[i].tracks
           THEN /\ x \in DOMAIN best
                /\ \E i \in 1 .. k :
                      /\ best[x] = [config |-> trials[i].config,
                                    score |-> trials[i].tracks[x]]
                      /\ WonBy(i, trials, k, x)
           ELSE x \notin DOMAIN best

\* One trial more.
LEMMA WinnersGrow ==
    ASSUME NEW trials, Scorable(trials), NEW k \in Nat \ {0},
           1 .. k \subseteq DOMAIN trials, NEW best,
           WinnersKept(best, trials, k - 1)
    PROVE  WinnersKept(KeepWinners(best, trials[k]), trials, k)
<1> DEFINE t == trials[k]
           next == KeepWinners(best, t)
           On(i, x) == trials[i].done /\ x \in DOMAIN trials[i].tracks
<1>1. /\ k \in 1 .. k /\ 1 .. k = (1 .. k - 1) \cup {k}
      /\ \A j \in 1 .. k - 1 : j < k /\ ~(k < j)
  OBVIOUS
<1>2. ASSUME NEW i \in 1 .. k, NEW x, On(i, x)
      PROVE  trials[i].tracks[x] \in Int
  BY <1>2 DEF Scorable
<1>3. SUFFICES ASSUME NEW x
      PROVE  IF \E i \in 1 .. k : On(i, x)
             THEN /\ x \in DOMAIN next
                  /\ \E i \in 1 .. k :
                        /\ next[x] = [config |-> trials[i].config,
                                      score |-> trials[i].tracks[x]]
                        /\ WonBy(i, trials, k, x)
             ELSE x \notin DOMAIN next
  BY DEF WinnersKept
<1>4. IF \E i \in 1 .. k - 1 : On(i, x)
      THEN /\ x \in DOMAIN best
           /\ \E i \in 1 .. k - 1 :
                 /\ best[x] = [config |-> trials[i].config,
                               score |-> trials[i].tracks[x]]
                 /\ WonBy(i, trials, k - 1, x)
      ELSE x \notin DOMAIN best
  BY DEF WinnersKept
<1>5. ~ t.done => next = best
  BY DEF KeepWinners
<1>6. t.done => /\ DOMAIN next = Wins(best, t) \cup DOMAIN best
                /\ \A y \in DOMAIN next :
                      next[y] = IF y \in Wins(best, t)
                                THEN [config |-> t.config,
                                      score |-> t.tracks[y]]
                                ELSE best[y]
  BY DEF KeepWinners
<1>7. x \in Wins(best, t) <=> /\ x \in DOMAIN t.tracks
                              /\ \/ x \notin DOMAIN best
                                 \/ t.tracks[x] > best[x].score
  BY DEF Wins
<1> HIDE DEF next
\* No trial before this one scored on the track.
<1>8. CASE ~ \E i \in 1 .. k - 1 : On(i, x)
  <2>1. x \notin DOMAIN best
    BY <1>4, <1>8
  <2>2. CASE On(k, x)
    <3>1. x \in DOMAIN next /\ next[x] = [config |-> trials[k].config,
                                          score |-> trials[k].tracks[x]]
      BY <1>6, <1>7, <2>1, <2>2
    <3>2. trials[k].tracks[x] \in Int
      BY <1>1, <1>2, <2>2
    <3>3. WonBy(k, trials, k, x)
      BY <1>1, <1>8, <2>2, <3>2 DEF WonBy
    <3> QED
      BY <1>1, <2>2, <3>1, <3>3
  <2>3. CASE ~ On(k, x)
    <3>1. x \notin DOMAIN next
      BY <1>5, <1>6, <1>7, <2>1, <2>3
    <3> QED
      BY <1>1, <1>8, <2>3, <3>1
  <2> QED
    BY <2>2, <2>3
<1>9. CASE \E i \in 1 .. k - 1 : On(i, x)
  <2>1. x \in DOMAIN best
    BY <1>4, <1>9
  <2>2. PICK i \in 1 .. k - 1 :
               /\ best[x] = [config |-> trials[i].config,
                             score |-> trials[i].tracks[x]]
               /\ WonBy(i, trials, k - 1, x)
    BY <1>4, <1>9
  <2>3. On(i, x) /\ i \in 1 .. k /\ trials[i].tracks[x] \in Int
    BY <1>2, <2>2 DEF WonBy
  <2>4. best[x].score = trials[i].tracks[x]
    BY <2>2
  <2>5. CASE On(k, x) /\ t.tracks[x] > best[x].score
    <3>1. x \in DOMAIN next /\ next[x] = [config |-> trials[k].config,
                                          score |-> trials[k].tracks[x]]
      BY <1>6, <1>7, <2>5
    <3>2. trials[k].tracks[x] \in Int
      BY <1>1, <1>2, <2>5
    <3>3. ASSUME NEW j \in 1 .. k - 1, On(j, x)
          PROVE  trials[j].tracks[x] < trials[k].tracks[x]
      <4>1. trials[j].tracks[x] <= trials[i].tracks[x]
        BY <2>2, <3>3 DEF WonBy
      <4>2. trials[j].tracks[x] \in Int
        BY <1>1, <1>2, <3>3
      <4> QED
        BY <2>3, <2>4, <2>5, <3>2, <4>1, <4>2
    <3>4. ASSUME NEW j \in 1 .. k - 1, On(j, x)
          PROVE  trials[j].tracks[x] <= trials[k].tracks[x]
      BY <1>1, <1>2, <3>2, <3>3, <3>4
    <3>5. WonBy(k, trials, k, x)
      BY <1>1, <2>5, <3>2, <3>3, <3>4 DEF WonBy
    <3> QED
      BY <1>1, <2>5, <3>1, <3>5
  <2>6. CASE ~ (On(k, x) /\ t.tracks[x] > best[x].score)
    <3>1. x \in DOMAIN next /\ next[x] = best[x]
      BY <1>5, <1>6, <1>7, <2>1, <2>6
    <3>2. On(k, x) => trials[k].tracks[x] <= trials[i].tracks[x]
      BY <1>1, <1>2, <2>3, <2>4, <2>6
    <3>3. ~(k < i)
      BY <1>1
    <3>4. WonBy(i, trials, k, x)
      BY <1>1, <2>2, <3>2, <3>3 DEF WonBy
    <3> QED
      BY <2>2, <2>3, <3>1, <3>4
  <2> QED
    BY <2>5, <2>6
<1> QED
  BY <1>8, <1>9

\* TrackWinners has, for each track any trial scored on, the configuration of
\* the first trial that scored best on it, and nothing for other tracks.
THEOREM WinnersWon ==
    ASSUME NEW trials, Len(trials) \in Nat, DOMAIN trials = 1 .. Len(trials),
           Scorable(trials), NEW x
    PROVE  /\ x \in DOMAIN TrackWinners(trials)
                <=> \E i \in DOMAIN trials :
                       trials[i].done /\ x \in DOMAIN trials[i].tracks
           /\ x \in DOMAIN TrackWinners(trials) =>
                \E i \in DOMAIN trials :
                   /\ TrackWinners(trials)[x] = trials[i].config
                   /\ WonBy(i, trials, Len(trials), x)
<1>1. PICK f : /\ InTurn(f, "tracks", 0, <<>>, trials)
               /\ TrackWinners(trials) = [y \in DOMAIN f[Len(trials)] |->
                                            f[Len(trials)][y].config]
  BY WinnersInTurn
<1>2. f[0] = <<>>
  BY <1>1 DEF InTurn
<1>3. \A k \in 1 .. Len(trials) : f[k] = KeepWinners(f[k - 1], trials[k])
  BY <1>1 DEF InTurn, With
<1> DEFINE C == {k \in 0 .. Len(trials) : ~ WinnersKept(f[k], trials, k)}
<1>4. C = {}
  <2>1. SUFFICES ASSUME C # {} PROVE FALSE
    OBVIOUS
  <2>2. PICK k \in C : \A j \in C : k <= j
    <3>1. C \in SUBSET Nat
      OBVIOUS
    <3> HIDE DEF C
    <3> QED
      BY <2>1, <3>1, SomeLeast
  <2>3. CASE k = 0
    <3>1. DOMAIN <<>> = {} /\ 1 .. 0 = {}
      OBVIOUS
    <3>2. WinnersKept(<<>>, trials, 0)
      BY <3>1 DEF WinnersKept
    <3> QED
      BY <1>2, <2>2, <2>3, <3>2
  <2>4. CASE k # 0
    <3>1. /\ k \in Nat \ {0} /\ k \in 1 .. Len(trials)
          /\ 1 .. k \subseteq DOMAIN trials
          /\ k - 1 \in 0 .. Len(trials) /\ k - 1 \notin C
      BY <2>2, <2>4
    <3>2. WinnersKept(f[k - 1], trials, k - 1)
      BY <3>1
    <3> HIDE DEF C
    <3>3. WinnersKept(f[k], trials, k)
      BY <1>3, <3>1, <3>2, WinnersGrow
    <3> QED
      BY <2>2, <3>3 DEF C
  <2> QED
    BY <2>3, <2>4
<1> DEFINE last == f[Len(trials)]
<1>5. WinnersKept(last, trials, Len(trials))
  BY <1>4
<1>6. TrackWinners(trials) = [y \in DOMAIN last |-> last[y].config]
  BY <1>1
<1> HIDE DEF last
<1>7. IF \E i \in 1 .. Len(trials) :
           trials[i].done /\ x \in DOMAIN trials[i].tracks
      THEN /\ x \in DOMAIN last
           /\ \E i \in 1 .. Len(trials) :
                 /\ last[x] = [config |-> trials[i].config,
                               score |-> trials[i].tracks[x]]
                 /\ WonBy(i, trials, Len(trials), x)
      ELSE x \notin DOMAIN last
  BY <1>5 DEF WinnersKept
<1>8. /\ DOMAIN TrackWinners(trials) = DOMAIN last
      /\ x \in DOMAIN last => TrackWinners(trials)[x] = last[x].config
  BY <1>6
<1>9. 1 .. Len(trials) = DOMAIN trials
  OBVIOUS
<1> HIDE DEF C
<1>10. CASE \E i \in DOMAIN trials :
               trials[i].done /\ x \in DOMAIN trials[i].tracks
  <2>1. x \in DOMAIN TrackWinners(trials)
    BY <1>7, <1>8, <1>9, <1>10
  <2>2. PICK i \in DOMAIN trials :
               /\ last[x] = [config |-> trials[i].config,
                             score |-> trials[i].tracks[x]]
               /\ WonBy(i, trials, Len(trials), x)
    BY <1>7, <1>9, <1>10
  <2>3. TrackWinners(trials)[x] = trials[i].config
    BY <1>8, <2>1, <2>2
  <2> QED
    BY <1>10, <2>1, <2>2, <2>3
<1>11. CASE ~ \E i \in DOMAIN trials :
                 trials[i].done /\ x \in DOMAIN trials[i].tracks
  <2>1. x \notin DOMAIN TrackWinners(trials)
    BY <1>7, <1>8, <1>9, <1>11
  <2> QED
    BY <1>11, <2>1
<1> QED
  BY <1>10, <1>11

\* configs is what a budget of n makes of the default and the first k of s.
ConfigsAmong(configs, n, s, k) ==
    /\ Len(configs) \in 1 .. n /\ DOMAIN configs = 1 .. Len(configs)
    /\ configs[1] = Default
    /\ \A i \in DOMAIN configs, j \in DOMAIN configs :
          configs[i] = configs[j] => i = j
    /\ \A i \in DOMAIN configs :
          configs[i] = Default \/ \E j \in 1 .. k : configs[i] = s[j]
    /\ Len(configs) < n =>
          \A j \in 1 .. k : \E i \in DOMAIN configs : configs[i] = s[j]

\* One candidate more.
LEMMA ConfigsGrow ==
    ASSUME NEW Configs, NEW n \in Nat \ {0}, NEW s, NEW k \in Nat \ {0},
           s[k] \in Configs, NEW configs \in Seq(Configs),
           ConfigsAmong(configs, n, s, k - 1)
    PROVE  /\ AddConfig(n, configs, s[k]) \in Seq(Configs)
           /\ ConfigsAmong(AddConfig(n, configs, s[k]), n, s, k)
<1>1. /\ Len(configs) \in 1 .. n /\ DOMAIN configs = 1 .. Len(configs)
      /\ configs[1] = Default
      /\ \A i \in DOMAIN configs, j \in DOMAIN configs :
            configs[i] = configs[j] => i = j
      /\ \A i \in DOMAIN configs :
            configs[i] = Default \/ \E j \in 1 .. k - 1 : configs[i] = s[j]
      /\ Len(configs) < n =>
            \A j \in 1 .. k - 1 : \E i \in DOMAIN configs : configs[i] = s[j]
  BY DEF ConfigsAmong
<1>2. k \in 1 .. k /\ 1 .. k = (1 .. k - 1) \cup {k}
  OBVIOUS
<1>3. CASE Len(configs) >= n
  <2>1. AddConfig(n, configs, s[k]) = configs
    BY <1>3 DEF AddConfig
  <2>2. ~ (Len(configs) < n)
    BY <1>1, <1>3
  <2>3. ConfigsAmong(configs, n, s, k)
    BY <1>1, <1>2, <2>2 DEF ConfigsAmong
  <2> QED
    BY <2>1, <2>3
<1>4. CASE s[k] \in ToSet(configs)
  <2>1. AddConfig(n, configs, s[k]) = configs
    BY <1>4 DEF AddConfig
  <2>2. \E i \in DOMAIN configs : configs[i] = s[k]
    BY <1>4 DEF ToSet
  <2>3. ConfigsAmong(configs, n, s, k)
    BY <1>1, <1>2, <2>2 DEF ConfigsAmong
  <2> QED
    BY <2>1, <2>3
<1>5. CASE ~ (Len(configs) >= n) /\ s[k] \notin ToSet(configs)
  <2> DEFINE more == Append(configs, s[k])
  <2>1. AddConfig(n, configs, s[k]) = more
    BY <1>5 DEF AddConfig
  <2>2. /\ more \in Seq(Configs) /\ Len(more) = Len(configs) + 1
        /\ \A i \in 1 .. Len(configs) : more[i] = configs[i]
        /\ more[Len(configs) + 1] = s[k]
    BY AppendProperties
  <2>3. \A i \in DOMAIN configs : configs[i] # s[k]
    BY <1>5 DEF ToSet
  <2>4. Len(configs) \in Nat \ {0} /\ Len(configs) < n
    BY <1>1, <1>5
  <2> HIDE DEF more
  <2>5. /\ DOMAIN more = 1 .. Len(more) /\ Len(more) \in 1 .. n
        /\ DOMAIN more = DOMAIN configs \cup {Len(configs) + 1}
        /\ Len(configs) + 1 \notin DOMAIN configs
    <3>1. DOMAIN more = 1 .. Len(more)
      BY <2>2, LenProperties
    <3> QED
      BY <1>1, <2>2, <2>4, <3>1
  <2>6. more[1] = Default
    BY <1>1, <2>2, <2>4
  <2>7. \A i \in DOMAIN more, j \in DOMAIN more : more[i] = more[j] => i = j
    BY <1>1, <2>2, <2>3, <2>5
  <2>8. \A i \in DOMAIN more :
           more[i] = Default \/ \E j \in 1 .. k : more[i] = s[j]
    <3>1. ASSUME NEW i \in DOMAIN configs
          PROVE  more[i] = Default \/ \E j \in 1 .. k : more[i] = s[j]
      <4>1. more[i] = configs[i]
        BY <1>1, <2>2
      <4> QED
        BY <1>1, <1>2, <4>1
    <3>2. \E j \in 1 .. k : more[Len(configs) + 1] = s[j]
      BY <1>2, <2>2
    <3> QED
      BY <2>5, <3>1, <3>2
  <2>9. \A j \in 1 .. k : \E i \in DOMAIN more : more[i] = s[j]
    <3>1. ASSUME NEW j \in 1 .. k - 1
          PROVE  \E i \in DOMAIN more : more[i] = s[j]
      <4>1. PICK i \in DOMAIN configs : configs[i] = s[j]
        BY <1>1, <2>4
      <4> QED
        BY <1>1, <2>2, <2>5, <4>1
    <3> QED
      BY <1>2, <2>2, <2>5, <3>1
  <2>10. ConfigsAmong(more, n, s, k)
    BY <2>5, <2>6, <2>7, <2>8, <2>9 DEF ConfigsAmong
  <2> QED
    BY <2>1, <2>2, <2>10
<1> QED
  BY <1>3, <1>4, <1>5

\* The candidates are configurations.
LEMMA CandidatesAre ==
    ASSUME NEW Configs, NEW suggested \in Seq(Configs),
           NEW draws \in Seq(Configs), NEW most \in Nat
    PROVE  Candidates(suggested, draws, most) \in Seq(Configs)
<1> DEFINE m == Min({most, Len(suggested)})
<1>1. Len(suggested) \in Nat
  BY LenProperties
<1>2. m \in {most, Len(suggested)} /\ m <= Len(suggested)
  <2>1. \E u \in {most, Len(suggested)} :
           \A v \in {most, Len(suggested)} : u =< v
    <3>1. CASE most <= Len(suggested)
      BY <1>1, <3>1
    <3>2. CASE Len(suggested) <= most
      BY <1>1, <3>2
    <3> QED
      BY <1>1, <3>1, <3>2
  <2> QED
    BY <2>1 DEF Min
<1>3. m \in 0 .. Len(suggested)
  <2> HIDE DEF m
  <2> QED
    BY <1>1, <1>2
<1> HIDE DEF m
<1>4. SubSeq(suggested, 1, m) \in Seq(Configs)
  BY <1>1, <1>3, SubSeqProperties
<1> QED
  BY <1>4, ConcatProperties DEF Candidates, m

\* ConfigSet tries the default first, nothing twice, at most n, nothing but the
\* default, the first suggestions and the draws, and all of these when there is
\* room.
THEOREM ConfigsTried ==
    ASSUME NEW Configs, Default \in Configs, NEW suggested \in Seq(Configs),
           NEW draws \in Seq(Configs), NEW n \in Nat \ {0}, NEW most \in Nat
    PROVE  /\ ConfigSet(suggested, draws, n, most) \in Seq(Configs)
           /\ ConfigsAmong(ConfigSet(suggested, draws, n, most), n,
                           Candidates(suggested, draws, most),
                           Len(Candidates(suggested, draws, most)))
<1> DEFINE s == Candidates(suggested, draws, most)
<1>1. s \in Seq(Configs)
  BY CandidatesAre
<1>2. /\ Len(s) \in Nat /\ DOMAIN s = 1 .. Len(s)
      /\ \A i \in 1 .. Len(s) : s[i] \in Configs
  <2> HIDE DEF s
  <2> QED
    BY <1>1, LenProperties, ElementOfSeq
<1>3. PICK f : /\ InTurn(f, "configs", n, <<Default>>, s)
               /\ ConfigSet(suggested, draws, n, most) = f[Len(s)]
  BY <1>2, ConfigsInTurn
<1> HIDE DEF s
<1>4. f[0] = <<Default>>
  BY <1>3 DEF InTurn
<1>5. \A k \in 1 .. Len(s) : f[k] = AddConfig(n, f[k - 1], s[k])
  BY <1>3 DEF InTurn, With
<1> DEFINE Good(k) == f[k] \in Seq(Configs) /\ ConfigsAmong(f[k], n, s, k)
           C == {k \in 0 .. Len(s) : ~ Good(k)}
<1>6. C = {}
  <2>1. SUFFICES ASSUME C # {} PROVE FALSE
    OBVIOUS
  <2>2. PICK k \in C : \A j \in C : k <= j
    <3>1. C \in SUBSET Nat
      BY <1>2
    <3> HIDE DEF C
    <3> QED
      BY <2>1, <3>1, SomeLeast
  <2>3. CASE k = 0
    <3> DEFINE one == <<Default>>
    <3>1. /\ one \in Seq(Configs) /\ Len(one) = 1 /\ DOMAIN one = 1 .. 1
          /\ one[1] = Default
      OBVIOUS
    <3>2. 1 .. 1 = {1} /\ 1 \in 1 .. n /\ 1 .. 0 = {}
      OBVIOUS
    <3> HIDE DEF one
    <3>3. ConfigsAmong(one, n, s, 0)
      BY <3>1, <3>2 DEF ConfigsAmong
    <3>4. Good(0)
      BY <1>4, <3>1, <3>3 DEF one
    <3> QED
      BY <2>2, <2>3, <3>4
  <2>4. CASE k # 0
    <3>1. /\ k \in Nat \ {0} /\ k \in 1 .. Len(s)
          /\ k - 1 \in 0 .. Len(s) /\ k - 1 \notin C
      BY <1>2, <2>2, <2>4
    <3>2. f[k - 1] \in Seq(Configs) /\ ConfigsAmong(f[k - 1], n, s, k - 1)
      BY <3>1
    <3> HIDE DEF C
    <3>3. s[k] \in Configs
      BY <1>2, <3>1
    <3>4. f[k] \in Seq(Configs) /\ ConfigsAmong(f[k], n, s, k)
      BY <1>5, <3>1, <3>2, <3>3, ConfigsGrow
    <3> QED
      BY <2>2, <3>4 DEF C
  <2> QED
    BY <2>3, <2>4
<1>7. Good(Len(s))
  <2>1. Len(s) \in 0 .. Len(s)
    BY <1>2
  <2> QED
    BY <1>6, <2>1
<1> QED
  BY <1>3, <1>7 DEF s

\* Whatever is suggested and drawn, if the default ran, the best trial is not
\* one the default is better than, and on each track the default scored on, the
\* configuration that is chosen scored no less (docstrings of _is_better and
\* _per_track_winners).
THEOREM TunedIsNoWorse ==
    ASSUME NEW Configs, Default \in Configs, NEW suggested \in Seq(Configs),
           NEW draws \in Seq(Configs), NEW n \in Nat \ {0}, NEW most \in Nat,
           NEW configs, configs = ConfigSet(suggested, draws, n, most),
           NEW trials, DOMAIN trials = DOMAIN configs,
           Len(trials) = Len(configs), Scorable(trials),
           \A i \in DOMAIN trials : trials[i].config = configs[i]
    PROVE  /\ trials[1].config = Default
           /\ trials[1].done =>
                /\ GlobalBest(trials).done
                /\ ~ IsBetter(trials[1], GlobalBest(trials))
                /\ \A x \in DOMAIN trials[1].tracks :
                      /\ x \in DOMAIN TrackWinners(trials)
                      /\ \A i \in DOMAIN trials :
                            TrackWinners(trials)[x] = configs[i] =>
                              /\ trials[i].done
                              /\ x \in DOMAIN trials[i].tracks
                              /\ trials[i].tracks[x] >= trials[1].tracks[x]
<1> DEFINE s == Candidates(suggested, draws, most)
<1>1. configs \in Seq(Configs) /\ ConfigsAmong(configs, n, s, Len(s))
  BY ConfigsTried
<1> HIDE DEF s
<1>2. /\ Len(configs) \in 1 .. n /\ DOMAIN configs = 1 .. Len(configs)
      /\ configs[1] = Default
      /\ \A i \in DOMAIN configs, j \in DOMAIN configs :
            configs[i] = configs[j] => i = j
  BY <1>1 DEF ConfigsAmong
<1>3. /\ Len(trials) \in Nat /\ DOMAIN trials = 1 .. Len(trials)
      /\ 1 \in DOMAIN trials /\ 1 \in 1 .. Len(trials)
  BY <1>2
<1>4. trials[1].config = Default
  BY <1>2, <1>3
<1>5. ASSUME trials[1].done
      PROVE  /\ GlobalBest(trials).done
             /\ ~ IsBetter(trials[1], GlobalBest(trials))
  <2>1. BestAmong(GlobalBest(trials), trials, Len(trials))
    BY <1>3, BestTrial
  <2> DEFINE best == GlobalBest(trials)
  <2> HIDE DEF best
  <2>2. BestAmong(best, trials, Len(trials))
    BY <2>1 DEF best
  <2>3. best.done
    BY <1>3, <1>5, <2>2 DEF BestAmong
  <2>4. ~ IsBetter(trials[1], best)
    BY <1>3, <1>5, <2>2, <2>3 DEF BestAmong
  <2> QED
    BY <2>3, <2>4 DEF best
<1>6. ASSUME trials[1].done, NEW x \in DOMAIN trials[1].tracks
      PROVE  /\ x \in DOMAIN TrackWinners(trials)
             /\ \A i \in DOMAIN trials :
                   TrackWinners(trials)[x] = configs[i] =>
                     /\ trials[i].done /\ x \in DOMAIN trials[i].tracks
                     /\ trials[i].tracks[x] >= trials[1].tracks[x]
  <2>1. x \in DOMAIN TrackWinners(trials)
    BY <1>3, <1>6, WinnersWon
  <2>2. PICK w \in DOMAIN trials :
               /\ TrackWinners(trials)[x] = trials[w].config
               /\ WonBy(w, trials, Len(trials), x)
    BY <1>3, <2>1, WinnersWon
  <2>3. /\ trials[w].done /\ x \in DOMAIN trials[w].tracks
        /\ trials[1].tracks[x] <= trials[w].tracks[x]
    BY <1>3, <1>6, <2>2 DEF WonBy
  <2>4. trials[w].tracks[x] \in Int /\ trials[1].tracks[x] \in Int
    BY <1>3, <1>6, <2>3 DEF Scorable
  <2>5. trials[w].tracks[x] >= trials[1].tracks[x]
    BY <2>3, <2>4
  <2>6. ASSUME NEW i \in DOMAIN trials, TrackWinners(trials)[x] = configs[i]
        PROVE  i = w
    BY <1>2, <2>2, <2>6
  <2> QED
    BY <2>1, <2>3, <2>5, <2>6
<1> QED
  BY <1>4, <1>5, <1>6
=============================================================================
