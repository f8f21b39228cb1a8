-------------------------- MODULE ContributorLoop --------------------------
(***************************************************************************)
(* One contributor's optimisation loop (scripts/run_loop.py).              *)
(*                                                                         *)
(* An iteration syncs the challenge, asks the server for the trajectory    *)
(* best, puts it on disk, may measure an adopted seed or try a clean-up,   *)
(* has a model change the files, benchmarks them with bounded repair, may  *)
(* search hyperparameters, and publishes whatever is on disk.  Every call  *)
(* can fail, the host can switch the challenge or revoke the contributor   *)
(* at any moment, and the process can die and be started again; only the   *)
(* files and the stored credentials survive it.                            *)
(*                                                                         *)
(* Code is abstracted to an entry file (a program or the stub) and what    *)
(* lies beside it: nothing, or enough modules to be over the cleaner's     *)
(* trigger.  The server's answer is any it could give: TrajectoryPool says *)
(* which one.  Messages, heartbeats and distilled lessons are left out.    *)
(***************************************************************************)
EXTENDS Harness

CONSTANTS
    Challenges, Programs, Stub, None,
    FreezeLimit,    \* no_benchmark_freeze_limit
    SkipFallback,   \* _SR_SKIP_FALLBACK
    FixLimit,       \* max_retries of either repair
    Cooldown,       \* cleaner_cooldown_iters
    Searches        \* winners per track that a search may end with

ASSUME LoopAssumption ==
    /\ IsFiniteSet(Challenges) /\ Challenges # {} /\ IsFiniteSet(Programs)
    /\ Stub \notin Programs /\ None \notin Challenges
    /\ FreezeLimit \in Nat \ {0} /\ SkipFallback \in Nat \ {0}
    /\ FixLimit \in Nat /\ Cooldown \in Nat

VARIABLES
    active,       \* the server's challenge
    revoked,      \* is the contributor's username revoked?
    token,        \* the stored token
    pc,
    style,        \* provider and edit mode of agent.config.json
    role,
    cfg,          \* the challenge of the local cache
    disk,         \* algorithm files of each challenge's directory
    st,           \* the server's answer this iteration works from
    kept,         \* files set aside by the cleaner or the search
    bench,        \* what the benchmark last measured
    kind,         \* what is being published
    winning,      \* configurations to publish with it, or None
    tree,         \* the tooled agent's worktree
    tries,        \* repairs asked for in this loop of repairs
    fails, failsOn, skips, sinceClean,   \* main()'s counters
    spent, benched, wasted, lockedOut    \* history, see HistoryAtTop

host == <<active, revoked>>
work == <<st, kept, bench, kind, tries, winning, tree>>
counters == <<fails, failsOn, skips, sinceClean>>
history == <<spent, benched, wasted, lockedOut>>
config == <<style, role, cfg>>
vars == <<host, token, pc, config, disk, work, counters, history>>

Rest == {"none", "modules"}
Files == [entry : Programs \cup {Stub}, rest : Rest]
Written == [entry : Programs, rest : Rest]
StubFiles == [entry |-> Stub, rest |-> "none"]

NoAnswer == [files |-> StubFiles, unscored |-> FALSE, lastChance |-> FALSE]
Answer == [files : Written \cup {StubFiles}, unscored : BOOLEAN,
           lastChance : BOOLEAN]
NoBench == [challenge |-> None, files |-> StubFiles, feasible |-> FALSE,
            configs |-> None]
Bench == [challenge : Challenges, files : Files, feasible : BOOLEAN,
          configs : Searches \cup {None}]

\* Where models work and benchmarks run.
Spending == {"seed", "clean", "lean", "generate", "agent", "copy", "code",
             "bench", "runtime", "rerun", "rerunFixed", "tune", "extract",
             "tuning", "search"}
Places == Spending \cup {"down", "register", "top", "state", "publish", "frozen",
                         "refused"}

TypeOK ==
    /\ active \in Challenges /\ revoked \in BOOLEAN
    /\ token \in {"none", "valid", "cleared"}
    /\ pc \in Places
    /\ style \in {"full", "blocks", "agentic"}
    /\ role \in {"explorer", "exploiter"} /\ cfg \in Challenges
    /\ disk \in [Challenges -> Files]
    /\ st \in Answer /\ kept \in Files
    /\ bench \in Bench \cup {NoBench}
    /\ kind \in {"mutation", "refactor", "seed"}
    /\ winning \in Searches \cup {None} /\ tree \in Files
    /\ tries \in 0 .. FixLimit
    /\ fails \in 0 .. FreezeLimit /\ failsOn \in Challenges \cup {None}
    /\ skips \in 0 .. SkipFallback - 1 /\ sinceClean \in 0 .. Cooldown
    /\ spent \in BOOLEAN /\ benched \in BOOLEAN /\ wasted \in 0 .. FreezeLimit
    /\ lockedOut \in BOOLEAN

Bootstrap == st.files.entry = Stub

-----------------------------------------------------------------------------
(* What the steps write.                                                   *)

\* ChallengeFiles.write: the entry file; modules beside it stay.
EntryWritten(p) == [disk EXCEPT ![cfg].entry = p]

\* ChallengeFiles.write_files: the whole map, stale files pruned.
MapWritten(files) == [disk EXCEPT ![cfg] = files]

EntryRestored == [disk EXCEPT ![cfg].entry = kept.entry]
NotRestored == disk

\* What the cleaner, the search or a failed refactor's publish puts back.
Restored == MapWritten(kept)

\* run_benchmark returned a score for what is on disk, run with the given
\* configurations or (None) with those in the code.
MeasuredUnder(configs, feasible) ==
    [challenge |-> cfg, files |-> disk[cfg], feasible |-> feasible,
     configs |-> configs]

Measured(feasible) == MeasuredUnder(None, feasible)

\* publish_results: the files of the disk with the score of the benchmark.
Payload ==
    [challenge |-> bench.challenge,
     files |-> disk[cfg],
     feasible |-> bench.feasible,
     hyperparameters |-> winning,
     type |-> IF kind = "refactor" THEN "refactor" ELSE "mutation"]

\* _try_compile_fix: a whole new entry file, the same one being no repair.
CompileFix == \E p \in Programs \ {disk[cfg].entry} : disk' = EntryWritten(p)

\* _use_search_replace, on the files of the disk
UseSearchReplace ==
    /\ disk[cfg] # StubFiles
    /\ \/ role = "exploiter"
       \/ disk[cfg].rest = "modules"
       \/ style = "blocks"

\* The gate before _run_cleaner_iteration; lastChance: one short of a reset.
CleanerDue ==
    /\ ~Bootstrap /\ st.files.rest = "modules"
    /\ sinceClean >= Cooldown
    /\ ~st.lastChance

MayRepairOnceMore == tries <= FixLimit

MayRepair == tries < FixLimit

Uncounted == tries

\* for attempt in range(max_retries)
Attempted == tries + 1

StreakOfAny(c) == fails

\* A streak ends with a switch of the challenge.
Streak(c) == IF c = failsOn THEN fails ELSE 0

NotNone == token # "none"

\* What 403s every call but registration.
Authenticated == token = "valid"

Work0 == /\ st' = NoAnswer /\ kept' = StubFiles /\ bench' = NoBench
         /\ kind' = "mutation" /\ tries' = 0
         /\ winning' = None /\ tree' = StubFiles

\* The end of an iteration that wrote nothing more.
Continue == pc' = "top" /\ Work0

\* _note_bench_failure, next iteration.
NoteFailure ==
    /\ fails' = fails + 1 /\ UNCHANGED <<failsOn, sinceClean>>
    /\ Continue

\* Restore the best's entry file first, if the server named any: a cold start
\* is answered with the stub, which is written back, or with no code at all.
RestoreAndNote ==
    /\ \/ disk' = EntryWritten(st.files.entry)
       \/ Bootstrap /\ UNCHANGED disk
    /\ NoteFailure

-----------------------------------------------------------------------------
Init ==
    /\ active \in Challenges /\ revoked = FALSE
    /\ token = "none"
    /\ pc = "down"
    /\ style \in {"full", "blocks", "agentic"} /\ role = "explorer"
    /\ cfg = active
    /\ disk = [c \in Challenges |-> StubFiles]
    /\ st = NoAnswer /\ kept = StubFiles /\ bench = NoBench
    /\ kind = "mutation" /\ tries = 0 /\ winning = None /\ tree = StubFiles
    /\ fails = 0 /\ failsOn = None /\ skips = 0 /\ sinceClean = Cooldown
    /\ spent = FALSE /\ benched = FALSE /\ wasted = 0 /\ lockedOut = FALSE

(* The host.                                                               *)

Switch ==
    /\ active' \in Challenges \ {active}
    /\ UNCHANGED <<revoked, token, pc, config, disk, work,
                   counters, history>>

Revoke ==
    /\ ~revoked
    /\ revoked' = TRUE
    /\ token' = IF token = "valid" THEN "cleared" ELSE token
    /\ UNCHANGED <<active, pc, config, disk, work,
                   counters, history>>

\* The username is taken off the list again; its tokens stay cleared.
Invite ==
    /\ revoked
    /\ revoked' = FALSE
    /\ UNCHANGED <<active, token, pc, config, disk, work,
                   counters, history>>

(* Starting up and dying.                                                  *)

\* An API key that is missing or does not work ends the process before it
\* has told the server anything; the command-line providers need none.
Preflight(ok) == ok \/ style # "agentic"

\* agent_exists, then the heartbeat: a cleared token answers 403 to the first
\* and leads to a registration; the second is only reached with it when the
\* first met a network failure, and a failure of its own lets it through.  (No
\* handler deletes an agent's row: the probe of a row that is gone is left out.)
AgentProbes ==
    CASE token = "valid" -> {"top"}
      [] token = "cleared" -> {"register", "refused", "top"}

\* Resume with a stored token, or register.
Launch ==
    /\ pc = "down"
    /\ \/ Preflight(FALSE) /\ pc' = "refused"
       \/ /\ Preflight(TRUE)
          /\ pc' \in IF token = "none" THEN {"register"} ELSE AgentProbes
    /\ UNCHANGED <<host, token, config, disk, work, counters, history>>

\* register_agent of the client: the server's new token is kept.
Register ==
    /\ pc = "register"
    /\ IF revoked
       THEN pc' = "refused" /\ UNCHANGED token
       ELSE pc' = "top" /\ token' = "valid"
    /\ UNCHANGED <<host, config, disk, work, counters, history>>

Die ==
    /\ pc # "down"
    /\ pc' = "down"
    /\ Work0
    /\ fails' = 0 /\ failsOn' = None /\ skips' = 0 /\ sinceClean' = Cooldown
    /\ spent' = FALSE /\ benched' = FALSE /\ wasted' = 0 /\ lockedOut' = FALSE
    /\ UNCHANGED <<host, token, config, disk>>

(* One iteration.                                                          *)

\* wasted: iterations in a row, on this challenge, that had a model work and
\* ended without a score.  lockedOut: the token was cleared when this one began.
HistoryAtTop(c) ==
    /\ wasted' = IF benched \/ c # failsOn THEN 0
                 ELSE IF spent THEN wasted + 1 ELSE wasted
    /\ spent' = FALSE /\ benched' = FALSE
    /\ lockedOut' = (token = "cleared")

\* Sync, which may fail and leave the old cache; reload role; freeze guard.
BeginIteration ==
    /\ pc = "top"
    /\ \E c \in {active, cfg}, r \in {"explorer", "exploiter"} :
        /\ cfg' = c /\ role' = r
        /\ fails' = Streak(c) /\ failsOn' = c
        /\ pc' = IF Streak(c) >= FreezeLimit THEN "frozen" ELSE "state"
        /\ HistoryAtTop(c)
    /\ sinceClean' = IF sinceClean < Cooldown THEN sinceClean + 1
                     ELSE sinceClean
    /\ UNCHANGED <<host, token, style, disk, work, skips>>

\* get_state, after its retries: an error, or an answer that goes to disk
\* unless it is the stub.
GetState ==
    /\ pc = "state"
    /\ \/ Continue /\ UNCHANGED disk
       \/ /\ Authenticated
          /\ \E answer \in Answer :
              /\ answer.files = StubFiles => ~answer.unscored /\ ~answer.lastChance
              /\ IF answer.files = StubFiles
                 THEN /\ UNCHANGED disk
                      /\ IF role = "exploiter" THEN Continue
                         ELSE pc' = "generate" /\ st' = answer
                              /\ UNCHANGED <<kept, bench, kind, tries,
                                             winning, tree>>
                 ELSE /\ disk' = MapWritten(answer.files)
                      /\ pc' = IF answer.unscored THEN "seed" ELSE "clean"
                      /\ st' = answer
                      /\ UNCHANGED <<kept, bench, kind, tries, winning, tree>>
    /\ UNCHANGED <<host, token, config, counters, history>>

\* An adopted seed without a score is measured as it is; if that fails the
\* iteration goes on with it.
SeedBench ==
    /\ pc = "seed"
    /\ \/ pc' = "clean" /\ UNCHANGED <<bench, kind, fails, benched>>
       \/ /\ \E feasible \in BOOLEAN : bench' = Measured(feasible)
          /\ pc' = "publish" /\ kind' = "seed"
          /\ fails' = 0 /\ benched' = TRUE
    /\ UNCHANGED <<host, token, config, disk, st, kept, tries, winning, tree,
                   failsOn, skips, sinceClean, spent, wasted, lockedOut>>

\* The cleaner's gate, its pre-pass and the lean files; or no clean-up.  The
\* answer's two flags have been looked at and are forgotten.
Clean ==
    /\ pc = "clean"
    /\ \/ /\ CleanerDue
          /\ sinceClean' = 0
          /\ kept' = disk[cfg]
          /\ disk' = MapWritten([disk[cfg] EXCEPT !.rest = "none"])
          /\ pc' = "lean"
       \/ /\ pc' = "generate"
          /\ sinceClean' = IF CleanerDue THEN 0 ELSE sinceClean
          /\ UNCHANGED <<kept, disk>>
    /\ st' = [st EXCEPT !.unscored = FALSE, !.lastChance = FALSE]
    /\ UNCHANGED <<host, token, config, bench, kind, tries, winning, tree,
                   fails, failsOn, skips, history>>

\* Rejected files go back; accepted ones are published as a refactor.
LeanBench ==
    /\ pc = "lean"
    /\ \/ /\ disk' = Restored /\ kept' = StubFiles
          /\ pc' = "generate"
          /\ UNCHANGED <<bench, kind>>
       \/ /\ bench' = Measured(TRUE)
          /\ kind' = "refactor" /\ pc' = "publish"
          /\ UNCHANGED <<disk, kept>>
    /\ UNCHANGED <<host, token, config, st, tries, winning, tree, counters,
                   history>>

\* _seed_worktree_files: the tooled agent starts from the answer, in a tree of
\* its own.  (What earlier iterations left there, where the answer holds no
\* code, is not kept track of.)
SeedWorktree ==
    /\ pc = "generate" /\ style = "agentic"
    /\ tree' = st.files
    /\ pc' = "agent"
    /\ UNCHANGED <<host, token, config, disk, st, kept, bench, kind, tries,
                   winning, counters, history>>

\* What the tool leaves in the tree by its end or its timeout.
Iterate == tree' \in Files

AgenticIteration ==
    /\ pc = "agent"
    /\ Iterate
    /\ pc' = "copy" /\ spent' = TRUE
    /\ UNCHANGED <<host, token, config, disk, st, kept, bench, kind, tries,
                   winning, counters, benched, wasted, lockedOut>>

\* No code, or invalid code, is a failure; otherwise the tree's files become
\* those to benchmark.
CopyBack ==
    /\ pc = "copy"
    /\ \/ RestoreAndNote
       \/ /\ tree \in Written
          /\ disk' = MapWritten(tree)
          /\ tree' = StubFiles
          /\ pc' = "bench"
          /\ UNCHANGED <<st, kept, bench, kind, tries, winning, fails, failsOn,
                         sinceClean>>
    /\ UNCHANGED <<host, token, config, skips, history>>

\* The hypothesis call; its failure is not a failed benchmark.
Hypothesis ==
    /\ pc = "generate" /\ style # "agentic"
    /\ \/ Continue /\ UNCHANGED spent
       \/ pc' = "code" /\ spent' = TRUE /\ UNCHANGED work
    /\ UNCHANGED <<host, token, config, disk, counters, benched,
                   wasted, lockedOut>>

\* Blocks rewrite any file of the map, a full answer only the entry.
EditByBlocks ==
    /\ UseSearchReplace
    /\ \E files \in Written : disk' = MapWritten(files)

FullWrite == \E p \in Programs : disk' = EntryWritten(p)

\* _generate_code, and the forced full rewrite after SkipFallback iterations
\* without code.
GenerateCode ==
    /\ pc = "code"
    /\ \/ /\ EditByBlocks \/ (~UseSearchReplace /\ FullWrite)
          /\ skips' = 0
          /\ pc' = "bench"
          /\ UNCHANGED <<work, fails, failsOn, sinceClean>>
       \/ /\ skips + 1 >= SkipFallback
          /\ FullWrite
          /\ skips' = 0
          /\ pc' = "bench"
          /\ UNCHANGED <<work, fails, failsOn, sinceClean>>
       \/ /\ skips' = (skips + 1) % SkipFallback
          /\ NoteFailure
          /\ UNCHANGED disk
    /\ UNCHANGED <<host, token, config, history>>

\* Where a measured program goes: an infeasible one to its repair, if the
\* result names errors.
AfterBench(feasible) == IF feasible THEN {"tune"} ELSE {"runtime", "tune"}

\* The benchmark of the new code.  Infrastructure errors and a repair that
\* gives nothing end the iteration; a compile error asks for a repair.
Benchmark ==
    /\ pc = "bench"
    /\ \/ /\ \E feasible \in BOOLEAN :
              /\ bench' = Measured(feasible)
              /\ pc' \in AfterBench(feasible \/ style = "agentic")
          /\ tries' = 0
          /\ UNCHANGED <<disk, st, kept, kind, winning, tree, fails, failsOn,
                         sinceClean>>
       \/ /\ style # "agentic" /\ MayRepair
          /\ CompileFix
          /\ tries' = Attempted
          /\ UNCHANGED <<pc, st, kept, bench, kind, winning, tree, fails, failsOn,
                         sinceClean>>
       \/ RestoreAndNote
    /\ UNCHANGED <<host, token, config, skips, history>>

\* _fix_runtime_errors: out of attempts the infeasible score goes on; a repair
\* that gives nothing restores the best.
RuntimeFix ==
    /\ pc = "runtime"
    /\ \/ /\ tries = FixLimit
          /\ pc' = "tune"
          /\ UNCHANGED <<disk, work, fails, failsOn, sinceClean>>
       \/ MayRepair /\ RestoreAndNote
       \/ /\ MayRepair
          /\ CompileFix
          /\ tries' = Attempted /\ pc' = "rerun"
          /\ UNCHANGED <<st, kept, bench, kind, winning, tree, fails, failsOn,
                         sinceClean>>
    /\ UNCHANGED <<host, token, config, skips, history>>

\* The benchmark of a runtime repair, with one compile repair of its own.
Rerun ==
    /\ pc \in {"rerun", "rerunFixed"}
    /\ \/ /\ \E feasible \in BOOLEAN :
              /\ bench' = Measured(feasible)
              /\ pc' \in AfterBench(feasible)
          /\ UNCHANGED <<disk, st, kept, kind, tries, winning, tree, fails, failsOn,
                         sinceClean>>
       \/ /\ pc = "rerun" /\ pc' = "rerunFixed"
          /\ CompileFix
          /\ UNCHANGED <<work, fails, failsOn, sinceClean>>
       \/ RestoreAndNote
    /\ UNCHANGED <<host, token, config, skips, history>>

\* The candidate must be feasible; how often the trajectory has improved, and
\* whether the score is in the band below the parent's, is left to chance.
HpoGateOpen == bench.feasible

\* There is a score: the streak is over.  The gate of the search, and the files
\* set aside; the tooled agent's tree is seeded anew with what was measured.
Tune ==
    /\ pc = "tune"
    /\ fails' = 0 /\ benched' = TRUE
    /\ tries' = 0
    /\ \/ pc' = "publish" /\ UNCHANGED <<kept, tree>>
       \/ /\ HpoGateOpen
          /\ kept' = disk[cfg]
          /\ tree' = IF style = "agentic" THEN disk[cfg] ELSE tree
          /\ pc' = "extract"
    /\ UNCHANGED <<host, token, config, disk, st, bench, kind, winning, failsOn,
                   skips, sinceClean, spent, wasted, lockedOut>>

\* Publish the score there was: what every failure of the search leads to.
KeepDefault ==
    /\ kept' = StubFiles
    /\ pc' = "publish"
    /\ UNCHANGED <<bench, winning, tries>>

\* A variant that reads its constants: edits of the files, a miss being fatal,
\* or the agent's tree.  It is validated once it is on disk, and taken back.
Extract ==
    /\ pc = "extract"
    /\ \/ disk' = Restored /\ KeepDefault
       \/ /\ \E variant \in Written : disk' = MapWritten(variant)
          /\ pc' = "tuning"
          /\ UNCHANGED <<kept, bench, winning, tries>>
    /\ tree' = StubFiles
    /\ UNCHANGED <<host, token, config, st, kind, counters, history>>

\* The variant is built and tried, with repairs.
Tuning ==
    /\ pc = "tuning"
    /\ \/ disk' = Restored /\ KeepDefault
       \/ /\ MayRepair
          /\ CompileFix
          /\ tries' = Attempted
          /\ UNCHANGED <<pc, kept, bench, winning>>
       \/ /\ pc' = "search"
          /\ UNCHANGED <<disk, kept, bench, winning, tries>>
    /\ UNCHANGED <<host, token, config, st, kind, tree, counters, history>>

\* The search, and the variant's score under the winners of the tracks.  A
\* feasible one replaces the default's, better or not.
Search ==
    /\ pc = "search"
    /\ \/ disk' = Restored /\ KeepDefault
       \/ /\ \E winners \in Searches \ {<<>>} :
              winning' = winners /\ bench' = MeasuredUnder(winners, TRUE)
          /\ kept' = StubFiles
          /\ pc' = "publish"
          /\ UNCHANGED <<disk, tries>>
    /\ UNCHANGED <<host, token, config, st, kind, tree, counters, history>>

\* publish_results reads the files from disk.  Whether the request arrived is
\* of no consequence to the loop, except that a refactor whose publish raised
\* is undone and the iteration goes on.
Publish ==
    /\ pc = "publish"
    /\ \/ /\ Continue
          /\ fails' = 0 /\ benched' = TRUE
          /\ UNCHANGED disk
       \/ /\ kind = "refactor"
          /\ disk' = Restored /\ kept' = StubFiles
          /\ pc' = "generate" /\ kind' = "mutation" /\ bench' = NoBench
          /\ UNCHANGED <<st, tries, winning, tree, fails, benched>>
    /\ UNCHANGED <<host, token, config, failsOn, skips, sinceClean,
                   spent, wasted, lockedOut>>

Step == \/ Launch \/ Register \/ BeginIteration \/ GetState \/ SeedBench
        \/ Clean \/ LeanBench
        \/ SeedWorktree \/ AgenticIteration \/ CopyBack
        \/ Hypothesis \/ GenerateCode
        \/ Benchmark \/ RuntimeFix \/ Rerun
        \/ Tune \/ Extract \/ Tuning \/ Search \/ Publish

Next == Step \/ Switch \/ Revoke \/ Invite \/ Die

Spec == Init /\ [][Next]_vars

\* The process runs as long as it lives; the host owes nothing.
FairSpec == Spec /\ WF_vars(Step)

-----------------------------------------------------------------------------
(* What the loop promises.                                                 *)

\* What goes to the server is what the score was measured on: the same files,
\* in the same challenge, under the same configurations, through repairs,
\* clean-ups and searches that write and restore them (publish_results reads
\* the disk, not the benchmark).  Configurations go with a feasible score only.
PublishesMeasured ==
    pc = "publish" =>
        /\ Payload.files = bench.files
        /\ Payload.challenge = cfg
        /\ Payload.hyperparameters = bench.configs
        /\ Payload.hyperparameters # None =>
              Payload.feasible /\ Payload.type = "mutation"

\* A model edits, and a seed's baseline is, exactly the code the server named
\* for this iteration, whatever a rejected clean-up, a failed publish or the
\* last iteration left behind; a tooled agent has it in its tree, and extracts
\* hyperparameters there from exactly the code that was measured.  Starting
\* from the stub is another matter.
WorksOnServersBest ==
    /\ \/ pc \in {"seed", "clean", "generate", "agent", "code"} /\ ~Bootstrap
       \/ pc = "publish" /\ kind = "seed"
       => disk[cfg] = st.files
    /\ pc = "agent" /\ ~Bootstrap => tree = st.files
    /\ pc = "extract" =>
          /\ disk[cfg] = bench.files /\ kept = bench.files
          /\ style = "agentic" => tree = bench.files

\* The freeze guard counts exactly: an iteration goes ahead only when fewer
\* than the limit in a row had a model work on this challenge for no score, and
\* the agent freezes only when there were that many.  (A hypothesis that comes
\* back empty is, for the code, no failed benchmark: the tokens it took are
\* outside the count, and outside `wasted'.)
FreezeIsExact ==
    /\ pc = "frozen" => wasted = FreezeLimit
    /\ pc = "state" => wasted < FreezeLimit /\ fails = wasted

\* An iteration that began after the contributor's token was cleared never has
\* a model work or a benchmark run, a seed's and a clean-up's included, however
\* it came to be running.
LockedOutSpendsNothing == lockedOut => pc \notin Spending

\* Every iteration comes to an end: no chain of repairs, fallbacks and
\* searches goes on for ever.  Each call is taken to return: the model calls
\* have time-outs, the builds under docker and cargo do not.
IterationsEnd ==
    pc \in Spending \cup {"state", "publish"}
    ~> pc \in {"top", "down"}
=============================================================================
