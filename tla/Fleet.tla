------------------------------- MODULE Fleet -------------------------------
(***************************************************************************)
(* A fleet of contributor loops and who supervises it.                     *)
(*                                                                         *)
(* run_fleet.cmd_run prepares a git worktree per agent, spawns one loop    *)
(* process in each, watches them, carries configuration edits into the     *)
(* worktrees and lessons out of them, and ends when they do or when it is  *)
(* told to.  It runs as a thread of the local companion (control_server's  *)
(* FleetController) or as a process of the hosted runner (runner/), whose  *)
(* handlers hold its event loop until they are done.  A loop that has lost *)
(* its supervisor is an orphan: heard while some process reads its output, *)
(* deaf when none does, and then it dies of its next line.                 *)
(*                                                                         *)
(* The orphans of one worktree are not counted.  Keys, the server plan's   *)
(* cache, the C3 cap and the log stream are left out.                      *)
(***************************************************************************)
EXTENDS FiniteSets

CONSTANT Agents

ASSUME FleetAssumption == IsFiniteSet(Agents) /\ Agents # {}

VARIABLES
    host,     \* who supervises: "companion" or "hosted"
    up,       \* is the companion, or the runner's container, alive?
    run,      \* where cmd_run is
    todo,     \* agents it has still to spawn
    stop,     \* stop_event, or a signal its handlers will see
    loop,     \* this run's process of each agent; a role is what it has read
    orphan,   \* a loop of an earlier run, "fresh" if it is still starting
    notes,    \* lessons of the worktree's file that its source lacks
    source,   \* does the shared notes file exist?
    plan,     \* the role fleet.config.json asks for
    file,     \* the role in agent.config.json of each worktree
    ui,       \* FleetController.state
    row,      \* enrollments.status in the hosted runner
    handler   \* what the hosted runner's event loop is busy with

settings == <<plan, file>>
lessons == <<notes, source>>
desk == <<ui, row, handler>>
fleetVars ==
    <<host, up, run, todo, stop, loop, orphan, lessons, settings, desk>>

Roles == {"explorer", "exploiter"}

FleetTypeOK ==
    /\ host \in {"companion", "hosted"} /\ up \in BOOLEAN
    /\ run \in {"none", "prepare", "spawn", "monitor", "terminate", "report",
                "winding"}
    /\ todo \subseteq Agents /\ stop \in BOOLEAN
    /\ loop \in [Agents -> {"none", "born", "running"} \cup Roles]
    /\ orphan \in [Agents -> {"none", "fresh", "heard", "deaf"}]
    /\ notes \in [Agents -> {"same", "new", "left"}] /\ source \in BOOLEAN
    /\ plan \in Roles /\ file \in [Agents -> Roles]
    /\ ui \in {"idle", "starting", "running", "stopping", "stopped", "error"}
    /\ row \in {"none", "stopped", "running", "error"}
    /\ handler \in {"idle", "enroll", "purge"}

Mine == {a \in Agents : loop[a] # "none"}
NoLoops == [a \in Agents |-> "none"]

-----------------------------------------------------------------------------
(* What the steps do to processes and files.                               *)

InheritedAsIs == [a \in Agents |-> IF loop[a] = "none" THEN orphan[a] ELSE loop[a]]

\* This run's loops go on, and their output is still read.
LeftRunning ==
    [a \in Agents |->
        CASE loop[a] = "running" /\ orphan[a] # "fresh" -> "heard"
          [] loop[a] \notin {"none", "running"} -> "fresh"
          [] OTHER -> orphan[a]]

StillRead == [a \in Agents |-> IF loop[a] = "none" THEN orphan[a] ELSE "heard"]

\* This run's loops go on, and it is not; nor is that of older orphans.
CutOff == [a \in Agents |->
              IF loop[a] = "none" /\ orphan[a] = "none" THEN "none" ELSE "deaf"]

\* Lessons nobody will carry back.
LeftBehind == [a \in Agents |-> IF notes[a] = "new" THEN "left" ELSE notes[a]]

\* _sync_tacit_back: a source that does not exist receives nothing.
SyncedBack == IF source THEN [a \in Agents |-> "same"] ELSE LeftBehind

\* _seed_worktree copies the source over the worktree's notes.
Seeded(a) == IF source THEN [notes EXCEPT ![a] = "same"] ELSE notes

\* The run is over and its loops, if any, are left to themselves.
Abandon(orphans) ==
    /\ run' = "none" /\ stop' = FALSE /\ todo' = {}
    /\ loop' = NoLoops /\ orphan' = orphans
    /\ notes' = LeftBehind

NotTerminated == loop

\* _terminate_all's guarantee: TERM, ten seconds, KILL, the whole tree.
Terminated == NoLoops

-----------------------------------------------------------------------------
FleetInit ==
    /\ host \in {"companion", "hosted"} /\ up = TRUE
    /\ run = "none" /\ todo = {} /\ stop = FALSE
    /\ loop = NoLoops
    /\ orphan = NoLoops
    /\ notes = [a \in Agents |-> "same"] /\ source \in BOOLEAN
    /\ plan = "explorer" /\ file = [a \in Agents |-> "explorer"]
    /\ ui = "idle" /\ row = "none" /\ handler = "idle"

Launched == run' = "prepare" /\ todo' = Agents /\ stop' = FALSE

(* cmd_run.                                                                *)

\* Keys, the swarm cache and the C3 cap.
Prepare ==
    /\ run = "prepare"
    /\ run' = "spawn"
    /\ UNCHANGED <<host, up, todo, stop, loop, orphan, lessons, settings, desk>>

\* _ensure_worktree, _seed_worktree, Popen; in the order of the plan, which
\* is any here, with the role the plan had when the launch read it.
SpawnAgent(a) ==
    /\ run = "spawn" /\ a \in todo
    /\ todo' = todo \ {a}
    /\ loop' = [loop EXCEPT ![a] = "born"]
    /\ \E r \in Roles : file' = [file EXCEPT ![a] = r]
    /\ notes' = Seeded(a)
    /\ UNCHANGED <<host, up, run, stop, orphan, source, plan, desk>>

\* A key, the sync, git, a named notes file or the final write fails.  The
\* companion's thread reports it and its readers go on; the hosted process
\* exits.
Fail ==
    /\ (run \in {"prepare", "report"} \/ (run = "spawn" /\ todo # {}))
    /\ IF host = "companion" THEN Abandon(LeftRunning) /\ ui' = "error"
       ELSE Abandon(CutOff) /\ UNCHANGED ui
    /\ UNCHANGED <<host, up, source, settings, row, handler>>

AnnounceAnew ==
    /\ run = "spawn" /\ todo = {}
    /\ run' = "monitor" /\ stop' = FALSE
    /\ ui' = IF host = "companion" THEN "running" ELSE ui
    /\ UNCHANGED <<host, up, todo, loop, orphan, lessons, settings, row,
                   handler>>

\* All are spawned; from here on stop requests and signals are seen.
Announce ==
    /\ run = "spawn" /\ todo = {}
    /\ run' = "monitor"
    /\ ui' = IF host = "companion" THEN "running" ELSE ui
    /\ UNCHANGED <<host, up, todo, stop, loop, orphan, lessons, settings, row,
                   handler>>

\* The head of the monitor loop.
Monitor ==
    /\ run = "monitor"
    /\ \/ Mine = {} /\ run' = "report"
       \/ Mine # {} /\ stop /\ run' = "terminate"
    /\ UNCHANGED <<host, up, todo, stop, loop, orphan, lessons, settings, desk>>

Terminate ==
    /\ run = "terminate"
    /\ run' = "report"
    /\ loop' = Terminated
    /\ UNCHANGED <<host, up, todo, stop, orphan, lessons, settings, desk>>

\* `exited' per agent, the lessons, `stopped'.
ReportStopped ==
    /\ run = "report"
    /\ run' = "winding"
    /\ notes' = SyncedBack
    /\ ui' = IF host = "companion" THEN "stopped" ELSE ui
    /\ UNCHANGED <<host, up, todo, stop, loop, orphan, source, settings, row,
                   handler>>

\* The thread or process ends after its last event.
WindUp ==
    /\ run = "winding"
    /\ run' = "none" /\ stop' = FALSE
    /\ UNCHANGED <<host, up, todo, loop, orphan, lessons, settings, desk>>

StaleUnregistered(a) == file[a] # plan /\ loop[a] # "running"

\* desired is not None and current.get(key) != desired
Stale(a) == file[a] # plan

\* _sync_hot_reload_to_worktrees, for one agent.
SyncTick(a) ==
    /\ run = "monitor" /\ Stale(a)
    /\ file' = [file EXCEPT ![a] = plan]
    /\ UNCHANGED <<host, up, run, todo, stop, loop, orphan, lessons, plan,
                   desk>>

(* The loops.                                                              *)

\* main() reads agent.config.json and, registered, writes all of it back.
LoopReads(a) ==
    /\ loop[a] = "born"
    /\ loop' = [loop EXCEPT ![a] = file[a]]
    /\ UNCHANGED <<host, up, run, todo, stop, orphan, lessons, settings, desk>>

LoopWrites(a) ==
    /\ loop[a] \in Roles
    /\ loop' = [loop EXCEPT ![a] = "running"]
    /\ file' = [file EXCEPT ![a] = loop[a]]
    /\ UNCHANGED <<host, up, run, todo, stop, orphan, lessons, plan, desk>>

LoopLearns(a) ==
    /\ loop[a] = "running"
    /\ notes' = [notes EXCEPT ![a] = "new"]
    /\ UNCHANGED <<host, up, run, todo, stop, loop, orphan, source, settings,
                   desk>>

LoopExits(a) ==
    /\ loop[a] # "none"
    /\ loop' = [loop EXCEPT ![a] = "none"]
    /\ UNCHANGED <<host, up, run, todo, stop, orphan, lessons, settings, desk>>

\* A heard orphan ends its start, with whatever it read, and any may learn;
\* a deaf one prints, and dies, before it would write its configuration.
OrphanWorks(a) ==
    /\ \/ /\ orphan[a] = "fresh"
          /\ orphan' = [orphan EXCEPT ![a] = "heard"]
          /\ \E r \in Roles : file' = [file EXCEPT ![a] = r]
          /\ UNCHANGED notes
       \/ /\ orphan[a] # "none" /\ notes[a] = "same"
          /\ notes' = [notes EXCEPT ![a] = "left"]
          /\ UNCHANGED <<orphan, file>>
    /\ UNCHANGED <<host, up, run, todo, stop, loop, source, plan, desk>>

OrphanEnds(a) ==
    /\ orphan[a] # "none"
    /\ orphan' = [orphan EXCEPT ![a] = "none"]
    /\ UNCHANGED <<host, up, run, todo, stop, loop, lessons, settings, desk>>

(* The contributor.                                                        *)

EditPlan ==
    /\ plan' \in Roles \ {plan}
    /\ UNCHANGED <<host, up, run, todo, stop, loop, orphan, lessons, file,
                   desk>>

WriteSource ==
    /\ ~source
    /\ source' = TRUE
    /\ UNCHANGED <<host, up, run, todo, stop, loop, orphan, notes, settings,
                   desk>>

(* The companion.                                                          *)

\* is_running: terminal states win over thread liveness.
IsRunning == ui \notin {"stopped", "error"} /\ run # "none"

\* start() goes by the thread alone.
StartPressed ==
    /\ host = "companion" /\ up /\ run = "none"
    /\ Launched
    /\ ui' = "starting"
    /\ UNCHANGED <<host, up, loop, orphan, lessons, settings, row, handler>>

StopPressed ==
    /\ host = "companion" /\ up /\ IsRunning
    /\ stop' = TRUE /\ ui' = "stopping"
    /\ UNCHANGED <<host, up, run, todo, loop, orphan, lessons, settings, row,
                   handler>>

\* Ctrl-C or worse: the daemon threads go, the loops have sessions of their
\* own and stay.  A new companion knows nothing of them.
CompanionDies ==
    /\ host = "companion" /\ up
    /\ up' = FALSE /\ ui' = "idle"
    /\ Abandon(CutOff)
    /\ UNCHANGED <<host, source, settings, row, handler>>

CompanionStarts ==
    /\ host = "companion" /\ ~up
    /\ up' = TRUE
    /\ UNCHANGED <<host, run, todo, stop, loop, orphan, lessons, settings, desk>>

(* The hosted runner, for one contributor: each has a clone of its own.    *)

Idle == host = "hosted" /\ up /\ handler = "idle"

\* SIGTERM: until every agent is spawned nothing handles it.
Signalled ==
    IF run \in {"prepare", "spawn"} THEN Abandon(CutOff)
    ELSE /\ stop' = (run # "none")
         /\ UNCHANGED <<run, todo, loop, orphan, notes>>

\* enroll: keys and plan are stored, a running fleet is stopped first.
Enroll ==
    /\ Idle
    /\ handler' = "enroll"
    /\ row' = IF row = "none" THEN "stopped" ELSE row
    /\ Signalled
    /\ UNCHANGED <<host, up, source, settings, ui>>

\* unenroll, and the host's admin_revoke.
Purge ==
    /\ Idle
    /\ handler' = "purge"
    /\ Signalled
    /\ UNCHANGED <<host, up, source, settings, ui, row>>

\* ProcessLauncher.stop: fifteen seconds, then SIGKILL to run.py alone.
KillFleet ==
    /\ handler # "idle" /\ run # "none"
    /\ Abandon(CutOff)
    /\ UNCHANGED <<host, up, source, settings, desk>>

\* Launched, or not; the row is written after, and either way that can fail,
\* which is answered as a failure and tries to note `error'.
EnrollLaunches ==
    /\ handler = "enroll" /\ run = "none"
    /\ handler' = "idle"
    /\ \/ Launched /\ row' \in {"running", "error", row}
       \/ row' \in {"error", row} /\ UNCHANGED <<run, todo, stop>>
    /\ UNCHANGED <<host, up, loop, orphan, lessons, settings, ui>>

\* The row is deleted last, or that fails.
PurgeEnds ==
    /\ handler = "purge" /\ run = "none"
    /\ handler' = "idle" /\ row' \in {"none", row}
    /\ UNCHANGED <<host, up, run, todo, stop, loop, orphan, lessons, settings,
                   ui>>

\* A redeploy or a crash takes every process of the container.
ContainerDies ==
    /\ host = "hosted" /\ up
    /\ up' = FALSE /\ handler' = "idle"
    /\ Abandon(NoLoops)
    /\ UNCHANGED <<host, source, settings, ui, row>>

ResumableUnlessError == row # "error"

Resumable == row = "running"

\* _resume_running_fleets; a row whose keys cannot be read is passed over.
RunnerStarts ==
    /\ host = "hosted" /\ ~up
    /\ up' = TRUE
    /\ \/ Resumable /\ Launched /\ UNCHANGED row
       \/ Resumable /\ row' = "error"
          /\ UNCHANGED <<run, todo, stop>>
       \/ UNCHANGED <<row, run, todo, stop>>
    /\ UNCHANGED <<host, loop, orphan, lessons, settings, ui, handler>>

RunStep ==
    \/ Prepare \/ Fail \/ Announce \/ Monitor \/ Terminate
    \/ ReportStopped \/ WindUp
    \/ \E a \in Agents : SpawnAgent(a)

LoopStarts(a) == LoopReads(a) \/ LoopWrites(a)

HandlerStep == KillFleet \/ EnrollLaunches \/ PurgeEnds

FleetNext ==
    \/ RunStep \/ HandlerStep
    \/ \E a \in Agents :
        \/ SyncTick(a) \/ LoopStarts(a) \/ LoopLearns(a) \/ LoopExits(a)
        \/ OrphanWorks(a) \/ OrphanEnds(a)
    \/ EditPlan \/ WriteSource
    \/ StartPressed \/ StopPressed \/ CompanionDies \/ CompanionStarts
    \/ Enroll \/ Purge \/ ContainerDies \/ RunnerStarts

FleetSpec == FleetInit /\ [][FleetNext]_fleetVars

\* Threads and handlers run on, starting loops come up, a deaf loop prints its
\* next line; a heard one may work for ever, people owe nothing.
FleetFairSpec ==
    /\ FleetSpec
    /\ WF_fleetVars(RunStep) /\ WF_fleetVars(HandlerStep)
    /\ \A a \in Agents :
        /\ WF_fleetVars(SyncTick(a)) /\ WF_fleetVars(LoopStarts(a))
        /\ WF_fleetVars(orphan[a] = "deaf" /\ OrphanEnds(a))

-----------------------------------------------------------------------------
(* Correctness.                                                            *)

\* The hosted runner runs a fleet only for a contributor it has enrolled: no
\* failure, restart or removal leaves one behind that has no row, and so no keys
\* to remove.  (The row need not say `running': if that cannot be written the
\* fleet just started goes on under `error'.)
FleetIsEnrolled ==
    host = "hosted" /\ handler = "idle" /\ run # "none" => row # "none"

\* A lesson that a run ended in order could carry back is never overwritten by
\* a later launch, which copies the shared notes over the worktree's.
LessonsKept ==
    [][\A a \in Agents :
          notes[a] = "new" /\ notes'[a] = "same" => run = "report"]_fleetVars

\* A stop, however early in the launch it is pressed, terminates every loop of
\* the run before the page says `stopped'; unless the launch fails, which the
\* page says and which leaves the loops spawned so far running, or the companion
\* dies.  A hosted fleet that is signalled ends, if need be by force.
StopWins ==
    /\ host = "companion" /\ stop ~>
          \/ ui = "stopped" /\ Mine = {}
          \/ ui = "error" \/ ~up
    /\ host = "hosted" /\ stop ~> run = "none"

\* An edit of the plan reaches every worktree of a fleet that goes on running,
\* whatever a loop that was starting meanwhile wrote back.
HotReloadArrives ==
    \A a \in Agents, r \in Roles :
        <>[](run = "monitor" /\ loop[a] # "none" /\ plan = r)
            => <>[](file[a] = r)

\* After a contributor has left, or was revoked, no loop of theirs goes on for
\* ever on the runner, launch interrupted or not.
GoneMeansQuiet ==
    host = "hosted" /\ row = "none" ~>
        \/ row # "none"
        \/ Mine = {} /\ \A a \in Agents : orphan[a] = "none"

=============================================================================
