------------------------------ MODULE Companion ------------------------------
(***************************************************************************)
(* The companion (control_server.py) as one process: the event hub between *)
(* its worker threads and a browser's stream, the deployment of a swarm in *)
(* a thread, and its four controllers of a command line tool: the          *)
(* installers of railway, docker and c3, and the railway login.  These     *)
(* share no state with the stream or each other, so a behaviour follows    *)
(* either the stream or one of the tools.                                  *)
(*                                                                         *)
(* Endpoints that start something run on the event loop, one at a time;    *)
(* threads interleave with them and with each other between any two steps. *)
(* The fleet is in Fleet, and is here only the threads it emits from; the  *)
(* steps of a creation are in SwarmCreation.                               *)
(***************************************************************************)
EXTENDS Naturals, Sequences, SequencesExt, FiniteSets

CONSTANTS
    Tools,        \* controllers; "none" stands for the stream
    Readers,      \* a fleet's _stream_output threads, one an agent
    Ring,         \* events the hub keeps (history = 3000)
    QueueSize,    \* events a slow client may be behind (maxsize = 1000)
    MaxEvents,    \* bound on the events of a fleet and of creations
    MaxCreates,   \* bound on deployments
    MaxStarts,    \* bound on the starts of the tool's controller
    MaxRestarts   \* bound on restarts of the companion

ASSUME CompanionAssumption ==
    /\ Tools \subseteq {"none", "railway", "docker", "c3", "login"}
    /\ "none" \notin Readers /\ "run" \notin Readers /\ "deploy" \notin Readers
    /\ Ring \in Nat \ {0} /\ QueueSize \in Nat \ {0}
    /\ {MaxEvents, MaxCreates, MaxStarts, MaxRestarts} \subseteq Nat

\* The threads that emit: a fleet's readers, cmd_run's, which also tells its
\* status, and a deployment's.
Sources == {"run", "deploy"} \cup Readers

None == [from |-> "none", n |-> 0]

VARIABLES
    \* the hub
    history,      \* the ring
    emitting,     \* per source, an event in the ring and not yet scheduled
    emitted,      \* per source, how many it has emitted
    scheduled,    \* deliveries queued on the event loop
    \* one browser
    stream,       \* "off", "replaying" or "live"
    replay,       \* what is left of the snapshot
    queue,        \* its queue at the hub
    owed,         \* events it has yet to see: of the snapshot, or later
    slow,         \* has one been dropped because its queue was full?
    last,         \* per source, the last event sent
    \* the deployment
    deploy, worker, creates,
    \* the tool
    tool, supported,
    state,        \* what its controller reports
    proc,         \* the attempt whose process the controller holds, or 0
    token,        \* attempts started
    attempts,
    onDisk, onPath,
    restarts

hubVars == <<history, emitting, emitted, scheduled>>
streamVars == <<stream, replay, queue, owed, slow, last>>
deployVars == <<deploy, worker, creates>>
toolVars == <<tool, supported, state, proc, token, attempts, onDisk, onPath>>
vars == <<hubVars, streamVars, deployVars, toolVars, restarts>>

Tries == 1 .. MaxStarts

Attempt ==
    [stage : {"none", "spawning", "reading", "checked", "over", "lost"},
     work : {"none", "going", "hung"},   \* what it runs, children included
     killed : BOOLEAN,
     zero : BOOLEAN]        \* the exit code

NoAttempt ==
    [stage |-> "none", work |-> "none", killed |-> FALSE, zero |-> FALSE]

Init ==
    /\ history = <<>> /\ scheduled = <<>>
    /\ emitting = [s \in Sources |-> None]
    /\ emitted = [s \in Sources |-> 0]
    /\ stream = "off" /\ replay = <<>> /\ queue = <<>>
    /\ owed = {} /\ slow = FALSE
    /\ last = [s \in Sources |-> 0]
    /\ deploy = "idle" /\ worker = "none" /\ creates = 0
    /\ tool \in Tools /\ supported \in BOOLEAN
    /\ tool # "docker" => supported
    /\ state = "idle" /\ proc = 0 /\ token = 0
    /\ attempts = [i \in Tries |-> NoAttempt]
    /\ onDisk = FALSE /\ onPath = FALSE
    /\ restarts = 0

-----------------------------------------------------------------------------
(* EventHub.                                                               *)

Newest(events, k) == IF Len(events) <= k THEN events ELSE Tail(events)

\* EventHub.emit, in the caller's thread: into the ring ...
Emits(s) ==
    LET e == [from |-> s, n |-> emitted[s] + 1]
    IN  /\ emitting[s] = None
        /\ emitted' = [emitted EXCEPT ![s] = @ + 1]
        /\ emitting' = [emitting EXCEPT ![s] = e]
        /\ history' = Newest(Append(history, e), Ring)
        /\ owed' = IF stream = "off" THEN owed ELSE owed \cup {e}
        /\ UNCHANGED <<scheduled, stream, replay, queue, slow, last>>

\* ... and then onto the event loop.
Schedule(s) ==
    /\ emitting[s] # None
    /\ scheduled' = Append(scheduled, emitting[s])
    /\ emitting' = [emitting EXCEPT ![s] = None]
    /\ UNCHANGED <<history, emitted, streamVars, deployVars, toolVars, restarts>>

\* Bounds what is said, a creation's last event excepted.
MoreToSay == FoldFunction(+, 0, emitted) < MaxEvents

FleetEvent ==
    /\ tool = "none" /\ MoreToSay
    /\ \E s \in Sources \ {"deploy"} : Emits(s)
    /\ UNCHANGED <<deployVars, toolVars, restarts>>

SubscribedLive == stream = "live"

\* stream() subscribes before it takes the snapshot.
Subscribed == stream \in {"replaying", "live"}

\* EventHub._deliver
Deliver ==
    /\ scheduled # <<>>
    /\ scheduled' = Tail(scheduled)
    /\ CASE ~Subscribed -> UNCHANGED <<queue, owed, slow>>
         [] Subscribed /\ Len(queue) < QueueSize ->
                queue' = Append(queue, Head(scheduled)) /\ UNCHANGED <<owed, slow>>
         [] OTHER ->
                owed' = owed \ {Head(scheduled)} /\ slow' = TRUE /\ UNCHANGED queue
    /\ UNCHANGED <<history, emitting, emitted, stream, replay, last,
                   deployVars, toolVars, restarts>>

Connect ==
    /\ tool = "none" /\ stream = "off"
    /\ stream' = "replaying"
    /\ replay' = history /\ queue' = <<>>
    /\ owed' = ToSet(history)
    /\ UNCHANGED <<slow, last, hubVars, deployVars, toolVars, restarts>>

Sent(e) ==
    /\ owed' = owed \ {e}
    /\ last' = [last EXCEPT ![e.from] = e.n]

SendReplay ==
    /\ stream = "replaying"
    /\ IF replay = <<>>
       THEN stream' = "live" /\ UNCHANGED <<replay, owed, last>>
       ELSE Sent(Head(replay)) /\ replay' = Tail(replay) /\ UNCHANGED stream
    /\ UNCHANGED <<queue, slow, hubVars, deployVars, toolVars, restarts>>

SendLive ==
    /\ stream = "live" /\ queue # <<>>
    /\ Sent(Head(queue)) /\ queue' = Tail(queue)
    /\ UNCHANGED <<stream, replay, slow, hubVars, deployVars, toolVars,
                   restarts>>

HungUp ==
    /\ stream' = "off" /\ replay' = <<>> /\ queue' = <<>>
    /\ owed' = {} /\ slow' = FALSE
    /\ last' = [s \in Sources |-> 0]

Disconnect ==
    /\ stream # "off" /\ HungUp
    /\ UNCHANGED <<hubVars, deployVars, toolVars, restarts>>

-----------------------------------------------------------------------------
(* The deployment.                                                         *)

\* A request to create a swarm, by what its checks tell apart.
Requests ==
    [listed : BOOLEAN, signedIn : BOOLEAN, workspaces : 0 .. 2,
     workspace : {"none", "known", "unknown"}, counts : {-1, 0, 2},
     timeout : {0, 30}]

\* swarm_create's refusals, before anything starts.
Accepted(r) ==
    /\ r.listed /\ r.signedIn
    /\ r.workspace = "none" => r.workspaces <= 1
    /\ r.workspace = "unknown" => r.workspaces = 0
    /\ r.counts >= 0 /\ r.timeout >= 1

Create(r) ==
    /\ Accepted(r)
    /\ tool = "none" /\ worker = "none" /\ creates < MaxCreates
    /\ deploy' = "running" /\ worker' = "creating" /\ creates' = creates + 1
    /\ UNCHANGED <<hubVars, streamVars, toolVars, restarts>>

Progress ==
    /\ worker = "creating" /\ MoreToSay
    /\ Emits("deploy")
    /\ UNCHANGED <<deployVars, toolVars, restarts>>

Ends == {"returns", "raises", "exits"}

CaughtExceptions(end) == end = "raises"

\* except (Exception, SystemExit)
Caught(end) == end \in {"raises", "exits"}

CreateEnds(end) ==
    /\ worker = "creating" /\ emitting["deploy"] = None
    /\ CASE end = "returns" -> deploy' = "done" /\ worker' = "reporting"
         [] Caught(end) -> deploy' = "error" /\ worker' = "reporting"
         [] OTHER -> UNCHANGED deploy /\ worker' = "none"
    /\ UNCHANGED <<creates, hubVars, streamVars, toolVars, restarts>>

\* The state is set before the event, and the thread outlives both.
Report ==
    /\ worker = "reporting"
    /\ Emits("deploy")
    /\ worker' = "closing"
    /\ UNCHANGED <<deploy, creates, toolVars, restarts>>

\* The creation's railway runs without a time-out, and may never return.
CreateHangs ==
    /\ worker = "creating" /\ worker' = "hung"
    /\ UNCHANGED <<deploy, creates, hubVars, streamVars, toolVars, restarts>>

WorkerEnds ==
    /\ worker = "closing" /\ emitting["deploy"] = None
    /\ worker' = "none"
    /\ UNCHANGED <<deploy, creates, hubVars, streamVars, toolVars, restarts>>

-----------------------------------------------------------------------------
(* A tool's controller.                                                    *)

\* Is this attempt the one whose watcher may report?  c3 goes by a token that
\* start() hands out, the others by the process they hold.
Current(i) == IF tool = "c3" THEN i = token ELSE i = proc

\* start() kills what still runs.  Of an installer only the shell dies: the
\* pipeline it started goes on, and its watcher reads to its end.
Superseded(as) ==
    IF proc = 0 \/ as[proc].work = "none" \/ as[proc].killed THEN as
    ELSE [as EXCEPT ![proc].killed = TRUE,
                    ![proc].work = IF tool = "login" THEN "none" ELSE @]

Others == UNCHANGED <<tool, supported, onDisk, onPath, hubVars, streamVars,
                      deployVars, restarts>>

Supported == tool = "docker" => supported

\* start() up to the spawn: kill, and pending.  c3's ends here, and a thread
\* goes on; the others hold the event loop until they have spawned, and the
\* watcher of the killed run takes no lock, and still finds itself current.
Start ==
    /\ tool # "none" /\ Supported /\ token < MaxStarts
    /\ tool # "c3" => \A i \in Tries : attempts[i].stage # "spawning"
    /\ token' = token + 1 /\ state' = "pending"
    /\ attempts' = [Superseded(attempts) EXCEPT
                       ![token'] = [NoAttempt EXCEPT !.stage = "spawning"]]
    /\ UNCHANGED proc /\ Others

\* docker_install_support refuses where root is out of reach.
Refuse ==
    /\ ~Supported /\ state' = "error"
    /\ UNCHANGED <<proc, token, attempts>> /\ Others

ThreadStep == UNCHANGED <<tool, supported, token, hubVars, streamVars,
                          deployVars, restarts>>

\* The new process runs, and takes the place of the old.
Spawn(i) ==
    /\ attempts[i].stage = "spawning"
    /\ attempts' = [attempts EXCEPT ![i].stage = "reading", ![i].work = "going"]
    /\ proc' = i
    /\ UNCHANGED <<state, onDisk, onPath>> /\ ThreadStep

\* It cannot be run: the old process stays where it was.
SpawnFails(i) ==
    /\ tool # "c3" /\ attempts[i].stage = "spawning"
    /\ attempts' = [attempts EXCEPT ![i].stage = "over"]
    /\ state' = "error"
    /\ UNCHANGED <<proc, onDisk, onPath>> /\ ThreadStep

\* What ran is over: an exit code, and perhaps the tool in its directory.
WorkEnds(i) ==
    /\ attempts[i].work = "going"
    /\ \E zero \in BOOLEAN :
          /\ zero => ~attempts[i].killed /\ attempts[i].stage = "reading"
          /\ attempts' = [attempts EXCEPT ![i].work = "none", ![i].zero = zero]
    /\ \E installed \in BOOLEAN : onDisk' = (onDisk \/ installed)
    /\ onPath' = (onPath \/ (tool = "docker" /\ onDisk'))
    /\ UNCHANGED <<state, proc>> /\ ThreadStep

\* Nothing limits what runs: a download that stalls, or a login nobody ends.
WorkHangs(i) ==
    /\ attempts[i].work = "going"
    /\ attempts' = [attempts EXCEPT ![i].work = "hung"]
    /\ UNCHANGED <<state, proc, onDisk, onPath>> /\ ThreadStep

Checks(i) == IF Current(i) THEN "checked" ELSE "over"

\* The watcher has read to the end, and looks whether it still may report.
Wait(i) ==
    /\ attempts[i].stage = "reading" /\ attempts[i].work = "none"
    /\ attempts' = [attempts EXCEPT ![i].stage = Checks(i)]
    /\ UNCHANGED <<state, proc, onDisk, onPath>> /\ ThreadStep

\* Where an exception leaves an attempt.  c3's thread catches whatever is
\* raised, a spawn that fails included; the others just end.
Raised(i) == IF tool = "c3" THEN Checks(i) ELSE "lost"

Raise(i) ==
    /\ attempts[i].stage \in {"spawning", "reading", "checked"}
    /\ attempts' = [attempts EXCEPT ![i].stage = Raised(i), ![i].zero = FALSE]
    /\ UNCHANGED <<state, proc, onDisk, onPath>> /\ ThreadStep

\* _ensure_on_path: found, or found in a directory that joins the PATH.
EnsureOnPath == onPath' = (onPath \/ onDisk)

\* The report itself comes a moment after the check: a start in between is
\* overwritten.
Reports(i, good) ==
    /\ attempts[i].stage = "checked"
    /\ state' = IF attempts[i].zero /\ good THEN "done" ELSE "error"
    /\ attempts' = [attempts EXCEPT ![i].stage = "over"]
    /\ UNCHANGED <<proc, onDisk>> /\ ThreadStep

LoginReports(i) == tool = "login" /\ Reports(i, TRUE) /\ UNCHANGED onPath

RailwayReports(i) ==
    /\ tool = "railway"
    /\ IF attempts[i].zero THEN EnsureOnPath ELSE UNCHANGED onPath
    /\ Reports(i, onPath')

DockerReports(i) == tool = "docker" /\ Reports(i, onPath) /\ UNCHANGED onPath

\* A c3 that is found may still not answer --version.
C3Reports(i) ==
    /\ tool = "c3"
    /\ IF attempts[i].zero THEN EnsureOnPath ELSE UNCHANGED onPath
    /\ \E answers \in BOOLEAN : Reports(i, onPath' /\ answers)

\* GET /local-api/railway/status, or a preflight, looks for the tool.
Recheck ==
    /\ tool \in {"railway", "c3"} /\ EnsureOnPath
    /\ UNCHANGED <<state, proc, attempts, onDisk>> /\ ThreadStep

-----------------------------------------------------------------------------

\* Ctrl-C: the threads are daemons and die, what they ran need not, and only
\* the file system remembers.
Restart ==
    /\ restarts < MaxRestarts /\ restarts' = restarts + 1
    /\ HungUp
    /\ history' = <<>> /\ scheduled' = <<>>
    /\ emitting' = [s \in Sources |-> None]
    /\ emitted' = [s \in Sources |-> 0]
    /\ deploy' = "idle" /\ worker' = "none"
    /\ state' = "idle" /\ proc' = 0
    /\ attempts' = [i \in Tries |-> [attempts[i] EXCEPT !.stage = "over"]]
    /\ onPath' = (onPath /\ tool = "docker")
    /\ UNCHANGED <<creates, tool, supported, token, onDisk>>

ToolStep(i) ==
    \/ Spawn(i) \/ SpawnFails(i) \/ WorkEnds(i) \/ Wait(i)
    \/ LoginReports(i) \/ RailwayReports(i) \/ DockerReports(i) \/ C3Reports(i)

DeployStep ==
    \/ \E end \in Ends : CreateEnds(end)
    \/ Report \/ WorkerEnds

StreamStep == SendReplay \/ SendLive

Next ==
    \/ FleetEvent \/ Progress
    \/ \E s \in Sources : Schedule(s)
    \/ Deliver
    \/ Connect \/ StreamStep \/ Disconnect
    \/ \E r \in Requests : Create(r)
    \/ DeployStep \/ CreateHangs
    \/ Start \/ Refuse
    \/ \E i \in Tries : ToolStep(i) \/ WorkHangs(i) \/ Raise(i)
    \/ Recheck \/ Restart

Spec == Init /\ [][Next]_vars

\* Threads are scheduled.  That a creation, or what a tool runs, ends is
\* assumed only of what does not hang: nothing bounds either.
FairSpec ==
    /\ Spec
    /\ \A s \in Sources : WF_vars(Schedule(s))
    /\ WF_vars(DeployStep)
    /\ \A i \in Tries : WF_vars(ToolStep(i))

-----------------------------------------------------------------------------
(* Correctness.                                                            *)

InFlight ==
    (ToSet(replay) \cup ToSet(queue) \cup ToSet(scheduled)
        \cup {emitting[s] : s \in Sources}) \ {None}

\* A browser misses nothing: every event of the replayed history and every
\* later one has been sent, is on its way, or was dropped because the browser
\* was a full queue behind.  And although the replay repeats events and two
\* threads may schedule in another order than they entered the ring, once all
\* is quiet the last word a browser has of a thread is that thread's last.
\* (Of the fleet as a whole it need not be: a line of an agent and the status
\* of the run, from two threads, may change places.)
StreamIsWhole ==
    stream # "off" =>
        /\ owed \subseteq InFlight
        /\ InFlight = {} /\ ~slow =>
               \A s \in Sources : last[s] \in {0, emitted[s]}

\* What nobody will report: the latest attempt hangs, or its watcher died of
\* an exception, which c3's catches.
Unending ==
    \E i \in Tries \cap {token} :
       \/ attempts[i].work = "hung"
       \/ tool # "c3" /\ attempts[i].stage = "lost"

\* What was started is reported, unless it never ends or nothing watches it
\* any more: neither the deployment nor the tool leaves the page polling
\* because of how starts, kills, failures and late reports are interleaved.
StartedEnds ==
    /\ deploy = "running" ~> deploy # "running" \/ worker = "hung"
    /\ state = "pending" ~> state # "pending" \/ Unending
=============================================================================
