------------------------------ MODULE C3Fanout ------------------------------
(***************************************************************************)
(* One benchmark fanned out over C3 jobs (scripts/c3_compute.py).          *)
(*                                                                         *)
(* An agent splits the instances of a benchmark over shard threads.  Each  *)
(* thread takes a slot of the fleet's pool (SlotQueue, which C3SlotPool    *)
(* implements), deploys one job, polls it, and gives the slot back; the    *)
(* scores are merged when every shard succeeded.  The jobs live at C3: a   *)
(* deploy can be throttled or refused, its job may be unknown to squeue,   *)
(* never start, die behind a RUNNING status or outlive the poll, a deploy  *)
(* can hang, a cancel can be lost, and an agent can die with its jobs      *)
(* running.                                                                *)
(*                                                                         *)
(* One benchmark per agent.  What a job runs on and what it computes is in *)
(* C3Jobs and Harness; C3 itself is modelled from how it is used.          *)
(***************************************************************************)
EXTENDS C3Jobs

CONSTANTS
    Agents,
    Work,              \* instances per track of each agent's benchmark
    Cap,               \* c3_max_parallel_jobs
    DeployAttempts,    \* _DEPLOY_MAX_ATTEMPTS
    CancelOnTimeout,   \* args.c3_cancel_on_timeout
    Timeouts, Fixed,   \* of an instance, 0 unset; fixed cost of a shard
    Outcomes,          \* what solver and evaluator can make of an instance
    MaxInput,          \* bound: the inputs the shard plan is checked on
    Pools, Trees       \* the C3 pools and the file trees it is checked on

ASSUME FanoutAssumption ==
    /\ IsFiniteSet(Agents) /\ Work \in [Agents -> Seq(Nat)]
    /\ Timeouts \subseteq Nat /\ Fixed \in Nat /\ MaxInput \in Nat
    /\ Cap \in Nat \ {0} /\ DeployAttempts \in Nat \ {0}
    /\ CancelOnTimeout \in BOOLEAN
    /\ Outcomes \subseteq [inTime : BOOLEAN, saved : BOOLEAN,
                           judged : BOOLEAN, score : Int]
    /\ InfeasibleQuality \in Int

ASSUME PoolsAssumption ==
    /\ IsFiniteSet(Pools)
    /\ \A p \in Pools : p.tier \in Nat /\ p.vcpu \in Nat /\ p.rate \in Nat
    /\ \A p \in Pools : p.vcpu > 0 => p.rate % p.vcpu = 0

\* An algorithm is some challenge's.
ASSUME TreesAssumption ==
    \A tree \in Trees : \A p \in DOMAIN tree :
        p.part = "algorithm" => p.challenge # Shared

VARIABLES
    bench,        \* what each agent's benchmark came to
    plan,         \* shard -> the instances it runs
    thread,       \* where each shard's thread is
    attempts,     \* throttled deploys of a thread
    job,          \* the shard's job at C3
    line, inside, \* the slot pool
    cli,          \* _c3_update_result of each agent process
    abandoned     \* history: jobs nobody answers for any more

fanoutVars ==
    <<bench, plan, thread, attempts, job, line, inside, cli, abandoned>>

Threads == Agents \X (1 .. Cap)
ThreadsOf(a) == {a} \X (1 .. Cap)

Pool == INSTANCE SlotQueue WITH Clients <- Threads, Size <- Cap

\* The instances of a benchmark that is not split.
Instances(n) == Window(n, <<>>)

Live == {s \in Threads : job[s] \in {"queued", "running", "ghost"}}

FanoutTypeOK ==
    /\ bench \in [Agents -> {"idle", "running", "scored", "failed", "dead"}]
    /\ \A s \in Threads : plan[s] \subseteq Instances(Work[s[1]])
    /\ thread \in [Threads -> {"none", "line", "deploy", "redeploy", "hung",
                               "poll", "ok", "error", "done", "failed"}]
    /\ attempts \in [Threads -> 0 .. DeployAttempts - 1]
    /\ job \in [Threads -> {"none", "queued", "running", "ghost", "finished",
                            "failed", "cancelled"}]
    /\ inside \subseteq Threads /\ ToSet(line) \subseteq Threads
    /\ cli \in [Agents -> {"untried", "updated", "unable"}]
    /\ abandoned \subseteq Threads

-----------------------------------------------------------------------------
(* The shard plan.                                                         *)

Total(n) == FoldSeq(+, 0, n)

\* One more shard while the time it saves exceeds the fixed cost of its machine.
Paying(solve, fixed, most) ==
    LET pays == {m \in 2 .. most :
                    \A k \in 2 .. m : solve > fixed * k * (k - 1)}
    IN  Max({1} \cup pays)

\* _worthwhile_shards: never more than waves of solving; the whole cap where
\* there is nothing to reckon with.
Worthwhile(timeout, waves, fixed, cap) ==
    IF timeout = 0 \/ fixed = 0 THEN cap
    ELSE Paying(waves * timeout, fixed, Min({cap, waves}))

LastTakesRest(total, machines) ==
    LET m == Min({Max({1, machines}), total})
    IN  [k \in 1 .. m |-> (total \div m) + IF k = m THEN total % m ELSE 0]

\* The first `total % m' of m machines take one instance more.
BalancedSizes(total, machines) ==
    LET m == Min({Max({1, machines}), total})
    IN  [k \in 1 .. m |-> IF k <= total % m THEN (total \div m) + 1
                          ELSE total \div m]

\* How many instances come before instance i of track t, track by track.
Position(n, t, i) ==
    Total(SubSeq(n, 1, t - 1)) + i

\* Where the packing loop puts instance number k (from 0): a full shard is
\* closed and the next one begun.
Packed(sizes, total) ==
    LET place[k \in 0 .. total - 1] ==
            IF k = 0 THEN [shard |-> 1, used |-> 1]
            ELSE LET at == place[k - 1]
                 IN  IF at.used = sizes[at.shard]
                     THEN [shard |-> at.shard + 1, used |-> 1]
                     ELSE [at EXCEPT !.used = @ + 1]
    IN  place

\* _plan_shards: the window of each shard.
PlanShards(n, machines) ==
    LET sizes == BalancedSizes(Total(n), machines)
        place == Packed(sizes, Total(n))
    IN  [k \in DOMAIN sizes |->
            {x \in Instances(n) : place[Position(n, x[1], x[2])].shard = k}]

-----------------------------------------------------------------------------
FanoutInit ==
    /\ bench = [a \in Agents |-> "idle"]
    /\ plan = [s \in Threads |-> {}]
    /\ thread = [s \in Threads |-> "none"]
    /\ attempts = [s \in Threads |-> 0]
    /\ job = [s \in Threads |-> "none"]
    /\ Pool!Init
    /\ cli = [a \in Agents |-> "untried"]
    /\ abandoned = {}

\* _run_benchmark_c3 up to its executor: authentication and staging can fail,
\* there may be nothing to run; else one thread per shard.
StartBenchmark(a) ==
    /\ bench[a] = "idle"
    /\ \/ /\ bench' = [bench EXCEPT ![a] = "failed"]
          /\ UNCHANGED <<plan, thread>>
       \/ /\ Total(Work[a]) > 0
          /\ \E timeout \in Timeouts, waves \in 1 .. Total(Work[a]) :
              LET windows == PlanShards(Work[a],
                                        Worthwhile(timeout, waves, Fixed,
                                                   Min({Cap, Total(Work[a])})))
                  shards == {a} \X DOMAIN windows
              IN  /\ plan' = [s \in Threads |->
                        IF s \in shards THEN windows[s[2]] ELSE plan[s]]
                  /\ thread' = [s \in Threads |->
                        IF s \in shards THEN "line" ELSE thread[s]]
          /\ bench' = [bench EXCEPT ![a] = "running"]
    /\ UNCHANGED <<attempts, job, line, inside, cli, abandoned>>

Goes(s, place) == thread' = [thread EXCEPT ![s] = place]
JobBecomes(s, status) == job' = [job EXCEPT ![s] = status]

\* pool.lease(): the thread joins the line, is let in, and leaves at the end.
JoinLine(s) ==
    /\ thread[s] = "line"
    /\ Pool!Arrive(s)
    /\ UNCHANGED <<bench, plan, thread, attempts, job, cli, abandoned>>

EnterSlot ==
    /\ Pool!Admit
    /\ Goes(Head(line), "deploy")
    /\ UNCHANGED <<bench, plan, attempts, job, cli, abandoned>>

LeaveSlot(s) ==
    /\ thread[s] \in {"ok", "error"}
    /\ Pool!Depart({s})
    /\ Goes(s, IF thread[s] = "ok" THEN "done" ELSE "failed")
    /\ UNCHANGED <<bench, plan, attempts, job, cli, abandoned>>

(* `c3 deploy'.                                                            *)

Deploying(s) == thread[s] \in {"deploy", "redeploy"}

LastAttempt(s) == attempts[s] + 1 >= DeployAttempts

\* A throttled upload is retried with a back-off, DeployAttempts in all.
ThrottledDeploy(s) ==
    /\ Deploying(s)
    /\ IF LastAttempt(s)
       THEN Goes(s, "error") /\ attempts' = [attempts EXCEPT ![s] = 0]
       ELSE UNCHANGED thread /\ attempts' = [attempts EXCEPT ![s] = @ + 1]
    /\ UNCHANGED <<bench, plan, job, line, inside, cli, abandoned>>

\* Any other refusal; for the chip limit, once its deadline is over.
RefusedDeploy(s) ==
    /\ Deploying(s)
    /\ Goes(s, "error") /\ attempts' = [attempts EXCEPT ![s] = 0]
    /\ UNCHANGED <<bench, plan, job, line, inside, cli, abandoned>>

\* An outdated CLI: the first thread of the process to meet it runs the
\* installer, the others share its outcome; every thread retries once.
StaleCli(s) ==
    LET a == s[1]
    IN  /\ thread[s] = "deploy"
        /\ \E outcome \in IF cli[a] = "untried" THEN {"updated", "unable"}
                          ELSE {cli[a]} :
            /\ cli' = [cli EXCEPT ![a] = outcome]
            /\ Goes(s, IF outcome = "updated" THEN "redeploy" ELSE "error")
        /\ attempts' = [attempts EXCEPT ![s] = 0]
        /\ UNCHANGED <<bench, plan, job, line, inside, abandoned>>

\* Accepted.  Without a usable job id the job is looked up by name and
\* cancelled, which may not work.
Deployed(s) ==
    /\ Deploying(s)
    /\ \/ /\ Goes(s, "poll") /\ JobBecomes(s, "queued")
          /\ UNCHANGED abandoned
       \/ /\ Goes(s, "error") /\ JobBecomes(s, "cancelled")
          /\ UNCHANGED abandoned
       \/ /\ Goes(s, "error") /\ JobBecomes(s, "queued")
          /\ abandoned' = abandoned \cup {s}
    /\ attempts' = [attempts EXCEPT ![s] = 0]
    /\ UNCHANGED <<bench, plan, line, inside, cli>>

\* The command never returns, and its job may have been queued: the thread
\* waits for ever, in its slot.
DeployHangs(s) ==
    /\ Deploying(s)
    /\ Goes(s, "hung")
    /\ \/ UNCHANGED <<job, abandoned>>
       \/ JobBecomes(s, "queued") /\ abandoned' = abandoned \cup {s}
    /\ UNCHANGED <<bench, plan, attempts, line, inside, cli>>

(* C3 and its jobs.                                                        *)

JobMoves(s) ==
    /\ \/ job[s] = "queued" /\ JobBecomes(s, "running")
       \/ job[s] = "running" /\ \E e \in {"finished", "failed", "ghost"} :
                                    JobBecomes(s, e)
    /\ UNCHANGED <<bench, plan, thread, attempts, line, inside, cli, abandoned>>

(* The poll, and what is done about its outcome.                           *)

NoCancel(s) == UNCHANGED <<job, abandoned>>

\* `c3 cancel' works, comes too late for a job that ended, or is lost.
Cancel(s) ==
    \/ JobBecomes(s, IF s \in Live THEN "cancelled" ELSE job[s])
       /\ UNCHANGED abandoned
    \/ UNCHANGED job /\ abandoned' = abandoned \cup {s}

\* completed: the artifacts give a result, or none that can be read.
Completed(s) ==
    /\ thread[s] = "poll" /\ job[s] = "finished"
    /\ \E f \in [size : 0 .. 1, readable : BOOLEAN, isResult : BOOLEAN] :
        Goes(s, IF LoadBenchmark(<<f>>) # <<>> THEN "ok" ELSE "error")
    /\ UNCHANGED <<bench, plan, attempts, job, line, inside, cli, abandoned>>

JobFailed(s) ==
    /\ thread[s] = "poll" /\ job[s] = "failed"
    /\ Goes(s, "error")
    /\ UNCHANGED <<bench, plan, attempts, job, line, inside, cli, abandoned>>

\* never_started, infra_error and unrecognised: cancel, then fail.  The last
\* is a job squeue never showed, whatever it was doing.
GiveUpJob(s) ==
    /\ thread[s] = "poll"
    /\ Goes(s, "error")
    /\ Cancel(s)
    /\ UNCHANGED <<bench, plan, attempts, line, inside, cli>>

\* The poll's own deadline: the job is cancelled only when so configured;
\* artifacts are pulled but a result is not taken from them.
PollTimeout(s) ==
    /\ thread[s] = "poll"
    /\ Goes(s, "error")
    /\ IF CancelOnTimeout THEN Cancel(s)
       ELSE UNCHANGED job /\ abandoned' = abandoned \cup {s}
    /\ UNCHANGED <<bench, plan, attempts, line, inside, cli>>

(* The end of the benchmark.                                               *)

ShardsOf(a) == {s \in ThreadsOf(a) : plan[s] # {}}

AnySucceeded(a) == \E s \in ShardsOf(a) : thread[s] = "done"

Succeeded(a) == \A s \in ShardsOf(a) : thread[s] = "done"

EndedWell(a) == \A s \in ShardsOf(a) : thread[s] = "done"

Ended(a) == \A s \in ShardsOf(a) : thread[s] \in {"done", "failed"}

\* as_completed, then all or nothing, then the merge.
Merge(a) ==
    /\ bench[a] = "running"
    /\ Ended(a)
    /\ bench' = [bench EXCEPT ![a] = IF Succeeded(a) THEN "scored" ELSE "failed"]
    /\ UNCHANGED <<plan, thread, attempts, job, line, inside, cli, abandoned>>

\* The agent's process dies: its threads go, the pool reaps them by pid, its
\* jobs go on at C3.
AgentDies(a) ==
    /\ bench[a] = "running"
    /\ bench' = [bench EXCEPT ![a] = "dead"]
    /\ thread' = [s \in Threads |-> IF s[1] = a THEN "none" ELSE thread[s]]
    /\ Pool!Depart(ThreadsOf(a))
    /\ abandoned' = abandoned \cup {s \in ThreadsOf(a) : thread[s] = "poll"}
    /\ UNCHANGED <<plan, attempts, job, cli>>

ShardStep(s) ==
    \/ JoinLine(s) \/ LeaveSlot(s) \/ ThrottledDeploy(s) \/ RefusedDeploy(s)
    \/ StaleCli(s) \/ Deployed(s) \/ Completed(s) \/ JobFailed(s)
    \/ GiveUpJob(s) \/ PollTimeout(s)

AgentStep(a) ==
    StartBenchmark(a) \/ Merge(a) \/ \E s \in ThreadsOf(a) : ShardStep(s)

FanoutNext ==
    \/ \E a \in Agents : AgentStep(a) \/ AgentDies(a)
    \/ EnterSlot
    \/ \E s \in Threads : DeployHangs(s) \/ JobMoves(s)

FanoutSpec == FanoutInit /\ [][FanoutNext]_fanoutVars

\* Threads run, polls have deadlines and the pool serves its line.  A command
\* of c3 comes back with one of its answers; only a deploy need not, because
\* the thread waits for it without a time-out: DeployHangs.
FanoutFairSpec ==
    /\ FanoutSpec
    /\ \A s \in Threads : WF_fanoutVars(ShardStep(s))
    /\ \A a \in Agents : WF_fanoutVars(Merge(a))
    /\ WF_fanoutVars(EnterSlot)

-----------------------------------------------------------------------------
(* Correctness.                                                            *)

\* The records a scored benchmark was merged from: those of the jobs that were
\* completed and whose shards came back.
Benches(a, run) ==
    {JobScript(s, ShardJob(plan[s]), FALSE, run).results
        : s \in {r \in ShardsOf(a) : thread[r] = "done" /\ job[r] = "finished"}}

\* A score is the unsharded benchmark's (_merge_shard_benchmarks): whatever
\* each instance gives, the number of machines and the order their jobs end
\* in, the merged records of the shards' windows sum up to the same as one run
\* of all instances.
ScoreIsWhole ==
    \A a \in Agents : bench[a] = "scored" =>
        \A run \in [Instances(Work[a]) -> Outcomes] :
            MergeShardBenchmarks(Benches(a, run)) =
                Aggregate(HarnessMain(a, Work[a], <<>>, FALSE, run))

\* _plan_shards: each instance in exactly one shard, no machine rented for none,
\* and loads that differ by at most one (its docstring); slices are packed across
\* track boundaries, yet a count and a start per track describe every shard.
EvenPlans ==
    \A n \in [1 .. 2 -> 0 .. MaxInput], machines \in 1 .. MaxInput :
        Total(n) > 0 =>
            LET windows == PlanShards(n, machines)
            IN  /\ \A x \in Instances(n) :
                    Cardinality({k \in DOMAIN windows : x \in windows[k]}) = 1
                /\ \A k \in DOMAIN windows :
                    LET j == ShardJob(windows[k])
                    IN  Window(j.counts, j.starts) = windows[k]
                /\ \A k, l \in DOMAIN windows :
                    /\ windows[k] # {}
                    /\ Cardinality(windows[k]) <= Cardinality(windows[l]) + 1

\* _worthwhile_shards: when a shard costs its fixed part and the solving is
\* shared evenly, no other number of shards that the cap and the waves allow
\* would be faster (its docstring).
CheapestCounts ==
    \A timeout, fixed \in 0 .. MaxInput, waves, cap \in 1 .. MaxInput :
        LET m == Worthwhile(timeout, waves, fixed, cap)
            solve == waves * timeout
        IN  /\ m \in 1 .. cap
            /\ timeout > 0 /\ fixed > 0 => \A k \in 1 .. Min({cap, waves}) :
                \* solve / m + fixed * m <= solve / k + fixed * k
                solve * k + fixed * m * m * k <= solve * m + fixed * k * k * m

\* _best_cpu_hardware: a machine that is not blocked, one that may never start
\* only when there is no other, and a dearer run than another machine's only if
\* the time it saves is worth the difference at the cheapest rate (docstring).
SensibleMachines ==
    \A listing \in SUBSET Pools, wedged \in SUBSET {p.name : p \in Pools},
       n \in {0, 1, MaxInput, 10 * MaxInput}, timeout \in 0 .. 2 :
        LET listed == ListCpuProfiles(listing)
            fit == {p \in listed : p.name \notin wedged}
            sure == {p \in fit : p.tier > Low}
            pool == IF sure = {} THEN fit ELSE sure
            name == BestCpuHardware(listed, Blocklist({}, wedged), n, timeout,
                                    Fixed, 0)
            time(p) == WallTime(p, n, timeout, Fixed, 0)
        IN  IF fit = {} THEN name = DefaultCpu
            ELSE \E p \in pool :
                /\ p.name = name
                /\ n > 0 /\ timeout > 0 =>
                    \A q \in pool, r \in Rated(pool) :
                        (\A x \in Rated(pool) : r.rate <= x.rate) =>
                            Price(p, pool) * time(p) - Price(q, pool) * time(q)
                                <= Averaged(pool) * r.rate
                                    * (time(q) - time(p))

\* A missing price reads as typical, never as free (comment in
\* _best_cpu_hardware): between what two listed machines ask per vCPU.
TypicalPrices ==
    \A pool \in SUBSET Pools : \A p \in pool :
        p.rate = 0 /\ Rated(pool) # {} =>
            LET vcpu == IF p.vcpu > 0 THEN p.vcpu ELSE AssumedShardVcpus
                most == Averaged(pool) * vcpu
            IN  /\ Price(p, pool) > 0
                /\ Sized(pool) # {} => \E x, y \in Sized(pool) :
                    /\ most * x.rate <= Price(p, pool) * x.vcpu
                    /\ Price(p, pool) * y.vcpu <= most * y.rate

\* A job compiles the uploaded sources, whatever is baked into the image its
\* node happens to have, a stale one included (docstring of
\* _create_warm_workspace); of the algorithm no stale file is left.
SameSources ==
    \A baked, root \in Trees :
        \A c \in {p.challenge : p \in DOMAIN root} \ {Shared} :
            LET tree(warmOn) ==
                    JobTree(SelectImage("", warmOn, "plain", FALSE), baked,
                            root, c)
            IN  /\ Only(tree(TRUE), DOMAIN tree(FALSE)) = tree(FALSE)
                /\ AlgorithmOf(c, tree(TRUE)) = AlgorithmOf(c, root)

\* The plan of a benchmark, on every small input: its slices are whole and even,
\* the greedy number of shards is the cheapest there is, the machine is worth
\* its price, and the jobs compile what was uploaded.
PlansAreRight ==
    (\A a \in Agents : bench[a] = "idle") =>
        /\ EvenPlans /\ CheapestCounts
        /\ SensibleMachines /\ TypicalPrices /\ SameSources

\* Every job that runs at C3 is being polled by a thread inside the pool, or
\* is one the code gave up without being able to cancel it: a timed-out poll,
\* a lost cancel, an unknown id, a dead agent, a deploy that never answers.
LiveJobsAccounted ==
    \A s \in Live : (thread[s] = "poll" /\ s \in inside) \/ s \in abandoned

Hung == {s \in Threads : thread[s] = "hung"}

\* Every benchmark ends: no shard waits for ever in the line, for a job that
\* never ends or for a sibling, and only a `c3 deploy' that hangs can keep it:
\* one of its own, or as many as there are slots.
BenchmarksEnd ==
    \A a \in Agents : bench[a] = "running" ~>
        \/ bench[a] # "running"
        \/ Hung \cap ThreadsOf(a) # {} \/ Cardinality(Hung) = Cap
=============================================================================
