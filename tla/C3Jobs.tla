------------------------------- MODULE C3Jobs -------------------------------
(***************************************************************************)
(* What one C3 job is made of (scripts/c3_compute.py): the machine it is   *)
(* put on, the image it starts from, the files uploaded to it, and what    *)
(* its script does with them.                                              *)
(*                                                                         *)
(* A tree of files is a function from paths to contents; a path is a part  *)
(* of the repository, the challenge it belongs to (Shared for none) and a  *)
(* name.  A pool's rate is 0 if it is not listed, and so is its size; rates *)
(* are in a unit in which a vCPU's share of each is whole.                 *)
(***************************************************************************)
EXTENDS Harness

CONSTANTS
    Shared,        \* no challenge in particular
    DefaultCpu     \* _DEFAULT_CPU_HARDWARE

-----------------------------------------------------------------------------
(* The machine.                                                            *)

Low == 1
Medium == 2

\* _list_cpu_profiles: what the control plane lists; nothing when it fails.
ListCpuProfiles(listing) ==
    {p \in listing : p.kind = "cpu" /\ p.available}

\* _hw_blocklist, in a session that saw `wedged' accept jobs and not run them.
Blocklist(configured, wedged) == configured \cup wedged

CeilDiv(a, b) == (a + b - 1) \div b

\* One after the other as long as they are equal.
Precedes(x, y) ==
    \E i \in DOMAIN x : x[i] < y[i] /\ \A j \in 1 .. i - 1 : x[j] = y[j]

First(pool, Key(_)) ==
    CHOOSE p \in pool : \A q \in pool : ~Precedes(Key(q), Key(p))

WallTime(p, n, timeout, fixed, configured) ==
    LET workers == IF configured > 0 THEN configured
                   ELSE Max({4, p.vcpu \div 2})
    IN  fixed + CeilDiv(n, workers) * timeout

AssumedShardVcpus == 4

Rated(pool) == {p \in pool : p.rate > 0}
Sized(pool) == {p \in Rated(pool) : p.vcpu > 0}

\* The mean rate of a vCPU is a mean of so many; prices are multiplied by it.
Averaged(pool) == IF Sized(pool) = {} THEN 1 ELSE Cardinality(Sized(pool))

PerVcpu(pool) ==
    IF Sized(pool) = {} THEN Max({p.rate : p \in Rated(pool)})
    ELSE FoldFunction(+, 0, [p \in Sized(pool) |-> p.rate \div p.vcpu])

\* A pool whose rate is not listed is taken for one that asks the mean.
Price(p, pool) ==
    IF p.rate > 0 THEN Averaged(pool) * p.rate
    ELSE PerVcpu(pool) * (IF p.vcpu > 0 THEN p.vcpu ELSE AssumedShardVcpus)

\* _best_cpu_hardware: of the pools that are not blocked, and not LOW when
\* there are better ones, the cheapest for this workload with its wall time
\* priced at the cheapest rate; the largest where that cannot be told.
BestCpuHardware(listed, blocked, n, timeout, fixed, configured) ==
    LET profiles == {p \in listed : p.name \notin blocked}
        better == {p \in profiles : p.tier >= Medium}
        pool == IF better # {} THEN better ELSE profiles
        wall(p) == WallTime(p, n, timeout, fixed, configured)
        wallRate == Averaged(pool) * Min({p.rate : p \in Rated(pool)})
        Cheapest(p) == <<(Price(p, pool) + wallRate) * wall(p), wall(p),
                         -p.tier, -p.vcpu>>
        Largest(p) == <<-p.tier, -p.vcpu, p.rate>>
    IN  IF profiles = {} THEN DefaultCpu
        ELSE IF n > 0 /\ timeout > 0 /\ Rated(pool) # {}
             THEN First(pool, Cheapest).name
             ELSE First(pool, Largest).name

-----------------------------------------------------------------------------
(* The files.                                                              *)

Only(tree, S) == [p \in DOMAIN tree \cap S |-> tree[p]]

AlgorithmOf(c, tree) ==
    {p \in DOMAIN tree : p.part = "algorithm" /\ p.challenge = c}

\* _create_workspace: manifests, build configuration, scripts, and of src/ what
\* is shared and the challenge's directory.
CreateWorkspace(root, c) ==
    Only(root, {p \in DOMAIN root : p.challenge \in {Shared, c}})

\* _create_warm_workspace: all of src/ but the algorithms, and the challenge's.
CreateWarmWorkspace(root, c) ==
    Only(root, {p \in DOMAIN root : p.part # "algorithm"}
               \cup AlgorithmOf(c, root))

\* The warm job's script: the uploaded files over the baked ones (a file that
\* is the same keeps its time stamp), the algorithm's directory replaced whole.
OverlaidOnWarm(image, upload, c) ==
    LET kept == DOMAIN image \ AlgorithmOf(c, image)
    IN  [p \in DOMAIN upload \cup kept |->
            IF p \in DOMAIN upload THEN upload[p] ELSE image[p]]

\* _select_docker_image, _warm_c3_image: a pinned warm image, the warm image of
\* the challenge's kind, or the plain one that is configured.
SelectImage(pinned, warmOn, plain, gpu) ==
    IF pinned # "" THEN [warm |-> TRUE, name |-> pinned]
    ELSE IF warmOn THEN [warm |-> TRUE, name |-> IF gpu THEN "gpu" ELSE "cpu"]
    ELSE [warm |-> FALSE, name |-> plain]

\* What the job compiles, when its node has `baked' in the image.
JobTree(image, baked, root, c) ==
    IF image.warm THEN OverlaidOnWarm(baked, CreateWarmWorkspace(root, c), c)
    ELSE CreateWorkspace(root, c)

-----------------------------------------------------------------------------
(* The work.                                                               *)

\* A shard's slices, one for each of its tracks: how many and from where.
ShardJob(window) ==
    LET of(t) == {x[2] : x \in {y \in window : y[1] = t}}
        tracks == {x[1] : x \in window}
    IN  [counts |-> [t \in tracks |-> Cardinality(of(t))],
         starts |-> [t \in tracks |-> Min(of(t))]]

\* Both scripts: the exports, then benchmark.py, whose output is the artifact
\* and whose status is the job's.
JobScript(id, job, gpu, run) ==
    IF NothingToRun(job.counts, job.starts)
    THEN [ok |-> FALSE, results |-> {}]
    ELSE [ok |-> TRUE,
          results |-> HarnessMain(id, job.counts, job.starts, gpu, run)]

\* _load_benchmark_json: the newest artifact that can be read and is a result.
LoadBenchmark(artifacts) ==
    SelectSeq(artifacts, LAMBDA f : f.size > 0 /\ f.readable /\ f.isResult)

\* _merge_shard_benchmarks: the records of all shards, aggregated again.
MergeShardBenchmarks(benches) == Aggregate(UNION benches)

=============================================================================
