# Verification of the TIG swarm

Models of the swarm in TLA+, checked with TLC on small instances and, where the
tables below say so, proved with TLAPS for every value of the constants. Paths
are relative to the repository root, which the manifest `PROJECT.json` calls
`src/`.

The swarm optimises algorithms. A coordination server (FastAPI over one SQLite
file) keeps who works on what; contributors run loops that poll it for code,
have an LLM change the code, benchmark the result and publish the score. A host
creates the server on Railway and administers it; contributors launch fleets of
loops through a local companion or a hosted runner; benchmarks run locally or
as shards on C3. Nearly everything that is hard happens where two of these
parties touch the same rows, files or processes.

## 1. Inventory

| Part | State it keeps | Operations | What is hard | What makes it correct |
| --- | --- | --- | --- | --- |
| Trajectory pool and reset machine (`server/trajectory_reset.py`, `_agent_state`, `create_iteration`, `heartbeat`, the sweep of `periodic_stats`) | `agent_challenge_state`, `trajectory_bests`, `trajectories`, `inactive_algorithms` | poll, reset, publish, heartbeat, sweep, seed, clear, new era | pre-check outside the lock, snapshot before compare-and-swap, dead agents, long chains of hand-overs | a line of code has one custodian, nothing that scored is lost, modules go with the entry file, the score to beat goes with the code, a dead agent's line is freed, one stagnation is one reset |
| Mainnet baseline (`server/server.py`, `db.py`) | `mainnet_baselines`, unscored pool rows | Measure button, seeding, claim, forced reset, capture | awaits in the button and in the poll, stale claims, edits under way | a press pulls one agent, a score stays until it is asked for again |
| Publish ledger, global best, seed pool (`create_iteration`, `db.py`, `seed_diversity.py`) | `experiments`, `best_history`, epochs, personal bests, `seed_pool` | publish, reset of a challenge, harvest, deposit; leaderboard, replay, dashboard | stamps taken before the lock, reads outside transactions | chart, gate and personal bests tell one story; harvested seeds differ |
| Membership (`server.py`, `names.py`, `ws_events.py`) | configuration caches, names in memory, sockets, `agents`, `config` | register, rename, revoke, update, read, broadcast | caches refilled across awaits, restarts | caches are current, the revoked stay out, names and dashboards are kept |
| Schema (`db.init_db`) | tables, migration records | boot | deaths between statements, a rebuild that copies named columns | what serves is complete, every boot gets there |
| Contributor loop (`scripts/run_loop.py` and what it calls) | files on disk, credentials, counters | iterate: sync, fetch, clean, edit, repair, tune, publish | the host changes under it, every call fails, it dies | publishes what it measured, edits the server's best, freezes exactly, ends |
| Benchmark and search (`scripts/benchmark.py`, `hpo.py`) | none | run a window of instances, aggregate, search configurations | infeasible and missing results | sums are whole, winners never worse than the default |
| C3 fan-out (`scripts/c3_compute.py`) | jobs, shard threads | plan, deploy, poll, cancel, merge | timeouts, partial failure, jobs that outlive their poll | a score is whole, plans are even and cheap, live jobs are accounted for |
| C3 slot pool (`scripts/c3_pool.py`) | files: counter, `queue/`, `active/` | claim, poll for a grant, release | several processes, deaths anywhere | never more leases than slots, first come first served, the dead hold nothing |
| Fleet (`scripts/run_fleet.py`, `FleetController`, `runner/`) | worktrees, loop processes, enrolments | launch, stop, plan edit, enrol, leave, restart | failing launches, early stops, orphans | a stop is obeyed, lessons are kept, edits arrive, the gone are quiet |
| Host administration (`hostadmin/`) | a Railway project, `swarm.admin.json` | create, adopt, invite, revoke, switch | interruption anywhere, calls that time out but land, late volumes | invitations stay valid, the server runs what was asked, seeds stay |
| Companion (`control_server.py`) | event hub, controllers | stream, deploy, install, log in | threads against the event loop, slow browsers, superseded runs | the browser misses nothing, every start that ends is reported |
| Challenge registry, request models; prompts; dashboard and control UI; challenges in Rust and CUDA; deployment, docs | none, or text | — | — | not modelled |

How they interact: the loop calls the server over HTTP (`GET /api/state`, `POST
/api/iterations`, heartbeats) and, for remote benchmarks, the C3 backend, whose
shards share the slot pool with their siblings' through the file system. The
host calls the admin endpoints and Railway. The server's only activity of its
own is `periodic_stats`. Fleets start loops as child processes, and are
themselves a thread of the companion or a process of the runner. The hazards,
each at the line where it bites and with the properties that are about it, are
in `PROJECT.json`.

## 2. Modules

| Module | Models |
| --- | --- |
| `TrajectoryPool` | the life cycle of trajectories |
| `MainnetBaseline` | the measurement of the mainnet algorithm |
| `PublishLedger` | what publishes and resets leave in the records, the seed pool, and what is shown of them |
| `Membership` | registration, names, revocation, cached configuration, dashboards' sockets |
| `Schema` | a boot's way to the current schema |
| `ContributorLoop` (extends `Harness`) | one contributor's loop |
| `Harness` | the benchmark and the hyperparameter search, as functions |
| `C3Jobs` (extends `Harness`) | a C3 job: machine, image, files, output, as functions |
| `C3Fanout` (extends `C3Jobs`, instantiates `SlotQueue`) | a benchmark over several C3 jobs |
| `SlotQueue` (extends `Ranks`) | what the slot pool promises: a first-come-first-served line for `Size` slots |
| `C3SlotPool` (extends `Ranks`) | the slot pool as it is, in files; refines `SlotQueue` |
| `Ranks` | a finite set as a sequence, by its members' keys |
| `Fleet` | a fleet of loops and who supervises it |
| `SwarmCreation` | a swarm on Railway: creation, adoption, invitations, containers |
| `Companion` | the event hub, the deployment thread and the tools' controllers |
| `TrajectoryPoolProofs`, `PublishLedgerProofs`, `MembershipProofs`, `ContributorLoopProofs`, `SwarmCreationProofs` | theorems about one module each |
| `DatabaseProofs` | theorems about `Schema` and `MainnetBaseline` |
| `C3Proofs` | theorems about `C3SlotPool`, `C3Fanout` and the functions of `C3Jobs` |
| `CompanionProofs` | theorems about `Companion` and `Fleet` |
| `MC...` | small instances for TLC |

`SlotQueue` is where two parts meet: `C3SlotPool` implements it with files, and
`C3Fanout` uses it, so that the fan-out is checked against what the files were
shown to provide. `ContributorLoop` takes any answer the server could give;
`TrajectoryPool` says which one it gives. `Companion` takes a fleet as a source of
events and `Fleet` says what it does; the deployment's steps are in
`SwarmCreation`; the configuration a boot applies is there too, between the two
halves of `Schema`.

Three proof modules extend two components at once, so `MainnetBaseline`,
`C3Fanout` and `Fleet` put their name before `Init`, `Next`, `Spec` and `TypeOK`
(`FleetSpec`, `FanoutInit`).

Definitions that no action uses, named after a plausible mistake (`NotRestored`,
`AnyTurn`, `DueAtPrecheck`), serve to see that a property fails when the code is
wrong.

### TrajectoryPool

One action per write transaction. `ptr`, `rsi`, `fresh`, `best`, `traj` and `pool`
are the columns the handlers use; `pool` is a bag, so that a double deposit
would show. What is read outside a transaction and used later is state:

* `Poll` is `/api/state` up to its first commit and the pre-check. A key that is
  due joins `waiting` (or, for a won mainnet claim, `forced`); `ResetTxn` and
  `ForcedResetTxn` are the reset machine behind `BEGIN IMMEDIATE`, with its
  re-check. The pre-check is one step with the bump it follows: nothing depends
  on it, since the re-check decides.
* `SweepSnapshot` is the sweep's `SELECT`, `SweepApply` its updates. They are one
  transaction: SQLite opens it at the first `UPDATE`, and all that follows is
  under the write lock until the commit in `periodic_stats`.
* `Publish` is `create_iteration`, which holds the lock from the start.

Time is one bit per row: `fresh` says that `last_active_at` is not before the
sweep's cutoff. A row cannot fall behind while a sweep is under way (its cutoff
is fixed) nor while a poll of the row is queued (lock waits are shorter than the
inactivity window). The pick is any pooled row of the challenge, a superset of
what `_pick_inactive` returns. A forced reset may happen whenever an unscored
entry is pooled; who wins the claim is `MainnetBaseline`'s subject. Scores are
integers, larger is better (`is_better` mirrors them). A file map is one bit of a
best and of a pool row, `whole`: the reset's deposit carries it (`Deposited`), the
sweep's passes none (`SweptOff`), and a publish brings its own. `ClearInactive`
deletes all rows of a challenge or those of all sources but one, that is any.
Left out: program ids and hint counters. `era`, `purged`, `swept`, `edited` and
the row field `era` are history, used only by properties.

### MainnetBaseline

One challenge, one row. `button` is how far `admin_measure_mainnet_baseline` has
come (its three database sessions are `PressMeasure`, `Provision`, `Request`),
`agent` how far each agent's poll or benchmark has come (`CheckClaimable`, `Claim`,
`ForcedReset`, `PublishSeed`). The pool holds only unscored entries; that a reset
may take a scored one or start afresh is a choice, as is what the fetch returns.
`score` records the run a score came from. One label deposits mainnet code, so
the pool is a set: `has_inactive_with_code` and the count guard refuse
duplicates.

### PublishLedger

`Stamp` is the timestamp `create_iteration` takes before `BEGIN IMMEDIATE`,
`Publish` its transaction: the gate against the global best and the chart, the
experiment, `best_history`, the ratchet of `best_ever_score` and the harvest with
its eviction. `StampReset` and `ResetChallenge` are `reset_challenge`, whose epoch is
stamped before its transaction too. `ReadSeeds` and `WriteSeed` are
`upsert_authored_seed`, which reads outside a transaction. `GlobalBest`,
`Leaderboard`, `Replay` and `DashboardState` are the read-only views. A program has
one score; similarity and simplicity are constants. The field `era` of an
experiment is history: how many resets had committed.

### Membership

A request is a coroutine that may be overtaken at every await: `Lookup`, `Select`,
`Store` and `Return` are `get_config_cached` with its refill, `Fetch` and `Keep` the
challenge's, `Register`, `RenameCheck`/`Rename`/`Reserve`, `RevokeReads`/`RevokeWrites`,
`UpdateWrites`/`UpdateDrops`, `KeyWrites` and `AdminEnds` the handlers, `Send` and
`Prune` a broadcast. `Restart` empties the memory and reads the names back.

### Schema

Tables, effects and records of the file, and what the boot's connection sees.
`Migrate`, `Record`, `CommitMigrations`, `Rebuild`, `RecordRebuild` are statements;
what a death between two of them loses is decided by the transactions Python's
`sqlite3` opens (before an `INSERT`, not before an `ALTER`). `Init` is any file an
earlier release can have left. A migration is its effect on one table. That a
rebuild carries the columns other migrations add is `RebuildAssumption`: the
comment at migration 24 asks for it and `SCHEMA` has it so.

### ContributorLoop, Harness

`pc` follows `main()`; one action per call that can fail or write. `disk` is the
algorithm directory of each challenge: an entry file (a program or the stub) and
what lies beside it. `st` is the server's answer, `kept` the copy that the
cleaner and the search put back, `bench` what was last measured, under which
configurations, `winning` the configurations to be published, `tree` the tooled
agent's worktree. `Payload` is what `publish_results` builds from the disk and the
score. `Switch`, `Revoke`, `Invite` are the host, at any moment; `Die` may happen
anywhere and leaves only files and credentials. `spent`, `benched`, `wasted`,
`lockedOut` are history. An infeasible result goes to a repair if it names errors,
and goes on as it is if it does not (`AfterBench`); a best is put back only if the
server named code. The probe of an agent whose row is gone is left out, since no
handler deletes one. The model stops at text: what a model writes is any program.

`Harness` is the benchmark as functions (the window of instances, of which a
generator that ended well is taken to have written every file, what an
instance's run counts as, the aggregate) and the search (configurations tried,
best trial, winner per track). `ASSUME SearchIsSound` in `MCContributorLoop` checks
the search on every outcome of three trials over two tracks.

### C3Jobs, C3Fanout

`C3Jobs` gives, as functions, the machine chosen among the listed pools, the
image and the uploaded tree (`JobTree`: what the job compiles), the job's script
and the merge of its outputs. `C3Fanout` is one thread per shard: slot, deploy
with its retries, poll with its deadline, cancel, and a merge that waits for
all. What C3 does (`JobMoves`) is a choice: queued, running, finished, failed,
showing RUNNING for ever; and a deploy may never return (`DeployHangs`), since
the thread reads its output to the end and waits without a time-out
(`c3_compute.py:1474`). Without a time-out per instance, or a fixed cost, the plan
uses the whole cap (`Worthwhile`). `abandoned` is history: jobs the code gave up
without a cancel that took.

### C3SlotPool and SlotQueue

The grant lock makes `_claim_ticket` and `_try_grant` atomic unless the process
dies inside, which `CrashInClaim` models point by point; `MayTear` says whether
it can die between the truncation of the counter file and its write. Every
property of the pool, and every theorem, is about `MayTear = FALSE`: that one
death breaks them (section 5). A crash
gives the process a new pid. Recycled pids (the docstring: they heal by
themselves) and the in-process pool of a lone agent are not modelled. Tickets
are bounded by `MaxTicket`, so the run stops there and deadlock is not checked.
The refinement maps the line to the waiting shards in ticket order and the slots
to the holders; `Die` maps to a departure of all shards of the process.

### Fleet

`run` follows `cmd_run`: prepare, spawn one agent after the other, monitor,
terminate, report. `loop` is this run's process of an agent, by what it has read
of its configuration; `orphan` one of an earlier run, heard while something reads
its pipe. `host` is the companion (a thread that dies with it) or the hosted
runner, whose handlers (`Enroll`, `Purge`, `KillFleet`) hold its event loop.
A launch whose row cannot be written is reported as failed and runs on
(`EnrollLaunches`). `SyncTick` carries plan edits into worktrees, `LoopReads` and `LoopWrites` are the
starting loop's read-modify-write of its file.

### SwarmCreation

`creation` is where `create_swarm` stands, from finding the project to writing the
local files; each call may fail, or time out and have landed. `Platform` is
Railway as the code uses it: volumes attach late, a deployment starts on the
mounts and variables of its submission, traffic moves after a health check,
containers are replaced. A database is a file on the volume or on the
container's own disk. A second project of the name ends the creation as
ambiguous; one creation runs at a time.

A boot's environment is applied once. `ApplyEnv` sets the challenge and, but for
the blobs of `Garbled` challenges, the sub-configurations, the field `whole`: an
exception there is swallowed, and the sentinel is set all the same
(`server/db.py:831`). `PostConfig` makes them whole. `ReadPool` is one request of
`verify_seed_pool`, one per challenge, so that the reads of a verification may
meet different containers; `VerifySeeds` is its verdict. `WriteLocalFiles` invites
the host, as `_scaffold_fleet_config` does.

### Companion

`emit` is two steps (into the ring, then scheduled on the loop), in whichever
thread calls it: the deployment's, the run's own (`"run"`), and one per agent, which
reads its output (`Readers`). A connection is a snapshot, a replay and a live
queue. A tool's controller holds one process; `Start` kills what it holds and
says `pending`, `Spawn` puts the new process in its place, and in between the
watcher of the killed one takes no lock and still finds itself current. `Wait`,
`Checks` and `Reports` are that watcher. What runs, and a creation, may hang
(`WorkHangs`, `CreateHangs`); an exception ends c3's thread in a report and the
other watchers in silence (`Raise`). Stream and tools share no state, so a
behaviour follows one of them.

## 3. Runs

Every run passes and ends with its complete state space.

| Run | Instance | Properties |
| --- | --- | --- |
| `pool_safety` | 2 agents, 1 challenge, 2 trajectories, scores -1, 0, 1, stagnation after 1, cull after 2 edits, one queued poll of a key, 1 seed, 1 new era | `OneCustodian`, `FloorIsPeak`, `WorkIsBanked`, `FloorNeverDrops` |
| `pool_switching` | 1 agent loyal to one of 2 challenges, 2 trajectories, 2 queued polls of a key, scores 0 and 1, no cull; fair | `ResetNeedsPublish`, `SilentReleased`, `StagnationResolved` |
| `mainnet_claims` | 2 agents, 2 mainnet algorithms, 1 other seed, 2 presses, 1 expiry, 1 edit | `PullsAreAsked`, `ScoreIsKept` |
| `ledger` | 2 agents (one of tier frontier), 3 programs of which two are alike, 3 publishes, 2 at once, 1 reset, 2 deposits, a clock of 2, a pool of 2 | `HistoryAgrees`, `PersonalBests`, `HarvestsDiffer` |
| `membership` | 3 requests, 2 at once, 2 users, 2 agents, 2 names and a numbered one, 2 challenges, 2 sockets | `CacheIsCurrent`, `RevokedStayOut`, `NamesReserved`, `AttentiveStay` |
| `schema` | 5 migrations of 3 tables, one a rebuild, 2 deaths; fair | `ServesWholeSchema`, `BootSucceeds` |
| `contributor` | 2 challenges, 2 programs, freeze after 2, fallback after 2, 1 repair, cooldown 1; fair | `PublishesMeasured`, `WorksOnServersBest`, `FreezeIsExact`, `LockedOutSpendsNothing`, `IterationsEnd` |
| `c3_fanout` | 2 agents with benchmarks of 3 and 1 instances, 2 slots, 2 deploys, hanging ones too; plans, with and without a time-out per instance, on all inputs up to 4 and 7 pools, some without a listed rate or size; trees over 5 paths; fair | `ScoreIsWhole`, `PlansAreRight`, `LiveJobsAccounted`, `BenchmarksEnd` |
| `c3_fcfs` | 3 shards in 2 processes, 2 slots, 5 tickets, a death, though not one that tears the counter file; fair | `CapRespected`, `ImplementsQueue`, `WaiterServed` |
| `fleet` | 2 agents, companion and hosted runner; fair | `FleetIsEnrolled`, `LessonsKept`, `StopWins`, `HotReloadArrives`, `GoneMeansQuiet` |
| `swarm` | 2 creations, 2 challenges, the settings of one unreadable at boot, 1 user and the host, 1 restart by the platform, 1 switch | `InvitesStayValid`, `RunsWhatWasAsked`, `SettledSeedsStay` |
| `companion` | a ring and a queue of 2, 3 events of three threads (a run, an agent's reader, a creation) and a creation's report, 1 creation; or 3 starts of one of 4 tools; 1 restart; fair | `StreamIsWhole`, `StartedEnds` |

What each property says, and of which code, is in the comment above it.

Why the bounds are enough. Two trajectories and two agents give every race of two
handlers over one row, an adoption of the other's line, and `N^1.5 < D` true and
false; three scores put a best below, on and above the boundary of the cull; a
stagnation limit of 1 only hastens it. Two publishes in flight and a clock with
ties give every order of two stamps and two commits, a third makes the chart
three rows long; two programs that are alike and one apart fill a seed pool of
two so that an eviction can free the way for a duplicate. Two requests at once
are all a refill can be overtaken by; the third is the one misled afterwards.
Five migrations have a column in and out of `SCHEMA`, an index, and a rebuild
after them; the second death hits the repair of the first. Freeze, fallback and
cooldown limits of 2 and 1 let every counter reach, miss and restart its limit;
a second program is a repair that differs; a second challenge is the directory a
switch leaves behind. Three shards, two of one process, are the least with a
waiter whose sibling dies; three instances on two machines do not divide evenly.
Two loops are one spawned before and one after a failing launch. A second
creation adopts what the first left; a third would only adopt again. A ring of
two is overrun by the third event, and three starts supersede a superseded run.

### Fairness

* `pool_switching`: weak fairness of the polls of loyal keys (the loop polls at
  the top of each iteration and backs off for a bounded time) and of the sweep's
  `SELECT` (`periodic_stats` runs every ten seconds and survives exceptions);
  strong fairness of the second halves, since a restart may discard one but does
  not hit between the halves every time. Nothing is owed by publishes or
  heartbeats.
* `contributor`: weak fairness of the process' own steps; it may die and stay
  down, and the host owes nothing. Each call is taken to return: model calls have
  time-outs, builds under docker and cargo have none.
* `c3_fcfs`: a waiting shard keeps polling and a job ends (`_poll_c3_job` has a
  deadline), not that processes survive. That a lease is given back is the
  client's duty; a hanging `c3 deploy` does not. `c3_fanout`: threads run, polls have
  deadlines, the commands of c3 come back and the pool serves its line, as
  `c3_fcfs` shows. A deploy need not come back: it may hang, and `BenchmarksEnd`
  excuses a benchmark with such a shard, and all while hung shards hold every
  slot. Jobs at C3 owe nothing.
* `fleet`: the run's thread, the runner's handlers, the sync ticks and starting
  loops go on; a loop nobody reads prints its next line and dies of it.
* `schema`: a boot goes on; deaths are bounded.
* `companion`: its threads go on. What they wait for (the vendors' scripts, the
  browser login, `railway` in a creation) has no time-out and may hang, and
  `StartedEnds` excuses exactly that, and a watcher that an exception ended.

The other runs are about safety and assume nothing.

## 4. Proofs

For every value of the constants, under the modules' named assumptions.

| Module | Theorems about properties of the runs | and |
| --- | --- | --- |
| `TrajectoryPoolProofs` | `SingleCustody` (`OneCustodian`), `FloorPeak` (`FloorIsPeak`), `BankedWork` (`WorkIsBanked`), `NeverDrops` (`FloorNeverDrops`), `ResetsAreEarned` (`ResetNeedsPublish`, cull off) | `TypeCorrect`, `CustodyHolds`, `StatusTruth`, `Isolation`, `StintCount`, `SparesLive`, `FloorsHold`, `FloorForScored`, `ResetsHaveReasons` |
| `PublishLedgerProofs` | `ChartAgrees` (`HistoryAgrees`), `PersonalRecord` (`PersonalBests`), `HarvestsApart` (`HarvestsDiffer`) | |
| `MembershipProofs` | `CachesFollow` (`CacheIsCurrent`), `RevokedAreRefused` (`RevokedStayOut`), `NamesAreKnown` (`NamesReserved`), `DashboardsStay` (`AttentiveStay`) | `Types` |
| `SwarmCreationProofs` | `InvitesHold` (`InvitesStayValid`), `ConfiguredAtBoot` (`RunsWhatWasAsked`), `SeedsSettled` (`SettledSeedsStay`) | `SwitchesLast` |
| `DatabaseProofs` | `WholeSchema` (`ServesWholeSchema`), `PullsPaid` (`PullsAreAsked`), `MeasurementStays` (`ScoreIsKept`) | `BootInvariant`, `RecordsBacked`, `MeasurementTypes` |
| `C3Proofs` | `CapHolds` (`CapRespected`), `FilesAreTheLine` (`ImplementsQueue`), `NoJobUnaccounted` (`LiveJobsAccounted`), `ScoreWhole` (`ScoreIsWhole`), `PlansRight` (`PlansAreRight`) | `SlotsHold`, `FilesHold`, `PlannedHolds` |
| `CompanionProofs` | `StreamMissesNothing` (`StreamIsWhole`), `HostedIsEnrolled` (`FleetIsEnrolled`), `LessonsAreKept` (`LessonsKept`) | |
| `ContributorLoopProofs` | `Published` (`PublishesMeasured`), `BestWorkedOn` (`WorksOnServersBest`), `ExactFreeze` (`FreezeIsExact`), `NothingSpent` (`LockedOutSpendsNothing`) | `Invariant`, `Types`; of the search: `ConfigsTried`, `BestTrial`, `WinnersWon`, `TunedIsNoWorse` |

**Pool.** `Custody` is the conjunction of type correctness and the custody,
status, challenge, floor and stint properties. None is inductive alone: that an
adopted entry is nobody's needs the status of its row, the status needs that no
other agent holds the deactivated line, and the counts need both. Each handler
is reduced to its effect by a lemma (`BankEffect`, `ResetEffect`, `SweepEffect`,
`EditedRow`) first, so that the case analysis has one step per action. `Floors`
builds on it: an inactive trajectory with a non-negative score of its era is
pooled unless purged; a held one that was scored in this era has a floor; no row
is of an era to come, since a new era invalidates only what is strictly older.
`NeverDrops` follows: a publish changes a trajectory's score only when it beats a
floor equal to that score, or when there is none, which `Floors` allows only for
a score of an earlier era. That only lines the sweep has banked lack their modules
(`WorkIsBanked`) needs the same of every best and every pool row (`OnlySweepStrips`).

That a reset has a reason rests on `RunsArePublishes`: a line that was handed out
starts at a count of zero, and only a publish raises the count. So whoever is
reset for stagnation has published since its last reset, however many of its
polls queue for the lock (`ResetsHaveReasons`, for any limits); a cull needs no
publish, and with the cull off every reset is earned (`ResetsAreEarned`).

**Measurement.** A press is paid out later than it is made: it is with the
handler, then with a row that is `requested`, and only then with the claim that
pulls an agent. `Paid` counts the two places in between, so that every step moves
one pull along or drops it. A measurement stays because the statuses a capture
accepts never come with a score (`Unscored`).

**Ledger.** The chart is strengthened by `Ordered`: rows are numbered in the order
of their commits, those of the current era dominate those before, and a row that
counts but is of an era before straddled the reset. The history field `era` is
what lets the invariant name those rows; without it the property fails exactly
there. `PersonalBests` and its proof speak of which experiments of an agent beat
the recorded best, so they need no maximum of a set.

**Membership.** `CacheIsCurrent` is inductive with the types: a commit leaves its
request before its invalidation, and a refill that is stored notes whether it was
overtaken. That the revoked stay out is not: it needs that every answered
revocation is in the database or was overwritten (`Barred`), hence in a cached
list that was not overtaken (`Overtaken`), and that a request which registers was
let through by the list cached at that moment. Requests change their own records
only, so each step is reduced to what becomes of one record (`Effects`).

**Creation.** The invariant joins what is `Paced` (counters and the step the
creation is at), `MintedOnce` (credentials are chosen once unless a creation
warned), `Housed` (which database a container answers from, given its mounts) and
what is `Settled`: that invitations hold needs the credentials of every place
they are copied to, local file, variables, deployment and database, to be tied
to each other. The seeds a verification will call present are `Found` read by
read: those no longer missing are on the volume, if the volume's check was green
and no rollout was seen. What a creation read back twice stays whole on the
volume, since no step takes it from there.

**Schema.** `Backed` (records never outrun effects) and `Sees` (the connection's
view and the file differ by what its transaction holds) are inductive together;
`Complete`, `MainDone` and `OwnDone` follow the boot to `serving`. `RebuildKeeps`
is where `RebuildAssumption` is used.

**Slots.** With `MayTear = FALSE`, that is, unless a process dies between the
truncation and the write of the counter: the numbers in use are below the counter and no
two files bear the same one, so a claim never meets its own number, a release
unlinks nobody else's file, and a reap leaves the files of live shards; the
holders inject into the files counted by the grant.

The refinement maps the line to the waiting shards by their numbers. `Ranks`
writes that sequence without recursion: place `k` belongs to the one with `k - 1`
lower keys, and by counting, every place is taken once (`RankOnto`); any rising
sequence of the right length is that one (`OrderIs`). A claim's number is above
all others, so it is appended; the shard a grant admits has the lowest file, so it
is the head, and there is room since holders are no more than files; a release,
an interrupted wait and a death leave the remaining shards their numbers, so the
line loses the ones that go and keeps its order (`FewerDepart`). What is counted
by `SlotQueue` is counted by the same definition (`SameCount`, `SameOrder`).

**Fan-out.** `Fanned` follows a job from its deploy to the end of its poll. Nothing
is rented before a thread deploys, and a thread deploys or polls only with a slot
(`Leased`, which needs that nobody is twice in the line, or in it and past it);
each way out of a poll ends the job or puts it on record, and so does the death
of its process. The scores of the shards and what they add up to play no part
here; they are the next paragraph.

**Plan and score.** The functions of `C3Jobs` and `Harness` are folds, and what a
fold computes is shown by the least counterexample: sets of numbers have a least
member (`LeastNumber`) and collections of parts of a finite set a smallest one
(`SmallestPart`), both from the library's well-foundedness. From there:

* A sum does not depend on which member is taken first (`SumOfFirst`), so the
  place of an instance in the row of all tracks is one to one (`PlacesAre`).
  `Begins` says where each machine's part of the row begins; by induction over
  the instances dealt out, the packing loop fills exactly those parts
  (`PackedAre`), and each is one slice per track, which a count and a start
  describe (`SlicesAreWhole`). Loads differ by one at most (`SizesAre`).
* The number of shards that the greedy search stops at is the cheapest
  (`WorthwhileIs`, `NoFaster`), and the machine chosen is first in the order of
  its keys (`OneIsFirst`, `MachineIs`). Jobs from a cold and from a warm tree
  compile the same sources (`SourcesAreTheSame`).
* A missing price is the mean of what the listed machines ask per vCPU, hence
  between what two of them ask (`SumBetween`, `MeanIs`), and never nothing
  (`PricesAre`).
* `Planned` joins this to the steps: a benchmark that runs or is scored is cut
  as the plan says, and a thread that ended well has a job that finished. An
  aggregate can be told from its set of records (`AggregateIs`), records from
  their instances, and the slices are all instances, each once: so what is
  merged is what one run of everything would have been (`ScoreOfCut`).

The assumptions say that rates are in a unit of which a vCPU's share is whole
(`PoolsAssumption`; any rates can be brought to one), that an algorithm belongs
to a challenge (`TreesAssumption`), and that results are numbers
(`FanoutAssumption`).

**Stream.** The proof follows the last event of each thread: while any event of a
thread is in the ring or on its way, the last one is there or comes behind it
(`LatestComes`), so that a browser which has seen some of a thread has seen its
last word or has it ahead (`LastWord`). `Ordered` is why what is dropped, sent or
taken off the ring is never the last while another stays.

**Fleet.** `Down` says that a supervisor that is down runs and handles nothing, so
that what is found enrolled at its next start is what it was. `Carried` says that
no lesson waits to be carried back between two runs, nor before a run has spawned
the agent: a launch copies notes only then, hence over none of those.

**Loop.** Five parts, inductive together. `Named` and `Scored` say where the code
the server named and the code that was measured are at each place: on disk, set
aside in `kept`, or in the tooled agent's tree; that a refused clean-up or search
puts back the right files needs the part that says what was set aside. `Counted`
ties the counter of failures to what happened (`spent`, `benched`, `wasted`), and
`Room` keeps it below the limit inside an iteration; the type of the counter
needs both. `Locked` says how far an iteration gets that began with a cleared
token.

**Search.** The folds of `hpo.py` take their members in turn (`FoldsInTurn`,
whatever they do with one), so one step suffices for each: one candidate more
(`ConfigsGrow`), one trial more for the best (`BestGrows`, over the order of
feasibility and score) and for the winners (`WinnersGrow`). `TunedIsNoWorse` puts
them together: the default is among the trials and no configuration is twice,
so the one a track is given is of one trial, which scored there no less than the
default. It says so of the search's own seed only; on the test seed nothing
follows, and the loop publishes any feasible variant (section 5).

Model-checked only: everything about liveness, since the prover has no fairness
or `ENABLED`. `Workers`, which only says how many instances run at once, is
proved nothing about, and `Window` only as far as the score of a benchmark
needs it.

## 5. Where the code differs from its text

Schedules met while modelling, each a behaviour of the code. None is a run here.

Server:

* A best of exactly zero is culled as not positive (`server/trajectory_reset.py:151`)
  and pooled as not negative (`server/db.py:1914`); its adopter is culled again
  without a publish. So `ResetNeedsPublish` is checked with the cull off.
* The sweep deposits without `algorithm_files` (`server/db.py:2148`), so a swept line
  of several files is handed on as its entry file alone, until somebody publishes
  on it. The comment of migration 17 (553) has the map "carried through every
  place a stored algorithm can be handed to another agent"; the reset does carry
  it (`server/trajectory_reset.py:241`). `WorkIsBanked` names the swept lines.
* `reset_challenge` leaves old scores in the pool; they become floors of the new
  era until the line is beaten. A publish that straddles the reset counts for the
  gate and not for the chart.
* A seed's score is stamped with the configuration after an edit of the tracks it
  was not measured under. A claim commits before the reset's lock: another reset
  can take the mainnet entry, and the claimant's score of some other seed is
  recorded by `by_claim`.
* A refill of the configuration cache that was overtaken keeps a revoked
  contributor acceptable until the next invalidation; of two revocations that
  overlap, one is lost; a partial `PUT` of a contributor's configuration loses
  the other half.
* The chart is replayed in the order of stamps, so it need not rise; the list of
  top scores ignores the epoch.
* The comments on the order of the schema's indexes and on the unique index of
  `seed_pool` describe an order the code does not have; migration 24's rebuild
  drops any later column it does not name (`RebuildAssumption`).

Contributor:

* `get_state` names no challenge (`scripts/run_loop.py:2352`). After a switch
  between the sync and the call, the best of one challenge is written into the
  directory of the other and published under it.
* A bootstrap can be answered with edit blocks when the directory holds code of
  an earlier trajectory, though `_use_search_replace` says it is always a full
  write; the same code, and the tooled agent's tree, is not cleared by a stub.
* The docstring of `_maybe_tune_hyperparameters` (1232) has the tuned variant win
  only if it beats the default; line 1313 publishes any feasible one. The cleaner
  compares a default run with a parent score that may be a tuned one.
* An infeasible instance never outranks a feasible one, but the mean of a partly
  infeasible track can, so a winner per track may be infeasible
  (`scripts/benchmark.py:165`, `scripts/hpo.py:68`).
* A publish whose answer is lost is not retried: the loop goes on, and may distil
  and post the same lesson again.
* A death between the truncation and the write of the slot counter restarts the
  numbering under live leases, and the cap is overshot (`MayTear = TRUE`).
* A hanging `c3 deploy` keeps its slot, and its benchmark, for ever
  (`scripts/c3_compute.py:1474`). A poll that timed out gives its slot back while
  its job goes on, so more jobs may run than there are slots.
* A hypothesis that comes back empty costs its tokens and is no failed benchmark
  (`scripts/run_loop.py:2629`), so an agent may spend like that without a freeze.

Fleet, companion, host:

* An agent's worktree that fails after others were spawned leaves their loops
  running; the next launch starts a second loop in the same worktree
  (`scripts/run_fleet.py:1163`, comment at 268). A stop in the first moments of a
  launch, or the companion's death, leaves loops as well
  (`control_server.py:251`, `285`): a stop pressed during a launch that then fails is
  dropped with its flag, and the loops spawned so far run on. The companion's
  banner says that on Ctrl-C "a running fleet stops with it" (2218); the thread
  dies, and the loops, in sessions of their own, do not.
* If the runner starts a fleet and cannot write its row, enrolment answers 500,
  "Failed to start fleet", and tries to leave `error` (`runner/service.py:152`): the
  fleet runs, and the next start of the container does not resume it.
  `FleetIsEnrolled` asks for a row, not for `running`.
* Two events of a fleet that come from different threads may reach a browser in
  another order than they entered the ring, so its last word of a fleet need not
  be the fleet's (`scripts/run_fleet.py:1221`, `control_server.py:175`).
* "A killed stale process's watcher must not clobber the new run"
  (`control_server.py:503`), but between the kill and `_proc = proc` that watcher is
  current, and its `error` can replace the new run's `pending`; and a watcher past
  its check reports over the newer run. Of an installer only the shell is killed;
  two companions can race for the port file.
* The watchers of railway, docker and the login have no `except`: one that raises
  leaves `pending`, as does a vendor's script that hangs. A creation whose `railway`
  hangs (no time-out, `hostadmin/railway.py:99`, `503`) answers every later one that a
  deploy is in progress.
* A creation that could not confirm its configuration says that the server is
  "still on its DEFAULT config" and that contributors "would run the WRONG
  challenge" (`hostadmin/swarm.py:465`, `1371`). A first boot has applied the
  challenge from the environment, so it runs the right one; missing can only be
  sub-configurations whose blob it could not read, with no second attempt since
  the sentinel is set (`server/db.py:831`). That is what `RunsWhatWasAsked` says.
* A creation that is run again forgets which names were issued and revoked
  (`hostadmin/swarm.py:1082`). Seeds verified while a rollout is under way can be
  verified on the container about to go, and the creation prints "verified" then
  too; `SettledSeedsStay` excludes that.

## 6. Not modelled, and the plan

Part by part in `PROJECT.json`, "components". Whole parts: the challenge registry
and request models (static), prompts and parsing (text), dashboard and control UI
(presentation; what they are given is in `PublishLedger` and `Membership`), the
optimisation problems themselves (data), packaging and prose. Of modelled parts:
read-only listings and statistics, tier classification and the draw of a seed by
a fresh start, the wizard, `clean` and the forms of the companion, validation and
encryption in the runner, the overall score (a function of the track means),
messages, failure records and distilled lessons.

What would come next:

1. The lessons and failure records of a dying trajectory, and the draw of a seed.
2. A challenge in `ContributorLoop`'s answers, once the loop compares it.
