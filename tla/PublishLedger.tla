---------------------------- MODULE PublishLedger ----------------------------
(***************************************************************************)
(* What the server keeps of the publishes of one challenge.                *)
(*                                                                         *)
(* POST /api/iterations takes its timestamp first and then waits for       *)
(* SQLite's write lock; under the lock it judges the score against the     *)
(* global best and the trajectory's best, records the experiment, extends  *)
(* best_history, ratchets the agent's best_ever_score and may harvest the  *)
(* program into the seed pool.  reset_challenge takes its timestamp, also  *)
(* before its transaction, as the score epoch: experiments stamped at or   *)
(* before it no longer count.  A publish or a reset between its stamp and  *)
(* its transaction is a member of `publishing' or `resetting'.             *)
(*                                                                         *)
(* The clock is the server's; two stamps may be equal.  Scores are         *)
(* integers and larger is better (`direction' mirrors every comparison     *)
(* alike).  A program has one score; a publish varies its program and       *)
(* whether it was feasible.                                                *)
(***************************************************************************)
EXTENDS Integers, FiniteSets

CONSTANTS
    Agents,
    Frontier,       \* the agents of tier `frontier'
    Programs,
    ScoreOf,        \* the benchmark's score of a program
    Simple,         \* programs within seed_max_loc
    Likeness,       \* similarity of two programs
    Threshold,      \* swarm setting seed_similarity_threshold
    PoolSize,       \* swarm setting seed_pool_size
    Tags,           \* strategy tags of the host's authored seeds
    NoBest,         \* SQL NULL, or no row
    MaxPublishes,   \* bound: publishes asked for
    MaxResets,      \* bound: committed reset_challenge requests
    MaxInFlight,    \* bound: publishes between stamp and transaction
    MaxDeposits,    \* bound: requests of the host to deposit a seed
    MaxTime         \* bound: the clock

ASSUME LedgerAssumption ==
    /\ Frontier \subseteq Agents
    /\ ScoreOf \in [Programs -> Int]
    /\ Simple \subseteq Programs
    /\ Likeness \in [Programs \X Programs -> Int]
    /\ \A p, q \in Programs : Likeness[p, q] = Likeness[q, p]
    /\ Threshold \in Int /\ \A p \in Programs : Likeness[p, p] >= Threshold
    /\ PoolSize \in Nat
    /\ MaxPublishes \in Nat /\ MaxResets \in Nat /\ MaxTime \in Nat \ {0}
    /\ MaxInFlight \in Nat /\ MaxDeposits \in Nat
    /\ NoBest \notin Int

VARIABLES
    clock,        \* the server's clock
    experiments,  \* the experiments table
    history,      \* best_history, as the experiments it has rows of
    epoch,        \* config row score_epoch:<challenge>; 0 when there is none
    personal,     \* agent_challenge_state.best_ever_score
    seeds,        \* the feasible rows of seed_pool
    publishing,   \* publishes stamped, waiting for the write lock
    resetting,    \* stamps of resets waiting for the write lock
    depositing,   \* seed deposits that have read the pool
    deposits,     \* how many deposits were asked for
    resets,       \* history variable: resets committed
    published,    \* history variable: publishes committed
    asked         \* how many publishes were asked for

vars == <<clock, experiments, history, epoch, personal, seeds,
          publishing, resetting, depositing, deposits, resets, published,
          asked>>

\* The tables, and the requests between their stamp and their transaction.
tables == <<experiments, history, epoch, personal, seeds, resets, published>>
requests == <<publishing, resetting, depositing, deposits, asked>>

Scores == {ScoreOf[p] : p \in Programs}

Request == [agent : Agents, program : Programs, feasible : BOOLEAN,
            at : 1 .. MaxTime]

\* `id' is the order of the commits; `era' is a history field, the number of
\* resets committed before this row.
Experiment == [id : Nat, agent : Agents, program : Programs,
               feasible : BOOLEAN, at : 1 .. MaxTime, era : Nat]

\* An authored row is known by its tag; a harvested one keeps no key.
Seed == [source : {"authored"}, tag : Tags, program : Programs]
            \cup [source : {"harvested"}, program : Programs]

\* Host deposits hold the row of their tag they have read, if there was one.
NoSeed == [source |-> "none"]
Deposit == [tag : Tags, program : Programs, seen : Seed \cup {NoSeed}]

TypeOK ==
    /\ clock \in 1 .. MaxTime
    /\ experiments \subseteq Experiment
    /\ history \subseteq experiments
    /\ epoch \in 0 .. MaxTime
    /\ personal \in [Agents -> Scores \cup {NoBest}]
    /\ seeds \subseteq Seed
    /\ publishing \subseteq Request
    /\ resetting \subseteq 1 .. MaxTime
    /\ depositing \subseteq Deposit
    /\ deposits \in Nat
    /\ resets \in Nat
    /\ published \in Nat /\ asked \in Nat

-----------------------------------------------------------------------------
(* What counts, and how one publish is judged.                             *)

Score(e) == ScoreOf[e.program]

\* A score above a bar that may not exist.
Above(score, bar) == bar = NoBest \/ score > bar

\* Strictly after the epoch; with no epoch every row counts.
AfterEpoch(at) == at > epoch

\* The rows get_global_best chooses from.
Counted == {e \in experiments : e.feasible /\ AfterEpoch(e.at)}

\* Variant: feasibility forgotten.
IsNewBestUngated(r) == \A e \in Counted : ScoreOf[r.program] > Score(e)

\* _evaluate_iteration: is_new_best.
IsNewBest(r) ==
    r.feasible /\ \A e \in Counted : ScoreOf[r.program] > Score(e)

\* Variant: an infeasible score ratchets too.
RatchetedByAll(r) ==
    IF Above(ScoreOf[r.program], personal[r.agent])
    THEN [personal EXCEPT ![r.agent] = ScoreOf[r.program]] ELSE personal

\* best_ever_score: ratcheted by every feasible publish.
Ratcheted(r) ==
    IF r.feasible /\ Above(ScoreOf[r.program], personal[r.agent])
    THEN [personal EXCEPT ![r.agent] = ScoreOf[r.program]] ELSE personal

-----------------------------------------------------------------------------
(* The seed pool.                                                          *)

\* Variant: compared with authored seeds only.
NovelAmongAuthored(p) ==
    \A s \in seeds :
        s.source = "authored" => Likeness[p, s.program] < Threshold

\* decide_admission: similar to no seed of the pool.
Novel(p) == \A s \in seeds : Likeness[p, s.program] < Threshold

\* most_redundant_index: a seed whose nearest neighbour is nearest.
Redundant == {s \in seeds :
    \E t \in seeds \ {s} : \A u \in seeds : \A v \in seeds \ {u} :
        Likeness[u.program, v.program] <= Likeness[s.program, t.program]}

\* The publishes that add to the pool.
Harvestable(r) ==
    /\ r.feasible
    /\ r.agent \in Frontier
    /\ r.program \in Simple
    /\ Novel(r.program)

\* _maybe_harvest_seed: below the cap nothing is evicted; at the cap one most
\* redundant seed is, unless there are fewer than two to compare.
Harvest(r) ==
    LET harvested == [source |-> "harvested", program |-> r.program] IN
    \/ /\ ~ Harvestable(r)
       /\ UNCHANGED seeds
    \/ /\ Harvestable(r)
       /\ Cardinality(seeds) < PoolSize \/ Redundant = {}
       /\ seeds' = seeds \cup {harvested}
    \/ /\ Harvestable(r)
       /\ Cardinality(seeds) >= PoolSize
       /\ \E s \in Redundant : seeds' = (seeds \ {s}) \cup {harvested}

-----------------------------------------------------------------------------
Init ==
    /\ clock = 1
    /\ experiments = {} /\ history = {} /\ epoch = 0
    /\ personal = [a \in Agents |-> NoBest]
    /\ seeds = {}
    /\ publishing = {} /\ resetting = {} /\ depositing = {}
    /\ deposits = 0 /\ resets = 0 /\ published = 0 /\ asked = 0

Tick ==
    /\ clock < MaxTime
    /\ clock' = clock + 1
    /\ UNCHANGED <<tables, requests>>

\* create_iteration takes its timestamp and asks for the write lock.
Stamp(a) ==
    /\ Cardinality(publishing) < MaxInFlight
    /\ asked < MaxPublishes
    /\ asked' = asked + 1
    /\ \E p \in Programs, feasible \in BOOLEAN :
         publishing' = publishing \cup
             {[agent |-> a, program |-> p, feasible |-> feasible,
               at |-> clock]}
    /\ UNCHANGED <<clock, tables, resetting, depositing, deposits>>

Recorded(r) ==
    [id |-> published + 1, agent |-> r.agent,
     program |-> r.program, feasible |-> r.feasible, at |-> r.at,
     era |-> resets]

\* The transaction of create_iteration.
Publish(r) ==
    /\ published' = published + 1
    /\ publishing' = publishing \ {r}
    /\ experiments' = experiments \cup {Recorded(r)}
    /\ history' = IF IsNewBest(r) THEN history \cup {Recorded(r)} ELSE history
    /\ personal' = Ratcheted(r)
    /\ Harvest(r)
    /\ UNCHANGED <<clock, epoch, resets, resetting, depositing, deposits,
                   asked>>

\* The write lock is not had within busy_timeout, or the process dies.
Fail(r) ==
    /\ publishing' = publishing \ {r}
    /\ UNCHANGED <<clock, tables, resetting, depositing, deposits, asked>>

\* admin_reset_challenge takes its timestamp.
StampReset ==
    /\ resetting = {}
    /\ resets < MaxResets
    /\ resetting' = {clock}
    /\ UNCHANGED <<clock, tables, publishing, depositing, deposits, asked>>

\* Its transaction.
ResetChallenge(t) ==
    /\ resetting' = resetting \ {t}
    /\ history' = {}
    /\ personal' = [a \in Agents |-> NoBest]
    /\ epoch' = t
    /\ resets' = resets + 1
    /\ UNCHANGED <<clock, experiments, seeds, published, publishing,
                   depositing, deposits, asked>>

\* Or it, too, goes without the lock.
FailReset(t) ==
    /\ resetting' = resetting \ {t}
    /\ UNCHANGED <<clock, tables, publishing, depositing, deposits, asked>>

\* upsert_authored_seed reads the row of its tag outside any transaction (the
\* host deposits one seed of a tag at a time).
ReadSeeds(tag) ==
    /\ deposits < MaxDeposits
    /\ \A d \in depositing : d.tag # tag
    /\ deposits' = deposits + 1
    /\ LET rows == {s \in seeds : s.source = "authored" /\ s.tag = tag} IN
         \E p \in Programs, seen \in IF rows = {} THEN {NoSeed} ELSE rows :
            depositing' = depositing \cup
                {[tag |-> tag, program |-> p, seen |-> seen]}
    /\ UNCHANGED <<clock, tables, publishing, resetting, asked>>

\* Then it inserts, or updates the row it saw if that is still there.
WriteSeed(d) ==
    LET authored == [source |-> "authored", tag |-> d.tag,
                     program |-> d.program] IN
    /\ depositing' = depositing \ {d}
    /\ seeds' = IF d.seen = NoSeed \/ d.seen \in seeds
                THEN (seeds \ {d.seen}) \cup {authored} ELSE seeds
    /\ UNCHANGED <<clock, experiments, history, epoch, personal, resets,
                   published, publishing, resetting, deposits, asked>>

Next ==
    \/ Tick
    \/ \E a \in Agents : Stamp(a)
    \/ \E r \in publishing : Publish(r) \/ Fail(r)
    \/ StampReset
    \/ \E t \in resetting : ResetChallenge(t) \/ FailReset(t)
    \/ \E tag \in Tags : ReadSeeds(tag)
    \/ \E d \in depositing : WriteSeed(d)

Spec == Init /\ [][Next]_vars

-----------------------------------------------------------------------------
(* What the dashboard is shown.                                            *)

\* get_agent_experiments: every attempt of one agent, of every era.
AgentExperiments(a) == {e \in experiments : e.agent = a}

\* get_global_best: any of the highest rows that count.
GlobalBest == {e \in Counted : \A c \in Counted : Score(c) <= Score(e)}

\* compute_leaderboard: who has published, best_ever_score first, NULL last.
Leaderboard == {a \in Agents : AgentExperiments(a) # {}}

Leaders ==
    {a \in Leaderboard : \A b \in Leaderboard :
        personal[b] = NoBest \/ (personal[a] # NoBest /\ personal[b] <= personal[a])}

\* get_replay: the rows of the chart.
Replay == history

\* _dashboard_state: the best, its marks on the recent rows, the leaderboard.
DashboardState ==
    [best |-> GlobalBest, flagged |-> experiments \cap history,
     leaders |-> Leaders]

-----------------------------------------------------------------------------
(* Properties.                                                             *)

\* The chart and the gate agree (best_history, written by create_iteration;
\* get_global_best): among the rows of best_history that count, every later
\* one improves on every earlier one; and whatever counts is matched by a row
\* of best_history, unless by a publish whose stamp is later than the epoch
\* and whose transaction came before the reset's, which deleted its row.
HistoryAgrees ==
    /\ \A h, g \in history :
         h.id < g.id /\ AfterEpoch(h.at) /\ AfterEpoch(g.at)
            => Score(h) < Score(g)
    /\ \A e \in Counted : \E w \in Counted :
         Score(w) >= Score(e) /\ (w \in history \/ w.era < resets)

\* best_ever_score is the best the agent has itself achieved since the last
\* reset, whatever became of the trajectories: nothing infeasible, nothing of an
\* era before, and nothing lost.
OwnBests ==
    \A a \in Agents :
        LET mine == {e \in AgentExperiments(a) : e.feasible /\ e.era = resets}
        IN  /\ personal[a] = NoBest <=> mine = {}
            /\ personal[a] # NoBest =>
                 /\ \E e \in mine : Score(e) = personal[a]
                 /\ \A e \in mine : Score(e) <= personal[a]

\* No publish and reset overlapped: the stamps tell the eras apart.
Settled == \A e \in experiments : AfterEpoch(e.at) <=> e.era = resets

\* The best score of the dashboard, which comes from the experiments, is that
\* of whoever leads the leaderboard, which comes from the ratchets, and the
\* record of the chart, which comes from best_history; one shows nothing only
\* if all do (admin_reset_challenge clears or stamps each of the three).
OneBestShown ==
    LET shown == DashboardState IN
    /\ \A b \in shown.best :
         /\ shown.leaders # {}
         /\ \A a \in shown.leaders : personal[a] = Score(b)
         /\ \E h \in shown.flagged :
              Score(h) = Score(b) /\ \A g \in Replay : Score(g) <= Score(h)
    /\ (Replay # {} \/ \E a \in shown.leaders : personal[a] # NoBest)
         => Counted # {}

\* The personal bests are earned, and all that is shown agrees with them where
\* no reset was overtaken.
PersonalBests == OwnBests /\ (Settled => OneBestShown)

\* However publishes, evictions and the host's deposits interleave, no two
\* harvested seeds are alike (seed_diversity.decide_admission).
HarvestsDiffer ==
    \A s, t \in seeds :
        s.source = "harvested" /\ t.source = "harvested" /\ s # t
            => Likeness[s.program, t.program] < Threshold
=============================================================================
