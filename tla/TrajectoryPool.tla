--------------------------- MODULE TrajectoryPool ---------------------------
(***************************************************************************)
(* The trajectory life cycle of the swarm server.                          *)
(*                                                                         *)
(* An agent working on a challenge extends a trajectory, a line of code    *)
(* that is edited publish by publish.  A trajectory that stalls is taken   *)
(* from its agent and its best code is deposited in the challenge's        *)
(* inactive pool, from which another reset adopts it (consume once).  An   *)
(* agent that goes silent loses its trajectory to a periodic sweep.  Four  *)
(* handlers race for the same rows: GET /api/state (poll, and the reset    *)
(* machine it may run), POST /api/iterations (publish), the heartbeat, and *)
(* the sweep; the host's admin requests come on top.                       *)
(*                                                                         *)
(* Every handler's write transaction is one action.  What a handler reads  *)
(* before it takes the write lock and uses after it is kept in variables:  *)
(* `waiting' and `forced' are polls that passed the pre-check and queue    *)
(* for the reset's BEGIN IMMEDIATE, `sweep' is the sweep's row snapshot.   *)
(*                                                                         *)
(* Time is abstracted to `fresh': is last_active_at at or after the sweep  *)
(* cutoff?  Scores are integers, larger is better.                         *)
(***************************************************************************)
EXTENDS Integers, FiniteSets, FiniteSetsExt

CONSTANTS
    Agents,           \* contributors' agent ids
    Loyal,            \* keys polled for ever; a loop may stop or move on
    Challenges,       \* challenge names
    MaxTrajectories,  \* bound: trajectory ids that can be created
    Scores,           \* scores a benchmark can return
    StagnationLimit,  \* swarm setting stagnation_limit, 0 disables
    NegativeLimit,    \* swarm setting negative_trajectory_limit, 0 disables
    MaxWaiting,       \* bound: polls of one agent queued for the write lock
    MaxSeeds,         \* bound: unscored admin seeds pooled per challenge
    MaxEras,          \* bound: reset_challenge requests per challenge
    NoScore,          \* SQL NULL in a score column
    NoBest            \* no trajectory_bests row

ASSUME ConstantsAssumption ==
    /\ IsFiniteSet(Agents)
    /\ IsFiniteSet(Challenges) /\ Challenges # {}
    /\ Loyal \subseteq Agents \X Challenges
    /\ MaxTrajectories \in Nat
    /\ Scores \subseteq Int
    /\ StagnationLimit \in Nat
    /\ NegativeLimit \in Nat
    /\ MaxWaiting \in Nat
    /\ MaxSeeds \in Nat
    /\ MaxEras \in Nat
    /\ NoScore \notin Scores
    /\ NoBest \notin [traj : 0 .. MaxTrajectories, score : Scores,
                   feasible : BOOLEAN, whole : BOOLEAN]

Keys == Agents \X Challenges
ChallengeOf(k) == k[2]

NoTraj == 0
TrajIds == 1 .. MaxTrajectories

\* One row of the trajectories table.  num_edits is only ever compared with
\* NegativeLimit, so it saturates there; `era' is a history field: the scoring
\* era in which the current score was earned.
Row == [status        : {"unborn", "active", "inactive"},
        challenge     : Challenges,
        score         : Scores \cup {NoScore},
        edits         : 0 .. NegativeLimit,
        agents        : Nat,
        deactivations : Nat,
        era           : 0 .. MaxEras]

\* `whole': are the modules beside the entry file stored with it?  A bundle is
\* the column algorithm_files (migration 17), NULL for a single file.  Every
\* algorithm here has modules to lose; one of a single file is always whole.
Best == [traj : TrajIds \cup {NoTraj}, score : Scores, feasible : BOOLEAN,
         whole : BOOLEAN]

\* A row of inactive_algorithms; its code stands for the trajectory it is from.
Entry == [challenge : Challenges,
          traj      : TrajIds \cup {NoTraj},
          score     : Scores \cup {NoScore},
          whole     : BOOLEAN]

VARIABLES
    ptr,      \* agent_challenge_state.current_trajectory_id
    rsi,      \* .runs_since_improvement, saturating at StagnationLimit
    fresh,    \* .last_active_at >= the sweep's cutoff
    recent,   \* the challenge whose row of this agent was bumped last
    best,     \* trajectory_bests
    traj,     \* trajectories
    pool,     \* inactive_algorithms, as a bag: how many rows hold an entry
    waiting,  \* polls of the key queued for the reset's write lock
    forced,   \* a poll that won the mainnet claim is queued for that lock
    sweep,    \* the sweep's snapshot of (key, trajectory) rows
    era,      \* scoring eras begun by reset_challenge
    purged,   \* history: trajectories whose pool entry the host deleted
    swept,    \* history: trajectories the sweep banked, not improved since
    edited    \* history: has the key published since its last reset?

vars == <<ptr, rsi, fresh, recent, best, traj, pool, waiting, forced, sweep,
          era, purged, swept, edited>>

Idle == [on |-> FALSE, rows |-> {}]

TypeOK ==
    /\ ptr \in [Keys -> TrajIds \cup {NoTraj}]
    /\ rsi \in [Keys -> 0 .. StagnationLimit]
    /\ fresh \in [Keys -> BOOLEAN]
    /\ recent \in [Agents -> SUBSET Challenges]
    /\ best \in [Keys -> Best \cup {NoBest}]
    /\ traj \in [TrajIds -> Row]
    /\ pool \in [Entry -> Nat]
    /\ waiting \in [Keys -> 0 .. MaxWaiting]
    /\ forced \in [Keys -> BOOLEAN]
    /\ sweep \in [on : BOOLEAN, rows : SUBSET (Keys \X TrajIds)]
    /\ era \in [Challenges -> 0 .. MaxEras]
    /\ purged \in SUBSET TrajIds
    /\ swept \in SUBSET TrajIds
    /\ edited \in [Keys -> BOOLEAN]

-----------------------------------------------------------------------------
(* The rows as each handler writes them.                                   *)

Unborn(c) == [status |-> "unborn", challenge |-> c, score |-> NoScore,
              edits |-> 0, agents |-> 0, deactivations |-> 0, era |-> 0]

Saturated(n, limit) == IF n < limit THEN n ELSE limit

\* create_trajectory: the creator counts as the first agent.
Created(c, score, e) ==
    [status |-> "active", challenge |-> c, score |-> score, edits |-> 0,
     agents |-> 1, deactivations |-> 0, era |-> e]

\* Variants: the bump of num_deactivations forgotten; the row left active.
SilentlyDeactivated(row) == [row EXCEPT !.status = "inactive"]
StillActive(row) == row

\* deactivate_trajectory: idempotent, an inactive row is not bumped twice.
Deactivated(row) ==
    IF row.status = "active"
    THEN [row EXCEPT !.status = "inactive",
                     !.deactivations = row.deactivations + 1]
    ELSE row

\* reactivate_trajectory, then increment_trajectory_agents.
Joined(row) == [row EXCEPT !.status = "active", !.agents = row.agents + 1]

\* update_trajectory_after_edit.
Edited(row, improved, score, e) ==
    [row EXCEPT !.edits = Saturated(row.edits + 1, NegativeLimit),
                !.score = IF improved THEN score ELSE row.score,
                !.era = IF improved THEN e ELSE row.era]

Seed(c) == [challenge |-> c, traj |-> NoTraj, score |-> NoScore, whole |-> TRUE]

\* Variant: the reset's deposit without its algorithm_files.
DepositedBare(k) ==
    [challenge |-> ChallengeOf(k), traj |-> ptr[k], score |-> best[k].score,
     whole |-> FALSE]

\* The row a reset would insert for the best held by k ...
Deposited(k) ==
    [challenge |-> ChallengeOf(k), traj |-> ptr[k], score |-> best[k].score,
     whole |-> best[k].whole]

\* ... and the sweep: its call hands on no algorithm_files.
SweptOff(k) == [Deposited(k) EXCEPT !.whole = FALSE]

\* Whether deposit_inactive inserts one: both callers ask for a feasible best, and
\* deposit_inactive itself refuses a negative score.
Banks(k) == best[k] # NoBest /\ best[k].feasible /\ best[k].score >= 0

\* Variant of Pooled: a pick without the challenge filter.
PooledAnywhere(c) == {e \in Entry : pool[e] > 0}

\* The rows of the pool that a reset on challenge c can pick.
Pooled(c) == {e \in Entry : e.challenge = c /\ pool[e] > 0}

\* remove_inactive; the variant forgets it.
NotConsumed(p, e) == p
Consumed(p, e) == [p EXCEPT ![e] = p[e] - 1]

\* The floor an adopter inherits; the variant starts every adopter from nothing.
NoFloor(e) == NoBest
AdoptedBest(e) ==
    IF e.score = NoScore THEN NoBest
    ELSE [traj |-> e.traj, score |-> e.score, feasible |-> TRUE,
          whole |-> e.whole]

TrajectoriesOf(c, tr) ==
    {t \in TrajIds : tr[t].status # "unborn" /\ tr[t].challenge = c}

TotalDeactivations(c, tr) ==
    MapThenSumSet(LAMBDA t : tr[t].deactivations, TrajectoriesOf(c, tr))

\* The diversity rule N^1.5 < D over the challenge's trajectories.
NeedsDiversity(c, tr) ==
    LET n == Cardinality(TrajectoriesOf(c, tr))
        d == TotalDeactivations(c, tr)
    IN  n * n * n < d * d

Stagnated(k) ==
    /\ StagnationLimit > 0
    /\ rsi[k] >= StagnationLimit
    /\ best[k] # NoBest

NegativeCull(k) ==
    /\ NegativeLimit > 0
    /\ best[k] # NoBest
    /\ ptr[k] # NoTraj
    /\ ~(best[k].score > 0)
    /\ traj[ptr[k]].edits >= NegativeLimit

ResetDue(k) == Stagnated(k) \/ NegativeCull(k)

\* The condition as evaluated again under the write lock; the variant trusts the
\* pre-check and only asks that there is something to deposit.
DueAtPrecheck(k) == best[k] # NoBest

\* Variant: a reset waits until there is a line to adopt.
DueWithPool(k) ==
    ResetDue(k) /\ \E e \in Entry : e.challenge = ChallengeOf(k) /\ pool[e] > 0
StillDue(k) == ResetDue(k)

-----------------------------------------------------------------------------
Init ==
    /\ ptr = [k \in Keys |-> NoTraj]
    /\ rsi = [k \in Keys |-> 0]
    /\ fresh = [k \in Keys |-> FALSE]
    /\ recent = [a \in Agents |-> {}]
    /\ best = [k \in Keys |-> NoBest]
    /\ traj = [t \in TrajIds |-> Unborn(CHOOSE c \in Challenges : TRUE)]
    /\ pool = [e \in Entry |-> 0]
    /\ waiting = [k \in Keys |-> 0]
    /\ forced = [k \in Keys |-> FALSE]
    /\ sweep = Idle
    /\ era = [c \in Challenges |-> 0]
    /\ purged = {}
    /\ swept = {}
    /\ edited = [k \in Keys |-> FALSE]

\* ensure_agent_challenge_state: insert the row if missing, bump it anyway.
Bump(k) ==
    /\ fresh' = [fresh EXCEPT ![k] = TRUE]
    /\ recent' = [recent EXCEPT ![k[1]] = {k[2]}]

\* GET /api/state up to the commit of its bump and the pre-check that follows:
\* a due key queues for the reset lock; otherwise a poll may win the mainnet
\* claim, which it only tries for with a best to bank and an unscored entry to
\* adopt; otherwise it only serves code.
Poll(k) ==
    /\ Bump(k)
    /\ \/ /\ ResetDue(k)
          /\ waiting[k] < MaxWaiting
          /\ waiting' = [waiting EXCEPT ![k] = waiting[k] + 1]
          /\ UNCHANGED forced
       \/ /\ ~ResetDue(k)
          /\ best[k] # NoBest
          /\ pool[Seed(ChallengeOf(k))] > 0
          /\ forced' = [forced EXCEPT ![k] = TRUE]
          /\ UNCHANGED waiting
       \/ /\ ~ResetDue(k)
          /\ UNCHANGED <<waiting, forced>>
    /\ UNCHANGED <<ptr, rsi, best, traj, pool, sweep, era, purged, swept, edited>>

\* The reset machine's transaction once its re-check has passed.  The pick is
\* made before the deposit, so an agent never re-adopts what it deposits.
Reset(k) ==
    LET c    == ChallengeOf(k)
        down == IF ptr[k] = NoTraj THEN traj
                ELSE [traj EXCEPT ![ptr[k]] = Deactivated(traj[ptr[k]])]
        Bank(p) == IF Banks(k)
                   THEN [p EXCEPT ![Deposited(k)] = p[Deposited(k)] + 1]
                   ELSE p
        goFresh == Pooled(c) = {} \/ NeedsDiversity(c, down)
    IN  /\ \/ /\ goFresh
              /\ ptr' = [ptr EXCEPT ![k] = NoTraj]
              /\ best' = [best EXCEPT ![k] = NoBest]
              /\ traj' = down
              /\ pool' = Bank(pool)
           \/ /\ ~goFresh
              /\ \E e \in Pooled(c) :
                    /\ ptr' = [ptr EXCEPT ![k] = e.traj]
                    /\ best' = [best EXCEPT ![k] = AdoptedBest(e)]
                    /\ traj' = IF e.traj = NoTraj THEN down
                               ELSE [down EXCEPT ![e.traj] =
                                                    Joined(down[e.traj])]
                    /\ pool' = Bank(Consumed(pool, e))
        /\ rsi' = [rsi EXCEPT ![k] = 0]
        /\ edited' = [edited EXCEPT ![k] = FALSE]

\* maybe_reset_trajectory for a stagnating poll.  The stagnation condition is
\* evaluated again under the write lock; the loser of a race does nothing.
ResetTxn(k) ==
    /\ waiting[k] > 0
    /\ waiting' = [waiting EXCEPT ![k] = waiting[k] - 1]
    /\ \/ StillDue(k) /\ Reset(k)
       \/ ~StillDue(k) /\ UNCHANGED <<ptr, rsi, best, traj, pool, edited>>
    /\ UNCHANGED <<fresh, recent, forced, sweep, era, purged, swept>>

\* maybe_reset_trajectory with force_reason: any best will do.
ForcedResetTxn(k) ==
    /\ forced[k]
    /\ forced' = [forced EXCEPT ![k] = FALSE]
    /\ \/ best[k] # NoBest /\ Reset(k)
       \/ best[k] = NoBest /\ UNCHANGED <<ptr, rsi, best, traj, pool, edited>>
    /\ UNCHANGED <<fresh, recent, waiting, sweep, era, purged, swept>>

\* A feasible score that improves on the key's own best, if it has one.
BeatsTrajectoryBest(k, score, feasible) ==
    /\ feasible
    /\ \/ best[k] = NoBest
       \/ score > best[k].score

\* Variant: a refactor is recorded at its own, lower score.
RefactoredBest(k, t, score, feasible, refactor) ==
    IF BeatsTrajectoryBest(k, score, feasible) \/ refactor
    THEN [traj |-> t, score |-> score, feasible |-> feasible, whole |-> TRUE]
    ELSE best[k]

\* What a publish leaves in the trajectory_bests row: the new best, the
\* refactored code at the parent's score, or the row as it was.
BestAfter(k, t, score, feasible, refactor) ==
    IF BeatsTrajectoryBest(k, score, feasible)
    THEN [traj |-> t, score |-> score, feasible |-> feasible, whole |-> TRUE]
    ELSE IF refactor
         THEN [traj |-> t, score |-> best[k].score, feasible |-> feasible,
               whole |-> TRUE]
         ELSE best[k]

\* POST /api/iterations.  The agent's trajectory is the pointer's, or a new one
\* on its first publish.
Publish(k, score, feasible, refactor) ==
    LET c     == ChallengeOf(k)
        beats == BeatsTrajectoryBest(k, score, feasible)
        row(t) == IF ptr[k] = NoTraj
                  THEN Created(c, IF beats THEN score ELSE NoScore, era[c])
                  ELSE traj[t]
    IN  /\ refactor => feasible /\ best[k] # NoBest /\ ~beats
        /\ Bump(k)
        /\ \E t \in TrajIds :
              /\ t = ptr[k] \/ (ptr[k] = NoTraj /\ traj[t].status = "unborn"
                                /\ \A u \in 1 .. t - 1 : traj[u].status # "unborn")
              /\ ptr' = [ptr EXCEPT ![k] = t]
              /\ traj' = [traj EXCEPT ![t] = Edited(row(t), beats, score, era[c])]
              /\ best' = [best EXCEPT ![k] =
                             BestAfter(k, t, score, feasible, refactor)]
              /\ swept' = IF beats \/ refactor THEN swept \ {t} ELSE swept
        /\ rsi' = [rsi EXCEPT ![k] =
                      IF beats THEN 0
                      ELSE IF refactor THEN rsi[k]
                           ELSE Saturated(rsi[k] + 1, StagnationLimit)]
        /\ edited' = [edited EXCEPT ![k] = TRUE]
        /\ UNCHANGED <<pool, waiting, forced, sweep, era, purged>>

\* POST /api/agents/{id}/heartbeat keeps only the most recent row alive.
Heartbeat(a) ==
    /\ \E c \in recent[a] : fresh' = [fresh EXCEPT ![<<a, c>>] = TRUE]
    /\ UNCHANGED <<ptr, rsi, recent, best, traj, pool, waiting, forced, sweep,
                   era, purged, swept, edited>>

\* Time passes: the row falls behind the cutoff.  A row that does so while a
\* sweep is under way is not stale for that sweep, whose cutoff is fixed.
GoSilent(k) ==
    /\ fresh[k]
    /\ ~sweep.on
    /\ waiting[k] = 0
    /\ ~forced[k]
    /\ fresh' = [fresh EXCEPT ![k] = FALSE]
    /\ UNCHANGED <<ptr, rsi, recent, best, traj, pool, waiting, forced, sweep,
                   era, purged, swept, edited>>

\* The sweep's SELECT, in autocommit: no lock is held after it.
SweepSnapshot ==
    /\ ~sweep.on
    /\ sweep' = [on |-> TRUE,
                 rows |-> {r \in Keys \X TrajIds :
                              ~fresh[r[1]] /\ ptr[r[1]] = r[2]}]
    /\ UNCHANGED <<ptr, rsi, fresh, recent, best, traj, pool, waiting, forced,
                   era, purged, swept, edited>>

\* Variant: the swap compares the pointer but not last_active_at.
VictimsOfSnapshot ==
    {k \in Keys : ptr[k] # NoTraj /\ <<k, ptr[k]>> \in sweep.rows}

\* Variant: the sweep asks for rows that are both in its snapshot and active
\* again, so that no silent agent ever qualifies.
VictimsAwake ==
    {k \in Keys : ptr[k] # NoTraj /\ <<k, ptr[k]>> \in sweep.rows /\ fresh[k]}

\* The compare-and-swap on each snapshot row: still silent, same trajectory.
SweepVictims ==
    {k \in Keys : ptr[k] # NoTraj /\ <<k, ptr[k]>> \in sweep.rows /\ ~fresh[k]}

\* The sweep's transaction over all snapshot rows.  A trajectory that another
\* live agent holds is left active; the counters of the row are not reset.
SweepApply ==
    LET victims == SweepVictims
        freed   == {t \in TrajIds : /\ \E k \in victims : ptr[k] = t
                                    /\ ~\E j \in Keys : ptr[j] = t /\ fresh[j]}
        From(e) == {k \in victims : Banks(k) /\ SweptOff(k) = e}
    IN  /\ sweep.on
        /\ sweep' = Idle
        /\ ptr' = [k \in Keys |-> IF k \in victims THEN NoTraj ELSE ptr[k]]
        /\ best' = [k \in Keys |-> IF k \in victims THEN NoBest ELSE best[k]]
        /\ traj' = [t \in TrajIds |-> IF t \in freed THEN Deactivated(traj[t])
                                      ELSE traj[t]]
        /\ pool' = [e \in Entry |-> pool[e] + Cardinality(From(e))]
        /\ swept' = swept \cup {ptr[k] : k \in {j \in victims : Banks(j)}}
        /\ UNCHANGED <<rsi, fresh, recent, waiting, forced, era, purged, edited>>

\* The server restarts: what was in flight is gone, the database is not.
Restart ==
    /\ waiting' = [k \in Keys |-> 0]
    /\ forced' = [k \in Keys |-> FALSE]
    /\ sweep' = Idle
    /\ UNCHANGED <<ptr, rsi, fresh, recent, best, traj, pool, era, purged,
                   swept, edited>>

\* POST /api/admin/seed_inactive: an unscored entry that no trajectory is behind.
SeedInactive(c) ==
    /\ pool[Seed(c)] < MaxSeeds
    /\ pool' = [pool EXCEPT ![Seed(c)] = pool[Seed(c)] + 1]
    /\ UNCHANGED <<ptr, rsi, fresh, recent, best, traj, waiting, forced, sweep,
                   era, purged, swept, edited>>

\* POST /api/admin/clear_inactive.  A keep_source_label spares the rows of one
\* depositor; who deposited is left out, so any rows may be his.
ClearInactive(c) ==
    \E gone \in SUBSET Pooled(c) :
        /\ gone # {}
        /\ pool' = [e \in Entry |-> IF e \in gone THEN 0 ELSE pool[e]]
        /\ purged' = purged \cup {t \in TrajIds : \E e \in gone : e.traj = t}
        /\ UNCHANGED <<ptr, rsi, fresh, recent, best, traj, waiting, forced,
                       sweep, era, swept, edited>>

\* POST /api/admin/reset_challenge: a new scoring era.  The bests go; pointers,
\* counters, trajectories and the inactive pool stay.
ResetChallenge(c) ==
    /\ era[c] < MaxEras
    /\ era' = [era EXCEPT ![c] = era[c] + 1]
    /\ best' = [k \in Keys |-> IF ChallengeOf(k) = c THEN NoBest ELSE best[k]]
    /\ UNCHANGED <<ptr, rsi, fresh, recent, traj, pool, waiting, forced, sweep,
                   purged, swept, edited>>

Next ==
    \/ \E k \in Keys :
          \/ Poll(k)
          \/ ResetTxn(k)
          \/ ForcedResetTxn(k)
          \/ GoSilent(k)
          \/ \E s \in Scores, f \in BOOLEAN, r \in BOOLEAN : Publish(k, s, f, r)
    \/ \E a \in Agents : Heartbeat(a)
    \/ SweepSnapshot
    \/ SweepApply
    \/ Restart
    \/ \E c \in Challenges : SeedInactive(c) \/ ClearInactive(c) \/ ResetChallenge(c)

Spec == Init /\ [][Next]_vars

-----------------------------------------------------------------------------
(* What must hold.                                                         *)

\* A trajectory has one custodian: it is some agent's current trajectory, or it
\* is in the pool once, never both and never twice.  Two resets, a reset and a
\* sweep, or two adopters racing for the same rows would break this
\* (trajectory_reset.py "double-reset -- each consuming a pool seed and
\* depositing the old best twice").
OneCustodian ==
    /\ \A j, k \in Keys : ptr[j] # NoTraj /\ ptr[j] = ptr[k] => j = k
    /\ \A e \in Entry : pool[e] > 0 /\ e.traj # NoTraj =>
          /\ pool[e] = 1
          /\ \A k \in Keys : ptr[k] # e.traj
          /\ \A d \in Entry : pool[d] > 0 /\ d.traj = e.traj => d = e

\* The status column agrees with the custody: a trajectory is active exactly
\* while an agent holds it, so the sweep frees every abandoned one, and what is
\* pooled is inactive, so nobody adopts a line that is still being edited.
StatusAgrees ==
    /\ \A t \in TrajIds :
          traj[t].status = "active" <=> \E k \in Keys : ptr[k] = t
    /\ \A e \in Entry : pool[e] > 0 /\ e.traj # NoTraj =>
          traj[e.traj].status = "inactive"

\* Pointer, trajectory row and pool entry of a trajectory are all of one
\* challenge: no agent is ever handed another challenge's code.
ChallengeIsolation ==
    /\ \A k \in Keys : ptr[k] # NoTraj =>
          traj[ptr[k]].challenge = ChallengeOf(k)
    /\ \A e \in Entry : pool[e] > 0 /\ e.traj # NoTraj =>
          traj[e.traj].challenge = e.challenge

\* The score an agent must beat, the score in the pool and the trajectory's own
\* current_score agree: a refactor does not lower the bar, an adopter inherits
\* the peak, and nothing infeasible or negative is ever pooled.
FloorIsPeak ==
    /\ \A k \in Keys : best[k] # NoBest =>
          /\ best[k].feasible
          /\ best[k].traj = ptr[k] /\ ptr[k] # NoTraj
          /\ best[k].score = traj[ptr[k]].score
    /\ \A e \in Entry : pool[e] > 0 =>
          \/ e.traj = NoTraj /\ e.score = NoScore
          \/ /\ e.traj # NoTraj /\ e.score # NoScore
             /\ e.score = traj[e.traj].score
             /\ e.score >= 0

\* Every stint on a trajectory is counted once when it begins and once when it
\* ends, however resets and sweeps interleave; the N^1.5 < D rule relies on it.
StintsCounted ==
    \A t \in TrajIds :
        traj[t].agents = traj[t].deactivations
                         + IF traj[t].status = "active" THEN 1 ELSE 0

\* No score is lost: a trajectory taken from its agent whose score is not
\* negative is in the pool, unless the host deleted it there or started a new
\* scoring era (which drops the best that would have been deposited).  Resets
\* hand its modules on with the entry file, through any chain of adoptions; the
\* sweep does not (db.py:2148, against the comment at db.py:553), and what it
\* deposits stays without them until somebody publishes on the line.
WorkIsBanked ==
    \A t \in TrajIds :
        /\ traj[t].status = "inactive"
        /\ traj[t].score # NoScore
        /\ traj[t].score >= 0
        /\ traj[t].era = era[traj[t].challenge]
        /\ t \notin purged
        => \E e \in Entry : /\ pool[e] > 0 /\ e.traj = t
                            /\ e.whole \/ t \in swept

\* Whoever is on a trajectory that was scored in this era has a score to beat:
\* no path -- adoption, refactor, failed publish -- leaves a floor behind.
ScoredIsFloored ==
    \A k \in Keys : ptr[k] # NoTraj /\ best[k] = NoBest =>
        \/ traj[ptr[k]].score = NoScore
        \/ traj[ptr[k]].era < era[ChallengeOf(k)]

\* A trajectory never drifts below a peak it was handed: within a scoring era
\* its score only rises, through any sequence of deposits and adoptions.
FloorNeverDrops ==
    [][\A t \in TrajIds :
          /\ traj[t].score # NoScore
          /\ traj'[t].score # traj[t].score
          => \/ traj'[t].score > traj[t].score
             \/ traj[t].era < era[traj[t].challenge]]_vars

\* The sweep only takes a trajectory from an agent that is silent at that very
\* moment, even if it was silent when the snapshot was taken.
SweepSparesLive ==
    [][\A k \in Keys :
          sweep.on /\ ~sweep'.on /\ ptr'[k] # ptr[k] => ~fresh[k]]_vars

\* However many polls of one agent race, one stagnation is one reset: between
\* two resets of a key it has published.  (Forced resets are not earned.)
ResetNeedsPublish ==
    [][\A k \in Keys :
          waiting'[k] < waiting[k] /\ ptr'[k] # ptr[k] => edited[k]]_vars

-----------------------------------------------------------------------------
(* Fairness.  periodic_stats runs the sweep every ten seconds for as long  *)
(* as the server lives; the loop of a loyal key polls at the top of every  *)
(* iteration; a queued transaction gets the SQLite write lock.             *)
(* Strong fairness on the second halves says that a restart does not hit   *)
(* between the two halves every single time.                               *)
Fairness ==
    /\ WF_vars(SweepSnapshot)
    /\ SF_vars(SweepApply)
    /\ \A k \in Loyal : WF_vars(Poll(k))
    /\ \A k \in Keys : SF_vars(ResetTxn(k))

FairSpec == Spec /\ Fairness

\* A trajectory does not stay locked to an agent that died: unless the agent
\* comes back, the sweep takes it.
SilentReleased ==
    \A k \in Keys :
        ~fresh[k] /\ ptr[k] # NoTraj ~> fresh[k] \/ ptr[k] = NoTraj

\* A stagnating agent that keeps polling is eventually reset (or improves).
StagnationResolved ==
    \A k \in Loyal : ResetDue(k) ~> ~ResetDue(k)
=============================================================================
