--------------------------- MODULE MainnetBaseline ---------------------------
(***************************************************************************)
(* Measuring the mainnet algorithm on the swarm's own instances.           *)
(*                                                                         *)
(* The server cannot benchmark.  The host's Measure button provisions an   *)
(* unscored copy of the algorithm in the inactive pool and marks the       *)
(* challenge's row `requested'; the first agent whose poll wins the claim  *)
(* is pulled off its trajectory, adopts the copy, benchmarks it unchanged  *)
(* and publishes, and the publish is recognised as the measurement.  The   *)
(* button is three awaits (read, fetch and deposit, request), a poll is    *)
(* three (check, claim, reset); other resets consume the same pool, a seed *)
(* request can change the recorded algorithm, and the host can edit the    *)
(* instance set at any time.                                               *)
(*                                                                         *)
(* One challenge.  An algorithm's code stands for its fingerprint.  Scored *)
(* pool entries and the score values play no part here: see TrajectoryPool.*)
(***************************************************************************)
EXTENDS Naturals, FiniteSets

CONSTANTS
    Agents,
    Algos,         \* algorithms that can be mainnet's top adoption
    OtherSeeds,    \* unscored seeds that are no mainnet algorithm
    Nothing,       \* NULL
    MaxPresses,    \* bound: presses of the Measure button
    MaxExpiries,   \* bound: claims that outlive their TTL
    MaxConfigs     \* bound: edits of tracks or timeout

Codes == Algos \cup OtherSeeds

ASSUME BaselineAssumption ==
    /\ IsFiniteSet(Agents) /\ IsFiniteSet(Algos) /\ IsFiniteSet(OtherSeeds)
    /\ Nothing \notin Agents \cup Codes
    /\ Algos \cap OtherSeeds = {}
    /\ MaxPresses \in Nat /\ MaxExpiries \in Nat /\ MaxConfigs \in Nat

VARIABLES
    row,       \* the challenge's mainnet_baselines row
    pool,      \* unscored rows of inactive_algorithms, by code
    agent,     \* what each agent's current poll or benchmark is doing
    button,    \* where the Measure handler is
    config,    \* version of the challenge's tracks and timeout
    presses, expiries,
    pulls      \* history: claims won

baselineVars == <<row, pool, agent, button, config, presses, expiries, pulls>>

Configs == 0 .. MaxConfigs

\* What a benchmark really ran: a code, under the configuration the agent had
\* synced when it took the code on.
Runs == [code : Codes, config : Configs]

\* `stale' is benchmarked_at < the claim's TTL cutoff, `stamp' is
\* config_fingerprint, `score' stands for the run the score came from.
Row == [status : {"absent", "pending", "requested", "measuring", "ready",
                  "unavailable"},
        algo   : Algos \cup {Nothing},
        by     : Agents \cup {Nothing},
        stale  : BOOLEAN,
        stamp  : Configs \cup {Nothing},
        score  : Runs \cup {Nothing}]

\* working: on a line with a best; checked, claimed: as far as its poll has
\* come; seeded: benchmarking `run' unchanged; blank: on a line without a best.
Agent == [phase : {"working", "checked", "claimed", "seeded", "blank"},
          run   : Runs \cup {Nothing}]

BaselineTypeOK ==
    /\ row \in Row
    /\ pool \in SUBSET Codes
    /\ agent \in [Agents -> Agent]
    /\ button \in {"idle", "fetching", "asking"}
    /\ config \in Configs
    /\ presses \in 0 .. MaxPresses
    /\ expiries \in 0 .. MaxExpiries
    /\ pulls \in Nat

In(phase) == [phase |-> phase, run |-> Nothing]

-----------------------------------------------------------------------------
(* Statements on the row.                                                  *)

NoRow == [status |-> "absent", algo |-> Nothing, by |-> Nothing,
          stale |-> FALSE, stamp |-> Nothing, score |-> Nothing]

\* record_mainnet_algorithm: a new algorithm makes the row pending again.
AlgoRecorded(algo) ==
    IF row.algo = algo THEN row ELSE [NoRow EXCEPT !.status = "pending",
                                                   !.algo = algo]

\* mark_mainnet_baseline_unavailable: only the status of an existing row.
Unavailable == [row EXCEPT !.status = "unavailable"]

\* The button's UPDATE; config_fingerprint keeps its value.
Requested == [row EXCEPT !.status = "requested", !.by = Nothing,
                         !.stale = FALSE, !.score = Nothing]

\* Variant: the status list of the capture grown by `ready'.
UnmeasuredOrReady == {"pending", "requested", "measuring", "ready"}
MAINNET_UNMEASURED == {"pending", "requested", "measuring"}

\* _pooled_mainnet_entry_exists
PooledMainnetEntry == row.algo # Nothing /\ row.algo \in pool

\* _mainnet_measurement_claimable
Claimable == row.status \in {"requested", "measuring"} /\ PooledMainnetEntry

\* The WHERE of the claim; the variant takes a claim over that still runs.
TakesAny == row.status \in {"requested", "measuring"}
Takes == row.status = "requested" \/ (row.status = "measuring" /\ row.stale)

ClaimedBy(a) ==
    [row EXCEPT !.status = "measuring", !.by = a, !.stale = FALSE]

\* Is a seed_baseline publish of `code' by a the measurement?  Byte identity
\* may be lost on the way through the worktree; the claim is the other way.
Recognised(a, code, intact) ==
    \/ intact /\ code = row.algo
    \/ row.status = "measuring" /\ row.by = a

\* set_mainnet_baseline_score
Scored(a, run) ==
    [row EXCEPT !.status = "ready", !.score = run, !.stamp = config, !.by = a,
                !.stale = FALSE]

-----------------------------------------------------------------------------
BaselineInit ==
    /\ row = NoRow
    /\ pool = {}
    /\ agent = [a \in Agents |-> In("working")]
    /\ button = "idle"
    /\ config = 0
    /\ presses = 0 /\ expiries = 0 /\ pulls = 0

\* admin_measure_mainnet_baseline: is there anything to provision?
PressMeasure ==
    /\ button = "idle"
    /\ presses < MaxPresses
    /\ presses' = presses + 1
    /\ button' = IF PooledMainnetEntry THEN "asking" ELSE "fetching"
    /\ UNCHANGED <<row, pool, agent, config, expiries, pulls>>

\* The fetch: record and deposit in one transaction, or nothing compatible.
Provision ==
    /\ button = "fetching"
    /\ \/ /\ row' = Unavailable
          /\ button' = "idle"
          /\ UNCHANGED pool
       \/ \E algo \in Algos :
             /\ row' = AlgoRecorded(algo)
             /\ pool' = pool \cup {algo}
             /\ button' = "asking"
    /\ UNCHANGED <<agent, config, presses, expiries, pulls>>

Request ==
    /\ button = "asking"
    /\ row' = Requested
    /\ button' = "idle"
    /\ UNCHANGED <<pool, agent, config, presses, expiries, pulls>>

\* admin_seed_from_mainnet, and seed_inactive with a mainnet name: record, and
\* deposit if the target is the inactive pool; or record the absence.
SeedFromMainnet ==
    /\ \/ row' = Unavailable /\ UNCHANGED pool
       \/ \E algo \in Algos :
             /\ row' = AlgoRecorded(algo)
             /\ pool' \in {pool, pool \cup {algo}}
    /\ UNCHANGED <<agent, button, config, presses, expiries, pulls>>

\* admin_seed_inactive with anything else.
SeedInactive(s) ==
    /\ s \notin pool
    /\ pool' = pool \cup {s}
    /\ UNCHANGED <<row, agent, button, config, presses, expiries, pulls>>

\* The host edits tracks or timeout.
EditConfig ==
    /\ config < MaxConfigs
    /\ config' = config + 1
    /\ UNCHANGED <<row, pool, agent, button, presses, expiries, pulls>>

\* A poll of an agent that is not due for a reset and has a best to bank.
CheckClaimable(a) ==
    /\ agent[a].phase = "working"
    /\ Claimable
    /\ agent' = [agent EXCEPT ![a] = In("checked")]
    /\ UNCHANGED <<row, pool, button, config, presses, expiries, pulls>>

\* claim_mainnet_measurement and its commit.
Claim(a) ==
    /\ agent[a].phase = "checked"
    /\ \/ /\ Takes
          /\ row' = ClaimedBy(a)
          /\ agent' = [agent EXCEPT ![a] = In("claimed")]
          /\ pulls' = pulls + 1
       \/ /\ ~Takes
          /\ agent' = [agent EXCEPT ![a] = In("working")]
          /\ UNCHANGED <<row, pulls>>
    /\ UNCHANGED <<pool, button, config, presses, expiries>>

\* The unscored entries _pick_inactive may return: the mainnet entry if it is
\* asked for and there, otherwise any.
Picks == IF Claimable THEN {row.algo} ELSE pool

\* The reset's transaction.  It takes an unscored entry, or -- unless the
\* mainnet entry is preferred -- a scored one, or starts afresh.
Reset(a) ==
    /\ \/ \E code \in Picks :
             /\ pool' = pool \ {code}
             /\ agent' = [agent EXCEPT ![a] =
                            [phase |-> "seeded",
                             run |-> [code |-> code, config |-> config]]]
       \/ /\ agent' = [agent EXCEPT ![a] = In("blank")]
          /\ UNCHANGED pool
       \/ /\ ~Claimable
          /\ agent' = [agent EXCEPT ![a] = In("working")]
          /\ UNCHANGED pool
    /\ UNCHANGED <<row, button, config, presses, expiries, pulls>>

ForcedReset(a) == agent[a].phase = "claimed" /\ Reset(a)

\* Stagnation or a negative cull.
OrdinaryReset(a) == agent[a].phase = "working" /\ Reset(a)

\* The SEED-BENCH publish with its capture: the benchmark can fail, and an
\* infeasible run is ignored and leaves no best.
PublishSeed(a) ==
    /\ agent[a].phase = "seeded"
    /\ \/ /\ agent' = [agent EXCEPT ![a] = In("blank")]
          /\ UNCHANGED row
       \/ /\ agent' = [agent EXCEPT ![a] = In("working")]
          /\ \E intact \in BOOLEAN :
                row' = IF /\ row.status \in MAINNET_UNMEASURED
                          /\ row.algo # Nothing
                          /\ Recognised(a, agent[a].run.code, intact)
                       THEN Scored(a, agent[a].run)
                       ELSE row
    /\ UNCHANGED <<pool, button, config, presses, expiries, pulls>>

\* A publish of mutated code: neither the hash nor the tag matches.
PublishOwn(a) ==
    /\ agent[a].phase = "blank"
    /\ agent' = [agent EXCEPT ![a] = In("working")]
    /\ UNCHANGED <<row, pool, button, config, presses, expiries, pulls>>

\* _MEASUREMENT_CLAIM_TTL_SECS pass.
Expire ==
    /\ row.status = "measuring" /\ ~row.stale
    /\ expiries < MaxExpiries
    /\ expiries' = expiries + 1
    /\ row' = [row EXCEPT !.stale = TRUE]
    /\ UNCHANGED <<pool, agent, button, config, presses, pulls>>

\* A contributor's process dies and returns: it is told nothing about the seed
\* it had adopted and goes on from it.
AgentRestart(a) ==
    /\ agent[a].phase = "seeded"
    /\ agent' = [agent EXCEPT ![a] = In("blank")]
    /\ UNCHANGED <<row, pool, button, config, presses, expiries, pulls>>

\* The server restarts: handlers in flight are gone, committed rows are not.
ServerRestart ==
    /\ button' = "idle"
    /\ agent' = [a \in Agents |-> IF agent[a].phase \in {"checked", "claimed"}
                                  THEN In("working") ELSE agent[a]]
    /\ UNCHANGED <<row, pool, config, presses, expiries, pulls>>

BaselineNext ==
    \/ PressMeasure \/ Provision \/ Request
    \/ SeedFromMainnet \/ EditConfig \/ Expire \/ ServerRestart
    \/ \E s \in OtherSeeds : SeedInactive(s)
    \/ \E a \in Agents :
          \/ CheckClaimable(a) \/ Claim(a) \/ ForcedReset(a) \/ OrdinaryReset(a)
          \/ PublishSeed(a) \/ PublishOwn(a) \/ AgentRestart(a)

BaselineSpec == BaselineInit /\ [][BaselineNext]_baselineVars

-----------------------------------------------------------------------------
\* A press costs the swarm one trajectory, not one per polling agent; only a
\* claim that outlived its TTL is paid for again ("Without a claim, every agent
\* polling for state would be handed the same forced reset").
PullsAreAsked == pulls <= presses + expiries

\* No publish overwrites a measurement: whoever benchmarks the algorithm later,
\* and whatever claims are still out, a score only goes when the button, or a
\* new mainnet algorithm, clears it ("must not overwrite a real measurement").
ScoreIsKept ==
    [][row.score # Nothing /\ row'.score # row.score
         => row'.score = Nothing /\ row'.status \in {"requested", "pending"}]_baselineVars
=============================================================================
