------------------------------- MODULE Harness -------------------------------
(***************************************************************************)
(* The benchmark harness (scripts/benchmark.py) and the hyperparameter     *)
(* search over it (scripts/hpo.py), as functions.                          *)
(*                                                                         *)
(* A benchmark runs a window of each track's instances and sums up what    *)
(* they gave; an instance is a track and an index, which with the seed     *)
(* decides the generated file, so the cache of files on disk is left out.  *)
(* Qualities are integers, a track's mean is kept as sum and count, and    *)
(* the overall score, a function of the means, is not computed.            *)
(***************************************************************************)
EXTENDS Integers, FiniteSets, FiniteSetsExt, SequencesExt

CONSTANTS
    InfeasibleQuality,  \* INFEASIBLE_QUALITY, the bottom of the clamp
    Default             \* the configuration {}

-----------------------------------------------------------------------------
(* One benchmark.                                                          *)

\* materialize_instances: start .. start + count - 1 of every track, a track
\* without a start beginning at 0.  (Files a generator that ended well did not
\* write are skipped there; the generator is external and taken at its word.)
Window(counts, starts) ==
    LET start(t) == IF t \in DOMAIN starts THEN Max({0, starts[t]}) ELSE 0
    IN  UNION {{t} \X (start(t) .. start(t) + counts[t] - 1)
               : t \in DOMAIN counts}

\* _bench_workers: a configured number, else half the machine, at least four.
Workers(instances, configured, cpus) ==
    Min({instances, IF configured > 0 THEN configured
                    ELSE Max({4, cpus \div 2})})

\* A solver that ran out of time is judged by what it saved.  No file, an
\* evaluator that ends badly, late or without a number: infeasible.
RunInstance(id, x, run) ==
    [by |-> id, instance |-> x,
     feasible |-> run.saved /\ run.judged,
     score |-> run.score]

\* The GPU binary judges its own solution: its record, or none when it is
\* killed or fails.
RunGpuInstance(id, x, run) ==
    [by |-> id, instance |-> x,
     feasible |-> run.inTime /\ run.judged,
     score |-> run.score]

\* main: one record per instance of the window, in whatever order they end.
\* `run' says what the solver and the evaluator make of an instance.
HarnessMain(id, counts, starts, gpu, run) ==
    {IF gpu THEN RunGpuInstance(id, x, run[x]) ELSE RunInstance(id, x, run[x])
        : x \in Window(counts, starts)}

\* main returns 2: nothing to run.
NothingToRun(counts, starts) == Window(counts, starts) = {}

Quality(r) == IF r.feasible THEN r.score ELSE InfeasibleQuality

Aggregate(results) ==
    LET bad == {r \in results : ~r.feasible}
        on(t) == {r \in results : r.instance[1] = t}
    IN  [feasible |-> bad = {} /\ results # {},
         solved |-> Cardinality(results),
         infeasible |-> Cardinality(bad),
         tracks |-> [t \in {r.instance[1] : r \in results} |->
                        [sum |-> MapThenSumSet(Quality, on(t)),
                         count |-> Cardinality(on(t))]]]

-----------------------------------------------------------------------------
(* The search.                                                             *)

\* build_config_set: the default, some of the suggestions, random draws, each
\* once and n in all.
ConfigSet(suggested, draws, n, most) ==
    LET Add(configs, c) ==
            IF Len(configs) >= n \/ c \in ToSet(configs) THEN configs
            ELSE Append(configs, c)
        taken == SubSeq(suggested, 1, Min({most, Len(suggested)}))
    IN  FoldLeft(Add, <<Default>>, taken \o draws)

\* _is_better: feasibility first.
IsBetter(a, b) ==
    IF a.feasible # b.feasible THEN a.feasible ELSE a.score > b.score

\* search: the best trial by its score; a failed one has none.
GlobalBest(trials) ==
    LET Better(best, t) ==
            IF t.done /\ (~best.done \/ IsBetter(t, best)) THEN t ELSE best
        none == [config |-> Default, done |-> FALSE, feasible |-> FALSE,
                 score |-> 0, tracks |-> <<>>]
    IN  FoldLeft(Better, none, trials)

\* _per_track_winners: on each track the first of the best, by raw score.
TrackWinners(trials) ==
    LET Better(best, t) ==
            IF ~t.done THEN best
            ELSE LET wins == {k \in DOMAIN t.tracks : k \notin DOMAIN best
                                        \/ t.tracks[k] > best[k].score}
                 IN  [k \in wins \cup DOMAIN best |->
                        IF k \in wins THEN [config |-> t.config,
                                            score |-> t.tracks[k]]
                        ELSE best[k]]
        best == FoldLeft(Better, <<>>, trials)
    IN  [k \in DOMAIN best |-> best[k].config]

\* search: the trials of a set of configurations, in its order whatever order
\* they end in.
Trials(configs, outcome) ==
    [i \in DOMAIN configs |-> [config |-> configs[i]] @@ outcome[i]]
=============================================================================
