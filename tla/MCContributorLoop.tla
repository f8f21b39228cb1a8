------------------------- MODULE MCContributorLoop -------------------------
(* A search over two tracks, of the default, a suggestion and a draw: any   *)
(* trial may fail or score on some of the tracks only.                      *)
EXTENDS ContributorLoop

CONSTANTS Suggested, Drawn, Tracks

Worst == -1

SmallConfigs == ConfigSet(<<Default, Suggested>>, <<Suggested, Drawn>>, 3, 2)

Scores == UNION {[S -> {0, 1}] : S \in SUBSET Tracks}

Outcomes ==
    [done : {TRUE}, feasible : BOOLEAN, score : {0, 1}, tracks : Scores]
        \cup [done : {FALSE}, feasible : {FALSE}, score : {0}, tracks : {<<>>}]

SmallTrials ==
    {Trials(SmallConfigs, o) : o \in [DOMAIN SmallConfigs -> Outcomes]}

WinnersAmong(configs) == UNION {[S -> configs] : S \in SUBSET Tracks}

\* No winner, or the same one on every track: the loop only passes them on.
SmallSearches ==
    {<<>>} \cup {[t \in Tracks |-> c] : c \in {Default, Suggested}}

\* A budget of three tries the default first and no configuration twice.  A
\* track's winner never scored below the default on it, and the best trial is
\* feasible if any is (docstrings of _per_track_winners and _is_better).
ASSUME SearchIsSound ==
    /\ SmallConfigs = <<Default, Suggested, Drawn>>
    /\ \A trials \in SmallTrials :
        LET winners == TrackWinners(trials)
            of(c) == CHOOSE i \in DOMAIN trials : trials[i].config = c
        IN  /\ winners \in WinnersAmong({Default, Suggested, Drawn})
            /\ \A t \in DOMAIN winners \cap DOMAIN trials[1].tracks :
                  trials[of(winners[t])].tracks[t] >= trials[1].tracks[t]
            /\ (\E i \in DOMAIN trials : trials[i].feasible)
                 => GlobalBest(trials).feasible
=============================================================================
