------------------------- MODULE PublishLedgerProofs -------------------------
(***************************************************************************)
(* The ledger, for any agents, programs and scores, any settings of the    *)
(* seed pool, and any number of publishes, resets and deposits in flight.  *)
(***************************************************************************)
EXTENDS PublishLedger, TLAPS

\* What a publish writes is a row of its table.
LEMMA RecordedTyped ==
    ASSUME TypeOK, NEW r \in publishing
    PROVE  Recorded(r) \in Experiment
<1>1. r \in Request
  BY DEF TypeOK
<1>2. resets \in Nat /\ published \in Nat
  BY DEF TypeOK
<1>3. published + 1 \in Nat
  BY <1>2
<1>4. QED
  BY <1>1, <1>2, <1>3 DEF Recorded, Request, Experiment

\* best_ever_score is NULL or a score.
LEMMA RatchetedTyped ==
    ASSUME TypeOK, NEW r \in publishing
    PROVE  Ratcheted(r) \in [Agents -> Scores \cup {NoBest}]
<1>1. r \in Request
  BY DEF TypeOK
<1>2. ScoreOf[r.program] \in Scores
  BY <1>1 DEF Request, Scores
<1>3. personal \in [Agents -> Scores \cup {NoBest}]
  BY DEF TypeOK
<1>4. QED
  BY <1>2, <1>3 DEF Ratcheted

\* A harvest leaves rows of the seed pool.
LEMMA HarvestTyped ==
    ASSUME TypeOK, NEW r \in publishing, Harvest(r)
    PROVE  seeds' \subseteq Seed
<1>1. r.program \in Programs
  BY DEF TypeOK, Request
<1>2. [source |-> "harvested", program |-> r.program] \in Seed
  BY <1>1 DEF Seed
<1>3. seeds \subseteq Seed
  BY DEF TypeOK
<1>4. QED
  BY <1>2, <1>3 DEF Harvest

LEMMA TypeInit ==
    ASSUME Init
    PROVE  TypeOK
<1>1. clock \in 1 .. MaxTime /\ epoch \in 0 .. MaxTime
  <2>0. MaxTime \in Nat \ {0}
    BY LedgerAssumption DEF LedgerAssumption
  <2>1. MaxTime \in Nat /\ MaxTime >= 1
    BY <2>0
  <2>2. clock = 1 /\ epoch = 0
    BY DEF Init
  <2>3. QED
    BY <2>1, <2>2
<1>2. personal \in [Agents -> Scores \cup {NoBest}]
  BY DEF Init
<1>3. QED
  BY <1>1, <1>2 DEF Init, TypeOK

LEMMA TypeStep ==
    ASSUME TypeOK, [Next]_vars
    PROVE  TypeOK'
<1>1. CASE Tick
  <2>1. MaxTime \in Nat
    BY LedgerAssumption DEF LedgerAssumption
  <2>2. clock' = clock + 1 /\ clock < MaxTime /\ clock \in 1 .. MaxTime
    BY <1>1 DEF Tick, TypeOK
  <2>3. clock' \in 1 .. MaxTime
    BY <2>1, <2>2
  <2>4. QED
    BY <1>1, <2>3 DEF Tick, TypeOK, tables, requests
<1>2. CASE \E a \in Agents : Stamp(a)
  <2>1. PICK a \in Agents : Stamp(a)
    BY <1>2
  <2>2. PICK p \in Programs, feasible \in BOOLEAN :
          publishing' = publishing \cup
            {[agent |-> a, program |-> p, feasible |-> feasible, at |-> clock]}
    BY <2>1 DEF Stamp
  <2>3. [agent |-> a, program |-> p, feasible |-> feasible, at |-> clock]
          \in Request
    BY DEF TypeOK, Request
  <2>4. publishing' \subseteq Request
    BY <2>2, <2>3 DEF TypeOK
  <2>5. asked' \in Nat
    BY <2>1 DEF Stamp, TypeOK
  <2>6. QED
    BY <2>1, <2>4, <2>5 DEF Stamp, TypeOK, tables
<1>3. CASE \E r \in publishing : Publish(r)
  <2>1. PICK r \in publishing : Publish(r)
    BY <1>3
  <2>2. Recorded(r) \in Experiment
    BY RecordedTyped
  <2>3. experiments' \subseteq Experiment /\ history' \subseteq experiments'
    BY <2>1, <2>2 DEF Publish, TypeOK
  <2>4. personal' \in [Agents -> Scores \cup {NoBest}]
    BY <2>1, RatchetedTyped DEF Publish
  <2>5. seeds' \subseteq Seed
    BY <2>1, HarvestTyped DEF Publish
  <2>6. publishing' \subseteq Request
    BY <2>1 DEF Publish, TypeOK
  <2>7. published' \in Nat
    BY <2>1 DEF Publish, TypeOK
  <2>8. QED
    BY <2>1, <2>3, <2>4, <2>5, <2>6, <2>7 DEF Publish, TypeOK
<1>4. CASE \E r \in publishing : Fail(r)
  BY <1>4 DEF Fail, TypeOK, tables
<1>5. CASE StampReset
  BY <1>5 DEF StampReset, TypeOK, tables
<1>6. CASE \E t \in resetting : ResetChallenge(t)
  <2>1. PICK t \in resetting : ResetChallenge(t)
    BY <1>6
  <2>2. t \in 1 .. MaxTime /\ MaxTime \in Nat
    BY LedgerAssumption DEF TypeOK, LedgerAssumption
  <2>3. epoch' \in 0 .. MaxTime
    BY <2>1, <2>2 DEF ResetChallenge
  <2>4. resets' \in Nat
    BY <2>1 DEF ResetChallenge, TypeOK
  <2>5. QED
    BY <2>1, <2>3, <2>4 DEF ResetChallenge, TypeOK
<1>7. CASE \E t \in resetting : FailReset(t)
  BY <1>7 DEF FailReset, TypeOK, tables
<1>8. CASE \E tag \in Tags : ReadSeeds(tag)
  <2>1. PICK tag \in Tags : ReadSeeds(tag)
    BY <1>8
  <2>2. depositing' \subseteq Deposit
    BY <2>1 DEF ReadSeeds, TypeOK, Deposit
  <2>3. deposits' \in Nat
    BY <2>1 DEF ReadSeeds, TypeOK
  <2>4. QED
    BY <2>1, <2>2, <2>3 DEF ReadSeeds, TypeOK, tables
<1>9. CASE \E d \in depositing : WriteSeed(d)
  <2>1. PICK d \in depositing : WriteSeed(d)
    BY <1>9
  <2>2. d \in Deposit
    BY DEF TypeOK
  <2>3. [source |-> "authored", tag |-> d.tag, program |-> d.program] \in Seed
    BY <2>2 DEF Deposit, Seed
  <2>4. seeds' \subseteq Seed
    BY <2>1, <2>3 DEF WriteSeed, TypeOK
  <2>5. QED
    BY <2>1, <2>4 DEF WriteSeed, TypeOK
<1>10. CASE UNCHANGED vars
  BY <1>10 DEF vars, TypeOK
<1>11. QED
  BY <1>1, <1>2, <1>3, <1>4, <1>5, <1>6, <1>7, <1>8, <1>9, <1>10 DEF Next

\* Every variable holds what its column or queue can hold.
THEOREM LedgerTyped == Spec => []TypeOK
<1>1. Init => TypeOK
  BY TypeInit
<1>2. TypeOK /\ [Next]_vars => TypeOK'
  BY TypeStep
<1>3. QED
  BY <1>1, <1>2, PTL DEF Spec

-----------------------------------------------------------------------------
(* The chart and the gate.                                                 *)

\* No row is ahead of the counters; history holds feasible rows, and only of
\* the running era, since a reset deletes it.
Ordered ==
    /\ \A e \in experiments : e.id <= published /\ e.era <= resets
    /\ \A h \in history : h.feasible /\ h.era = resets

Ledger == TypeOK /\ Ordered /\ HistoryAgrees

LEMMA LedgerInit ==
    ASSUME Init
    PROVE  Ledger
  BY TypeInit DEF Init, Ledger, Ordered, HistoryAgrees, Counted

\* Steps that leave the tables of the ledger alone.
LEMMA LedgerSame ==
    ASSUME Ledger, TypeOK',
           UNCHANGED <<experiments, history, epoch, resets, published>>
    PROVE  Ledger'
  BY DEF Ledger, Ordered, HistoryAgrees, Counted, AfterEpoch, Score

LEMMA LedgerPublish ==
    ASSUME Ledger, TypeOK', NEW r \in publishing, Publish(r)
    PROVE  Ledger'
<1> DEFINE new == Recorded(r)
<1>1. /\ experiments' = experiments \cup {new}
      /\ history' = IF IsNewBest(r) THEN history \cup {new} ELSE history
      /\ epoch' = epoch /\ resets' = resets /\ published' = published + 1
  BY DEF Publish
<1>2. /\ new.id = published + 1 /\ new.era = resets /\ new.at = r.at
      /\ new.feasible = r.feasible /\ new.program = r.program
  BY DEF Recorded
<1>3. published \in Nat /\ resets \in Nat
  BY DEF Ledger, TypeOK
<1>4. \A e \in experiments : e.id \in Nat /\ e.era \in Nat /\ e.program \in Programs
  BY DEF Ledger, TypeOK, Experiment
<1>5. r.program \in Programs
  BY DEF Ledger, TypeOK, Request
<1>6. \A p \in Programs : ScoreOf[p] \in Int
  BY LedgerAssumption DEF LedgerAssumption
<1>7. Ordered'
  <2>1. \A e \in experiments' : e.id <= published' /\ e.era <= resets'
    BY <1>1, <1>2, <1>3, <1>4 DEF Ledger, Ordered
  <2>2. IsNewBest(r) => r.feasible
    BY DEF IsNewBest
  <2>3. \A h \in history' : h.feasible /\ h.era = resets'
    BY <1>1, <1>2, <2>2 DEF Ledger, Ordered
  <2>4. QED
    BY <2>1, <2>3 DEF Ordered
<1>8. \A h, g \in history' :
        h.id < g.id /\ AfterEpoch(h.at) /\ AfterEpoch(g.at) => Score(h) < Score(g)
  <2> SUFFICES ASSUME NEW h \in history', NEW g \in history',
                      h.id < g.id, AfterEpoch(h.at), AfterEpoch(g.at)
               PROVE  Score(h) < Score(g)
    OBVIOUS
  <2>1. h \in history
    <3>1. h \in experiments' /\ g \in experiments'
      BY DEF TypeOK
    <3>2. g.id <= published + 1
      BY <1>1, <1>7, <3>1 DEF Ordered
    <3>3. h.id # published + 1
      BY <1>1, <1>2, <1>3, <1>4, <3>1, <3>2
    <3>4. QED
      BY <1>1, <1>2, <3>3
  <2>2. CASE g \in history
    BY <2>1, <2>2 DEF Ledger, HistoryAgrees
  <2>3. CASE g \notin history
    <3>1. g = new /\ IsNewBest(r)
      BY <1>1, <2>3
    <3>2. h \in Counted
      BY <2>1 DEF Ledger, Ordered, TypeOK, Counted
    <3>3. ScoreOf[r.program] > Score(h)
      BY <3>1, <3>2 DEF IsNewBest
    <3>4. Score(g) = ScoreOf[r.program]
      BY <1>2, <3>1 DEF Score
    <3>5. Score(h) \in Int /\ ScoreOf[r.program] \in Int
      BY <1>4, <1>5, <1>6, <3>2 DEF Counted, Score
    <3>6. QED
      BY <3>3, <3>4, <3>5
  <2>4. QED
    BY <2>2, <2>3
<1>9. Counted' = Counted \cup (IF r.feasible /\ AfterEpoch(r.at)
                               THEN {new} ELSE {})
  BY <1>1, <1>2 DEF Counted, AfterEpoch
<1>10. \A e \in Counted' : \E w \in Counted' :
         Score(w) >= Score(e) /\ (w \in history' \/ w.era < resets')
  <2> SUFFICES ASSUME NEW e \in Counted'
               PROVE  \E w \in Counted' :
                  Score(w) >= Score(e) /\ (w \in history' \/ w.era < resets')
    OBVIOUS
  <2>1. \A c \in Counted : \E w \in Counted :
          Score(w) >= Score(c) /\ (w \in history \/ w.era < resets)
    BY DEF Ledger, HistoryAgrees
  <2>2. \A c \in Counted : c \in Counted' /\ Score(c) \in Int
    BY <1>4, <1>6, <1>9 DEF Counted, Score
  <2>3. CASE e \in Counted
    BY <1>1, <2>1, <2>2, <2>3
  <2>4. CASE e \notin Counted /\ IsNewBest(r)
    <3>1. e = new /\ e \in history'
      BY <1>1, <1>9, <2>4
    <3>2. Score(e) \in Int
      BY <1>2, <1>5, <1>6, <3>1 DEF Score
    <3>3. QED
      BY <3>1, <3>2
  <2>5. CASE e \notin Counted /\ ~ IsNewBest(r)
    <3>1. e = new /\ r.feasible
      BY <1>9, <2>5
    <3>2. PICK c \in Counted : ~ (ScoreOf[r.program] > Score(c))
      BY <2>5, <3>1 DEF IsNewBest
    <3>3. PICK w \in Counted :
            Score(w) >= Score(c) /\ (w \in history \/ w.era < resets)
      BY <2>1
    <3>4. Score(e) = ScoreOf[r.program] /\ Score(e) \in Int
      BY <1>2, <1>5, <1>6, <3>1 DEF Score
    <3>5. Score(w) >= Score(e)
      BY <2>2, <3>2, <3>3, <3>4
    <3>6. QED
      BY <1>1, <2>2, <3>3, <3>5
  <2>6. QED
    BY <2>3, <2>4, <2>5
<1>11. HistoryAgrees'
  BY <1>8, <1>10, <1>1 DEF HistoryAgrees, AfterEpoch, Score
<1>12. QED
  BY <1>7, <1>11 DEF Ledger

LEMMA LedgerReset ==
    ASSUME Ledger, TypeOK', NEW t \in resetting, ResetChallenge(t)
    PROVE  Ledger'
<1>1. /\ experiments' = experiments /\ history' = {}
      /\ resets' = resets + 1 /\ published' = published
  BY DEF ResetChallenge
<1>2. resets \in Nat /\ \A e \in experiments : e.era \in Nat /\ e.program \in Programs
  BY DEF Ledger, TypeOK, Experiment
<1>3. \A e \in experiments : e.era < resets'
  BY <1>1, <1>2 DEF Ledger, Ordered
<1>4. Ordered'
  BY <1>1, <1>2, <1>3 DEF Ledger, Ordered
<1>5. \A e \in Counted' : Score(e) >= Score(e)
  <2>1. \A e \in experiments : ScoreOf[e.program] \in Int
    BY <1>2, LedgerAssumption DEF LedgerAssumption
  <2>2. QED
    BY <1>1, <2>1 DEF Counted, Score
<1>6. HistoryAgrees'
  BY <1>1, <1>3, <1>5 DEF HistoryAgrees, Counted
<1>7. QED
  BY <1>4, <1>6 DEF Ledger

LEMMA LedgerStep ==
    ASSUME Ledger, [Next]_vars
    PROVE  Ledger'
<1>1. TypeOK'
  BY TypeStep DEF Ledger
<1>2. CASE \E r \in publishing : Publish(r)
  BY <1>1, <1>2, LedgerPublish
<1>3. CASE \E t \in resetting : ResetChallenge(t)
  BY <1>1, <1>3, LedgerReset
<1>4. CASE Tick \/ StampReset
  BY <1>1, <1>4, LedgerSame DEF Tick, StampReset, tables
<1>5. CASE \E a \in Agents : Stamp(a)
  BY <1>1, <1>5, LedgerSame DEF Stamp, tables
<1>6. CASE \E r \in publishing : Fail(r)
  BY <1>1, <1>6, LedgerSame DEF Fail, tables
<1>7. CASE \E t \in resetting : FailReset(t)
  BY <1>1, <1>7, LedgerSame DEF FailReset, tables
<1>8. CASE \E tag \in Tags : ReadSeeds(tag)
  BY <1>1, <1>8, LedgerSame DEF ReadSeeds, tables
<1>9. CASE \E d \in depositing : WriteSeed(d)
  BY <1>1, <1>9, LedgerSame DEF WriteSeed
<1>10. CASE UNCHANGED vars
  BY <1>1, <1>10, LedgerSame DEF vars
<1>11. QED
  BY <1>2, <1>3, <1>4, <1>5, <1>6, <1>7, <1>8, <1>9, <1>10 DEF Next

\* The chart's rows that count improve strictly, and account for every score
\* that counts but those whose row a reset overtook.
THEOREM ChartAgrees == Spec => []HistoryAgrees
<1>1. Init => Ledger
  BY LedgerInit
<1>2. Ledger /\ [Next]_vars => Ledger'
  BY LedgerStep
<1>3. Ledger => HistoryAgrees
  BY DEF Ledger
<1>4. QED
  BY <1>1, <1>2, <1>3, PTL DEF Spec

-----------------------------------------------------------------------------
(* Personal bests.                                                         *)

\* The agent's feasible publishes since the last reset.
Mine(a) == {e \in experiments : e.agent = a /\ e.feasible /\ e.era = resets}

Records == Ledger /\ OwnBests

LEMMA RecordsInit ==
    ASSUME Init
    PROVE  Records
  BY LedgerInit DEF Init, Records, OwnBests, AgentExperiments

LEMMA RecordsSame ==
    ASSUME Records, Ledger', UNCHANGED <<experiments, personal, resets>>
    PROVE  Records'
  BY DEF Records, OwnBests, AgentExperiments, Score

LEMMA RecordsPublish ==
    ASSUME Records, Ledger', NEW r \in publishing, Publish(r)
    PROVE  Records'
<1> DEFINE new == Recorded(r)
<1>1. /\ experiments' = experiments \cup {new} /\ resets' = resets
      /\ personal' = Ratcheted(r)
  BY DEF Publish
<1>2. /\ new.agent = r.agent /\ new.era = resets
      /\ new.feasible = r.feasible /\ new.program = r.program
  BY DEF Recorded
<1>3. r.program \in Programs /\ r.agent \in Agents
  BY DEF Records, Ledger, TypeOK, Request
<1>4. ScoreOf[r.program] \in Int
  BY <1>3, LedgerAssumption DEF LedgerAssumption
<1>5. Score(new) = ScoreOf[r.program]
  BY <1>2 DEF Score
<1>6. NoBest \notin Int
  BY LedgerAssumption DEF LedgerAssumption
<1> SUFFICES ASSUME NEW a \in Agents
             PROVE  /\ personal'[a] = NoBest <=> Mine(a)' = {}
                    /\ personal'[a] # NoBest =>
                         /\ \E e \in Mine(a)' : Score(e) = personal'[a]
                         /\ \A e \in Mine(a)' : Score(e) <= personal'[a]
  BY DEF Records, OwnBests, AgentExperiments, Mine, Score
<1>7. /\ personal[a] = NoBest <=> Mine(a) = {}
      /\ personal[a] # NoBest =>
           /\ \E e \in Mine(a) : Score(e) = personal[a]
           /\ \A e \in Mine(a) : Score(e) <= personal[a]
  BY DEF Records, OwnBests, AgentExperiments, Mine
<1>8. \A e \in Mine(a) : Score(e) \in Int
  BY LedgerAssumption DEF LedgerAssumption, Mine, Records, Ledger, TypeOK, Experiment, Score
<1>9. Mine(a)' = Mine(a) \cup (IF r.feasible /\ a = r.agent THEN {new} ELSE {})
  BY <1>1, <1>2 DEF Mine
<1>10. personal \in [Agents -> Scores \cup {NoBest}]
  BY DEF Records, Ledger, TypeOK
<1>11. CASE ~ r.feasible \/ a # r.agent
  <2>1. Mine(a)' = Mine(a)
    BY <1>9, <1>11
  <2>2. personal'[a] = personal[a]
    BY <1>1, <1>3, <1>10, <1>11 DEF Ratcheted
  <2>3. QED
    BY <1>7, <2>1, <2>2
<1>12. CASE r.feasible /\ a = r.agent
  <2>1. Mine(a)' = Mine(a) \cup {new}
    BY <1>9, <1>12
  <2>2. CASE personal[a] = NoBest
    <3>1. Mine(a)' = {new}
      BY <1>7, <2>1, <2>2
    <3>2. personal'[a] = Score(new)
      BY <1>1, <1>5, <1>10, <1>12, <2>2 DEF Ratcheted, Above
    <3>3. QED
      BY <1>4, <1>5, <1>6, <3>1, <3>2
  <2>3. CASE personal[a] # NoBest /\ ScoreOf[r.program] > personal[a]
    <3>1. personal'[a] = Score(new)
      BY <1>1, <1>5, <1>10, <1>12, <2>3 DEF Ratcheted, Above
    <3>2. PICK c \in Mine(a) : Score(c) = personal[a]
      BY <1>7, <2>3
    <3>3. \A e \in Mine(a) : Score(e) <= Score(new)
      BY <1>4, <1>5, <1>7, <1>8, <2>3, <3>2
    <3>4. QED
      BY <1>4, <1>5, <1>6, <2>1, <3>1, <3>3
  <2>4. CASE personal[a] # NoBest /\ ~ (ScoreOf[r.program] > personal[a])
    <3>1. personal'[a] = personal[a]
      BY <1>1, <1>10, <1>12, <2>4 DEF Ratcheted, Above
    <3>2. PICK c \in Mine(a) : Score(c) = personal[a]
      BY <1>7, <2>4
    <3>3. Score(new) <= personal[a]
      BY <1>4, <1>5, <1>8, <2>4, <3>2
    <3>4. QED
      BY <1>7, <2>1, <2>4, <3>1, <3>2, <3>3
  <2>5. QED
    BY <2>2, <2>3, <2>4
<1>13. QED
  BY <1>11, <1>12

LEMMA RecordsReset ==
    ASSUME Records, Ledger', NEW t \in resetting, ResetChallenge(t)
    PROVE  Records'
<1>1. /\ experiments' = experiments /\ resets' = resets + 1
      /\ personal' = [a \in Agents |-> NoBest]
  BY DEF ResetChallenge
<1>2. resets \in Nat /\ \A e \in experiments : e.era \in Nat /\ e.era <= resets
  BY DEF Records, Ledger, Ordered, TypeOK, Experiment
<1>3. \A e \in experiments : e.era # resets'
  BY <1>1, <1>2
<1>4. QED
  BY <1>1, <1>3 DEF Records, OwnBests, AgentExperiments

LEMMA RecordsStep ==
    ASSUME Records, [Next]_vars
    PROVE  Records'
<1>1. Ledger'
  BY LedgerStep DEF Records
<1>2. CASE \E r \in publishing : Publish(r)
  BY <1>1, <1>2, RecordsPublish
<1>3. CASE \E t \in resetting : ResetChallenge(t)
  BY <1>1, <1>3, RecordsReset
<1>4. CASE Tick \/ StampReset
  BY <1>1, <1>4, RecordsSame DEF Tick, StampReset, tables
<1>5. CASE \E a \in Agents : Stamp(a)
  BY <1>1, <1>5, RecordsSame DEF Stamp, tables
<1>6. CASE \E r \in publishing : Fail(r)
  BY <1>1, <1>6, RecordsSame DEF Fail, tables
<1>7. CASE \E t \in resetting : FailReset(t)
  BY <1>1, <1>7, RecordsSame DEF FailReset, tables
<1>8. CASE \E tag \in Tags : ReadSeeds(tag)
  BY <1>1, <1>8, RecordsSame DEF ReadSeeds, tables
<1>9. CASE \E d \in depositing : WriteSeed(d)
  BY <1>1, <1>9, RecordsSame DEF WriteSeed
<1>10. CASE UNCHANGED vars
  BY <1>1, <1>10, RecordsSame DEF vars
<1>11. QED
  BY <1>2, <1>3, <1>4, <1>5, <1>6, <1>7, <1>8, <1>9, <1>10 DEF Next

\* Where the stamps tell the eras apart, a best row that counts has its score
\* on the leaderboard's first line and in the chart.
LEMMA BestIsShown ==
    ASSUME Records, Settled, NEW b \in GlobalBest
    PROVE  /\ Leaders # {}
           /\ \A a \in Leaders : personal[a] = Score(b)
           /\ \E h \in experiments \cap history :
                Score(h) = Score(b) /\ \A g \in Replay : Score(g) <= Score(h)
<1>1. /\ b \in Counted /\ b \in experiments /\ b.feasible
      /\ b.era = resets /\ b.agent \in Agents
      /\ \A c \in Counted : Score(c) <= Score(b)
  BY DEF GlobalBest, Counted, Settled, Records, Ledger, TypeOK, Experiment
<1>2. \A e \in experiments : Score(e) \in Int
  BY LedgerAssumption DEF LedgerAssumption, Records, Ledger, TypeOK, Experiment, Score
<1>3. NoBest \notin Int
  BY LedgerAssumption DEF LedgerAssumption
<1>4. \A a \in Agents :
        /\ personal[a] = NoBest <=> Mine(a) = {}
        /\ personal[a] # NoBest =>
             /\ \E e \in Mine(a) : Score(e) = personal[a]
             /\ \A e \in Mine(a) : Score(e) <= personal[a]
  BY DEF Records, OwnBests, AgentExperiments, Mine
<1>5. \A a \in Agents : Mine(a) \subseteq Counted /\ Mine(a) \subseteq experiments
  BY DEF Mine, Counted, Settled
<1>6. \A a \in Agents : personal[a] # NoBest =>
        personal[a] \in Int /\ personal[a] <= Score(b)
  <2> SUFFICES ASSUME NEW a \in Agents, personal[a] # NoBest
               PROVE  personal[a] \in Int /\ personal[a] <= Score(b)
    OBVIOUS
  <2>1. PICK e \in Mine(a) : Score(e) = personal[a]
    BY <1>4
  <2>2. QED
    BY <1>1, <1>2, <1>5, <2>1
<1>7. personal[b.agent] = Score(b)
  <2>1. b \in Mine(b.agent)
    BY <1>1 DEF Mine
  <2>2. personal[b.agent] # NoBest /\ Score(b) <= personal[b.agent]
    BY <1>1, <1>4, <2>1
  <2>3. QED
    BY <1>1, <1>2, <1>6, <2>2
<1>8. b.agent \in Leaderboard
  BY <1>1 DEF Leaderboard, AgentExperiments
<1>9. Leaderboard \subseteq Agents
  BY DEF Leaderboard
<1>10. b.agent \in Leaders
  BY <1>1, <1>2, <1>3, <1>6, <1>7, <1>8, <1>9 DEF Leaders
<1>11. \A a \in Leaders : personal[a] = Score(b)
  <2> SUFFICES ASSUME NEW a \in Leaders
               PROVE  personal[a] = Score(b)
    OBVIOUS
  <2>1. personal[a] # NoBest /\ Score(b) <= personal[a]
    BY <1>1, <1>2, <1>3, <1>7, <1>8 DEF Leaders
  <2>2. a \in Agents
    BY <1>9 DEF Leaders
  <2>3. QED
    BY <1>1, <1>2, <1>6, <2>1, <2>2
<1>12. PICK w \in Counted :
         Score(w) >= Score(b) /\ (w \in history \/ w.era < resets)
  BY <1>1 DEF Records, Ledger, HistoryAgrees
<1>13. w \in experiments /\ w.era = resets /\ Score(w) = Score(b)
  BY <1>1, <1>2, <1>12 DEF Counted, Settled
<1>14. w \in history
  BY <1>12, <1>13 DEF Records, Ledger, TypeOK
<1>15. \A g \in Replay : Score(g) <= Score(w)
  BY <1>1, <1>13 DEF Replay, Records, Ledger, Ordered, TypeOK, Counted, Settled
<1>16. QED
  BY <1>10, <1>11, <1>13, <1>14, <1>15

\* And nothing is shown anywhere unless something counts.
LEMMA RecordsShown ==
    ASSUME Records, Settled
    PROVE  OneBestShown
<1>1. ASSUME NEW a \in Leaders, personal[a] # NoBest
      PROVE  Counted # {}
  <2>1. a \in Agents
    BY DEF Leaders, Leaderboard
  <2>2. PICK e \in AgentExperiments(a) : e.feasible /\ e.era = resets
    BY <1>1, <2>1 DEF Records, OwnBests
  <2>3. e \in Counted
    BY <2>2 DEF AgentExperiments, Counted, Settled
  <2>4. QED
    BY <2>3
<1>2. Replay # {} => Counted # {}
  BY DEF Replay, Records, Ledger, Ordered, TypeOK, Counted, Settled
<1>3. QED
  BY <1>1, <1>2, BestIsShown DEF OneBestShown, DashboardState

\* best_ever_score is the agent's own best of the running era.
THEOREM PersonalRecord == Spec => []PersonalBests
<1>1. Init => Records
  BY RecordsInit
<1>2. Records /\ [Next]_vars => Records'
  BY RecordsStep
<1>3. Records => PersonalBests
  BY RecordsShown DEF Records, PersonalBests
<1>4. QED
  BY <1>1, <1>2, <1>3, PTL DEF Spec

-----------------------------------------------------------------------------
(* The seed pool.                                                          *)

Pool == TypeOK /\ HarvestsDiffer

LEMMA PoolHarvest ==
    ASSUME Pool, NEW r \in publishing, Harvest(r)
    PROVE  HarvestsDiffer'
<1> DEFINE new == [source |-> "harvested", program |-> r.program]
<1>1. r.program \in Programs
  BY DEF Pool, TypeOK, Request
<1>2. \A s \in seeds : s.program \in Programs
  BY DEF Pool, TypeOK, Seed
<1>3. CASE UNCHANGED seeds
  BY <1>3 DEF Pool, HarvestsDiffer
<1>4. CASE Harvestable(r) /\ seeds' \subseteq seeds \cup {new}
  <2>1. \A s \in seeds : Likeness[r.program, s.program] < Threshold
    BY <1>4 DEF Harvestable, Novel
  <2>2. \A s \in seeds : Likeness[s.program, r.program] < Threshold
    <3>1. \A p, q \in Programs : Likeness[p, q] = Likeness[q, p]
      BY LedgerAssumption DEF LedgerAssumption
    <3>2. QED
      BY <1>1, <1>2, <2>1, <3>1
  <2> SUFFICES ASSUME NEW s \in seeds', NEW t \in seeds',
                      s.source = "harvested", t.source = "harvested", s # t
               PROVE  Likeness[s.program, t.program] < Threshold
    BY DEF HarvestsDiffer
  <2>3. CASE s \in seeds /\ t \in seeds
    BY <2>3 DEF Pool, HarvestsDiffer
  <2>4. CASE s = new /\ t \in seeds
    BY <2>1, <2>4
  <2>5. CASE s \in seeds /\ t = new
    BY <2>2, <2>5
  <2>6. QED
    BY <1>4, <2>3, <2>4, <2>5
<1>5. QED
  BY <1>3, <1>4 DEF Harvest

LEMMA PoolDeposit ==
    ASSUME Pool, NEW d \in depositing, WriteSeed(d)
    PROVE  HarvestsDiffer'
<1> DEFINE new == [source |-> "authored", tag |-> d.tag,
                   program |-> d.program]
<1>1. seeds' \subseteq seeds \cup {new}
  BY DEF WriteSeed
<1>2. new.source # "harvested"
  OBVIOUS
<1>3. QED
  BY <1>1, <1>2 DEF Pool, HarvestsDiffer

LEMMA PoolStep ==
    ASSUME Pool, [Next]_vars
    PROVE  Pool'
<1>1. TypeOK'
  BY TypeStep DEF Pool
<1>2. CASE \E r \in publishing : Publish(r)
  BY <1>1, <1>2, PoolHarvest DEF Publish, Pool
<1>3. CASE \E d \in depositing : WriteSeed(d)
  BY <1>1, <1>3, PoolDeposit DEF Pool
<1>4. CASE UNCHANGED seeds
  BY <1>1, <1>4 DEF Pool, HarvestsDiffer
<1>5. CASE \E t \in resetting : ResetChallenge(t)
  BY <1>4, <1>5 DEF ResetChallenge
<1>6. CASE Tick \/ StampReset
  BY <1>4, <1>6 DEF Tick, StampReset, tables
<1>7. CASE \E a \in Agents : Stamp(a)
  BY <1>4, <1>7 DEF Stamp, tables
<1>8. CASE \E r \in publishing : Fail(r)
  BY <1>4, <1>8 DEF Fail, tables
<1>9. CASE \E t \in resetting : FailReset(t)
  BY <1>4, <1>9 DEF FailReset, tables
<1>10. CASE \E tag \in Tags : ReadSeeds(tag)
  BY <1>4, <1>10 DEF ReadSeeds, tables
<1>11. CASE UNCHANGED vars
  BY <1>4, <1>11 DEF vars
<1>12. QED
  BY <1>2, <1>3, <1>5, <1>6, <1>7, <1>8, <1>9, <1>10, <1>11 DEF Next

\* No two harvested seeds are alike.
THEOREM HarvestsApart == Spec => []HarvestsDiffer
<1>1. Init => Pool
  BY TypeInit DEF Init, Pool, HarvestsDiffer
<1>2. Pool /\ [Next]_vars => Pool'
  BY PoolStep
<1>3. Pool => HarvestsDiffer
  BY DEF Pool
<1>4. QED
  BY <1>1, <1>2, <1>3, PTL DEF Spec
=============================================================================
