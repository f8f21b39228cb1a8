------------------------ MODULE TrajectoryPoolProofs ------------------------
(***************************************************************************)
(* Proofs about TrajectoryPool for every number of agents, challenges and  *)
(* trajectories, every set of scores and every setting of the limits.      *)
(***************************************************************************)
EXTENDS TrajectoryPool, FiniteSetTheorems, TLAPS

\* The row operators keep a row a row.
LEMMA RowTypes ==
    ASSUME NEW row \in Row
    PROVE  /\ Deactivated(row) \in Row
           /\ Joined(row) \in Row
           /\ \A improved \in BOOLEAN, s \in Scores, e \in 0 .. MaxEras :
                 Edited(row, improved, s, e) \in Row
<1>1. Deactivated(row) \in Row
  <2>1. row.deactivations + 1 \in Nat
    BY DEF Row
  <2>2. CASE row.status = "active"
    BY <2>1, <2>2 DEF Deactivated, Row
  <2>3. CASE row.status # "active"
    BY <2>3 DEF Deactivated
  <2>4. QED
    BY <2>2, <2>3
<1>2. Joined(row) \in Row
  <2>1. row.agents + 1 \in Nat
    BY DEF Row
  <2>2. QED
    BY <2>1 DEF Joined, Row
<1>3. ASSUME NEW improved \in BOOLEAN, NEW s \in Scores, NEW e \in 0 .. MaxEras
      PROVE  Edited(row, improved, s, e) \in Row
  <2>1. Saturated(row.edits + 1, NegativeLimit) \in 0 .. NegativeLimit
    BY ConstantsAssumption DEF ConstantsAssumption, Saturated, Row
  <2>2. QED
    BY <2>1 DEF Edited, Row
<1>4. QED
  BY <1>1, <1>2, <1>3

LEMMA CreatedType ==
    ASSUME NEW c \in Challenges, NEW s \in Scores \cup {NoScore},
           NEW e \in 0 .. MaxEras
    PROVE  Created(c, s, e) \in Row
BY ConstantsAssumption DEF ConstantsAssumption, Created, Row

LEMMA KeysFinite == IsFiniteSet(Keys)
BY FS_Product, ConstantsAssumption DEF ConstantsAssumption, Keys

\* What a key with a best would deposit is a row of the pool.
LEMMA DepositedType ==
    ASSUME TypeOK, NEW k \in Keys, best[k] # NoBest
    PROVE  Deposited(k) \in Entry /\ SweptOff(k) \in Entry
<1>1. best[k] \in Best /\ ptr[k] \in TrajIds \cup {NoTraj}
  BY DEF TypeOK
<1>2. ChallengeOf(k) \in Challenges
  BY DEF Keys, ChallengeOf
<1>3. QED
  BY <1>1, <1>2 DEF Deposited, SweptOff, Entry, Best

\* A reset leaves every table well typed.
LEMMA ResetTypes ==
    ASSUME TypeOK, NEW k \in Keys, best[k] # NoBest, Reset(k)
    PROVE  /\ ptr' \in [Keys -> TrajIds \cup {NoTraj}]
           /\ rsi' \in [Keys -> 0 .. StagnationLimit]
           /\ best' \in [Keys -> Best \cup {NoBest}]
           /\ traj' \in [TrajIds -> Row]
           /\ pool' \in [Entry -> Nat]
           /\ edited' \in [Keys -> BOOLEAN]
<1> DEFINE down == IF ptr[k] = NoTraj THEN traj
                   ELSE [traj EXCEPT ![ptr[k]] = Deactivated(traj[ptr[k]])]
           Bank(p) == IF Banks(k)
                      THEN [p EXCEPT ![Deposited(k)] = p[Deposited(k)] + 1]
                      ELSE p
<1>1. down \in [TrajIds -> Row]
  <2>1. CASE ptr[k] = NoTraj
    BY <2>1 DEF TypeOK
  <2>2. CASE ptr[k] # NoTraj
    <3>1. ptr[k] \in TrajIds /\ traj[ptr[k]] \in Row
      BY <2>2 DEF TypeOK
    <3>2. Deactivated(traj[ptr[k]]) \in Row
      BY <3>1, RowTypes
    <3>3. QED
      BY <2>2, <3>2 DEF TypeOK
  <2>3. QED
    BY <2>1, <2>2
<1>2. ASSUME NEW p \in [Entry -> Nat] PROVE Bank(p) \in [Entry -> Nat]
  <2>1. Deposited(k) \in Entry
    BY DepositedType
  <2>2. p[Deposited(k)] + 1 \in Nat
    BY <1>2, <2>1
  <2>3. QED
    BY <1>2, <2>2
<1>3. rsi' \in [Keys -> 0 .. StagnationLimit] /\ edited' \in [Keys -> BOOLEAN]
  <2>1. 0 \in 0 .. StagnationLimit
    BY ConstantsAssumption DEF ConstantsAssumption
  <2>2. rsi' = [rsi EXCEPT ![k] = 0] /\ edited' = [edited EXCEPT ![k] = FALSE]
    BY DEF Reset
  <2>3. QED
    BY <2>1, <2>2 DEF TypeOK
<1>4. CASE /\ ptr' = [ptr EXCEPT ![k] = NoTraj]
           /\ best' = [best EXCEPT ![k] = NoBest]
           /\ traj' = down
           /\ pool' = Bank(pool)
  BY <1>1, <1>2, <1>3, <1>4 DEF TypeOK
<1>5. ASSUME NEW e \in Pooled(ChallengeOf(k)),
             ptr' = [ptr EXCEPT ![k] = e.traj],
             best' = [best EXCEPT ![k] = AdoptedBest(e)],
             traj' = IF e.traj = NoTraj THEN down
                     ELSE [down EXCEPT ![e.traj] = Joined(down[e.traj])],
             pool' = Bank(Consumed(pool, e))
      PROVE  /\ ptr' \in [Keys -> TrajIds \cup {NoTraj}]
             /\ best' \in [Keys -> Best \cup {NoBest}]
             /\ traj' \in [TrajIds -> Row]
             /\ pool' \in [Entry -> Nat]
  <2>1. e \in Entry /\ pool[e] \in Nat /\ pool[e] > 0
    BY DEF Pooled, TypeOK
  <2>2. e.traj \in TrajIds \cup {NoTraj} /\ e.score \in Scores \cup {NoScore}
    BY <2>1 DEF Entry
  <2>3. Consumed(pool, e) \in [Entry -> Nat]
    BY <2>1 DEF Consumed, TypeOK
  <2>4. AdoptedBest(e) \in Best \cup {NoBest}
    BY <2>1, <2>2 DEF AdoptedBest, Best, Entry
  <2>5. traj' \in [TrajIds -> Row]
    BY <1>1, <1>5, <2>2, RowTypes
  <2>6. QED
    BY <1>2, <1>5, <2>2, <2>3, <2>4, <2>5 DEF TypeOK
<1>6. QED
  BY <1>3, <1>4, <1>5 DEF Reset

\* A publish writes a row of the right type, whichever trajectory it extends.
LEMMA PublishTypes ==
    ASSUME TypeOK, NEW k \in Keys, NEW s \in Scores, NEW f \in BOOLEAN,
           NEW r \in BOOLEAN, Publish(k, s, f, r)
    PROVE  /\ ptr' \in [Keys -> TrajIds \cup {NoTraj}]
           /\ rsi' \in [Keys -> 0 .. StagnationLimit]
           /\ fresh' \in [Keys -> BOOLEAN]
           /\ recent' \in [Agents -> SUBSET Challenges]
           /\ best' \in [Keys -> Best \cup {NoBest}]
           /\ traj' \in [TrajIds -> Row]
           /\ edited' \in [Keys -> BOOLEAN]
           /\ swept' \in SUBSET TrajIds
<1> DEFINE c == ChallengeOf(k)
           beats == BeatsTrajectoryBest(k, s, f)
           row(t) == IF ptr[k] = NoTraj
                     THEN Created(c, IF beats THEN s ELSE NoScore, era[c])
                     ELSE traj[t]
<1>1. c \in Challenges /\ era[c] \in 0 .. MaxEras /\ beats \in BOOLEAN
  BY DEF Keys, ChallengeOf, TypeOK, BeatsTrajectoryBest
<1>2. fresh' \in [Keys -> BOOLEAN] /\ recent' \in [Agents -> SUBSET Challenges]
  BY DEF Publish, Bump, TypeOK, Keys
<1>3. rsi' \in [Keys -> 0 .. StagnationLimit]
  <2>1. rsi[k] \in 0 .. StagnationLimit
    BY DEF TypeOK
  <2>2. Saturated(rsi[k] + 1, StagnationLimit) \in 0 .. StagnationLimit
    BY <2>1, ConstantsAssumption DEF ConstantsAssumption, Saturated
  <2>3. 0 \in 0 .. StagnationLimit
    BY ConstantsAssumption DEF ConstantsAssumption
  <2>4. QED
    BY <2>1, <2>2, <2>3 DEF Publish, TypeOK
<1>4. PICK t \in TrajIds :
        /\ ptr' = [ptr EXCEPT ![k] = t]
        /\ traj' = [traj EXCEPT ![t] = Edited(row(t), beats, s, era[c])]
        /\ best' = [best EXCEPT ![k] = BestAfter(k, t, s, f, r)]
        /\ swept' = IF beats \/ r THEN swept \ {t} ELSE swept
  BY DEF Publish
<1>5. row(t) \in Row
  <2>1. traj[t] \in Row
    BY DEF TypeOK
  <2>2. (IF beats THEN s ELSE NoScore) \in Scores \cup {NoScore}
    OBVIOUS
  <2>3. Created(c, IF beats THEN s ELSE NoScore, era[c]) \in Row
    BY <1>1, <2>2, CreatedType
  <2>4. QED
    BY <2>1, <2>3
<1>6. Edited(row(t), beats, s, era[c]) \in Row
  BY <1>1, <1>5, RowTypes
<1>7. BestAfter(k, t, s, f, r) \in Best \cup {NoBest}
  <2>1. CASE beats
    BY <2>1 DEF BestAfter, Best
  <2>2. CASE ~beats /\ r
    <3>1. best[k] \in Best
      BY <2>2 DEF Publish, TypeOK
    <3>2. QED
      BY <2>2, <3>1 DEF BestAfter, Best
  <2>3. CASE ~beats /\ ~r
    BY <2>3 DEF BestAfter, TypeOK
  <2>4. QED
    BY <2>1, <2>2, <2>3
<1>8. edited' \in [Keys -> BOOLEAN]
  BY DEF Publish, TypeOK
<1>9. swept' \in SUBSET TrajIds
  BY <1>4 DEF TypeOK
<1>10. QED
  BY <1>2, <1>3, <1>4, <1>6, <1>7, <1>8, <1>9 DEF TypeOK

\* The sweep deposits finitely many rows of each kind.
LEMMA SweepTypes ==
    ASSUME TypeOK, SweepApply
    PROVE  TypeOK'
<1> DEFINE From(e) == {k \in SweepVictims : Banks(k) /\ SweptOff(k) = e}
<1>1. ASSUME NEW e \in Entry PROVE pool[e] + Cardinality(From(e)) \in Nat
  <2>1. From(e) \subseteq Keys
    BY DEF SweepVictims
  <2>2. IsFiniteSet(From(e))
    BY <2>1, KeysFinite, FS_Subset
  <2>3. Cardinality(From(e)) \in Nat
    BY <2>2, FS_CardinalityType
  <2>4. pool[e] \in Nat
    BY DEF TypeOK
  <2>5. QED
    BY <2>3, <2>4
<1>2. pool' \in [Entry -> Nat]
  BY <1>1 DEF SweepApply
<1>3. traj' \in [TrajIds -> Row]
  <2>1. \A t \in TrajIds : traj[t] \in Row /\ Deactivated(traj[t]) \in Row
    BY RowTypes DEF TypeOK
  <2>2. QED
    BY <2>1 DEF SweepApply
<1>4. ptr' \in [Keys -> TrajIds \cup {NoTraj}] /\ best' \in [Keys -> Best \cup {NoBest}]
  BY DEF SweepApply, TypeOK
<1>5. sweep' \in [on : BOOLEAN, rows : SUBSET (Keys \X TrajIds)]
  BY DEF SweepApply, Idle
<1>6. swept' \in SUBSET TrajIds
  <2>1. \A k \in SweepVictims : ptr[k] \in TrajIds
    BY DEF SweepVictims, TypeOK
  <2>2. QED
    BY <2>1 DEF SweepApply, TypeOK
<1>7. QED
  BY <1>2, <1>3, <1>4, <1>5, <1>6 DEF SweepApply, TypeOK

\* The empty database is well typed.
LEMMA TypeInit == Init => TypeOK
<1>1. ASSUME NEW c \in Challenges PROVE Unborn(c) \in Row
  BY ConstantsAssumption DEF ConstantsAssumption, Unborn, Row
<1>2. (CHOOSE c \in Challenges : TRUE) \in Challenges
  BY ConstantsAssumption DEF ConstantsAssumption
<1>3. Idle \in [on : BOOLEAN, rows : SUBSET (Keys \X TrajIds)]
  BY DEF Idle
<1>4. QED
  BY <1>1, <1>2, <1>3, ConstantsAssumption DEF ConstantsAssumption, Init, TypeOK

\* Every handler leaves every table well typed.
LEMMA TypeStep == TypeOK /\ [Next]_vars => TypeOK'
<1> SUFFICES ASSUME TypeOK, [Next]_vars PROVE TypeOK'
  OBVIOUS
<1> USE ConstantsAssumption DEF ConstantsAssumption
<1>1. ASSUME NEW k \in Keys, Poll(k) PROVE TypeOK'
  <2>1. fresh' \in [Keys -> BOOLEAN] /\ recent' \in [Agents -> SUBSET Challenges]
    BY <1>1 DEF Poll, Bump, TypeOK, Keys
  <2>2. waiting' \in [Keys -> 0 .. MaxWaiting] /\ forced' \in [Keys -> BOOLEAN]
    <3>1. waiting[k] \in 0 .. MaxWaiting
      BY DEF TypeOK
    <3>2. CASE /\ waiting[k] < MaxWaiting
               /\ waiting' = [waiting EXCEPT ![k] = waiting[k] + 1]
               /\ UNCHANGED forced
      <4>1. waiting[k] + 1 \in 0 .. MaxWaiting
        BY <3>1, <3>2
      <4>2. QED
        BY <3>2, <4>1 DEF TypeOK
    <3>3. CASE forced' = [forced EXCEPT ![k] = TRUE] /\ UNCHANGED waiting
      BY <3>3 DEF TypeOK
    <3>4. CASE UNCHANGED <<waiting, forced>>
      BY <3>4 DEF TypeOK
    <3>5. QED
      BY <1>1, <3>2, <3>3, <3>4 DEF Poll
  <2>3. QED
    BY <1>1, <2>1, <2>2 DEF Poll, TypeOK
<1>2. ASSUME NEW k \in Keys, ResetTxn(k) PROVE TypeOK'
  <2>1. waiting' \in [Keys -> 0 .. MaxWaiting]
    <3>1. waiting[k] - 1 \in 0 .. MaxWaiting
      BY <1>2 DEF ResetTxn, TypeOK
    <3>2. QED
      BY <1>2, <3>1 DEF ResetTxn, TypeOK
  <2>2. CASE StillDue(k) /\ Reset(k)
    <3>1. best[k] # NoBest
      BY <2>2 DEF StillDue, ResetDue, Stagnated, NegativeCull
    <3>2. QED
      BY <1>2, <2>1, <2>2, <3>1, ResetTypes DEF ResetTxn, TypeOK
  <2>3. CASE UNCHANGED <<ptr, rsi, best, traj, pool, edited>>
    BY <1>2, <2>1, <2>3 DEF ResetTxn, TypeOK
  <2>4. QED
    BY <1>2, <2>2, <2>3 DEF ResetTxn
<1>3. ASSUME NEW k \in Keys, ForcedResetTxn(k) PROVE TypeOK'
  <2>1. forced' \in [Keys -> BOOLEAN]
    BY <1>3 DEF ForcedResetTxn, TypeOK
  <2>2. CASE best[k] # NoBest /\ Reset(k)
    BY <1>3, <2>1, <2>2, ResetTypes DEF ForcedResetTxn, TypeOK
  <2>3. CASE UNCHANGED <<ptr, rsi, best, traj, pool, edited>>
    BY <1>3, <2>1, <2>3 DEF ForcedResetTxn, TypeOK
  <2>4. QED
    BY <1>3, <2>2, <2>3 DEF ForcedResetTxn
<1>4. ASSUME NEW k \in Keys, GoSilent(k) PROVE TypeOK'
  BY <1>4 DEF GoSilent, TypeOK
<1>5. ASSUME NEW k \in Keys, NEW s \in Scores, NEW f \in BOOLEAN,
             NEW r \in BOOLEAN, Publish(k, s, f, r)
      PROVE  TypeOK'
  <2>1. UNCHANGED <<pool, waiting, forced, sweep, era, purged>>
    BY <1>5 DEF Publish
  <2>2. QED
    BY <1>5, <2>1, PublishTypes DEF TypeOK
<1>6. ASSUME NEW a \in Agents, Heartbeat(a) PROVE TypeOK'
  <2>1. fresh' \in [Keys -> BOOLEAN]
    BY <1>6 DEF Heartbeat, TypeOK
  <2>2. QED
    BY <1>6, <2>1 DEF Heartbeat, TypeOK
<1>7. CASE SweepSnapshot
  <2>1. sweep' \in [on : BOOLEAN, rows : SUBSET (Keys \X TrajIds)]
    BY <1>7 DEF SweepSnapshot
  <2>2. QED
    BY <1>7, <2>1 DEF SweepSnapshot, TypeOK
<1>8. CASE SweepApply
  BY <1>8, SweepTypes
<1>9. CASE Restart
  BY <1>9 DEF Restart, TypeOK, Idle
<1>10. ASSUME NEW c \in Challenges, SeedInactive(c) PROVE TypeOK'
  <2>1. Seed(c) \in Entry
    BY DEF Seed, Entry
  <2>2. pool[Seed(c)] + 1 \in Nat
    BY <2>1 DEF TypeOK
  <2>3. QED
    BY <1>10, <2>2 DEF SeedInactive, TypeOK
<1>11. ASSUME NEW c \in Challenges, ClearInactive(c) PROVE TypeOK'
  <2>1. pool' \in [Entry -> Nat] /\ purged' \in SUBSET TrajIds
    BY <1>11 DEF ClearInactive, TypeOK
  <2>2. QED
    BY <1>11, <2>1 DEF ClearInactive, TypeOK
<1>12. ASSUME NEW c \in Challenges, ResetChallenge(c) PROVE TypeOK'
  <2>1. era[c] + 1 \in 0 .. MaxEras
    BY <1>12 DEF ResetChallenge, TypeOK
  <2>2. era' \in [Challenges -> 0 .. MaxEras] /\ best' \in [Keys -> Best \cup {NoBest}]
    BY <1>12, <2>1 DEF ResetChallenge, TypeOK
  <2>3. QED
    BY <1>12, <2>2 DEF ResetChallenge, TypeOK
<1>13. CASE UNCHANGED vars
  BY <1>13 DEF vars, TypeOK
<1>14. QED
  BY <1>1, <1>2, <1>3, <1>4, <1>5, <1>6, <1>7, <1>8, <1>9, <1>10, <1>11,
     <1>12, <1>13 DEF Next

\* Type correctness of the server's tables, for every run of the handlers.
THEOREM TypeCorrect == Spec => []TypeOK
BY TypeInit, TypeStep, PTL DEF Spec

-----------------------------------------------------------------------------
(***************************************************************************)
(* Custody of trajectories.  None of the invariants below is inductive     *)
(* alone: that a deposit is not the second one needs the depositor to be   *)
(* the only holder, that an adopted entry has no holder needs the status,  *)
(* and that the adopted floor is the peak needs the pool's scores.         *)
(***************************************************************************)
Custody ==
    /\ TypeOK
    /\ OneCustodian
    /\ StatusAgrees
    /\ ChallengeIsolation
    /\ FloorIsPeak
    /\ StintsCounted

\* The invariants speak of four tables only.
LEMMA CustodyFrame ==
    ASSUME Custody, TypeOK', UNCHANGED <<ptr, best, traj, pool>>
    PROVE  Custody'
BY DEF Custody, OneCustodian, StatusAgrees, ChallengeIsolation, FloorIsPeak,
       StintsCounted

\* What a held trajectory's row and the pool look like before it is given up.
LEMMA HeldFacts ==
    ASSUME Custody, NEW k \in Keys, ptr[k] # NoTraj
    PROVE  /\ ptr[k] \in TrajIds
           /\ traj[ptr[k]] \in Row
           /\ traj[ptr[k]].status = "active"
           /\ traj[ptr[k]].challenge = ChallengeOf(k)
           /\ \A e \in Entry : pool[e] > 0 => e.traj # ptr[k]
<1>1. ptr[k] \in TrajIds
  BY DEF Custody, TypeOK
<1>2. traj[ptr[k]] \in Row
  BY <1>1 DEF Custody, TypeOK
<1>3. traj[ptr[k]].status = "active"
  BY <1>1 DEF Custody, StatusAgrees
<1>4. traj[ptr[k]].challenge = ChallengeOf(k)
  BY DEF Custody, ChallengeIsolation
<1>5. \A e \in Entry : pool[e] > 0 => e.traj # ptr[k]
  BY DEF Custody, OneCustodian
<1>6. QED
  BY <1>1, <1>2, <1>3, <1>4, <1>5

\* What a pooled trajectory entry says of its trajectory.
LEMMA PooledFacts ==
    ASSUME Custody, NEW e \in Entry, pool[e] > 0, e.traj # NoTraj
    PROVE  /\ e.traj \in TrajIds
           /\ traj[e.traj] \in Row
           /\ traj[e.traj].status = "inactive"
           /\ traj[e.traj].challenge = e.challenge
           /\ e.score = traj[e.traj].score /\ e.score # NoScore /\ e.score >= 0
           /\ pool[e] = 1
           /\ \A k \in Keys : ptr[k] # e.traj
           /\ \A d \in Entry : pool[d] > 0 /\ d.traj = e.traj => d = e
<1>1. e.traj \in TrajIds
  BY DEF Entry
<1>2. traj[e.traj] \in Row
  BY <1>1 DEF Custody, TypeOK
<1>3. QED
  BY <1>1, <1>2 DEF Custody, OneCustodian, StatusAgrees, ChallengeIsolation,
                    FloorIsPeak

\* What the row operators do to the columns the invariants read.
LEMMA DeactivatedRow ==
    ASSUME NEW row \in Row, row.status = "active"
    PROVE  /\ Deactivated(row).status = "inactive"
           /\ Deactivated(row).challenge = row.challenge
           /\ Deactivated(row).score = row.score
           /\ Deactivated(row).agents = row.agents
           /\ Deactivated(row).deactivations = row.deactivations + 1
BY DEF Deactivated, Row

LEMMA JoinedRow ==
    ASSUME NEW row \in Row
    PROVE  /\ Joined(row).status = "active"
           /\ Joined(row).challenge = row.challenge
           /\ Joined(row).score = row.score
           /\ Joined(row).agents = row.agents + 1
           /\ Joined(row).deactivations = row.deactivations
BY DEF Joined, Row

-----------------------------------------------------------------------------
\* A reset, seen from the trajectory given up, the one taken up and the rest.
GivenUp(k) ==
    /\ ptr[k] \in TrajIds
    /\ ptr'[k] # ptr[k]
    /\ traj'[ptr[k]] = Deactivated(traj[ptr[k]])

TakenUp(k) ==
    \/ ptr'[k] = NoTraj /\ best'[k] = NoBest
    \/ \E e \in Entry : /\ pool[e] > 0
                        /\ e.traj # NoTraj
                        /\ e.challenge = ChallengeOf(k)
                        /\ ptr'[k] = e.traj
                        /\ best'[k] = AdoptedBest(e)
                        /\ traj'[e.traj] = Joined(traj[e.traj])

LeftAlone(k) ==
    /\ \A j \in Keys \ {k} : ptr'[j] = ptr[j] /\ best'[j] = best[j]
    /\ \A t \in TrajIds : t # ptr[k] /\ t # ptr'[k] => traj'[t] = traj[t]

PooledAfter(k) ==
    \A x \in Entry : pool'[x] > 0 =>
        \/ x = Deposited(k) /\ Banks(k) /\ pool'[x] = 1
        \/ /\ pool[x] > 0
           /\ x.traj # NoTraj => pool'[x] = 1 /\ x.traj # ptr'[k]

\* The deposit of a held trajectory's best is the only row of its trajectory.
LEMMA BankEffect ==
    ASSUME Custody, NEW k \in Keys, best[k] # NoBest, NEW p \in [Entry -> Nat],
           \A x \in Entry : p[x] <= pool[x],
           NEW x \in Entry,
           NEW q, q = IF Banks(k)
                      THEN [p EXCEPT ![Deposited(k)] = p[Deposited(k)] + 1]
                      ELSE p,
           q[x] > 0
    PROVE  \/ x = Deposited(k) /\ Banks(k) /\ q[x] = 1
           \/ p[x] > 0 /\ q[x] = p[x]
<1>1. Deposited(k) \in Entry
  BY DepositedType DEF Custody
<1>2. p[Deposited(k)] = 0
  <2>1. ptr[k] # NoTraj
    BY DEF Custody, FloorIsPeak
  <2>2. Deposited(k).traj = ptr[k]
    BY DEF Deposited
  <2>3. ~(pool[Deposited(k)] > 0)
    BY <1>1, <2>1, <2>2, HeldFacts
  <2>4. pool[Deposited(k)] \in Nat /\ p[Deposited(k)] \in Nat
    BY <1>1 DEF Custody, TypeOK
  <2>5. QED
    BY <1>1, <2>3, <2>4
<1>3. CASE Banks(k) /\ x = Deposited(k)
  BY <1>1, <1>2, <1>3
<1>4. CASE Banks(k) /\ x # Deposited(k)
  BY <1>1, <1>4
<1>5. CASE ~Banks(k)
  BY <1>5
<1>6. QED
  BY <1>3, <1>4, <1>5

LEMMA ResetEffect ==
    ASSUME Custody, NEW k \in Keys, best[k] # NoBest, Reset(k)
    PROVE  GivenUp(k) /\ TakenUp(k) /\ LeftAlone(k) /\ PooledAfter(k)
<1> DEFINE down == [traj EXCEPT ![ptr[k]] = Deactivated(traj[ptr[k]])]
           Bank(p) == IF Banks(k)
                      THEN [p EXCEPT ![Deposited(k)] = p[Deposited(k)] + 1]
                      ELSE p
<1>1. ptr[k] # NoTraj
  BY DEF Custody, FloorIsPeak
<1>2. ptr[k] \in TrajIds /\ \A e \in Entry : pool[e] > 0 => e.traj # ptr[k]
  BY <1>1, HeldFacts
<1>3. /\ ptr \in [Keys -> TrajIds \cup {NoTraj}]
      /\ best \in [Keys -> Best \cup {NoBest}]
      /\ traj \in [TrajIds -> Row]
      /\ pool \in [Entry -> Nat]
  BY DEF Custody, TypeOK
<1>4. NoTraj \notin TrajIds
  BY DEF NoTraj, TrajIds
<1>5. CASE /\ ptr' = [ptr EXCEPT ![k] = NoTraj]
           /\ best' = [best EXCEPT ![k] = NoBest]
           /\ traj' = down
           /\ pool' = Bank(pool)
  <2>1. GivenUp(k) /\ TakenUp(k) /\ LeftAlone(k)
    BY <1>1, <1>2, <1>3, <1>5 DEF GivenUp, TakenUp, LeftAlone
  <2>2. ASSUME NEW x \in Entry, pool'[x] > 0
        PROVE  \/ x = Deposited(k) /\ Banks(k) /\ pool'[x] = 1
               \/ /\ pool[x] > 0
                  /\ x.traj # NoTraj => pool'[x] = 1 /\ x.traj # ptr'[k]
    <3>1. \A y \in Entry : pool[y] <= pool[y]
      BY <1>3
    <3>2. \/ x = Deposited(k) /\ Banks(k) /\ pool'[x] = 1
          \/ pool[x] > 0 /\ pool'[x] = pool[x]
      BY <1>3, <1>5, <2>2, <3>1, BankEffect
    <3>3. pool[x] > 0 /\ x.traj # NoTraj => pool[x] = 1
      BY PooledFacts
    <3>4. ptr'[k] = NoTraj
      BY <1>3, <1>5
    <3>5. QED
      BY <3>2, <3>3, <3>4
  <2>3. QED
    BY <2>1, <2>2 DEF PooledAfter
<1>6. ASSUME NEW e \in Pooled(ChallengeOf(k)),
             ptr' = [ptr EXCEPT ![k] = e.traj],
             best' = [best EXCEPT ![k] = AdoptedBest(e)],
             traj' = IF e.traj = NoTraj THEN down
                     ELSE [down EXCEPT ![e.traj] = Joined(down[e.traj])],
             pool' = Bank(Consumed(pool, e))
      PROVE  GivenUp(k) /\ TakenUp(k) /\ LeftAlone(k) /\ PooledAfter(k)
  <2>1. e \in Entry /\ pool[e] > 0 /\ e.challenge = ChallengeOf(k)
    BY DEF Pooled
  <2>2. e.traj # ptr[k] /\ e.traj \in TrajIds \cup {NoTraj}
    BY <1>2, <2>1 DEF Entry
  <2>3. ptr'[k] = e.traj /\ best'[k] = AdoptedBest(e)
    BY <1>3, <1>6
  <2>4. LeftAlone(k)
    <3>1. \A j \in Keys \ {k} : ptr'[j] = ptr[j] /\ best'[j] = best[j]
      BY <1>3, <1>6
    <3>2. \A t \in TrajIds : t # ptr[k] /\ t # e.traj => traj'[t] = traj[t]
      BY <1>3, <1>6
    <3>3. QED
      BY <2>3, <3>1, <3>2 DEF LeftAlone
  <2>5. GivenUp(k)
    BY <1>2, <1>3, <1>6, <2>2, <2>3 DEF GivenUp
  <2>6. TakenUp(k)
    <3>1. CASE e.traj = NoTraj
      <4>1. e.score = NoScore
        BY <2>1, <3>1 DEF Custody, FloorIsPeak
      <4>2. QED
        BY <2>3, <3>1, <4>1 DEF TakenUp, AdoptedBest
    <3>2. CASE e.traj # NoTraj
      <4>1. traj'[e.traj] = Joined(traj[e.traj])
        BY <1>3, <1>6, <2>2, <3>2
      <4>2. QED
        BY <2>1, <2>3, <3>2, <4>1 DEF TakenUp
    <3>3. QED
      BY <3>1, <3>2
  <2>7. ASSUME NEW x \in Entry, pool'[x] > 0
        PROVE  \/ x = Deposited(k) /\ Banks(k) /\ pool'[x] = 1
               \/ /\ pool[x] > 0
                  /\ x.traj # NoTraj => pool'[x] = 1 /\ x.traj # ptr'[k]
    <3> DEFINE p == Consumed(pool, e)
    <3>1. p \in [Entry -> Nat] /\ \A y \in Entry : p[y] <= pool[y]
      BY <1>3, <2>1 DEF Consumed
    <3>2. p[e] = pool[e] - 1 /\ (x # e => p[x] = pool[x]) /\ p[x] \in Nat
      BY <1>3, <2>1, <3>1 DEF Consumed
    <3>3. \/ x = Deposited(k) /\ Banks(k) /\ pool'[x] = 1
          \/ p[x] > 0 /\ pool'[x] = p[x]
      BY <1>6, <2>7, <3>1, BankEffect
    <3>4. pool[x] > 0 /\ x.traj # NoTraj
          => pool[x] = 1 /\ (e.traj = x.traj => e = x)
      BY <2>1, PooledFacts
    <3>5. ASSUME p[x] > 0, pool'[x] = p[x]
          PROVE  /\ pool[x] > 0
                 /\ x.traj # NoTraj => pool'[x] = 1 /\ x.traj # ptr'[k]
      <4>1. pool[x] > 0
        BY <1>3, <3>1, <3>5
      <4>2. ASSUME x.traj # NoTraj PROVE x # e
        BY <3>2, <3>4, <3>5, <4>1, <4>2
      <4>3. QED
        BY <2>3, <3>2, <3>4, <3>5, <4>1, <4>2
    <3>6. QED
      BY <3>3, <3>5
  <2>8. QED
    BY <2>4, <2>5, <2>6, <2>7 DEF PooledAfter
<1>7. QED
  BY <1>1, <1>5, <1>6 DEF Reset

\* A reset hands a trajectory over without breaking custody: the entry it
\* adopts had no holder, the one it deposits loses its only holder.
LEMMA ResetCustody ==
    ASSUME Custody, TypeOK', NEW k \in Keys, best[k] # NoBest, Reset(k)
    PROVE  Custody'
<1>1. GivenUp(k) /\ TakenUp(k) /\ LeftAlone(k) /\ PooledAfter(k)
  BY ResetEffect
<1>2. /\ ptr[k] \in TrajIds /\ ptr[k] # NoTraj
      /\ traj[ptr[k]] \in Row
      /\ traj[ptr[k]].status = "active"
      /\ traj[ptr[k]].challenge = ChallengeOf(k)
      /\ \A e \in Entry : pool[e] > 0 => e.traj # ptr[k]
  <2>1. ptr[k] # NoTraj
    BY DEF Custody, FloorIsPeak
  <2>2. QED
    BY <2>1, HeldFacts
<1>3. /\ traj'[ptr[k]].status = "inactive"
      /\ traj'[ptr[k]].challenge = traj[ptr[k]].challenge
      /\ traj'[ptr[k]].score = traj[ptr[k]].score
      /\ traj'[ptr[k]].agents = traj[ptr[k]].agents
      /\ traj'[ptr[k]].deactivations = traj[ptr[k]].deactivations + 1
  BY <1>1, <1>2, DeactivatedRow DEF GivenUp
<1>4. ASSUME ptr'[k] # NoTraj
      PROVE  \E e \in Entry :
                /\ pool[e] > 0 /\ e.traj = ptr'[k] /\ e.traj \in TrajIds
                /\ e.challenge = ChallengeOf(k)
                /\ best'[k] = [traj |-> e.traj, score |-> e.score, feasible |-> TRUE,
                              whole |-> e.whole]
                /\ e.score = traj[e.traj].score /\ e.score # NoScore
                /\ \A j \in Keys : ptr[j] # e.traj
                /\ traj[e.traj].status = "inactive"
                /\ traj[e.traj].challenge = e.challenge
                /\ traj'[e.traj].status = "active"
                /\ traj'[e.traj].challenge = traj[e.traj].challenge
                /\ traj'[e.traj].score = traj[e.traj].score
                /\ traj'[e.traj].agents = traj[e.traj].agents + 1
                /\ traj'[e.traj].deactivations = traj[e.traj].deactivations
  <2>1. PICK e \in Entry : /\ pool[e] > 0
                           /\ e.traj # NoTraj
                           /\ e.challenge = ChallengeOf(k)
                           /\ ptr'[k] = e.traj
                           /\ best'[k] = AdoptedBest(e)
                           /\ traj'[e.traj] = Joined(traj[e.traj])
    BY <1>1, <1>4 DEF TakenUp
  <2>2. /\ e.traj \in TrajIds
        /\ traj[e.traj] \in Row
        /\ traj[e.traj].status = "inactive"
        /\ traj[e.traj].challenge = e.challenge
        /\ e.score = traj[e.traj].score /\ e.score # NoScore
        /\ \A j \in Keys : ptr[j] # e.traj
    BY <2>1, PooledFacts
  <2>3. best'[k] = [traj |-> e.traj, score |-> e.score, feasible |-> TRUE,
                              whole |-> e.whole]
    BY <2>1, <2>2 DEF AdoptedBest
  <2>4. QED
    BY <2>1, <2>2, <2>3, JoinedRow
\* What is pooled afterwards is the deposit or was pooled and is nobody's.
<1>5. ASSUME NEW x \in Entry, pool'[x] > 0, x.traj # NoTraj
      PROVE  /\ pool'[x] = 1
             /\ x.traj \in TrajIds
             /\ traj'[x.traj].status = "inactive"
             /\ traj'[x.traj].challenge = x.challenge
             /\ x.score = traj'[x.traj].score /\ x.score # NoScore /\ x.score >= 0
             /\ \/ x = Deposited(k)
                \/ pool[x] > 0 /\ x.traj # ptr[k] /\ x.traj # ptr'[k]
  <2>1. CASE x = Deposited(k) /\ Banks(k) /\ pool'[x] = 1
    <3>1. /\ x.traj = ptr[k] /\ x.challenge = ChallengeOf(k)
          /\ x.score = best[k].score /\ best[k].score >= 0
      BY <2>1 DEF Deposited, Banks
    <3>2. best[k].score = traj[ptr[k]].score
      BY DEF Custody, FloorIsPeak
    <3>3. best[k].score # NoScore
      BY ConstantsAssumption DEF ConstantsAssumption, Custody, TypeOK, Best
    <3>4. QED
      BY <1>2, <1>3, <2>1, <3>1, <3>2, <3>3
  <2>2. CASE pool[x] > 0 /\ pool'[x] = 1 /\ x.traj # ptr'[k]
    <3>1. /\ x.traj \in TrajIds
          /\ traj[x.traj].status = "inactive"
          /\ traj[x.traj].challenge = x.challenge
          /\ x.score = traj[x.traj].score /\ x.score # NoScore /\ x.score >= 0
      BY <1>5, <2>2, PooledFacts
    <3>2. x.traj # ptr[k]
      BY <1>2, <2>2
    <3>3. traj'[x.traj] = traj[x.traj]
      BY <1>1, <2>2, <3>1, <3>2 DEF LeftAlone
    <3>4. QED
      BY <2>2, <3>1, <3>2, <3>3
  <2>3. QED
    BY <1>1, <1>5, <2>1, <2>2 DEF PooledAfter
<1>6. \A j, l \in Keys : ptr[j] # NoTraj /\ ptr[j] = ptr[l] => j = l
  BY DEF Custody, OneCustodian
<1>7. /\ \A j \in Keys \ {k} : ptr'[j] = ptr[j] /\ best'[j] = best[j]
      /\ \A t \in TrajIds : t # ptr[k] /\ t # ptr'[k] => traj'[t] = traj[t]
      /\ ptr'[k] # ptr[k]
  BY <1>1 DEF LeftAlone, GivenUp
<1>8. OneCustodian'
  <2>1. \A j, l \in Keys : ptr'[j] # NoTraj /\ ptr'[j] = ptr'[l] => j = l
    <3>1. \A j \in Keys \ {k} : ptr'[k] # NoTraj => ptr[j] # ptr'[k]
      BY <1>4
    <3>2. QED
      BY <1>6, <1>7, <3>1
  <2>2. ASSUME NEW e \in Entry, pool'[e] > 0, e.traj # NoTraj
        PROVE  /\ pool'[e] = 1
               /\ \A j \in Keys : ptr'[j] # e.traj
               /\ \A d \in Entry : pool'[d] > 0 /\ d.traj = e.traj => d = e
    <3>1. pool'[e] = 1
      BY <1>5, <2>2
    <3>2. ASSUME NEW j \in Keys PROVE ptr'[j] # e.traj
      <4>1. CASE e = Deposited(k)
        <5>1. e.traj = ptr[k]
          BY <4>1 DEF Deposited
        <5>2. QED
          BY <1>2, <1>6, <1>7, <5>1
      <4>2. CASE pool[e] > 0 /\ e.traj # ptr[k] /\ e.traj # ptr'[k]
        <5>1. ptr[j] # e.traj
          BY <2>2, <4>2, PooledFacts
        <5>2. QED
          BY <1>7, <4>2, <5>1
      <4>3. QED
        BY <1>5, <2>2, <4>1, <4>2
    <3>3. ASSUME NEW d \in Entry, pool'[d] > 0, d.traj = e.traj PROVE d = e
      <4>1. Deposited(k).traj = ptr[k]
        BY DEF Deposited
      <4>2. \/ e = Deposited(k) /\ d = Deposited(k)
            \/ pool[e] > 0 /\ pool[d] > 0
        BY <1>2, <1>5, <2>2, <3>3, <4>1
      <4>3. QED
        BY <2>2, <3>3, <4>2, PooledFacts
    <3>4. QED
      BY <3>1, <3>2, <3>3
  <2>3. QED
    BY <2>1, <2>2 DEF OneCustodian
<1>9. StatusAgrees'
  <2>1. ASSUME NEW t \in TrajIds
        PROVE  traj'[t].status = "active" <=> \E j \in Keys : ptr'[j] = t
    <3>1. CASE t = ptr[k]
      BY <1>2, <1>3, <1>6, <1>7, <3>1
    <3>2. CASE t = ptr'[k]
      <4>1. ptr'[k] # NoTraj
        BY <3>2 DEF NoTraj, TrajIds
      <4>2. QED
        BY <1>4, <3>2, <4>1
    <3>3. CASE t # ptr[k] /\ t # ptr'[k]
      <4>1. traj[t].status = "active" <=> \E j \in Keys : ptr[j] = t
        BY DEF Custody, StatusAgrees
      <4>2. QED
        BY <1>7, <3>3, <4>1
    <3>4. QED
      BY <3>1, <3>2, <3>3
  <2>2. QED
    BY <1>5, <2>1 DEF StatusAgrees
<1>10. ChallengeIsolation'
  <2>1. ASSUME NEW j \in Keys, ptr'[j] # NoTraj
        PROVE  traj'[ptr'[j]].challenge = ChallengeOf(j)
    <3>1. CASE j = k
      BY <1>4, <2>1, <3>1
    <3>2. CASE j # k
      <4>1. /\ ptr'[j] = ptr[j] /\ ptr[j] # ptr[k]
            /\ ptr[j] # ptr'[k] /\ ptr[j] \in TrajIds
        <5>1. ptr'[j] = ptr[j] /\ ptr[j] # ptr[k] /\ ptr[j] \in TrajIds
          BY <1>2, <1>6, <1>7, <2>1, <3>2, HeldFacts
        <5>2. ptr[j] # ptr'[k]
          BY <1>4, <2>1, <5>1
        <5>3. QED
          BY <5>1, <5>2
      <4>2. traj'[ptr[j]] = traj[ptr[j]]
        BY <1>7, <4>1
      <4>3. traj[ptr[j]].challenge = ChallengeOf(j)
        BY <2>1, <4>1, HeldFacts
      <4>4. QED
        BY <4>1, <4>2, <4>3
    <3>3. QED
      BY <3>1, <3>2
  <2>2. QED
    BY <1>5, <2>1 DEF ChallengeIsolation
<1>11. FloorIsPeak'
  <2>1. ASSUME NEW j \in Keys, best'[j] # NoBest
        PROVE  /\ best'[j].feasible
               /\ best'[j].traj = ptr'[j] /\ ptr'[j] # NoTraj
               /\ best'[j].score = traj'[ptr'[j]].score
    <3>1. CASE j = k
      <4>1. ptr'[k] # NoTraj
        BY <1>1, <2>1, <3>1 DEF TakenUp
      <4>2. PICK e \in Entry :
              /\ best'[k] = [traj |-> e.traj, score |-> e.score, feasible |-> TRUE,
                              whole |-> e.whole]
              /\ e.traj = ptr'[k]
              /\ e.score = traj[e.traj].score
              /\ traj'[e.traj].score = traj[e.traj].score
        BY <1>4, <4>1
      <4>3. /\ best'[k].feasible
            /\ best'[k].traj = ptr'[k]
            /\ best'[k].score = traj'[ptr'[k]].score
        BY <4>2
      <4>4. QED
        BY <3>1, <4>1, <4>3
    <3>2. CASE j # k
      <4>1. /\ best'[j] = best[j] /\ ptr'[j] = ptr[j]
            /\ best[j].feasible
            /\ best[j].traj = ptr[j] /\ ptr[j] # NoTraj
            /\ best[j].score = traj[ptr[j]].score
        BY <1>7, <2>1, <3>2 DEF Custody, FloorIsPeak
      <4>2. ptr[j] # ptr[k] /\ ptr[j] \in TrajIds
        BY <1>6, <3>2, <4>1, HeldFacts
      <4>3. ptr[j] # ptr'[k]
        BY <1>4, <4>1
      <4>4. traj'[ptr[j]] = traj[ptr[j]]
        BY <1>7, <4>2, <4>3
      <4>5. QED
        BY <4>1, <4>4
    <3>3. QED
      BY <3>1, <3>2
  <2>2. ASSUME NEW e \in Entry, pool'[e] > 0, e.traj = NoTraj
        PROVE  e.score = NoScore
    <3>1. e # Deposited(k)
      BY <1>2, <2>2 DEF Deposited
    <3>2. pool[e] > 0
      BY <1>1, <2>2, <3>1 DEF PooledAfter
    <3>3. QED
      BY <2>2, <3>2 DEF Custody, FloorIsPeak
  <2>3. QED
    BY <1>5, <2>1, <2>2 DEF FloorIsPeak
<1>12. StintsCounted'
  <2>1. ASSUME NEW t \in TrajIds
        PROVE  traj'[t].agents = traj'[t].deactivations
                                 + IF traj'[t].status = "active" THEN 1 ELSE 0
    <3>1. /\ traj[t] \in Row
          /\ traj[t].agents = traj[t].deactivations
                              + IF traj[t].status = "active" THEN 1 ELSE 0
      BY DEF Custody, TypeOK, StintsCounted
    <3>2. traj[t].agents \in Nat /\ traj[t].deactivations \in Nat
      BY <3>1 DEF Row
    <3>3. CASE t = ptr[k]
      BY <1>2, <1>3, <3>1, <3>2, <3>3
    <3>4. CASE t = ptr'[k]
      <4>1. ptr'[k] # NoTraj
        BY <3>4 DEF NoTraj, TrajIds
      <4>2. /\ traj[t].status = "inactive" /\ traj'[t].status = "active"
            /\ traj'[t].agents = traj[t].agents + 1
            /\ traj'[t].deactivations = traj[t].deactivations
        BY <1>4, <3>4, <4>1
      <4>3. QED
        BY <3>1, <3>2, <4>2
    <3>5. CASE t # ptr[k] /\ t # ptr'[k]
      BY <1>7, <3>1, <3>5
    <3>6. QED
      BY <3>3, <3>4, <3>5
  <2>2. QED
    BY <2>1 DEF StintsCounted
<1>13. QED
  BY <1>8, <1>9, <1>10, <1>11, <1>12 DEF Custody

LEMMA EditedRow ==
    ASSUME NEW row \in Row, NEW improved \in BOOLEAN, NEW s \in Scores,
           NEW e \in 0 .. MaxEras
    PROVE  /\ Edited(row, improved, s, e).status = row.status
           /\ Edited(row, improved, s, e).challenge = row.challenge
           /\ Edited(row, improved, s, e).agents = row.agents
           /\ Edited(row, improved, s, e).deactivations = row.deactivations
           /\ Edited(row, improved, s, e).score = IF improved THEN s ELSE row.score
BY DEF Edited, Row

\* A publish writes a trajectory that is the publisher's own or that nobody has
\* had yet, so no other agent's floor and no pooled score moves under it.
LEMMA PublishCustody ==
    ASSUME Custody, TypeOK', NEW k \in Keys, NEW s \in Scores, NEW f \in BOOLEAN,
           NEW r \in BOOLEAN, Publish(k, s, f, r)
    PROVE  Custody'
<1> DEFINE c == ChallengeOf(k)
           beats == BeatsTrajectoryBest(k, s, f)
           row(t) == IF ptr[k] = NoTraj
                     THEN Created(c, IF beats THEN s ELSE NoScore, era[c])
                     ELSE traj[t]
<1>1. /\ ptr \in [Keys -> TrajIds \cup {NoTraj}]
      /\ best \in [Keys -> Best \cup {NoBest}]
      /\ traj \in [TrajIds -> Row]
      /\ pool' = pool
  BY DEF Custody, TypeOK, Publish
<1>2. c \in Challenges /\ era[c] \in 0 .. MaxEras /\ beats \in BOOLEAN
  BY DEF Keys, ChallengeOf, Custody, TypeOK, BeatsTrajectoryBest
<1>3. PICK t \in TrajIds :
        /\ t = ptr[k] \/ (ptr[k] = NoTraj /\ traj[t].status = "unborn")
        /\ ptr' = [ptr EXCEPT ![k] = t]
        /\ traj' = [traj EXCEPT ![t] = Edited(row(t), beats, s, era[c])]
        /\ best' = [best EXCEPT ![k] = BestAfter(k, t, s, f, r)]
  BY DEF Publish
<1>4. t # NoTraj
  BY DEF NoTraj, TrajIds
<1>5. /\ \A j \in Keys \ {k} : ptr'[j] = ptr[j] /\ best'[j] = best[j] /\ ptr[j] # t
      /\ ptr'[k] = t
      /\ \A u \in TrajIds : u # t => traj'[u] = traj[u]
      /\ \A e \in Entry : pool[e] > 0 => e.traj # t
  <2>1. \A j \in Keys \ {k} : ptr[j] # t
    <3>1. CASE t = ptr[k]
      BY <1>4, <3>1 DEF Custody, OneCustodian
    <3>2. CASE traj[t].status = "unborn"
      BY <1>4, <3>2, HeldFacts
    <3>3. QED
      BY <1>3, <3>1, <3>2
  <2>2. \A e \in Entry : pool[e] > 0 => e.traj # t
    <3>1. CASE t = ptr[k]
      BY <1>4, <3>1, HeldFacts
    <3>2. CASE traj[t].status = "unborn"
      BY <1>4, <3>2, PooledFacts
    <3>3. QED
      BY <1>3, <3>1, <3>2
  <2>3. QED
    BY <1>1, <1>3, <2>1, <2>2
<1>6. row(t) \in Row
  <2>1. (IF beats THEN s ELSE NoScore) \in Scores \cup {NoScore}
    OBVIOUS
  <2>2. Created(c, IF beats THEN s ELSE NoScore, era[c]) \in Row
    BY <1>2, <2>1, CreatedType
  <2>3. QED
    BY <1>1, <2>2
<1>7. /\ traj'[t].status = row(t).status
      /\ traj'[t].challenge = row(t).challenge
      /\ traj'[t].agents = row(t).agents
      /\ traj'[t].deactivations = row(t).deactivations
      /\ traj'[t].score = IF beats THEN s ELSE row(t).score
  <2>1. traj'[t] = Edited(row(t), beats, s, era[c])
    BY <1>1, <1>3
  <2>2. QED
    BY <1>2, <1>6, <2>1, EditedRow
\* What the publisher holds afterwards, whichever of the two it is.
<1>8. /\ traj'[t].status = "active"
      /\ traj'[t].challenge = c
      /\ traj'[t].agents = traj'[t].deactivations + 1
      /\ best'[k] # NoBest => /\ best'[k].feasible
                              /\ best'[k].traj = t
                              /\ best'[k].score = traj'[t].score
  <2>1. best'[k] = BestAfter(k, t, s, f, r) /\ (beats => f)
    BY <1>1, <1>3 DEF BeatsTrajectoryBest
  <2>2. r => f /\ best[k] # NoBest /\ ~beats
    BY DEF Publish
  <2>3. CASE ptr[k] = NoTraj
    <3>1. best[k] = NoBest
      BY <2>3 DEF Custody, FloorIsPeak
    <3>2. /\ row(t).status = "active" /\ row(t).challenge = c
          /\ row(t).agents = 1 /\ row(t).deactivations = 0
      BY <2>3 DEF Created
    <3>3. best'[k] = IF beats THEN [traj |-> t, score |-> s, feasible |-> f,
                                    whole |-> TRUE]
                     ELSE NoBest
      BY <2>1, <2>2, <3>1 DEF BestAfter
    <3>4. QED
      BY <1>7, <2>1, <3>2, <3>3
  <2>4. CASE ptr[k] # NoTraj
    <3>1. t = ptr[k] /\ row(t) = traj[t]
      BY <1>3, <2>4
    <3>2. traj[t].status = "active" /\ traj[t].challenge = c
      BY <2>4, <3>1, HeldFacts
    <3>3. traj[t].agents = traj[t].deactivations + 1
      BY <3>2 DEF Custody, StintsCounted
    <3>4. best[k] # NoBest => /\ best[k].feasible
                              /\ best[k].traj = t
                              /\ best[k].score = traj[t].score
      BY <3>1 DEF Custody, FloorIsPeak
    <3>5. CASE beats
      <4>1. best'[k] = [traj |-> t, score |-> s, feasible |-> f, whole |-> TRUE]
        BY <2>1, <3>5 DEF BestAfter
      <4>2. /\ best'[k].feasible = f /\ best'[k].traj = t
            /\ best'[k].score = s
        BY <4>1
      <4>3. QED
        BY <1>7, <2>1, <3>1, <3>2, <3>3, <3>5, <4>2
    <3>6. CASE ~beats /\ r
      <4>1. best'[k] = [traj |-> t, score |-> best[k].score, feasible |-> f,
                 whole |-> TRUE]
        BY <2>1, <3>6 DEF BestAfter
      <4>2. /\ best'[k].feasible = f /\ best'[k].traj = t
            /\ best'[k].score = best[k].score
        BY <4>1
      <4>3. traj'[t].score = traj[t].score
        BY <1>7, <3>1, <3>6
      <4>4. QED
        BY <1>7, <2>2, <3>1, <3>2, <3>3, <3>4, <3>6, <4>2, <4>3
    <3>7. CASE ~beats /\ ~r
      <4>1. best'[k] = best[k]
        BY <2>1, <3>7 DEF BestAfter
      <4>2. QED
        BY <1>7, <3>1, <3>2, <3>3, <3>4, <3>7, <4>1
    <3>8. QED
      BY <1>2, <3>5, <3>6, <3>7
  <2>5. QED
    BY <2>3, <2>4
<1>9. \A e \in Entry : pool[e] > 0 /\ e.traj # NoTraj => traj'[e.traj] = traj[e.traj]
  BY <1>5, PooledFacts
<1>10. ASSUME NEW j \in Keys, j # k, ptr[j] # NoTraj
       PROVE  traj'[ptr[j]] = traj[ptr[j]]
  BY <1>5, <1>10, HeldFacts
<1>11. OneCustodian'
  <2>1. \A j, l \in Keys : ptr'[j] # NoTraj /\ ptr'[j] = ptr'[l] => j = l
    BY <1>5 DEF Custody, OneCustodian
  <2>2. ASSUME NEW e \in Entry, pool'[e] > 0, e.traj # NoTraj
        PROVE  /\ pool'[e] = 1
               /\ \A j \in Keys : ptr'[j] # e.traj
               /\ \A d \in Entry : pool'[d] > 0 /\ d.traj = e.traj => d = e
    BY <1>1, <1>5, <2>2, PooledFacts
  <2>3. QED
    BY <2>1, <2>2 DEF OneCustodian
<1>12. StatusAgrees'
  <2>1. ASSUME NEW u \in TrajIds
        PROVE  traj'[u].status = "active" <=> \E j \in Keys : ptr'[j] = u
    <3>1. CASE u = t
      BY <1>5, <1>8, <3>1
    <3>2. CASE u # t
      <4>1. \A j \in Keys : ptr'[j] = u <=> ptr[j] = u
        BY <1>3, <1>4, <1>5, <3>2 DEF NoTraj, TrajIds
      <4>2. traj[u].status = "active" <=> \E j \in Keys : ptr[j] = u
        BY DEF Custody, StatusAgrees
      <4>3. QED
        BY <1>5, <3>2, <4>1, <4>2
    <3>3. QED
      BY <3>1, <3>2
  <2>2. QED
    BY <1>1, <1>9, <2>1, PooledFacts DEF StatusAgrees
<1>13. ChallengeIsolation'
  <2>1. \A j \in Keys : ptr'[j] # NoTraj => traj'[ptr'[j]].challenge = ChallengeOf(j)
    BY <1>5, <1>8, <1>10, HeldFacts
  <2>2. QED
    BY <1>1, <1>9, <2>1, PooledFacts DEF ChallengeIsolation
<1>14. FloorIsPeak'
  <2>1. ASSUME NEW j \in Keys, best'[j] # NoBest
        PROVE  /\ best'[j].feasible
               /\ best'[j].traj = ptr'[j] /\ ptr'[j] # NoTraj
               /\ best'[j].score = traj'[ptr'[j]].score
    <3>1. CASE j = k
      BY <1>4, <1>5, <1>8, <2>1, <3>1
    <3>2. CASE j # k
      BY <1>5, <1>10, <2>1, <3>2 DEF Custody, FloorIsPeak
    <3>3. QED
      BY <3>1, <3>2
  <2>2. QED
    BY <1>1, <1>9, <2>1, PooledFacts DEF FloorIsPeak, Custody
<1>15. StintsCounted'
  BY <1>5, <1>8 DEF Custody, StintsCounted
<1>16. QED
  BY <1>11, <1>12, <1>13, <1>14, <1>15 DEF Custody

\* A sweep takes each victim's trajectory for good: one custodian means that no
\* live agent shares it and that no two victims deposit the same row.
LEMMA SweepEffect ==
    ASSUME Custody, SweepApply
    PROVE  /\ SweepVictims \subseteq Keys
           /\ \A k \in SweepVictims : /\ ptr[k] # NoTraj
                                      /\ ptr'[k] = NoTraj /\ best'[k] = NoBest
                                      /\ traj'[ptr[k]] = Deactivated(traj[ptr[k]])
           /\ \A k \in Keys \ SweepVictims : ptr'[k] = ptr[k] /\ best'[k] = best[k]
           /\ \A t \in TrajIds :
                 (\A k \in SweepVictims : ptr[k] # t) => traj'[t] = traj[t]
           /\ \A x \in Entry : pool'[x] > 0 =>
                 \/ /\ pool'[x] = 1
                    /\ \E k \in SweepVictims : x = SweptOff(k) /\ Banks(k)
                 \/ pool[x] > 0 /\ pool'[x] = pool[x]
<1> DEFINE From(e) == {k \in SweepVictims : Banks(k) /\ SweptOff(k) = e}
           freed == {t \in TrajIds : /\ \E k \in SweepVictims : ptr[k] = t
                                     /\ ~\E j \in Keys : ptr[j] = t /\ fresh[j]}
<1>1. /\ SweepVictims \subseteq Keys
      /\ \A k \in SweepVictims : ptr[k] # NoTraj /\ ~fresh[k]
  BY DEF SweepVictims
<1>2. \A j, k \in Keys : ptr[j] # NoTraj /\ ptr[j] = ptr[k] => j = k
  BY DEF Custody, OneCustodian
<1>3. /\ ptr' = [k \in Keys |-> IF k \in SweepVictims THEN NoTraj ELSE ptr[k]]
      /\ best' = [k \in Keys |-> IF k \in SweepVictims THEN NoBest ELSE best[k]]
      /\ traj' = [t \in TrajIds |-> IF t \in freed THEN Deactivated(traj[t])
                                    ELSE traj[t]]
      /\ pool' = [e \in Entry |-> pool[e] + Cardinality(From(e))]
  BY DEF SweepApply
<1>4. ASSUME NEW k \in SweepVictims PROVE ptr[k] \in freed
  <2>1. k \in Keys /\ ptr[k] \in TrajIds /\ ptr[k] # NoTraj /\ ~fresh[k]
    BY <1>1, HeldFacts
  <2>2. ~\E j \in Keys : ptr[j] = ptr[k] /\ fresh[j]
    BY <1>2, <2>1
  <2>3. QED
    BY <2>1, <2>2
<1>5. ASSUME NEW k \in SweepVictims
      PROVE  /\ ptr[k] # NoTraj
             /\ ptr'[k] = NoTraj /\ best'[k] = NoBest
             /\ traj'[ptr[k]] = Deactivated(traj[ptr[k]])
  <2>1. k \in Keys /\ ptr[k] \in TrajIds /\ ptr[k] # NoTraj
    BY <1>1, HeldFacts
  <2>2. QED
    BY <1>3, <1>4, <2>1
<1>6. \A k \in Keys \ SweepVictims : ptr'[k] = ptr[k] /\ best'[k] = best[k]
  BY <1>3
<1>7. \A t \in TrajIds : (\A k \in SweepVictims : ptr[k] # t) => traj'[t] = traj[t]
  BY <1>3
<1>8. ASSUME NEW x \in Entry, pool'[x] > 0
      PROVE  \/ /\ pool'[x] = 1
                /\ \E k \in SweepVictims : x = SweptOff(k) /\ Banks(k)
             \/ pool[x] > 0 /\ pool'[x] = pool[x]
  <2>1. pool[x] \in Nat /\ pool'[x] = pool[x] + Cardinality(From(x))
    BY <1>3 DEF Custody, TypeOK
  <2>2. CASE From(x) = {}
    <3>1. Cardinality(From(x)) = 0
      BY <2>2, FS_EmptySet
    <3>2. QED
      BY <1>8, <2>1, <3>1
  <2>3. ASSUME NEW k \in From(x)
        PROVE  pool'[x] = 1 /\ x = SweptOff(k) /\ Banks(k) /\ k \in SweepVictims
    <3>1. k \in SweepVictims /\ Banks(k) /\ x = SweptOff(k) /\ x.traj = ptr[k]
      BY <2>3 DEF SweptOff, Deposited
    <3>2. k \in Keys /\ ptr[k] # NoTraj
      BY <1>1, <3>1
    <3>3. From(x) = {k}
      <4>1. ASSUME NEW j \in From(x) PROVE j = k
        <5>1. j \in Keys /\ ptr[j] = ptr[k]
          BY <1>1, <3>1 DEF SweptOff, Deposited
        <5>2. QED
          BY <1>2, <3>2, <5>1
      <4>2. QED
        BY <4>1
    <3>4. Cardinality(From(x)) = 1
      BY <3>3, FS_Singleton
    <3>5. ~(pool[x] > 0)
      BY <3>1, <3>2, HeldFacts
    <3>6. QED
      BY <2>1, <3>1, <3>4, <3>5
  <2>4. QED
    BY <2>2, <2>3
<1>9. QED
  BY <1>1, <1>5, <1>6, <1>7, <1>8

LEMMA SweepCustody ==
    ASSUME Custody, SweepApply
    PROVE  Custody'
<1> DEFINE V == SweepVictims
<1>1. /\ V \subseteq Keys
      /\ \A k \in V : /\ ptr[k] # NoTraj
                      /\ ptr'[k] = NoTraj /\ best'[k] = NoBest
                      /\ traj'[ptr[k]] = Deactivated(traj[ptr[k]])
      /\ \A k \in Keys \ V : ptr'[k] = ptr[k] /\ best'[k] = best[k]
      /\ \A t \in TrajIds : (\A k \in V : ptr[k] # t) => traj'[t] = traj[t]
  BY SweepEffect
<1>2. \A j, k \in Keys : ptr[j] # NoTraj /\ ptr[j] = ptr[k] => j = k
  BY DEF Custody, OneCustodian
<1>3. ASSUME NEW k \in V
      PROVE  /\ k \in Keys /\ ptr[k] \in TrajIds
             /\ traj[ptr[k]].status = "active"
             /\ traj'[ptr[k]].status = "inactive"
             /\ traj[ptr[k]].challenge = ChallengeOf(k)
             /\ traj'[ptr[k]].challenge = ChallengeOf(k)
             /\ traj'[ptr[k]].score = traj[ptr[k]].score
             /\ traj'[ptr[k]].agents = traj[ptr[k]].agents
             /\ traj'[ptr[k]].deactivations = traj[ptr[k]].deactivations + 1
             /\ \A e \in Entry : pool[e] > 0 => e.traj # ptr[k]
  <2>1. k \in Keys /\ ptr[k] # NoTraj /\ traj'[ptr[k]] = Deactivated(traj[ptr[k]])
    BY <1>1
  <2>2. /\ ptr[k] \in TrajIds /\ traj[ptr[k]] \in Row
        /\ traj[ptr[k]].status = "active"
        /\ traj[ptr[k]].challenge = ChallengeOf(k)
        /\ \A e \in Entry : pool[e] > 0 => e.traj # ptr[k]
    BY <2>1, HeldFacts
  <2>3. QED
    BY <2>1, <2>2, DeactivatedRow
<1>4. ASSUME NEW x \in Entry, pool[x] > 0, x.traj # NoTraj
      PROVE  traj'[x.traj] = traj[x.traj]
  <2>1. x.traj \in TrajIds /\ \A k \in Keys : ptr[k] # x.traj
    BY <1>4, PooledFacts
  <2>2. QED
    BY <1>1, <2>1
<1>5. ASSUME NEW x \in Entry, pool'[x] > 0, x.traj # NoTraj
      PROVE  /\ pool'[x] = 1
             /\ traj'[x.traj].status = "inactive"
             /\ traj'[x.traj].challenge = x.challenge
             /\ x.score = traj'[x.traj].score /\ x.score # NoScore /\ x.score >= 0
             /\ \/ \E k \in V : x = SweptOff(k) /\ x.traj = ptr[k]
                \/ pool[x] > 0
  <2>1. CASE pool[x] > 0 /\ pool'[x] = pool[x]
    BY <1>4, <1>5, <2>1, PooledFacts
  <2>2. ASSUME NEW k \in V, x = SweptOff(k), Banks(k), pool'[x] = 1
        PROVE  /\ x.traj = ptr[k]
               /\ traj'[x.traj].status = "inactive"
               /\ traj'[x.traj].challenge = x.challenge
               /\ x.score = traj'[x.traj].score /\ x.score # NoScore /\ x.score >= 0
    <3>1. /\ x.traj = ptr[k] /\ x.challenge = ChallengeOf(k)
          /\ x.score = best[k].score /\ best[k].score >= 0
      BY <2>2 DEF SweptOff, Deposited, Banks
    <3>2. best[k] # NoBest /\ k \in Keys
      BY <1>1, <2>2 DEF Banks
    <3>3. best[k].score = traj[ptr[k]].score
      BY <3>2 DEF Custody, FloorIsPeak
    <3>4. best[k].score # NoScore
      BY <3>2, ConstantsAssumption DEF ConstantsAssumption, Custody, TypeOK, Best
    <3>5. QED
      BY <1>3, <3>1, <3>3, <3>4
  <2>3. \/ /\ pool'[x] = 1
           /\ \E k \in V : x = SweptOff(k) /\ Banks(k)
        \/ pool[x] > 0 /\ pool'[x] = pool[x]
    BY <1>5, SweepEffect
  <2>4. QED
    BY <2>1, <2>2, <2>3
<1>6. OneCustodian'
  <2>1. \A j, k \in Keys : ptr'[j] # NoTraj /\ ptr'[j] = ptr'[k] => j = k
    BY <1>1, <1>2
  <2>2. ASSUME NEW e \in Entry, pool'[e] > 0, e.traj # NoTraj
        PROVE  /\ pool'[e] = 1
               /\ \A j \in Keys : ptr'[j] # e.traj
               /\ \A d \in Entry : pool'[d] > 0 /\ d.traj = e.traj => d = e
    <3>1. ASSUME NEW j \in Keys PROVE ptr'[j] # e.traj
      <4>1. CASE \E k \in V : e = SweptOff(k) /\ e.traj = ptr[k]
        <5>1. PICK k \in V : e.traj = ptr[k]
          BY <4>1
        <5>2. QED
          BY <1>1, <1>2, <2>2, <5>1
      <4>2. CASE pool[e] > 0
        BY <1>1, <2>2, <4>2, PooledFacts
      <4>3. QED
        BY <1>5, <2>2, <4>1, <4>2
    <3>2. ASSUME NEW d \in Entry, pool'[d] > 0, d.traj = e.traj PROVE d = e
      <4>1. \/ \E k \in V : e = SweptOff(k) /\ e.traj = ptr[k]
            \/ pool[e] > 0
        BY <1>5, <2>2
      <4>2. \/ \E k \in V : d = SweptOff(k) /\ d.traj = ptr[k]
            \/ pool[d] > 0
        BY <1>5, <2>2, <3>2
      <4>3. CASE pool[e] > 0 /\ pool[d] > 0
        BY <2>2, <3>2, <4>3, PooledFacts
      <4>4. CASE ~(pool[e] > 0 /\ pool[d] > 0)
        <5>1. PICK k \in V : e.traj = ptr[k]
          BY <3>2, <4>1, <4>2, <4>4
        <5>2. ~(pool[e] > 0) /\ ~(pool[d] > 0)
          BY <1>3, <3>2, <5>1
        <5>3. \E j, l \in V : e = SweptOff(j) /\ d = SweptOff(l) /\ ptr[j] = ptr[l]
          BY <3>2, <4>1, <4>2, <5>2
        <5>4. QED
          BY <1>1, <1>2, <5>3
      <4>5. QED
        BY <4>3, <4>4
    <3>3. QED
      BY <1>5, <2>2, <3>1, <3>2
  <2>3. QED
    BY <2>1, <2>2 DEF OneCustodian
<1>7. StatusAgrees'
  <2>1. ASSUME NEW t \in TrajIds
        PROVE  traj'[t].status = "active" <=> \E j \in Keys : ptr'[j] = t
    <3>1. t # NoTraj
      BY DEF NoTraj, TrajIds
    <3>2. ASSUME NEW k \in V, t = ptr[k]
          PROVE  traj'[t].status = "inactive" /\ \A j \in Keys : ptr'[j] # t
      BY <1>1, <1>2, <1>3, <3>1, <3>2
    <3>3. CASE \A k \in V : ptr[k] # t
      <4>1. traj[t].status = "active" <=> \E j \in Keys : ptr[j] = t
        BY DEF Custody, StatusAgrees
      <4>2. \A j \in Keys : ptr'[j] = t <=> ptr[j] = t
        BY <1>1, <3>1, <3>3
      <4>3. QED
        BY <1>1, <3>3, <4>1, <4>2
    <3>4. QED
      BY <3>2, <3>3
  <2>2. QED
    BY <1>5, <2>1 DEF StatusAgrees
\* A holder that is left alone keeps its row.
<1>8. ASSUME NEW j \in Keys, ptr'[j] # NoTraj
      PROVE  /\ ptr'[j] = ptr[j] /\ best'[j] = best[j]
             /\ traj'[ptr[j]] = traj[ptr[j]]
  <2>1. j \notin V /\ ptr'[j] = ptr[j] /\ best'[j] = best[j]
    BY <1>1, <1>8
  <2>2. ptr[j] \in TrajIds /\ \A k \in V : ptr[k] # ptr[j]
    BY <1>1, <1>2, <1>8, <2>1, HeldFacts
  <2>3. QED
    BY <1>1, <2>1, <2>2
<1>9. ChallengeIsolation'
  <2>1. \A j \in Keys : ptr'[j] # NoTraj => traj'[ptr'[j]].challenge = ChallengeOf(j)
    BY <1>8, HeldFacts
  <2>2. QED
    BY <1>5, <2>1 DEF ChallengeIsolation
<1>10. FloorIsPeak'
  <2>1. ASSUME NEW j \in Keys, best'[j] # NoBest
        PROVE  /\ best'[j].feasible
               /\ best'[j].traj = ptr'[j] /\ ptr'[j] # NoTraj
               /\ best'[j].score = traj'[ptr'[j]].score
    <3>1. j \notin V /\ ptr'[j] = ptr[j] /\ best'[j] = best[j]
      BY <1>1, <2>1
    <3>2. /\ best[j].feasible
          /\ best[j].traj = ptr[j] /\ ptr[j] # NoTraj
          /\ best[j].score = traj[ptr[j]].score
      BY <2>1, <3>1 DEF Custody, FloorIsPeak
    <3>3. QED
      BY <1>8, <3>1, <3>2
  <2>2. ASSUME NEW e \in Entry, pool'[e] > 0, e.traj = NoTraj
        PROVE  e.score = NoScore
    <3>1. ~\E k \in V : e = SweptOff(k)
      BY <1>1, <2>2 DEF SweptOff, Deposited
    <3>2. pool[e] > 0
      BY <2>2, <3>1, SweepEffect
    <3>3. QED
      BY <2>2, <3>2 DEF Custody, FloorIsPeak
  <2>3. QED
    BY <1>5, <2>1, <2>2 DEF FloorIsPeak
<1>11. StintsCounted'
  <2>1. ASSUME NEW t \in TrajIds
        PROVE  traj'[t].agents = traj'[t].deactivations
                                 + IF traj'[t].status = "active" THEN 1 ELSE 0
    <3>1. /\ traj[t] \in Row
          /\ traj[t].agents = traj[t].deactivations
                              + IF traj[t].status = "active" THEN 1 ELSE 0
      BY DEF Custody, TypeOK, StintsCounted
    <3>2. traj[t].agents \in Nat /\ traj[t].deactivations \in Nat
      BY <3>1 DEF Row
    <3>3. ASSUME NEW k \in V, t = ptr[k]
          PROVE  traj'[t].agents = traj'[t].deactivations
                                   + IF traj'[t].status = "active" THEN 1 ELSE 0
      BY <1>3, <3>1, <3>2, <3>3
    <3>4. CASE \A k \in V : ptr[k] # t
      BY <1>1, <3>1, <3>4
    <3>5. QED
      BY <3>3, <3>4
  <2>2. QED
    BY <2>1 DEF StintsCounted
<1>12. TypeOK'
  BY SweepTypes DEF Custody
<1>13. QED
  BY <1>6, <1>7, <1>9, <1>10, <1>11, <1>12 DEF Custody

\* No trajectory exists at the start.
LEMMA CustodyInit == Init => Custody
<1> SUFFICES ASSUME Init PROVE Custody
  OBVIOUS
<1>1. TypeOK
  BY TypeInit
<1>2. /\ \A k \in Keys : ptr[k] = NoTraj /\ best[k] = NoBest
      /\ \A e \in Entry : pool[e] = 0
      /\ \A t \in TrajIds : /\ traj[t].status = "unborn"
                            /\ traj[t].agents = 0 /\ traj[t].deactivations = 0
  BY DEF Init, Unborn
<1>3. OneCustodian /\ ChallengeIsolation /\ FloorIsPeak
  BY <1>2 DEF OneCustodian, ChallengeIsolation, FloorIsPeak
<1>4. StatusAgrees
  BY <1>2 DEF StatusAgrees, TrajIds, NoTraj
<1>5. StintsCounted
  BY <1>2 DEF StintsCounted
<1>6. QED
  BY <1>1, <1>3, <1>4, <1>5 DEF Custody

\* The host's changes to the pool: unscored seeds come, whole entries go.
LEMMA FewerEntries ==
    ASSUME Custody, TypeOK', UNCHANGED <<ptr, best, traj>>,
           \A e \in Entry : pool'[e] > 0 =>
              pool'[e] = pool[e] \/ \E c \in Challenges : e = Seed(c)
    PROVE  Custody'
<1>1. \A c \in Challenges : Seed(c).traj = NoTraj /\ Seed(c).score = NoScore
  BY DEF Seed
<1>2. ASSUME NEW e \in Entry, pool'[e] > 0, e.traj # NoTraj
      PROVE  pool[e] > 0 /\ pool'[e] = pool[e]
  BY <1>1, <1>2
<1>3. OneCustodian' /\ StatusAgrees' /\ ChallengeIsolation'
  BY <1>2 DEF Custody, OneCustodian, StatusAgrees, ChallengeIsolation
<1>4. FloorIsPeak'
  <2>1. ASSUME NEW e \in Entry, pool'[e] > 0
        PROVE  \/ e.traj = NoTraj /\ e.score = NoScore
               \/ /\ e.traj # NoTraj /\ e.score # NoScore
                  /\ e.score = traj[e.traj].score
                  /\ e.score >= 0
    BY <1>1, <2>1 DEF Custody, FloorIsPeak
  <2>2. QED
    BY <2>1 DEF Custody, FloorIsPeak
<1>5. QED
  BY <1>3, <1>4 DEF Custody, StintsCounted

LEMMA CustodyStep == Custody /\ [Next]_vars => Custody'
<1> SUFFICES ASSUME Custody, [Next]_vars PROVE Custody'
  OBVIOUS
<1>0. TypeOK'
  BY TypeStep DEF Custody
<1>1. ASSUME NEW k \in Keys, Poll(k) PROVE Custody'
  BY <1>0, <1>1, CustodyFrame DEF Poll
<1>2. ASSUME NEW k \in Keys, ResetTxn(k) PROVE Custody'
  <2>1. CASE StillDue(k) /\ Reset(k)
    <3>1. best[k] # NoBest
      BY <2>1 DEF StillDue, ResetDue, Stagnated, NegativeCull
    <3>2. QED
      BY <1>0, <2>1, <3>1, ResetCustody
  <2>2. CASE UNCHANGED <<ptr, rsi, best, traj, pool, edited>>
    BY <1>0, <2>2, CustodyFrame
  <2>3. QED
    BY <1>2, <2>1, <2>2 DEF ResetTxn
<1>3. ASSUME NEW k \in Keys, ForcedResetTxn(k) PROVE Custody'
  <2>1. CASE best[k] # NoBest /\ Reset(k)
    BY <1>0, <2>1, ResetCustody
  <2>2. CASE UNCHANGED <<ptr, rsi, best, traj, pool, edited>>
    BY <1>0, <2>2, CustodyFrame
  <2>3. QED
    BY <1>3, <2>1, <2>2 DEF ForcedResetTxn
<1>4. ASSUME NEW k \in Keys, GoSilent(k) PROVE Custody'
  BY <1>0, <1>4, CustodyFrame DEF GoSilent
<1>5. ASSUME NEW k \in Keys, NEW s \in Scores, NEW f \in BOOLEAN,
             NEW r \in BOOLEAN, Publish(k, s, f, r)
      PROVE  Custody'
  BY <1>0, <1>5, PublishCustody
<1>6. ASSUME NEW a \in Agents, Heartbeat(a) PROVE Custody'
  BY <1>0, <1>6, CustodyFrame DEF Heartbeat
<1>7. CASE SweepSnapshot
  BY <1>0, <1>7, CustodyFrame DEF SweepSnapshot
<1>8. CASE SweepApply
  BY <1>8, SweepCustody
<1>9. CASE Restart
  BY <1>0, <1>9, CustodyFrame DEF Restart
<1>10. ASSUME NEW c \in Challenges, SeedInactive(c) PROVE Custody'
  <2>1. UNCHANGED <<ptr, best, traj>>
    BY <1>10 DEF SeedInactive
  <2>2. \A e \in Entry : e # Seed(c) => pool'[e] = pool[e]
    BY <1>10 DEF SeedInactive, Custody, TypeOK
  <2>3. QED
    BY <1>0, <2>1, <2>2, FewerEntries
<1>11. ASSUME NEW c \in Challenges, ClearInactive(c) PROVE Custody'
  <2>1. UNCHANGED <<ptr, best, traj>>
    BY <1>11 DEF ClearInactive
  <2>2. \A e \in Entry : pool'[e] > 0 => pool'[e] = pool[e]
    BY <1>11 DEF ClearInactive
  <2>3. QED
    BY <1>0, <2>1, <2>2, FewerEntries
<1>12. ASSUME NEW c \in Challenges, ResetChallenge(c) PROVE Custody'
  <2>1. UNCHANGED <<ptr, traj, pool>>
    BY <1>12 DEF ResetChallenge
  <2>2. \A k \in Keys : best'[k] = best[k] \/ best'[k] = NoBest
    BY <1>12 DEF ResetChallenge
  <2>3. FloorIsPeak'
    BY <2>1, <2>2 DEF Custody, FloorIsPeak
  <2>4. QED
    BY <1>0, <2>1, <2>3 DEF Custody, OneCustodian, StatusAgrees,
                            ChallengeIsolation, StintsCounted
<1>13. CASE UNCHANGED vars
  BY <1>0, <1>13, CustodyFrame DEF vars
<1>14. QED
  BY <1>1, <1>2, <1>3, <1>4, <1>5, <1>6, <1>7, <1>8, <1>9, <1>10, <1>11,
     <1>12, <1>13 DEF Next

\* Custody holds in every reachable state.
THEOREM CustodyHolds == Spec => []Custody
BY CustodyInit, CustodyStep, PTL DEF Spec

\* However resets, publishes, sweeps, restarts and admin requests interleave, a
\* trajectory is one agent's or one pool row's (maybe_reset_trajectory's write
\* lock and re-check, the sweep's compare-and-swap).
THEOREM SingleCustody == Spec => []OneCustodian
<1>1. Custody => OneCustodian
  BY DEF Custody
<1>2. QED
  BY <1>1, CustodyHolds, PTL

\* trajectories.status is right about who holds what.
THEOREM StatusTruth == Spec => []StatusAgrees
<1>1. Custody => StatusAgrees
  BY DEF Custody
<1>2. QED
  BY <1>1, CustodyHolds, PTL

\* No reset hands out another challenge's code.
THEOREM Isolation == Spec => []ChallengeIsolation
<1>1. Custody => ChallengeIsolation
  BY DEF Custody
<1>2. QED
  BY <1>1, CustodyHolds, PTL

\* Floor, pool score and current_score are one number.
THEOREM FloorPeak == Spec => []FloorIsPeak
<1>1. Custody => FloorIsPeak
  BY DEF Custody
<1>2. QED
  BY <1>1, CustodyHolds, PTL

\* num_agents and num_deactivations count the stints exactly.
THEOREM StintCount == Spec => []StintsCounted
<1>1. Custody => StintsCounted
  BY DEF Custody
<1>2. QED
  BY <1>1, CustodyHolds, PTL

\* The sweep's compare-and-swap never takes from an agent that is back.
THEOREM SparesLive == Spec => SweepSparesLive
<1>1. ASSUME [Next]_vars
      PROVE  [\A k \in Keys :
                sweep.on /\ ~sweep'.on /\ ptr'[k] # ptr[k] => ~fresh[k]]_vars
  <2> SUFFICES ASSUME NEW k \in Keys, sweep.on, ~sweep'.on, ptr'[k] # ptr[k]
               PROVE  ~fresh[k]
    OBVIOUS
  <2>1. CASE SweepApply
    BY <2>1 DEF SweepApply, SweepVictims
  <2>2. CASE Restart
    BY <2>2 DEF Restart
  <2>3. CASE SweepSnapshot
    BY <2>3 DEF SweepSnapshot
  <2>4. ASSUME ~SweepApply, ~Restart, ~SweepSnapshot PROVE UNCHANGED sweep
    BY <1>1, <2>4 DEF Next, Poll, ResetTxn, ForcedResetTxn, GoSilent, Publish,
       Heartbeat, SeedInactive, ClearInactive, ResetChallenge, vars
  <2>5. QED
    BY <2>1, <2>2, <2>3, <2>4
<1>2. QED
  BY <1>1, PTL DEF Spec, SweepSparesLive

-----------------------------------------------------------------------------
(* Floors and banked work: what a scoring era earned is neither lost nor   *)
(* lowered.  On top of custody the argument needs that an agent on a       *)
(* trajectory scored in this era has a floor: only then does taking the    *)
(* trajectory from it deposit the work.                                    *)

\* No score is from a future era.
EraBehind == \A t \in TrajIds : traj[t].era <= era[traj[t].challenge]

\* Code without its modules is of a line the sweep has banked.
OnlySweepStrips ==
    /\ \A k \in Keys : best[k] # NoBest => best[k].whole \/ ptr[k] \in swept
    /\ \A e \in Entry : pool[e] > 0 /\ e.traj # NoTraj =>
          e.whole \/ e.traj \in swept

Floors ==
    /\ Custody
    /\ EraBehind
    /\ ScoredIsFloored
    /\ OnlySweepStrips
    /\ WorkIsBanked

LEMMA FloorsFrame ==
    ASSUME Floors, Custody',
           UNCHANGED <<ptr, best, traj, pool, era, purged, swept>>
    PROVE  Floors'
BY DEF Floors, EraBehind, ScoredIsFloored, OnlySweepStrips, WorkIsBanked

LEMMA RowEras ==
    ASSUME NEW row \in Row, NEW improved \in BOOLEAN, NEW s \in Scores,
           NEW e \in 0 .. MaxEras
    PROVE  /\ Deactivated(row).era = row.era
           /\ Joined(row).era = row.era
           /\ Edited(row, improved, s, e).era = IF improved THEN e ELSE row.era
BY DEF Deactivated, Joined, Edited, Row

\* A reset drops nothing from the pool but the entry it adopts.
LEMMA ResetKeepsPool ==
    ASSUME Custody, NEW k \in Keys, best[k] # NoBest, Reset(k)
    PROVE  /\ \A x \in Entry :
                 pool[x] > 0 /\ x.traj # NoTraj /\ x.traj # ptr'[k] => pool'[x] > 0
           /\ Banks(k) => pool'[Deposited(k)] > 0
<1> DEFINE Bank(p) == IF Banks(k)
                      THEN [p EXCEPT ![Deposited(k)] = p[Deposited(k)] + 1]
                      ELSE p
<1>1. Deposited(k) \in Entry /\ pool \in [Entry -> Nat]
  BY DepositedType DEF Custody, TypeOK
<1>2. ASSUME NEW p \in [Entry -> Nat], NEW x \in Entry
      PROVE  /\ p[x] > 0 => Bank(p)[x] > 0
             /\ Banks(k) => Bank(p)[Deposited(k)] > 0
  BY <1>1
<1>3. CASE pool' = Bank(pool)
  <2>1. ASSUME NEW x \in Entry PROVE pool[x] > 0 => pool'[x] > 0
    BY <1>1, <1>2, <1>3
  <2>2. Banks(k) => pool'[Deposited(k)] > 0
    BY <1>1, <1>2, <1>3
  <2>3. QED
    BY <2>1, <2>2
<1>4. ASSUME NEW e \in Pooled(ChallengeOf(k)),
             ptr' = [ptr EXCEPT ![k] = e.traj],
             pool' = Bank(Consumed(pool, e))
      PROVE  /\ \A x \in Entry :
                   pool[x] > 0 /\ x.traj # NoTraj /\ x.traj # ptr'[k] => pool'[x] > 0
             /\ Banks(k) => pool'[Deposited(k)] > 0
  <2> DEFINE p == Consumed(pool, e)
  <2>1. e \in Entry /\ pool[e] > 0 /\ ptr'[k] = e.traj
    BY <1>4 DEF Pooled, Custody, TypeOK
  <2>2. p \in [Entry -> Nat] /\ \A x \in Entry : x # e => p[x] = pool[x]
    BY <1>1, <2>1 DEF Consumed
  <2>3. ASSUME NEW x \in Entry, pool[x] > 0, x.traj # ptr'[k]
        PROVE  pool'[x] > 0
    <3>1. p[x] > 0
      BY <2>1, <2>2, <2>3
    <3>2. QED
      BY <1>2, <1>4, <2>2, <3>1
  <2>4. Banks(k) => pool'[Deposited(k)] > 0
    BY <1>1, <1>2, <1>4, <2>2
  <2>5. QED
    BY <2>3, <2>4
<1>5. QED
  BY <1>3, <1>4 DEF Reset

\* No transition but a publish moves a score, and none moves a trajectory to
\* another challenge.
RowsKept ==
    \A t \in TrajIds : /\ traj'[t].challenge = traj[t].challenge
                       /\ traj'[t].score = traj[t].score
                       /\ traj'[t].era = traj[t].era

LEMMA ResetRows ==
    ASSUME Custody, NEW k \in Keys, best[k] # NoBest, Reset(k)
    PROVE  RowsKept
<1>1. GivenUp(k) /\ TakenUp(k) /\ LeftAlone(k)
  BY ResetEffect
<1>2. ASSUME NEW t \in TrajIds
      PROVE  /\ traj'[t].challenge = traj[t].challenge
             /\ traj'[t].score = traj[t].score
             /\ traj'[t].era = traj[t].era
  <2>1. traj[t] \in Row
    BY DEF Custody, TypeOK
  <2>2. CASE t = ptr[k]
    <3>1. traj[t].status = "active" /\ traj'[t] = Deactivated(traj[t])
      BY <1>1, <2>2, HeldFacts DEF GivenUp, NoTraj, TrajIds
    <3>2. QED
      BY <2>1, <3>1 DEF Deactivated, Row
  <2>3. CASE t = ptr'[k]
    <3>1. traj'[t] = Joined(traj[t])
      BY <1>1, <2>3 DEF TakenUp, NoTraj, TrajIds
    <3>2. QED
      BY <2>1, <3>1 DEF Joined, Row
  <2>4. CASE t # ptr[k] /\ t # ptr'[k]
    BY <1>1, <2>4 DEF LeftAlone
  <2>5. QED
    BY <2>2, <2>3, <2>4
<1>3. QED
  BY <1>2 DEF RowsKept

LEMMA ResetFloors ==
    ASSUME Floors, Custody', NEW k \in Keys, best[k] # NoBest, Reset(k),
           UNCHANGED <<era, purged, swept>>
    PROVE  Floors'
<1>1. /\ Custody
      /\ GivenUp(k) /\ TakenUp(k) /\ LeftAlone(k)
  BY ResetEffect DEF Floors
<1>2. \A t \in TrajIds : /\ traj'[t].challenge = traj[t].challenge
                         /\ traj'[t].score = traj[t].score
                         /\ traj'[t].era = traj[t].era
  BY <1>1, ResetRows DEF RowsKept
<1>3. EraBehind'
  BY <1>2 DEF Floors, EraBehind
<1>4. ScoredIsFloored'
  <2>1. ptr'[k] # NoTraj => best'[k] # NoBest
    <3>1. ASSUME NEW e \in Entry, pool[e] > 0, e.traj # NoTraj,
                 best'[k] = AdoptedBest(e)
          PROVE  best'[k] # NoBest
      <4>1. e.score # NoScore
        BY <1>1, <3>1, PooledFacts
      <4>2. e.traj \in 0 .. MaxTrajectories /\ e.score \in Scores
        <5>1. e.traj \in TrajIds /\ e.score \in Scores \cup {NoScore}
          BY <3>1 DEF Entry
        <5>2. QED
          BY <4>1, <5>1, ConstantsAssumption DEF ConstantsAssumption, TrajIds
      <4>3. best'[k] \in [traj : 0 .. MaxTrajectories, score : Scores,
                          feasible : BOOLEAN, whole : BOOLEAN]
        BY <3>1, <4>1, <4>2 DEF AdoptedBest, Entry
      <4>4. QED
        BY <4>3, ConstantsAssumption DEF ConstantsAssumption
    <3>2. QED
      BY <1>1, <3>1 DEF TakenUp
  <2>2. ASSUME NEW j \in Keys, j # k, ptr'[j] # NoTraj, best'[j] = NoBest
        PROVE  \/ traj'[ptr'[j]].score = NoScore
               \/ traj'[ptr'[j]].era < era'[ChallengeOf(j)]
    <3>1. ptr'[j] = ptr[j] /\ best'[j] = best[j]
      BY <1>1, <2>2 DEF LeftAlone
    <3>2. ptr[j] \in TrajIds
      BY <1>1, <2>2, <3>1, HeldFacts
    <3>3. QED
      BY <1>2, <2>2, <3>1, <3>2 DEF Floors, ScoredIsFloored
  <2>3. QED
    BY <2>1, <2>2 DEF ScoredIsFloored
\* What the reset deposits or hands over is as whole as it was.
<1>5. OnlySweepStrips'
  <2>1. PooledAfter(k)
    BY <1>1, ResetEffect
  <2>2. ASSUME NEW j \in Keys, best'[j] # NoBest
        PROVE  best'[j].whole \/ ptr'[j] \in swept
    <3>1. CASE j = k
      <4>1. PICK e \in Entry : /\ pool[e] > 0 /\ e.traj # NoTraj
                              /\ ptr'[k] = e.traj /\ best'[k] = AdoptedBest(e)
        BY <1>1, <2>2, <3>1 DEF TakenUp
      <4>2. e.score # NoScore /\ (e.whole \/ e.traj \in swept)
        BY <1>1, <4>1, PooledFacts DEF Floors, OnlySweepStrips
      <4>3. best'[k].whole = e.whole
        BY <4>1, <4>2 DEF AdoptedBest
      <4>4. QED
        BY <3>1, <4>1, <4>2, <4>3
    <3>2. CASE j # k
      BY <1>1, <2>2, <3>2 DEF LeftAlone, Floors, OnlySweepStrips
    <3>3. QED
      BY <3>1, <3>2
  <2>3. ASSUME NEW x \in Entry, pool'[x] > 0, x.traj # NoTraj
        PROVE  x.whole \/ x.traj \in swept
    <3>1. CASE x = Deposited(k)
      <4>1. x.whole = best[k].whole /\ x.traj = ptr[k]
        BY <3>1 DEF Deposited
      <4>2. QED
        BY <4>1 DEF Floors, OnlySweepStrips
    <3>2. CASE pool[x] > 0
      BY <2>3, <3>2 DEF Floors, OnlySweepStrips
    <3>3. QED
      BY <2>1, <2>3, <3>1, <3>2 DEF PooledAfter
  <2>4. QED
    BY <2>2, <2>3 DEF OnlySweepStrips
<1>6. WorkIsBanked'
  <2>1. ASSUME NEW t \in TrajIds,
               traj'[t].status = "inactive", traj'[t].score # NoScore,
               traj'[t].score >= 0,
               traj'[t].era = era'[traj'[t].challenge], t \notin purged'
        PROVE  \E e \in Entry : pool'[e] > 0 /\ e.traj = t
    <3>1. t # NoTraj
      BY DEF TrajIds, NoTraj
    <3>2. CASE t = ptr[k]
      <4>1. Banks(k)
        BY <1>1, <1>2, <2>1, <3>2 DEF Banks, Custody, FloorIsPeak
      <4>2. Deposited(k) \in Entry /\ Deposited(k).traj = t
        BY <1>1, <3>2, DepositedType DEF Deposited, Custody
      <4>3. QED
        BY <1>1, <4>1, <4>2, ResetKeepsPool
    <3>3. CASE t # ptr[k]
      <4>1. t # ptr'[k]
        BY <2>1, <3>1 DEF Custody, StatusAgrees
      <4>2. traj'[t] = traj[t]
        BY <1>1, <3>3, <4>1 DEF LeftAlone
      <4>3. PICK e \in Entry : pool[e] > 0 /\ e.traj = t
        BY <2>1, <4>2 DEF Floors, WorkIsBanked
      <4>4. QED
        BY <1>1, <3>1, <4>1, <4>3, ResetKeepsPool
    <3>4. QED
      BY <3>2, <3>3
  <2>2. \A e \in Entry : pool'[e] > 0 /\ e.traj \in TrajIds =>
           e.whole \/ e.traj \in swept'
    BY <1>5 DEF OnlySweepStrips, TrajIds, NoTraj
  <2>3. QED
    BY <2>1, <2>2 DEF WorkIsBanked
<1>7. QED
  BY <1>3, <1>4, <1>5, <1>6 DEF Floors

\* A publish raises the score of the trajectory it writes together with the
\* floor, and takes no trajectory away.
LEMMA PublishFloors ==
    ASSUME Floors, Custody', NEW k \in Keys, NEW s \in Scores, NEW f \in BOOLEAN,
           NEW r \in BOOLEAN, Publish(k, s, f, r)
    PROVE  Floors'
<1> DEFINE c == ChallengeOf(k)
           beats == BeatsTrajectoryBest(k, s, f)
           row(t) == IF ptr[k] = NoTraj
                     THEN Created(c, IF beats THEN s ELSE NoScore, era[c])
                     ELSE traj[t]
<1>1. /\ Custody
      /\ ptr \in [Keys -> TrajIds \cup {NoTraj}]
      /\ best \in [Keys -> Best \cup {NoBest}]
      /\ traj \in [TrajIds -> Row]
      /\ pool' = pool /\ era' = era /\ purged' = purged
  BY DEF Floors, Custody, TypeOK, Publish
<1>2. c \in Challenges /\ era[c] \in 0 .. MaxEras /\ beats \in BOOLEAN
  BY DEF Keys, ChallengeOf, Floors, Custody, TypeOK, BeatsTrajectoryBest
<1>3. PICK t \in TrajIds :
        /\ t = ptr[k] \/ (ptr[k] = NoTraj /\ traj[t].status = "unborn")
        /\ ptr' = [ptr EXCEPT ![k] = t]
        /\ traj' = [traj EXCEPT ![t] = Edited(row(t), beats, s, era[c])]
        /\ best' = [best EXCEPT ![k] = BestAfter(k, t, s, f, r)]
        /\ swept' = IF beats \/ r THEN swept \ {t} ELSE swept
  BY DEF Publish
<1>4. /\ \A j \in Keys \ {k} : ptr'[j] = ptr[j] /\ best'[j] = best[j]
      /\ ptr'[k] = t /\ t # NoTraj
      /\ \A u \in TrajIds : u # t => traj'[u] = traj[u]
      /\ best'[k] = BestAfter(k, t, s, f, r)
  BY <1>1, <1>3 DEF TrajIds, NoTraj
<1>5. row(t) \in Row
  <2>1. (IF beats THEN s ELSE NoScore) \in Scores \cup {NoScore}
    OBVIOUS
  <2>2. Created(c, IF beats THEN s ELSE NoScore, era[c]) \in Row
    BY <1>2, <2>1, CreatedType
  <2>3. QED
    BY <1>1, <2>2
<1>6. /\ traj'[t].challenge = row(t).challenge
      /\ traj'[t].score = IF beats THEN s ELSE row(t).score
      /\ traj'[t].era = IF beats THEN era[c] ELSE row(t).era
  <2>1. traj'[t] = Edited(row(t), beats, s, era[c])
    BY <1>1, <1>3
  <2>2. QED
    BY <1>2, <1>5, <2>1, EditedRow, RowEras
<1>7. row(t).challenge = c /\ row(t).era <= era[c]
  <2>1. CASE ptr[k] = NoTraj
    BY <1>2, <2>1 DEF Created
  <2>2. CASE ptr[k] # NoTraj
    <3>1. row(t) = traj[t] /\ traj[t].challenge = c
      BY <1>1, <1>3, <2>2, HeldFacts
    <3>2. QED
      BY <3>1 DEF Floors, EraBehind
  <2>3. QED
    BY <2>1, <2>2
<1>8. EraBehind'
  <2>1. traj'[t].era <= era[traj'[t].challenge]
    BY <1>2, <1>6, <1>7
  <2>2. QED
    BY <1>1, <1>4, <2>1 DEF Floors, EraBehind
<1>9. ScoredIsFloored'
  <2>1. ASSUME best'[k] = NoBest
        PROVE  traj'[t].score = NoScore \/ traj'[t].era < era[c]
    <3>1. CASE beats
      <4>1. best'[k] = [traj |-> t, score |-> s, feasible |-> f, whole |-> TRUE]
        BY <1>4, <3>1 DEF BestAfter
      <4>2. t \in 0 .. MaxTrajectories
        BY ConstantsAssumption DEF ConstantsAssumption, TrajIds
      <4>3. best'[k] \in [traj : 0 .. MaxTrajectories, score : Scores,
                          feasible : BOOLEAN, whole : BOOLEAN]
        BY <4>1, <4>2
      <4>4. QED
        BY <2>1, <4>3, ConstantsAssumption DEF ConstantsAssumption
    <3>2. CASE ~beats /\ r
      <4>1. best'[k] = [traj |-> t, score |-> best[k].score, feasible |-> f,
                 whole |-> TRUE]
        BY <1>4, <3>2 DEF BestAfter
      <4>2. best[k] \in Best
        BY <1>1, <3>2 DEF Publish
      <4>3. t \in 0 .. MaxTrajectories /\ best[k].score \in Scores
        BY <4>2, ConstantsAssumption DEF ConstantsAssumption, TrajIds, Best
      <4>4. best'[k] \in [traj : 0 .. MaxTrajectories, score : Scores,
                          feasible : BOOLEAN, whole : BOOLEAN]
        BY <4>1, <4>3
      <4>5. QED
        BY <2>1, <4>4, ConstantsAssumption DEF ConstantsAssumption
    <3>3. CASE ~beats /\ ~r
      <4>1. best[k] = NoBest /\ traj'[t].score = row(t).score
            /\ traj'[t].era = row(t).era
        BY <1>4, <1>6, <2>1, <3>3 DEF BestAfter
      <4>2. CASE ptr[k] = NoTraj
        BY <3>3, <4>1, <4>2 DEF Created
      <4>3. CASE ptr[k] # NoTraj
        BY <1>3, <4>1, <4>3 DEF Floors, ScoredIsFloored
      <4>4. QED
        BY <4>2, <4>3
    <3>4. QED
      BY <1>2, <3>1, <3>2, <3>3
  <2>2. ASSUME NEW j \in Keys, j # k, ptr'[j] # NoTraj, best'[j] = NoBest
        PROVE  \/ traj'[ptr'[j]].score = NoScore
               \/ traj'[ptr'[j]].era < era[ChallengeOf(j)]
    <3>1. ptr'[j] = ptr[j] /\ best'[j] = best[j] /\ ptr[j] \in TrajIds
      BY <1>1, <1>4, <2>2, HeldFacts
    <3>2. ptr[j] # t
      BY <1>4, <2>2, <3>1 DEF Custody, OneCustodian
    <3>3. QED
      BY <1>4, <2>2, <3>1, <3>2 DEF Floors, ScoredIsFloored
  <2>3. QED
    BY <1>1, <1>4, <2>1, <2>2 DEF ScoredIsFloored
\* What is published is whole; the line is in nobody else's hands.
<1>10. OnlySweepStrips'
  <2>1. ASSUME NEW j \in Keys, best'[j] # NoBest
        PROVE  best'[j].whole \/ ptr'[j] \in swept'
    <3>1. CASE j = k /\ (beats \/ r)
      BY <1>4, <3>1 DEF BestAfter
    <3>2. CASE j = k /\ ~(beats \/ r)
      <4>1. best'[k] = best[k] /\ swept' = swept
        BY <1>3, <1>4, <3>2 DEF BestAfter
      <4>2. ptr[k] # NoTraj
        BY <1>1, <2>1, <3>2, <4>1 DEF Custody, FloorIsPeak
      <4>3. ptr'[k] = ptr[k]
        BY <1>3, <1>4, <4>2
      <4>4. QED
        BY <2>1, <3>2, <4>1, <4>3 DEF Floors, OnlySweepStrips
    <3>3. CASE j # k
      <4>1. ptr'[j] = ptr[j] /\ best'[j] = best[j]
        BY <1>4, <3>3
      <4>2. ptr[j] # NoTraj
        BY <1>1, <2>1, <4>1 DEF Custody, FloorIsPeak
      <4>3. ptr'[j] # t
        BY <1>4, <3>3, <4>1, <4>2 DEF Custody, OneCustodian
      <4>4. QED
        BY <1>3, <2>1, <4>1, <4>3 DEF Floors, OnlySweepStrips
    <3>4. QED
      BY <3>1, <3>2, <3>3
  <2>2. ASSUME NEW e \in Entry, pool[e] > 0, e.traj # NoTraj
        PROVE  e.whole \/ e.traj \in swept'
    <3>1. e.traj # t
      BY <1>1, <1>4, <2>2 DEF Custody, OneCustodian
    <3>2. QED
      BY <1>3, <2>2, <3>1 DEF Floors, OnlySweepStrips
  <2>3. QED
    BY <1>1, <2>1, <2>2 DEF OnlySweepStrips
<1>11. WorkIsBanked'
  <2>1. traj'[t].status = "active"
    BY <1>4 DEF Custody, StatusAgrees
  <2>2. ASSUME NEW u \in TrajIds, u # t, u \in swept PROVE u \in swept'
    BY <1>3, <2>2
  <2>3. QED
    BY <1>1, <1>4, <2>1, <2>2 DEF Floors, WorkIsBanked
<1>12. QED
  BY <1>8, <1>9, <1>10, <1>11 DEF Floors

\* A sweep deposits the best of every victim whose score may be pooled.
LEMMA SweepFloors ==
    ASSUME Floors, Custody', SweepApply
    PROVE  Floors'
<1> DEFINE V == SweepVictims
           From(e) == {k \in SweepVictims : Banks(k) /\ SweptOff(k) = e}
<1>1. /\ Custody /\ era' = era /\ purged' = purged
      /\ V \subseteq Keys
      /\ \A k \in V : /\ ptr[k] # NoTraj
                      /\ ptr'[k] = NoTraj /\ best'[k] = NoBest
                      /\ traj'[ptr[k]] = Deactivated(traj[ptr[k]])
      /\ \A k \in Keys \ V : ptr'[k] = ptr[k] /\ best'[k] = best[k]
      /\ \A t \in TrajIds : (\A k \in V : ptr[k] # t) => traj'[t] = traj[t]
  BY SweepEffect DEF Floors, SweepApply
<1>2. ASSUME NEW t \in TrajIds
      PROVE  /\ traj'[t].challenge = traj[t].challenge
             /\ traj'[t].score = traj[t].score
             /\ traj'[t].era = traj[t].era
  <2>1. traj[t] \in Row
    BY <1>1 DEF Custody, TypeOK
  <2>2. traj'[t] = traj[t] \/ traj'[t] = Deactivated(traj[t])
    BY <1>1
  <2>3. QED
    BY <2>1, <2>2 DEF Deactivated, Row
<1>3. EraBehind'
  BY <1>1, <1>2 DEF Floors, EraBehind
<1>4. ScoredIsFloored'
  <2>1. ASSUME NEW j \in Keys, ptr'[j] # NoTraj, best'[j] = NoBest
        PROVE  \/ traj'[ptr'[j]].score = NoScore
               \/ traj'[ptr'[j]].era < era'[ChallengeOf(j)]
    <3>1. ptr'[j] = ptr[j] /\ best'[j] = best[j]
      BY <1>1, <2>1
    <3>2. ptr[j] \in TrajIds
      BY <1>1, <2>1, <3>1, HeldFacts
    <3>3. QED
      BY <1>1, <1>2, <2>1, <3>1, <3>2 DEF Floors, ScoredIsFloored
  <2>2. QED
    BY <2>1 DEF ScoredIsFloored
\* Nothing leaves the pool, and every bankable best enters it.
<1>5. ASSUME NEW x \in Entry
      PROVE  pool[x] > 0 \/ From(x) # {} => pool'[x] > 0
  <2>1. From(x) \subseteq Keys
    BY <1>1
  <2>2. IsFiniteSet(From(x))
    BY <2>1, KeysFinite, FS_Subset
  <2>3. /\ Cardinality(From(x)) \in Nat
        /\ From(x) # {} => Cardinality(From(x)) # 0
    BY <2>2, FS_CardinalityType, FS_EmptySet
  <2>4. pool[x] \in Nat /\ pool'[x] = pool[x] + Cardinality(From(x))
    BY <1>1 DEF Custody, TypeOK, SweepApply
  <2>5. QED
    BY <2>3, <2>4
\* What a victim loses its modules to is the sweep.
<1>6. OnlySweepStrips'
  <2>1. /\ swept' = swept \cup {ptr[k] : k \in {j \in V : Banks(j)}}
        /\ swept \subseteq swept'
    BY DEF SweepApply
  <2>2. ASSUME NEW j \in Keys, best'[j] # NoBest
        PROVE  best'[j].whole \/ ptr'[j] \in swept'
    <3>1. ptr'[j] = ptr[j] /\ best'[j] = best[j]
      BY <1>1, <2>2
    <3>2. QED
      BY <2>1, <2>2, <3>1 DEF Floors, OnlySweepStrips
  <2>3. ASSUME NEW x \in Entry, pool'[x] > 0, x.traj # NoTraj
        PROVE  x.whole \/ x.traj \in swept'
    <3>1. ASSUME NEW k \in V, x = SweptOff(k), Banks(k)
          PROVE  x.traj \in swept'
      <4>1. x.traj = ptr[k]
        BY <3>1 DEF SweptOff, Deposited
      <4>2. QED
        BY <2>1, <3>1, <4>1
    <3>2. CASE pool[x] > 0
      BY <2>1, <2>3, <3>2 DEF Floors, OnlySweepStrips
    <3>3. QED
      BY <1>1, <2>3, <3>1, <3>2, SweepEffect
  <2>4. QED
    BY <2>2, <2>3 DEF OnlySweepStrips
<1>7. WorkIsBanked'
  <2>1. ASSUME NEW t \in TrajIds,
               traj'[t].status = "inactive", traj'[t].score # NoScore,
               traj'[t].score >= 0,
               traj'[t].era = era'[traj'[t].challenge], t \notin purged'
        PROVE  \E e \in Entry : pool'[e] > 0 /\ e.traj = t
    <3>1. ASSUME NEW k \in V, t = ptr[k]
          PROVE  \E e \in Entry : pool'[e] > 0 /\ e.traj = t
      <4>1. k \in Keys /\ ptr[k] # NoTraj /\ traj[t].challenge = ChallengeOf(k)
        BY <1>1, <3>1, HeldFacts
      <4>2. traj[t].era = era[ChallengeOf(k)]
        BY <1>1, <1>2, <2>1, <4>1
      <4>3. era[ChallengeOf(k)] \in Nat
        BY <1>1, <4>1, ConstantsAssumption
           DEF ConstantsAssumption, Custody, TypeOK, Keys, ChallengeOf
      <4>4. best[k] # NoBest
        BY <1>2, <2>1, <3>1, <4>1, <4>2, <4>3 DEF Floors, ScoredIsFloored
      <4>5. Banks(k)
        BY <1>1, <1>2, <2>1, <3>1, <4>1, <4>4 DEF Banks, Custody, FloorIsPeak
      <4>6. SweptOff(k) \in Entry /\ SweptOff(k).traj = t
        BY <1>1, <3>1, <4>1, <4>4, DepositedType DEF SweptOff, Deposited, Custody
      <4>7. k \in From(SweptOff(k))
        BY <4>5
      <4>8. QED
        BY <1>5, <4>6, <4>7
    <3>2. CASE \A k \in V : ptr[k] # t
      <4>1. traj'[t] = traj[t]
        BY <1>1, <3>2
      <4>2. PICK e \in Entry : pool[e] > 0 /\ e.traj = t
        BY <1>1, <2>1, <4>1 DEF Floors, WorkIsBanked
      <4>3. QED
        BY <1>5, <4>2
    <3>3. QED
      BY <3>1, <3>2
  <2>2. \A e \in Entry : pool'[e] > 0 /\ e.traj \in TrajIds =>
           e.whole \/ e.traj \in swept'
    BY <1>6 DEF OnlySweepStrips, TrajIds, NoTraj
  <2>3. QED
    BY <2>1, <2>2 DEF WorkIsBanked
<1>8. QED
  BY <1>3, <1>4, <1>6, <1>7 DEF Floors

LEMMA FloorsInit == Init => Floors
<1> SUFFICES ASSUME Init PROVE Floors
  OBVIOUS
<1>1. Custody
  BY CustodyInit
<1>2. /\ \A k \in Keys : ptr[k] = NoTraj
      /\ \A t \in TrajIds : traj[t].status = "unborn" /\ traj[t].era = 0
                            /\ traj[t].challenge \in Challenges
      /\ \A c \in Challenges : era[c] = 0
  BY ConstantsAssumption DEF ConstantsAssumption, Init, Unborn
<1>3. EraBehind
  BY <1>2 DEF EraBehind
<1>4. ScoredIsFloored /\ WorkIsBanked
  BY <1>2 DEF ScoredIsFloored, WorkIsBanked
<1>5. OnlySweepStrips
  BY DEF Init, OnlySweepStrips
<1>6. QED
  BY <1>1, <1>3, <1>4, <1>5 DEF Floors

LEMMA FloorsStep == Floors /\ [Next]_vars => Floors'
<1> SUFFICES ASSUME Floors, [Next]_vars PROVE Floors'
  OBVIOUS
<1>0. Custody /\ Custody'
  BY CustodyStep DEF Floors
<1>1. ASSUME NEW k \in Keys, Poll(k) PROVE Floors'
  BY <1>0, <1>1, FloorsFrame DEF Poll
<1>2. ASSUME NEW k \in Keys, ResetTxn(k) PROVE Floors'
  <2>1. UNCHANGED <<era, purged, swept>>
    BY <1>2 DEF ResetTxn
  <2>2. CASE StillDue(k) /\ Reset(k)
    <3>1. best[k] # NoBest
      BY <2>2 DEF StillDue, ResetDue, Stagnated, NegativeCull
    <3>2. QED
      BY <1>0, <2>1, <2>2, <3>1, ResetFloors
  <2>3. CASE UNCHANGED <<ptr, rsi, best, traj, pool, edited>>
    BY <1>0, <2>1, <2>3, FloorsFrame
  <2>4. QED
    BY <1>2, <2>2, <2>3 DEF ResetTxn
<1>3. ASSUME NEW k \in Keys, ForcedResetTxn(k) PROVE Floors'
  <2>1. UNCHANGED <<era, purged, swept>>
    BY <1>3 DEF ForcedResetTxn
  <2>2. CASE best[k] # NoBest /\ Reset(k)
    BY <1>0, <2>1, <2>2, ResetFloors
  <2>3. CASE UNCHANGED <<ptr, rsi, best, traj, pool, edited>>
    BY <1>0, <2>1, <2>3, FloorsFrame
  <2>4. QED
    BY <1>3, <2>2, <2>3 DEF ForcedResetTxn
<1>4. ASSUME NEW k \in Keys, GoSilent(k) PROVE Floors'
  BY <1>0, <1>4, FloorsFrame DEF GoSilent
<1>5. ASSUME NEW k \in Keys, NEW s \in Scores, NEW f \in BOOLEAN,
             NEW r \in BOOLEAN, Publish(k, s, f, r)
      PROVE  Floors'
  BY <1>0, <1>5, PublishFloors
<1>6. ASSUME NEW a \in Agents, Heartbeat(a) PROVE Floors'
  BY <1>0, <1>6, FloorsFrame DEF Heartbeat
<1>7. CASE SweepSnapshot
  BY <1>0, <1>7, FloorsFrame DEF SweepSnapshot
<1>8. CASE SweepApply
  BY <1>0, <1>8, SweepFloors
<1>9. CASE Restart
  BY <1>0, <1>9, FloorsFrame DEF Restart
<1>10. ASSUME NEW c \in Challenges, SeedInactive(c) PROVE Floors'
  <2>1. UNCHANGED <<ptr, best, traj, era, purged, swept>>
    BY <1>10 DEF SeedInactive
  <2>2. \A e \in Entry : pool[e] > 0 => pool'[e] > 0
    BY <1>0, <1>10 DEF SeedInactive, Custody, TypeOK
  <2>3. \A e \in Entry : e.traj # NoTraj => pool'[e] = pool[e]
    BY <1>0, <1>10 DEF SeedInactive, Seed, Custody, TypeOK
  <2>4. EraBehind' /\ ScoredIsFloored' /\ OnlySweepStrips'
    BY <2>1, <2>3 DEF Floors, EraBehind, ScoredIsFloored, OnlySweepStrips
  <2>5. WorkIsBanked'
    BY <2>1, <2>2 DEF Floors, WorkIsBanked
  <2>6. QED
    BY <1>0, <2>4, <2>5 DEF Floors
<1>11. ASSUME NEW c \in Challenges, ClearInactive(c) PROVE Floors'
  <2>1. UNCHANGED <<ptr, best, traj, era, swept>>
    BY <1>11 DEF ClearInactive
  <2>2. \A e \in Entry : pool[e] > 0 =>
           pool'[e] > 0 \/ e.traj \notin TrajIds \/ e.traj \in purged'
    BY <1>11 DEF ClearInactive, Pooled
  <2>3. purged \subseteq purged'
    BY <1>11 DEF ClearInactive
  <2>4. WorkIsBanked'
    BY <2>1, <2>2, <2>3 DEF Floors, WorkIsBanked
  <2>5. \A e \in Entry : pool'[e] > 0 => pool[e] > 0
    BY <1>11 DEF ClearInactive
  <2>6. OnlySweepStrips'
    BY <2>1, <2>5 DEF Floors, OnlySweepStrips
  <2>7. QED
    BY <1>0, <2>1, <2>4, <2>6 DEF Floors, EraBehind, ScoredIsFloored
<1>12. ASSUME NEW c \in Challenges, ResetChallenge(c) PROVE Floors'
  <2>1. /\ UNCHANGED <<ptr, traj, pool, purged, swept>>
        /\ \A d \in Challenges : era'[d] = IF d = c THEN era[d] + 1 ELSE era[d]
        /\ \A k \in Keys : ChallengeOf(k) # c => best'[k] = best[k]
    BY <1>0, <1>12 DEF ResetChallenge, Custody, TypeOK
  <2>2. ASSUME NEW t \in TrajIds
        PROVE  /\ traj[t].challenge \in Challenges
               /\ traj[t].era <= era[traj[t].challenge]
               /\ traj[t].era \in Int /\ era[traj[t].challenge] \in Int
    BY <1>0 DEF Custody, TypeOK, Row, Floors, EraBehind
  <2>3. EraBehind'
    BY <2>1, <2>2 DEF EraBehind
  <2>4. ScoredIsFloored'
    <3>1. ASSUME NEW k \in Keys, ptr[k] # NoTraj, best'[k] = NoBest
          PROVE  \/ traj[ptr[k]].score = NoScore
                 \/ traj[ptr[k]].era < era'[ChallengeOf(k)]
      <4>1. ptr[k] \in TrajIds /\ traj[ptr[k]].challenge = ChallengeOf(k)
        BY <1>0, <3>1, HeldFacts
      <4>2. CASE ChallengeOf(k) = c
        BY <2>1, <2>2, <4>1, <4>2
      <4>3. CASE ChallengeOf(k) # c
        BY <2>1, <2>2, <3>1, <4>1, <4>3 DEF Floors, ScoredIsFloored
      <4>4. QED
        BY <4>2, <4>3
    <3>2. QED
      BY <2>1, <3>1 DEF ScoredIsFloored
  <2>5. WorkIsBanked'
    <3>1. \A t \in TrajIds : traj[t].era = era'[traj[t].challenge]
                             => traj[t].era = era[traj[t].challenge]
      BY <2>1, <2>2
    <3>2. QED
      BY <2>1, <3>1 DEF Floors, WorkIsBanked
  <2>6. OnlySweepStrips'
    <3>1. \A k \in Keys : best'[k] = best[k] \/ best'[k] = NoBest
      BY <1>12 DEF ResetChallenge
    <3>2. QED
      BY <2>1, <3>1 DEF Floors, OnlySweepStrips
  <2>7. QED
    BY <1>0, <2>3, <2>4, <2>5, <2>6 DEF Floors
<1>13. CASE UNCHANGED vars
  BY <1>0, <1>13, FloorsFrame DEF vars
<1>14. QED
  BY <1>1, <1>2, <1>3, <1>4, <1>5, <1>6, <1>7, <1>8, <1>9, <1>10, <1>11,
     <1>12, <1>13 DEF Next

\* Floors hold in every reachable state.
THEOREM FloorsHold == Spec => []Floors
BY FloorsInit, FloorsStep, PTL DEF Spec

\* No reset and no sweep loses a score of this era that may be pooled, and
\* nothing but a sweep stores its code without the modules.
THEOREM BankedWork == Spec => []WorkIsBanked
<1>1. Floors => WorkIsBanked
  BY DEF Floors
<1>2. QED
  BY <1>1, FloorsHold, PTL

\* Whoever works on a scored trajectory has its score to beat.
THEOREM FloorForScored == Spec => []ScoredIsFloored
<1>1. Floors => ScoredIsFloored
  BY DEF Floors
<1>2. QED
  BY <1>1, FloorsHold, PTL

\* A trajectory id that is not in use has no score.
UnbornIsBlank ==
    \A t \in TrajIds : traj[t].status = "unborn" => traj[t].score = NoScore

\* No handler returns a trajectory to the unborn.
LEMMA UnbornStep ==
    ASSUME Custody, Custody', UnbornIsBlank, [Next]_vars
    PROVE  UnbornIsBlank'
<1> SUFFICES ASSUME NEW t \in TrajIds
             PROVE  traj'[t] = traj[t] \/ traj'[t].status # "unborn"
  BY DEF UnbornIsBlank
<1>1. ASSUME NEW k \in Keys, best[k] # NoBest, Reset(k)
      PROVE  traj'[t] = traj[t] \/ traj'[t].status # "unborn"
  <2>1. GivenUp(k) /\ LeftAlone(k)
    BY <1>1, ResetEffect
  <2>2. CASE t = ptr[k]
    <3>1. /\ traj[t] \in Row /\ traj[t].status = "active"
          /\ traj'[t] = Deactivated(traj[t])
      BY <2>1, <2>2, HeldFacts DEF GivenUp, NoTraj, TrajIds
    <3>2. QED
      BY <3>1, DeactivatedRow
  <2>3. CASE t = ptr'[k]
    BY <2>3 DEF Custody, StatusAgrees
  <2>4. QED
    BY <2>1, <2>2, <2>3 DEF LeftAlone
<1>2. ASSUME NEW k \in Keys, ResetTxn(k) \/ ForcedResetTxn(k)
      PROVE  traj'[t] = traj[t] \/ traj'[t].status # "unborn"
  BY <1>1, <1>2 DEF ResetTxn, ForcedResetTxn, StillDue, ResetDue, Stagnated,
                    NegativeCull
<1>3. ASSUME NEW k \in Keys, NEW s \in Scores, NEW f \in BOOLEAN,
             NEW r \in BOOLEAN, Publish(k, s, f, r)
      PROVE  traj'[t] = traj[t] \/ traj'[t].status # "unborn"
  <2>1. PICK u \in TrajIds : /\ ptr' = [ptr EXCEPT ![k] = u]
                             /\ \A v \in TrajIds : v # u => traj'[v] = traj[v]
    BY <1>3 DEF Publish, Custody, TypeOK
  <2>2. traj'[u].status = "active"
    BY <2>1 DEF Custody, StatusAgrees, TypeOK
  <2>3. QED
    BY <2>1, <2>2
<1>4. CASE SweepApply
  <2>1. traj[t] \in Row
    BY DEF Custody, TypeOK
  <2>2. traj'[t] = traj[t] \/ traj'[t] = Deactivated(traj[t])
    BY <1>4 DEF SweepApply
  <2>3. QED
    BY <2>1, <2>2 DEF Deactivated, Row
<1>5. ASSUME UNCHANGED traj
      PROVE  traj'[t] = traj[t] \/ traj'[t].status # "unborn"
  BY <1>5
<1>6. QED
  BY <1>2, <1>3, <1>4, <1>5 DEF Next, Poll, GoSilent, Heartbeat, SweepSnapshot,
     Restart, SeedInactive, ClearInactive, ResetChallenge, vars

\* A publish that changes a score of this era raises it.
LEMMA PublishRaises ==
    ASSUME Floors, UnbornIsBlank, NEW k \in Keys, NEW s \in Scores, NEW f \in BOOLEAN,
           NEW r \in BOOLEAN, Publish(k, s, f, r),
           NEW u \in TrajIds, traj[u].score # NoScore,
           traj'[u].score # traj[u].score
    PROVE  traj'[u].score > traj[u].score \/ traj[u].era < era[traj[u].challenge]
<1> DEFINE c == ChallengeOf(k)
           beats == BeatsTrajectoryBest(k, s, f)
           row(t) == IF ptr[k] = NoTraj
                     THEN Created(c, IF beats THEN s ELSE NoScore, era[c])
                     ELSE traj[t]
<1>1. Custody /\ traj \in [TrajIds -> Row] /\ traj[u] \in Row
  BY DEF Floors, Custody, TypeOK
<1>2. c \in Challenges /\ era[c] \in 0 .. MaxEras /\ beats \in BOOLEAN
  BY DEF Keys, ChallengeOf, Floors, Custody, TypeOK, BeatsTrajectoryBest
<1>3. PICK t \in TrajIds :
        /\ t = ptr[k] \/ (ptr[k] = NoTraj /\ traj[t].status = "unborn")
        /\ traj' = [traj EXCEPT ![t] = Edited(row(t), beats, s, era[c])]
  BY DEF Publish
<1>4. u = t
  BY <1>1, <1>3
<1>5. CASE ptr[k] = NoTraj
  <2>1. traj[t].status = "unborn"
    BY <1>3, <1>5 DEF TrajIds, NoTraj
  <2>2. QED
    BY <1>4, <2>1 DEF UnbornIsBlank
<1>6. CASE ptr[k] # NoTraj
  <2>1. /\ t = ptr[k] /\ row(t) = traj[t]
        /\ traj[t].challenge = c
    BY <1>1, <1>3, <1>6, HeldFacts
  <2>2. traj'[t].score = IF beats THEN s ELSE traj[t].score
    <3>1. traj'[t] = Edited(traj[t], beats, s, era[c])
      BY <1>1, <1>3, <2>1
    <3>2. QED
      BY <1>1, <1>2, <1>4, <3>1, EditedRow
  <2>3. beats /\ traj'[t].score = s
    BY <1>2, <1>4, <2>2
  <2>4. CASE best[k] = NoBest
    BY <1>4, <1>6, <2>1, <2>4 DEF Floors, ScoredIsFloored
  <2>5. CASE best[k] # NoBest
    <3>1. s > best[k].score /\ best[k].score = traj[t].score
      BY <1>1, <2>1, <2>3, <2>5 DEF BeatsTrajectoryBest, Custody, FloorIsPeak
    <3>2. QED
      BY <1>4, <2>3, <3>1
  <2>6. QED
    BY <2>4, <2>5
<1>7. QED
  BY <1>5, <1>6

\* Any other step leaves every score alone.
LEMMA OnlyPublishScores ==
    ASSUME Floors, [Next]_vars,
           ~ \E k \in Keys, s \in Scores, f \in BOOLEAN, r \in BOOLEAN :
                Publish(k, s, f, r),
           NEW u \in TrajIds
    PROVE  traj'[u].score = traj[u].score
<1>1. ASSUME NEW k \in Keys, ResetTxn(k) \/ ForcedResetTxn(k)
      PROVE  traj'[u].score = traj[u].score
  <2>1. CASE best[k] # NoBest /\ Reset(k)
    BY <2>1, ResetRows DEF RowsKept, Floors
  <2>2. QED
    BY <1>1, <2>1 DEF ResetTxn, ForcedResetTxn, StillDue, ResetDue, Stagnated,
                      NegativeCull
<1>2. CASE SweepApply
  <2>1. traj[u] \in Row
    BY DEF Floors, Custody, TypeOK
  <2>2. traj'[u] = traj[u] \/ traj'[u] = Deactivated(traj[u])
    BY <1>2 DEF SweepApply
  <2>3. QED
    BY <2>1, <2>2 DEF Deactivated, Row
<1>3. QED
  BY <1>1, <1>2 DEF Next, Poll, GoSilent, Heartbeat, SweepSnapshot, Restart,
     SeedInactive, ClearInactive, ResetChallenge, vars

\* Within a scoring era a trajectory's score only rises, through any sequence
\* of publishes, refactors, deposits and adoptions.
THEOREM NeverDrops == Spec => FloorNeverDrops
<1>1. Init => Floors /\ UnbornIsBlank
  BY FloorsInit, ConstantsAssumption
     DEF ConstantsAssumption, Init, Unborn, UnbornIsBlank
<1>2. Floors /\ UnbornIsBlank /\ [Next]_vars => Floors' /\ UnbornIsBlank'
  <2> SUFFICES ASSUME Floors, UnbornIsBlank, [Next]_vars
               PROVE  Floors' /\ UnbornIsBlank'
    OBVIOUS
  <2>1. Floors' /\ Custody /\ Custody'
    BY FloorsStep DEF Floors
  <2>2. QED
    BY <2>1, UnbornStep
<1>3. Floors /\ UnbornIsBlank /\ [Next]_vars =>
        [\A t \in TrajIds :
          /\ traj[t].score # NoScore
          /\ traj'[t].score # traj[t].score
          => \/ traj'[t].score > traj[t].score
             \/ traj[t].era < era[traj[t].challenge]]_vars
  BY PublishRaises, OnlyPublishScores
<1>4. QED
  BY <1>1, <1>2, <1>3, PTL DEF Spec, FloorNeverDrops

-----------------------------------------------------------------------------
\* A run without improvement is the key's own publish.
RunsArePublishes == \A k \in Keys : rsi[k] # 0 => edited[k]

LEMMA RunsStep == TypeOK /\ RunsArePublishes /\ [Next]_vars => RunsArePublishes'
<1> SUFFICES ASSUME TypeOK, RunsArePublishes, [Next]_vars
             PROVE  RunsArePublishes'
  OBVIOUS
<1>1. ASSUME NEW k \in Keys, Reset(k)
      PROVE  RunsArePublishes'
  <2>1. rsi' = [rsi EXCEPT ![k] = 0] /\ edited' = [edited EXCEPT ![k] = FALSE]
    BY <1>1 DEF Reset
  <2> QED
    BY <2>1 DEF RunsArePublishes, TypeOK
<1>2. ASSUME NEW k \in Keys, NEW s \in Scores, NEW f \in BOOLEAN,
             NEW r \in BOOLEAN, Publish(k, s, f, r)
      PROVE  RunsArePublishes'
  <2>1. /\ edited' = [edited EXCEPT ![k] = TRUE]
        /\ \A j \in Keys : j # k => rsi'[j] = rsi[j]
    BY <1>2 DEF Publish, TypeOK
  <2> QED
    BY <2>1 DEF RunsArePublishes, TypeOK
<1>3. ASSUME UNCHANGED <<rsi, edited>>
      PROVE  RunsArePublishes'
  BY <1>3 DEF RunsArePublishes
<1>4. ASSUME NEW k \in Keys, ResetTxn(k) \/ ForcedResetTxn(k)
      PROVE  RunsArePublishes'
  <2>1. Reset(k) \/ UNCHANGED <<rsi, edited>>
    BY <1>4 DEF ResetTxn, ForcedResetTxn
  <2> QED
    BY <2>1, <1>1, <1>3
<1>5. ASSUME NEW k \in Keys, Poll(k) \/ GoSilent(k)
      PROVE  UNCHANGED <<rsi, edited>>
  BY <1>5 DEF Poll, GoSilent
<1>6. ASSUME NEW c \in Challenges,
             SeedInactive(c) \/ ClearInactive(c) \/ ResetChallenge(c)
      PROVE  UNCHANGED <<rsi, edited>>
  BY <1>6 DEF SeedInactive, ClearInactive, ResetChallenge
<1>7. ASSUME \/ \E a \in Agents : Heartbeat(a)
             \/ SweepSnapshot \/ SweepApply \/ Restart
             \/ UNCHANGED vars
      PROVE  UNCHANGED <<rsi, edited>>
  BY <1>7 DEF Heartbeat, SweepSnapshot, SweepApply, Restart, vars
<1> QED
  BY <1>2, <1>3, <1>4, <1>5, <1>6, <1>7 DEF Next

\* Only a reset's own transaction takes a poll out of the queue and moves the
\* pointer, and if it is not the cull it is a stagnation that it acts upon.
LEMMA ResetIsEarned ==
    ASSUME TypeOK, RunsArePublishes, Next, NEW k \in Keys,
           waiting'[k] < waiting[k], ptr'[k] # ptr[k]
    PROVE  edited[k] \/ NegativeCull(k)
<1>1. waiting[k] \in Nat
  BY DEF TypeOK
<1>2. ASSUME NEW j \in Keys, ResetTxn(j)
      PROVE  edited[k] \/ NegativeCull(k)
  <2>1. j = k
    BY <1>1, <1>2 DEF ResetTxn, TypeOK
  <2>2. Stagnated(k) \/ NegativeCull(k)
    BY <1>2, <2>1 DEF ResetTxn, StillDue, ResetDue
  <2>3. Stagnated(k) => rsi[k] # 0
    BY ConstantsAssumption DEF Stagnated, ConstantsAssumption
  <2> QED
    BY <2>2, <2>3 DEF RunsArePublishes
<1>3. ASSUME NEW j \in Keys, Poll(j)
      PROVE  ptr' = ptr
  BY <1>3 DEF Poll
<1>4. ASSUME NEW j \in Keys, ForcedResetTxn(j) \/ GoSilent(j)
      PROVE  waiting' = waiting
  BY <1>4 DEF ForcedResetTxn, GoSilent
<1>5. ASSUME NEW j \in Keys, NEW s \in Scores, NEW f \in BOOLEAN,
             NEW r \in BOOLEAN, Publish(j, s, f, r)
      PROVE  waiting' = waiting
  BY <1>5 DEF Publish
<1>6. ASSUME NEW a \in Agents, Heartbeat(a)
      PROVE  waiting' = waiting
  BY <1>6 DEF Heartbeat
<1>7. SweepSnapshot \/ SweepApply => waiting' = waiting
  BY DEF SweepSnapshot, SweepApply
<1>8. Restart => ptr' = ptr
  BY DEF Restart
<1>9. ASSUME NEW c \in Challenges,
             SeedInactive(c) \/ ClearInactive(c) \/ ResetChallenge(c)
      PROVE  waiting' = waiting
  BY <1>9 DEF SeedInactive, ClearInactive, ResetChallenge
<1>10. waiting' # waiting /\ ptr' # ptr
  BY <1>1
<1> QED
  BY <1>2, <1>3, <1>4, <1>5, <1>6, <1>7, <1>8, <1>9, <1>10 DEF Next

\* However many polls of an agent queue for the reset's lock, a key that is
\* reset has published since its last reset, or holds a line that the cull,
\* whatever its limit, finds worthless as the lock is taken.
THEOREM ResetsHaveReasons ==
    Spec => [][\A k \in Keys :
                 waiting'[k] < waiting[k] /\ ptr'[k] # ptr[k] =>
                     edited[k] \/ NegativeCull(k)]_vars
<1>1. Init => RunsArePublishes
  BY DEF Init, RunsArePublishes
<1>2. TypeOK /\ RunsArePublishes /\ [Next]_vars => RunsArePublishes'
  BY RunsStep
<1>3. TypeOK /\ RunsArePublishes /\ [Next]_vars
      => [\A k \in Keys :
             waiting'[k] < waiting[k] /\ ptr'[k] # ptr[k] =>
                 edited[k] \/ NegativeCull(k)]_vars
  BY ResetIsEarned
<1> QED
  BY <1>1, <1>2, <1>3, TypeCorrect, PTL DEF Spec

\* So without the cull one stagnation is one reset: between two resets of a key
\* it has published.  (The cull may reset a line it has just handed out.)
THEOREM ResetsAreEarned == NegativeLimit = 0 /\ Spec => ResetNeedsPublish
<1>1. NegativeLimit = 0 => [](NegativeLimit = 0)
  OBVIOUS
<1>2. ASSUME NegativeLimit = 0,
             [\A k \in Keys :
                waiting'[k] < waiting[k] /\ ptr'[k] # ptr[k] =>
                    edited[k] \/ NegativeCull(k)]_vars
      PROVE  [\A k \in Keys :
                waiting'[k] < waiting[k] /\ ptr'[k] # ptr[k] => edited[k]]_vars
  BY <1>2 DEF NegativeCull
<1> QED
  BY <1>1, <1>2, ResetsHaveReasons, PTL DEF ResetNeedsPublish
=============================================================================
