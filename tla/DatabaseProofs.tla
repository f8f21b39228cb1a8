--------------------------- MODULE DatabaseProofs ---------------------------
(***************************************************************************)
(* Proofs about the server's database at boot (Schema) and about its rows  *)
(* of mainnet measurements (MainnetBaseline).                              *)
(***************************************************************************)
EXTENDS Schema, MainnetBaseline, TLAPS

-----------------------------------------------------------------------------
(* Schema: for any list of migrations, tables and deaths, no version is    *)
(* recorded ahead of its effect, and what serves is whole.                 *)
(*                                                                         *)
(* The argument follows a boot's place.  A record that is seen or committed*)
(* has its effect, because a rebuild carries every effect of its table     *)
(* (RebuildAssumption); and the loops leave nothing behind them unrecorded,*)
(* because what they skip was recorded when they began.                    *)

Backed(d) == d.recorded \subseteq d.effects

\* The connection sees what is committed, and more only while it is open.
Sees ==
    /\ db.recorded \subseteq view.recorded
    /\ ~open => view = db
    /\ open => pc \in {"migrate", "record"}
    /\ done \subseteq db.recorded

Complete ==
    pc \notin {"down", "tables"} => db.tables = Tables /\ view.tables = Tables

\* The column loop has left nothing of its own unrecorded below its place.
MainDone ==
    /\ pc \in {"migrate", "record"} =>
           \A u \in Main : u < at => u \in view.recorded
    /\ pc = "record" => at \in Versions /\ at \in view.effects
    /\ pc \in {"verify", "ownRead", "own", "ownRecord", "serving"} =>
           Main \subseteq view.recorded

\* Nor has the rebuild loop.
OwnDone ==
    /\ pc \in {"own", "ownRecord"} =>
           \A u \in Own : u < at => u \in view.recorded
    /\ pc = "ownRecord" => at \in Versions /\ at \in view.effects
    /\ pc = "serving" => Versions \subseteq view.recorded

BootInv ==
    /\ TypeOK
    /\ Backed(db) /\ Backed(view)
    /\ Sees /\ Complete /\ MainDone /\ OwnDone

-----------------------------------------------------------------------------

\* A rebuild takes no effect away: what it does not copy is not of its table.
LEMMA RebuildKeeps ==
    ASSUME NEW d \in Database, NEW v \in Own
    PROVE  /\ Rebuilt(d, v) \in Database
           /\ d.effects \subseteq Rebuilt(d, v).effects
           /\ v \in Rebuilt(d, v).effects
           /\ Rebuilt(d, v).tables = d.tables
           /\ Rebuilt(d, v).recorded = d.recorded
<1> DEFINE kept == {u \in d.effects : TableOf[u] = TableOf[v] => u \in Copies(v)}
<1>1. v \in Versions
  BY SchemaAssumption
<1>2. kept \subseteq Versions
  BY DEF Database
<1>3. Rebuilt(d, v) = [d EXCEPT !.effects = kept \cup {v}]
  BY DEF Rebuilt
<1>4. Rebuilt(d, v) = [tables |-> d.tables, effects |-> kept \cup {v},
                       recorded |-> d.recorded]
  BY <1>3 DEF Database
<1>5. ASSUME NEW u \in d.effects, u # v
      PROVE  u \in kept
  <2>1. u \in Versions
    BY DEF Database
  <2>2. TableOf[u] = TableOf[v] => u \in Carried
    BY <2>1, <1>5, RebuildAssumption
  <2> QED
    BY <2>2, <1>5 DEF Copies
<1>6. d.effects \subseteq kept \cup {v}
  BY <1>5
<1>7. [tables |-> d.tables, effects |-> kept \cup {v},
       recorded |-> d.recorded] \in Database
  BY <1>1, <1>2 DEF Database
<1> HIDE DEF kept
<1> QED
  BY <1>4, <1>6, <1>7

\* The other two changes of a file: a record, and an effect.
LEMMA StatementShapes ==
    ASSUME NEW d \in Database, NEW v \in Versions
    PROVE  /\ Recorded(d, v) = [tables |-> d.tables, effects |-> d.effects,
                                recorded |-> d.recorded \cup {v}]
           /\ Applied(d, v) = [tables |-> d.tables, effects |-> d.effects \cup {v},
                               recorded |-> d.recorded]
           /\ Recorded(d, v) \in Database /\ Applied(d, v) \in Database
<1>1. Recorded(d, v) = [tables |-> d.tables, effects |-> d.effects,
                        recorded |-> d.recorded \cup {v}]
  BY DEF Recorded, Database
<1>2. Applied(d, v) = [tables |-> d.tables, effects |-> d.effects \cup {v},
                       recorded |-> d.recorded]
  BY DEF Applied, Database
<1>3. d.tables \subseteq Tables /\ d.effects \cup {v} \subseteq Versions
      /\ d.recorded \cup {v} \subseteq Versions
  BY DEF Database
<1>4. [tables |-> d.tables, effects |-> d.effects,
       recorded |-> d.recorded \cup {v}] \in Database
  BY <1>3 DEF Database
<1>5. [tables |-> d.tables, effects |-> d.effects \cup {v},
       recorded |-> d.recorded] \in Database
  BY <1>3 DEF Database
<1> QED
  BY <1>1, <1>2, <1>4, <1>5

LEMMA CreatedShape ==
    ASSUME NEW d \in Database, NEW t \in Tables
    PROVE  /\ Created(d, t) \in Database
           /\ Created(d, t).recorded = d.recorded
           /\ d.effects \subseteq Created(d, t).effects
<1> DEFINE new == {v \in InSchema : TableOf[v] = t}
<1>1. new \subseteq Versions
  BY SchemaAssumption
<1>2. Created(d, t) = [tables |-> d.tables \cup {t},
                       effects |-> d.effects \cup new,
                       recorded |-> d.recorded]
  <2>1. Created(d, t) = [d EXCEPT !.tables = d.tables \cup {t},
                                  !.effects = d.effects \cup new]
    BY DEF Created
  <2> HIDE DEF new
  <2> QED
    BY <2>1 DEF Database
<1> HIDE DEF new
<1>3. d.tables \cup {t} \subseteq Tables /\ d.effects \cup new \subseteq Versions
      /\ d.recorded \subseteq Versions
  BY <1>1 DEF Database
<1>4. [tables |-> d.tables \cup {t}, effects |-> d.effects \cup new,
       recorded |-> d.recorded] \in Database
  BY <1>3 DEF Database
<1> QED
  BY <1>2, <1>4

LEMMA Numbers == /\ Latest \in Nat
                 /\ Versions \subseteq Nat
                 /\ \A n \in 1 .. Latest + 1 : n <= Latest => n \in Versions /\ n + 1 \in 1 .. Latest + 1
                 /\ \A n \in 1 .. Latest + 1 : n > Latest => \A u \in Versions : u < n
  BY SchemaAssumption DEF Versions

-----------------------------------------------------------------------------

LEMMA InitBootInv == Init => BootInv
<1> SUFFICES ASSUME Init PROVE BootInv
  OBVIOUS
<1>1. TypeOK
  <2>1. 1 \in 1 .. Latest + 1 /\ 0 \in 0 .. MaxCrashes
    BY SchemaAssumption
  <2> QED
    BY <2>1 DEF Init, TypeOK
<1>2. Backed(db) /\ Backed(view)
  BY DEF Init, Possible, Backed
<1>3. Sees /\ Complete /\ MainDone /\ OwnDone
  BY DEF Init, Sees, Complete, MainDone, OwnDone
<1> QED
  BY <1>1, <1>2, <1>3 DEF BootInv

\* What each step of a boot keeps.
LEMMA NextBootInv == BootInv /\ [Next]_vars => BootInv'
<1> SUFFICES ASSUME BootInv, [Next]_vars PROVE BootInv'
  OBVIOUS
<1>i. TypeOK /\ Backed(db) /\ Backed(view) /\ Sees /\ Complete /\ MainDone /\ OwnDone
  BY DEF BootInv
<1>1. CASE UNCHANGED vars
  BY <1>1, <1>i DEF vars, BootInv, TypeOK, Backed, Sees, Complete, MainDone, OwnDone
<1>2. CASE Boot
  BY <1>2, <1>i DEF Boot, Goes, BootInv, TypeOK, Backed, Sees, Complete, MainDone, OwnDone
<1>3. CASE CreateTables
  <2>1. ~open /\ view = db /\ pc = "tables"
    BY <1>3, <1>i DEF CreateTables, Sees
  <2>2. CASE view.tables = Tables
    BY <2>1, <2>2, <1>3, <1>i DEF CreateTables, Goes, BootInv, TypeOK, Backed, Sees, Complete, MainDone, OwnDone
  <2>3. CASE view.tables # Tables
    <3>1. PICK t \in Tables \ view.tables : Executes(Created(view, t))
      BY <2>3, <1>3 DEF CreateTables
    <3>2. view' = Created(view, t) /\ db' = Created(view, t) /\ open' = open
      BY <3>1, <2>1 DEF Executes
    <3>3. Created(view, t) \in Database /\ Created(view, t).recorded = view.recorded
          /\ view.effects \subseteq Created(view, t).effects
      BY CreatedShape, <1>i DEF TypeOK
    <3>4. UNCHANGED <<pc, at, done, crashes>>
      BY <2>3, <1>3 DEF CreateTables
    <3> QED
      BY <2>1, <3>2, <3>3, <3>4, <1>i DEF BootInv, TypeOK, Backed, Sees, Complete, MainDone, OwnDone
  <2> QED
    BY <2>2, <2>3
<1>4. CASE Read("read", "migrate")
  <2>1. ~open /\ view = db
    BY <1>4, <1>i DEF Read, Sees
  <2>2. 1 \in 1 .. Latest + 1 /\ \A u \in Versions : ~ u < 1
    BY SchemaAssumption DEF Versions
  <2> QED
    BY <2>1, <2>2, <1>4, <1>i DEF Read, Goes, BootInv, TypeOK, Backed, Sees, Complete, MainDone, OwnDone, Database, Main
<1>5. CASE Migrate
  <2>1. at \in Versions /\ at + 1 \in 1 .. Latest + 1 /\ at \in Nat /\ pc = "migrate"
    BY <1>5, <1>i, Numbers DEF Migrate, TypeOK
  <2>2. CASE ~Pending(at)
    <3>1. at \in Main => at \in view.recorded
      BY <2>2, <2>1, <1>i DEF Pending, Main, Sees
    <3>2. \A u \in Main : u < at + 1 => u \in view.recorded
      <4>1. \A u \in Main : u < at + 1 => u < at \/ u = at
        BY <2>1, Numbers DEF Main
      <4> QED
        BY <4>1, <3>1, <2>1, <1>i DEF MainDone
    <3>3. at' = at + 1 /\ UNCHANGED <<pc, db, view, open, done, crashes>>
      BY <2>2, <1>5 DEF Migrate
    <3> QED
      BY <2>1, <3>2, <3>3, <1>i DEF BootInv, TypeOK, Backed, Sees, Complete, MainDone, OwnDone
  <2>3. CASE Pending(at) /\ CanAdd(view, at)
    <3>1. Executes(Applied(view, at)) /\ pc' = "record" /\ UNCHANGED <<at, done, crashes>>
      BY <2>3, <1>5 DEF Migrate, Goes
    <3>2. /\ Applied(view, at) \in Database
          /\ Applied(view, at).tables = view.tables
          /\ Applied(view, at).recorded = view.recorded
          /\ Applied(view, at).effects = view.effects \cup {at}
      BY <2>1, <1>i, StatementShapes DEF TypeOK
    <3>3. view' = Applied(view, at) /\ open' = open
          /\ db' = IF open THEN db ELSE Applied(view, at)
      BY <3>1 DEF Executes
    <3>4. CASE open
      BY <3>4, <3>1, <3>2, <3>3, <2>1, <1>i DEF BootInv, TypeOK, Backed, Sees, Complete, MainDone, OwnDone
    <3>5. CASE ~open
      BY <3>5, <3>1, <3>2, <3>3, <2>1, <1>i DEF BootInv, TypeOK, Backed, Sees, Complete, MainDone, OwnDone
    <3> QED
      BY <3>4, <3>5
  <2>4. CASE Pending(at) /\ ~CanAdd(view, at)
    <3>1. pc' = "down" /\ view' = db /\ open' = FALSE /\ UNCHANGED <<db, at, done, crashes>>
      BY <2>4, <1>5 DEF Migrate, Goes
    <3> QED
      BY <3>1, <1>i DEF BootInv, TypeOK, Backed, Sees, Complete, MainDone, OwnDone
  <2> QED
    BY <2>2, <2>3, <2>4
<1>6. CASE Record
  <2>1. pc = "record" /\ at \in Versions /\ at \in view.effects /\ at \in Nat
        /\ at + 1 \in 1 .. Latest + 1
    BY <1>6, <1>i, Numbers DEF Record, MainDone, TypeOK, Versions
  <2>2. /\ Recorded(view, at) \in Database
        /\ Recorded(view, at).tables = view.tables
        /\ Recorded(view, at).effects = view.effects
        /\ Recorded(view, at).recorded = view.recorded \cup {at}
    BY <2>1, <1>i, StatementShapes DEF TypeOK
  <2>3. view' = Recorded(view, at) /\ open' = TRUE /\ db' = db /\ pc' = "migrate"
        /\ at' = at + 1 /\ UNCHANGED <<done, crashes>>
    BY <1>6 DEF Record, Inserts, Goes
  <2>4. \A u \in Main : u < at + 1 => u \in view.recorded \cup {at}
    <3>1. \A u \in Main : u < at + 1 => u < at \/ u = at
      BY <2>1, Numbers DEF Main
    <3> QED
      BY <3>1, <2>1, <1>i DEF MainDone
  <2> QED
    BY <2>1, <2>2, <2>3, <2>4, <1>i DEF BootInv, TypeOK, Backed, Sees, Complete, MainDone, OwnDone
<1>7. CASE CommitMigrations
  <2>1. \A u \in Main : u \in view.recorded
    BY <1>7, <1>i, Numbers DEF CommitMigrations, MainDone, Main, TypeOK
  <2>2. view' = view /\ db' = view /\ open' = FALSE /\ pc' = "verify" /\ pc = "migrate"
        /\ UNCHANGED <<at, done, crashes>>
    BY <1>7 DEF CommitMigrations, Commits, Goes
  <2> QED
    BY <2>1, <2>2, <1>i DEF BootInv, TypeOK, Backed, Sees, Complete, MainDone, OwnDone
<1>8. CASE Verify
  <2>1. pc = "verify" /\ pc' \in {"ownRead", "down"}
        /\ UNCHANGED <<at, done, db, view, open, crashes>>
    BY <1>8 DEF Verify, Goes
  <2> QED
    BY <2>1, <1>i DEF BootInv, TypeOK, Backed, Sees, Complete, MainDone, OwnDone
<1>9. CASE Read("ownRead", "own")
  <2>1. ~open /\ view = db
    BY <1>9, <1>i DEF Read, Sees
  <2>2. 1 \in 1 .. Latest + 1 /\ \A u \in Versions : ~ u < 1
    BY SchemaAssumption DEF Versions
  <2>3. Own \subseteq Versions
    BY SchemaAssumption
  <2> QED
    BY <2>1, <2>2, <2>3, <1>9, <1>i DEF Read, Goes, BootInv, TypeOK, Backed, Sees, Complete, MainDone, OwnDone, Database
<1>10. CASE Rebuild
  <2>1. at \in Versions /\ at + 1 \in 1 .. Latest + 1 /\ at \in Nat /\ pc = "own"
        /\ ~open /\ view = db
    BY <1>10, <1>i, Numbers DEF Rebuild, TypeOK, Sees
  <2>2. CASE at \in done \/ at \notin Own
    <3>1. at \in Own => at \in view.recorded
      BY <2>2, <1>i DEF Sees
    <3>2. \A u \in Own : u < at + 1 => u \in view.recorded
      <4>1. \A u \in Own : u < at + 1 => u < at \/ u = at
        BY <2>1, Numbers, SchemaAssumption
      <4> QED
        BY <4>1, <3>1, <2>1, <1>i DEF OwnDone
    <3>3. at' = at + 1 /\ UNCHANGED <<pc, db, view, open, done, crashes>>
      BY <2>2, <1>10 DEF Rebuild
    <3> QED
      BY <2>1, <3>2, <3>3, <1>i DEF BootInv, TypeOK, Backed, Sees, Complete, MainDone, OwnDone
  <2>3. CASE at \notin done /\ at \in Own /\ at \in view.effects
    <3>1. pc' = "ownRecord" /\ UNCHANGED <<db, view, open, at, done, crashes>>
      BY <2>3, <1>10 DEF Rebuild, Goes
    <3> QED
      BY <2>1, <2>3, <3>1, <1>i DEF BootInv, TypeOK, Backed, Sees, Complete, MainDone, OwnDone
  <2>4. CASE at \notin done /\ at \in Own /\ at \notin view.effects
             /\ Copies(at) \subseteq view.effects
    <3>1. Commits(Rebuilt(view, at)) /\ pc' = "ownRecord" /\ UNCHANGED <<at, done, crashes>>
      BY <2>4, <1>10 DEF Rebuild, Goes
    <3>2. /\ Rebuilt(view, at) \in Database
          /\ view.effects \subseteq Rebuilt(view, at).effects
          /\ at \in Rebuilt(view, at).effects
          /\ Rebuilt(view, at).tables = view.tables
          /\ Rebuilt(view, at).recorded = view.recorded
      BY <2>4, <1>i, RebuildKeeps DEF TypeOK
    <3>3. view' = Rebuilt(view, at) /\ db' = Rebuilt(view, at) /\ open' = FALSE
      BY <3>1 DEF Commits
    <3> QED
      BY <2>1, <3>1, <3>2, <3>3, <1>i DEF BootInv, TypeOK, Backed, Sees, Complete, MainDone, OwnDone
  <2>5. CASE at \notin done /\ at \in Own /\ at \notin view.effects
             /\ ~(Copies(at) \subseteq view.effects)
    <3>1. pc' = "down" /\ UNCHANGED <<db, view, open, at, done, crashes>>
      BY <2>5, <1>10 DEF Rebuild, Goes
    <3> QED
      BY <2>1, <3>1, <1>i DEF BootInv, TypeOK, Backed, Sees, Complete, MainDone, OwnDone
  <2> QED
    BY <2>2, <2>3, <2>4, <2>5
<1>11. CASE RecordRebuild
  <2>1. pc = "ownRecord" /\ at \in Versions /\ at \in view.effects /\ at \in Nat
        /\ at + 1 \in 1 .. Latest + 1 /\ ~open /\ view = db
    BY <1>11, <1>i, Numbers DEF RecordRebuild, OwnDone, TypeOK, Sees, Versions
  <2>2. /\ Recorded(view, at) \in Database
        /\ Recorded(view, at).tables = view.tables
        /\ Recorded(view, at).effects = view.effects
        /\ Recorded(view, at).recorded = view.recorded \cup {at}
    BY <2>1, <1>i, StatementShapes DEF TypeOK
  <2>3. view' = Recorded(view, at) /\ db' = Recorded(view, at) /\ open' = FALSE
        /\ pc' = "own" /\ at' = at + 1 /\ UNCHANGED <<done, crashes>>
    BY <1>11 DEF RecordRebuild, Commits, Goes
  <2>4. \A u \in Own : u < at + 1 => u \in view.recorded \cup {at}
    <3>1. \A u \in Own : u \in Nat
      BY SchemaAssumption DEF Versions
    <3>2. \A u \in Own : u < at + 1 => u < at \/ u = at
      BY <2>1, <3>1
    <3> QED
      BY <3>2, <2>1, <1>i DEF OwnDone
  <2> QED
    BY <2>1, <2>2, <2>3, <2>4, <1>i DEF BootInv, TypeOK, Backed, Sees, Complete, MainDone, OwnDone
<1>12. CASE Serve
  <2>1. Versions \subseteq view.recorded
    BY <1>12, <1>i, Numbers, SchemaAssumption DEF Serve, OwnDone, MainDone, Main, TypeOK
  <2>2. pc = "own" /\ pc' = "serving" /\ UNCHANGED <<at, done, db, view, open, crashes>>
    BY <1>12 DEF Serve, Goes
  <2> QED
    BY <2>1, <2>2, <1>i DEF BootInv, TypeOK, Backed, Sees, Complete, MainDone, OwnDone
<1>13. CASE Crash
  <2>1. pc' = "down" /\ view' = db /\ open' = FALSE /\ UNCHANGED <<at, done, db>>
        /\ crashes' \in 0 .. MaxCrashes
    BY <1>13, <1>i, SchemaAssumption DEF Crash, Goes, TypeOK
  <2> QED
    BY <2>1, <1>i DEF BootInv, TypeOK, Backed, Sees, Complete, MainDone, OwnDone
<1> QED
  BY <1>1, <1>2, <1>3, <1>4, <1>5, <1>6, <1>7, <1>8, <1>9, <1>10, <1>11, <1>12, <1>13
     DEF Next, Step

\* The inductive invariant holds in every state of every boot.
THEOREM BootInvariant == Spec => []BootInv
<1> QED
  BY InitBootInv, NextBootInv, PTL DEF Spec

\* No version is on record in the file without its effect (server/db.py,
\* _apply_migrations and _apply_own_connection_migrations).
THEOREM RecordsBacked == Spec => []RecordedIsDone
<1>1. BootInv => RecordedIsDone
  BY DEF BootInv, Backed, RecordedIsDone
<1> QED
  BY <1>1, BootInvariant, PTL

\* What serves has every table, every effect and every record (init_db).
THEOREM WholeSchema == Spec => []ServesWholeSchema
<1>1. BootInv => ServesWholeSchema
  <2> SUFFICES ASSUME BootInv, pc = "serving"
               PROVE  db.tables = Tables /\ db.effects = Versions /\ db.recorded = Versions
    BY DEF ServesWholeSchema
  <2>1. view = db /\ db.tables = Tables
    BY DEF BootInv, Sees, Complete
  <2>2. Versions \subseteq db.recorded /\ db.recorded \subseteq db.effects
    BY <2>1 DEF BootInv, OwnDone, Backed
  <2>3. db.effects \subseteq Versions /\ db.recorded \subseteq Versions
    BY DEF BootInv, TypeOK, Database
  <2> QED
    BY <2>1, <2>2, <2>3
<1> QED
  BY <1>1, BootInvariant, PTL

-----------------------------------------------------------------------------
(* MainnetBaseline: for any agents, algorithms and seeds and any number of *)
(* presses, expiries and edits.                                            *)
(*                                                                         *)
(* A pull is paid for by a press or an expiry, but not at the same time:   *)
(* the press is first with the handler, then with the row that is          *)
(* `requested', and only then with the claim.  Paid counts what is still   *)
(* under way on the side of what was won.  That a measurement stays rests  *)
(* on Unscored: the statuses a capture accepts never hold a score.         *)

One(condition) == IF condition THEN 1 ELSE 0

\* Claims the row would let an agent win as it is.
Open == One(Takes)

Asked == One(button # "idle")

Paid == pulls + Open + Asked <= presses + expiries

Unscored == row.status \in MAINNET_UNMEASURED => row.score = Nothing

Measured == BaselineTypeOK /\ Paid /\ Unscored

-----------------------------------------------------------------------------
(* The statements on the row.                                              *)

LEMMA RowFields ==
    ASSUME BaselineTypeOK
    PROVE  /\ row.status \in {"absent", "pending", "requested", "measuring",
                              "ready", "unavailable"}
           /\ row.algo \in Algos \cup {Nothing}
           /\ row.by \in Agents \cup {Nothing}
           /\ row.stale \in BOOLEAN
           /\ row.stamp \in Configs \cup {Nothing}
           /\ row.score \in Runs \cup {Nothing}
  BY DEF BaselineTypeOK, Row

LEMMA RecordedRow ==
    ASSUME BaselineTypeOK, NEW algo \in Algos
    PROVE  /\ AlgoRecorded(algo) \in Row
           /\ \/ AlgoRecorded(algo) = row
              \/ /\ AlgoRecorded(algo).status = "pending"
                 /\ AlgoRecorded(algo).score = Nothing
<1>1. CASE row.algo = algo
  BY <1>1 DEF AlgoRecorded, BaselineTypeOK
<1>2. CASE row.algo # algo
  BY <1>2 DEF AlgoRecorded, NoRow, Row
<1> QED
  BY <1>1, <1>2

LEMMA UnavailableRow ==
    ASSUME BaselineTypeOK
    PROVE  /\ Unavailable \in Row /\ Unavailable.status = "unavailable"
           /\ Unavailable.score = row.score
  BY DEF Unavailable, BaselineTypeOK, Row

LEMMA RequestedRow ==
    ASSUME BaselineTypeOK
    PROVE  /\ Requested \in Row /\ Requested.status = "requested"
           /\ Requested.score = Nothing
  BY DEF Requested, BaselineTypeOK, Row

LEMMA ClaimedRow ==
    ASSUME BaselineTypeOK, NEW a \in Agents
    PROVE  /\ ClaimedBy(a) \in Row /\ ClaimedBy(a).status = "measuring"
           /\ ClaimedBy(a).stale = FALSE /\ ClaimedBy(a).score = row.score
  BY DEF ClaimedBy, BaselineTypeOK, Row

LEMMA ScoredRow ==
    ASSUME BaselineTypeOK, NEW a \in Agents, NEW run \in Runs \cup {Nothing}
    PROVE  /\ Scored(a, run) \in Row /\ Scored(a, run).status = "ready"
  BY DEF Scored, BaselineTypeOK, Row

LEMMA ExpiredRow ==
    ASSUME BaselineTypeOK, Expire
    PROVE  /\ row' \in Row /\ row'.status = "measuring" /\ row'.stale = TRUE
           /\ row'.score = row.score
  BY DEF Expire, BaselineTypeOK, Row

LEMMA PublishedRow ==
    ASSUME BaselineTypeOK, NEW a \in Agents, PublishSeed(a)
    PROVE  /\ row' \in Row
           /\ \/ row' = row
              \/ row'.status = "ready" /\ row.status \in MAINNET_UNMEASURED
<1>1. agent[a].run \in Runs \cup {Nothing}
  BY DEF BaselineTypeOK, Agent
<1>2. \/ row' = row
      \/ row' = Scored(a, agent[a].run) /\ row.status \in MAINNET_UNMEASURED
  BY DEF PublishSeed
<1> QED
  BY <1>1, <1>2, ScoredRow DEF BaselineTypeOK

-----------------------------------------------------------------------------
(* Every step.                                                             *)

LEMMA Phases ==
    ASSUME BaselineTypeOK, NEW a \in Agents, NEW r \in Agent,
           agent' = [agent EXCEPT ![a] = r]
    PROVE  agent' \in [Agents -> Agent]
  BY DEF BaselineTypeOK

LEMMA InAgent == \A p \in {"working", "checked", "claimed", "seeded", "blank"} :
                    In(p) \in Agent
  BY DEF In, Agent

LEMMA AdoptionTypes ==
    ASSUME BaselineTypeOK, NEW a \in Agents, Reset(a)
    PROVE  agent' \in [Agents -> Agent] /\ pool' \in SUBSET Codes
<1>1. Picks \subseteq Codes
  BY RowFields DEF Picks, Claimable, PooledMainnetEntry, BaselineTypeOK
<1>2. ASSUME NEW code \in Picks
      PROVE  [phase |-> "seeded", run |-> [code |-> code, config |-> config]]
                \in Agent
  BY <1>1 DEF BaselineTypeOK, Agent, Runs
<1> QED
  BY <1>2, InAgent, Phases DEF Reset, BaselineTypeOK

LEMMA MeasurementTypesKept ==
    ASSUME BaselineTypeOK, [BaselineNext]_baselineVars
    PROVE  BaselineTypeOK'
<1> USE BaselineAssumption
<1>1. CASE UNCHANGED baselineVars
  BY <1>1 DEF baselineVars, BaselineTypeOK
<1>2. CASE PressMeasure
  BY <1>2 DEF PressMeasure, BaselineTypeOK
<1>3. CASE Provision
  BY <1>3, RecordedRow, UnavailableRow DEF Provision, BaselineTypeOK, Codes
<1>4. CASE Request
  BY <1>4, RequestedRow DEF Request, BaselineTypeOK
<1>5. CASE SeedFromMainnet
  BY <1>5, RecordedRow, UnavailableRow DEF SeedFromMainnet, BaselineTypeOK, Codes
<1>6. CASE EditConfig
  <2>1. config' \in Configs /\ Configs \subseteq Nat
    BY <1>6 DEF EditConfig, BaselineTypeOK, Configs
  <2>2. UNCHANGED <<row, pool, agent, button, presses, expiries, pulls>>
    BY <1>6 DEF EditConfig
  <2> QED
    BY <2>1, <2>2 DEF BaselineTypeOK
<1>7. CASE Expire
  BY <1>7, ExpiredRow DEF Expire, BaselineTypeOK
<1>8. CASE ServerRestart
  BY <1>8, InAgent DEF ServerRestart, BaselineTypeOK
<1>9. ASSUME NEW s \in OtherSeeds, SeedInactive(s)
      PROVE  BaselineTypeOK'
  BY <1>9 DEF SeedInactive, BaselineTypeOK, Codes
<1>10. ASSUME NEW a \in Agents, CheckClaimable(a)
       PROVE  BaselineTypeOK'
  BY <1>10, InAgent, Phases DEF CheckClaimable, BaselineTypeOK
<1>11. ASSUME NEW a \in Agents, Claim(a)
       PROVE  BaselineTypeOK'
  <2>1. row' \in Row
    BY <1>11, ClaimedRow DEF Claim, BaselineTypeOK
  <2>2. pulls \in Nat /\ pulls' \in {pulls, pulls + 1}
    BY <1>11 DEF Claim, BaselineTypeOK
  <2>3. agent' \in [Agents -> Agent]
    BY <1>11, InAgent, Phases DEF Claim
  <2> QED
    BY <1>11, <2>1, <2>2, <2>3 DEF Claim, BaselineTypeOK
<1>12. ASSUME NEW a \in Agents, ForcedReset(a) \/ OrdinaryReset(a)
       PROVE  BaselineTypeOK'
  BY <1>12, AdoptionTypes DEF ForcedReset, OrdinaryReset, Reset, BaselineTypeOK
<1>13. ASSUME NEW a \in Agents, PublishSeed(a)
       PROVE  BaselineTypeOK'
  BY <1>13, InAgent, Phases, PublishedRow DEF PublishSeed, BaselineTypeOK
<1>14. ASSUME NEW a \in Agents, PublishOwn(a) \/ AgentRestart(a)
       PROVE  BaselineTypeOK'
  BY <1>14, InAgent, Phases DEF PublishOwn, AgentRestart, BaselineTypeOK
<1> QED
  BY <1>1, <1>2, <1>3, <1>4, <1>5, <1>6, <1>7, <1>8, <1>9, <1>10, <1>11, <1>12,
     <1>13, <1>14
  DEF BaselineNext

\* A step that takes an opening from the row, or leaves it as it is, and moves
\* nothing else.
LEMMA PaidStays ==
    ASSUME BaselineTypeOK, Paid, UNCHANGED <<button, presses, expiries, pulls>>,
           Takes' => Takes
    PROVE  Paid'
  BY DEF BaselineTypeOK, Paid, Open, Asked, One

LEMMA PaidKept ==
    ASSUME BaselineTypeOK, Paid, [BaselineNext]_baselineVars
    PROVE  Paid'
<1>1. CASE UNCHANGED <<row, button, presses, expiries, pulls>>
  BY <1>1, PaidStays DEF Takes
<1>2. CASE PressMeasure
  BY <1>2 DEF PressMeasure, BaselineTypeOK, Paid, Open, Takes, Asked, One
<1>3. CASE Provision
  <2>1. Takes' => Takes
    BY <1>3, RecordedRow, UnavailableRow DEF Provision, Takes
  <2>2. UNCHANGED <<presses, expiries, pulls>> /\ Asked' <= Asked
    BY <1>3 DEF Provision, Asked, One
  <2>3. Open' <= Open
    BY <2>1 DEF Open, One
  <2> QED
    BY <2>2, <2>3 DEF BaselineTypeOK, Paid, Open, Asked, One
<1>4. CASE Request
  BY <1>4, RequestedRow DEF Request, BaselineTypeOK, Paid, Open, Takes, Asked, One
<1>5. CASE SeedFromMainnet
  <2>1. Takes' => Takes
    BY <1>5, RecordedRow, UnavailableRow DEF SeedFromMainnet, Takes
  <2> QED
    BY <1>5, <2>1, PaidStays DEF SeedFromMainnet
<1>6. CASE Expire
  BY <1>6, ExpiredRow DEF Expire, BaselineTypeOK, Paid, Open, Takes, Asked, One
<1>7. ASSUME NEW a \in Agents, Claim(a)
      PROVE  Paid'
  <2>1. CASE Takes /\ row' = ClaimedBy(a) /\ pulls' = pulls + 1
    <3>1. Open = 1
      BY <2>1 DEF Open, One
    <3>2. Open' = 0
      BY <2>1, ClaimedRow DEF Open, One, Takes
    <3>3. UNCHANGED <<presses, expiries>> /\ Asked' = Asked /\ Asked \in Nat
      BY <1>7 DEF Claim, Asked, One
    <3> QED
      BY <2>1, <3>1, <3>2, <3>3 DEF BaselineTypeOK, Paid
  <2>2. CASE UNCHANGED <<row, pulls>>
    BY <1>7, <2>2, <1>1 DEF Claim
  <2> QED
    BY <1>7, <2>1, <2>2 DEF Claim
<1>8. ASSUME NEW a \in Agents, PublishSeed(a)
      PROVE  Paid'
  <2>1. Takes' => Takes
    BY <1>8, PublishedRow DEF Takes
  <2> QED
    BY <1>8, <2>1, PaidStays DEF PublishSeed
<1>9. CASE ServerRestart
  BY <1>9 DEF ServerRestart, BaselineTypeOK, Paid, Open, Takes, Asked, One
<1> QED
  BY <1>1, <1>2, <1>3, <1>4, <1>5, <1>6, <1>7, <1>8, <1>9
  DEF BaselineNext, baselineVars, EditConfig, SeedInactive, CheckClaimable,
      ForcedReset, OrdinaryReset, Reset, PublishOwn, AgentRestart

\* What a step makes of the row.
RowStep ==
    \/ row' = row
    \/ row'.status \in {"requested", "pending"} /\ row'.score = Nothing
    \/ row'.status = "unavailable" /\ row'.score = row.score
    \/ /\ row.status \in {"requested", "measuring"}
       /\ row'.status = "measuring" /\ row'.score = row.score
    \/ row'.status = "ready" /\ row.status \in MAINNET_UNMEASURED

LEMMA RowSteps ==
    ASSUME BaselineTypeOK, [BaselineNext]_baselineVars
    PROVE  RowStep
<1>1. CASE Provision \/ SeedFromMainnet
  BY <1>1, RecordedRow, UnavailableRow DEF Provision, SeedFromMainnet, RowStep
<1>2. CASE Request
  BY <1>2, RequestedRow DEF Request, RowStep
<1>3. CASE Expire
  BY <1>3, ExpiredRow DEF Expire, RowStep
<1>4. ASSUME NEW a \in Agents, Claim(a)
      PROVE  RowStep
  BY <1>4, ClaimedRow DEF Claim, Takes, RowStep
<1>5. ASSUME NEW a \in Agents, PublishSeed(a)
      PROVE  RowStep
  BY <1>5, PublishedRow DEF RowStep
<1> QED
  BY <1>1, <1>2, <1>3, <1>4, <1>5
  DEF BaselineNext, baselineVars, PressMeasure, EditConfig, ServerRestart,
      SeedInactive, CheckClaimable, ForcedReset, OrdinaryReset, Reset,
      PublishOwn, AgentRestart, RowStep

-----------------------------------------------------------------------------
(* The theorems.                                                           *)

LEMMA MeasurementHolds == BaselineSpec => []Measured
<1>1. BaselineInit => Measured
  <2> SUFFICES ASSUME BaselineInit PROVE Measured
    OBVIOUS
  <2>1. row \in Row
    BY DEF BaselineInit, NoRow, Row
  <2>2. BaselineTypeOK
    BY <2>1, InAgent, BaselineAssumption DEF BaselineInit, BaselineTypeOK, Configs
  <2>3. Paid /\ Unscored
    BY DEF BaselineInit, NoRow, Paid, Open, Takes, Asked, One, Unscored
  <2> QED
    BY <2>2, <2>3 DEF Measured
<1>2. Measured /\ [BaselineNext]_baselineVars => Measured'
  <2> SUFFICES ASSUME Measured, [BaselineNext]_baselineVars PROVE Measured'
    OBVIOUS
  <2>1. Unscored'
    BY RowSteps DEF Measured, RowStep, Unscored, MAINNET_UNMEASURED
  <2> QED
    BY <2>1, MeasurementTypesKept, PaidKept DEF Measured
<1> QED
  BY <1>1, <1>2, PTL DEF BaselineSpec

\* The row of mainnet_baselines, the pool and the agents are of their types.
THEOREM MeasurementTypes == BaselineSpec => []BaselineTypeOK
  BY MeasurementHolds, PTL DEF Measured

\* The Measure button pulls one agent off its trajectory per press, and one
\* more per claim that outlived its TTL, however many poll at once.
THEOREM PullsPaid == BaselineSpec => []PullsAreAsked
<1>1. Measured => PullsAreAsked
  BY DEF Measured, BaselineTypeOK, Paid, Open, Asked, One, PullsAreAsked
<1> QED
  BY <1>1, MeasurementHolds, PTL

\* A mainnet measurement is never replaced by another publish: only the button
\* or a new algorithm clears it.
THEOREM MeasurementStays == BaselineSpec => ScoreIsKept
<1>1. Measured /\ [BaselineNext]_baselineVars =>
        (row.score # Nothing /\ row'.score # row.score =>
            row'.score = Nothing /\ row'.status \in {"requested", "pending"})
  BY RowSteps DEF Measured, RowStep, Unscored
<1> QED
  BY <1>1, MeasurementHolds, PTL DEF BaselineSpec, ScoreIsKept
=============================================================================
