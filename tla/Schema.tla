------------------------------- MODULE Schema -------------------------------
(***************************************************************************)
(* How a boot brings the database to the current schema (server/db.py,     *)
(* init_db): tables that are missing are created, the numbered migrations  *)
(* that are not recorded are applied and recorded, the columns are         *)
(* verified, and migrations with a connection of their own, which rebuild  *)
(* a table, come last.                                                     *)
(*                                                                         *)
(* The process can die between any two statements.  What a statement       *)
(* leaves behind then depends on the transaction of the connection: Python *)
(* opens one before an INSERT and not before an ALTER or a CREATE.         *)
(*                                                                         *)
(* A migration is abstracted to its effect on one table.  The configuration*)
(* that a boot applies between the two halves is in SwarmCreation.         *)
(***************************************************************************)
EXTENDS Naturals, FiniteSets

CONSTANTS
    Latest,       \* the migrations are numbered 1 to Latest
    Own,          \* those that open their own connection: table rebuilds
    Columns,      \* those that add a column
    Tables,       \* the tables of SCHEMA
    TableOf,      \* the table each migration is about
    InSchema,     \* effects that a table created from SCHEMA already has
    Carried,      \* columns the rebuilds copy
    MaxCrashes    \* bound on the deaths of the process

Versions == 1 .. Latest

ASSUME SchemaAssumption ==
    /\ Latest \in Nat /\ MaxCrashes \in Nat
    /\ Own \subseteq Versions /\ InSchema \subseteq Versions
    /\ Columns \subseteq Versions \ Own
    /\ TableOf \in [Versions -> Tables]

\* What the comment at migration 24 asks for: a rebuild carries every column
\* that a migration adds to its table, and is not undone by another rebuild.
ASSUME RebuildAssumption ==
    \A v \in Own, u \in Versions :
        u # v /\ TableOf[u] = TableOf[v] => u \in Carried

VARIABLES
    pc,
    at,           \* the migration a loop has come to
    done,         \* the versions a loop found recorded
    db,           \* the file: what is committed
    view,         \* what the boot's connection sees
    open,         \* is that connection in a transaction?
    crashes

vars == <<pc, at, done, db, view, open, crashes>>

Database == [tables : SUBSET Tables, effects : SUBSET Versions,
             recorded : SUBSET Versions]

Main == Versions \ Own

TypeOK ==
    /\ pc \in {"down", "tables", "read", "migrate", "record", "verify",
               "ownRead", "own", "ownRecord", "serving"}
    /\ at \in 1 .. Latest + 1
    /\ done \subseteq Versions
    /\ db \in Database /\ view \in Database
    /\ open \in BOOLEAN
    /\ crashes \in 0 .. MaxCrashes

\* A file that some release left behind: none at all, one from before versions
\* were recorded, which may have any of the effects, or one of version k.
Possible(d) ==
    /\ \E k \in 0 .. Latest : d.recorded = 1 .. k
    /\ d.recorded \subseteq d.effects
    /\ \A v \in d.effects : TableOf[v] \in d.tables

Init ==
    /\ pc = "down" /\ at = 1 /\ done = {}
    /\ db \in Database /\ Possible(db)
    /\ view = db /\ open = FALSE
    /\ crashes = 0

-----------------------------------------------------------------------------
(* Statements.                                                             *)

\* One that opens no transaction: committed at once, unless one is open.
Executes(d) ==
    /\ view' = d
    /\ db' = IF open THEN db ELSE d
    /\ UNCHANGED open

\* An INSERT opens one.
Inserts(d) == view' = d /\ open' = TRUE /\ UNCHANGED db

Commits(d) == view' = d /\ db' = d /\ open' = FALSE

\* CREATE TABLE IF NOT EXISTS
Created(d, t) ==
    [d EXCEPT !.tables = @ \cup {t},
              !.effects = @ \cup {v \in InSchema : TableOf[v] = t}]

Recorded(d, v) == [d EXCEPT !.recorded = @ \cup {v}]

Applied(d, v) == [d EXCEPT !.effects = @ \cup {v}]

CanAddOnce(d, v) == TableOf[v] \in d.tables /\ v \notin d.effects

\* _add_column swallows `duplicate column name' and nothing else.
CanAdd(d, v) == TableOf[v] \in d.tables

Copies(v) == {u \in Carried : TableOf[u] = TableOf[v]} \ {v}

RebuiltEmpty(d, v) ==
    [d EXCEPT !.effects =
        {u \in @ : TableOf[u] # TableOf[v]} \cup {v}]

\* The copy has the columns the script names, and no others.
Rebuilt(d, v) ==
    [d EXCEPT !.effects =
        {u \in @ : TableOf[u] = TableOf[v] => u \in Copies(v)} \cup {v}]

-----------------------------------------------------------------------------
(* The boot.                                                               *)

Goes(place) == pc' = place

Boot ==
    /\ pc = "down"
    /\ Goes("tables")
    /\ UNCHANGED <<at, done, db, view, open, crashes>>

CreateTables ==
    /\ pc = "tables"
    /\ IF view.tables = Tables
       THEN Goes("read") /\ UNCHANGED <<db, view, open>>
       ELSE /\ \E t \in Tables \ view.tables : Executes(Created(view, t))
            /\ UNCHANGED pc
    /\ UNCHANGED <<at, done, crashes>>

\* Both loops read what is recorded before they begin.
Read(from, to) ==
    /\ pc = from
    /\ done' = view.recorded /\ at' = 1
    /\ Goes(to)
    /\ UNCHANGED <<db, view, open, crashes>>

\* _apply_migrations
Pending(v) == v \notin done /\ v \notin Own

Migrate ==
    /\ pc = "migrate" /\ at <= Latest
    /\ IF ~Pending(at)
       THEN at' = at + 1 /\ UNCHANGED <<pc, db, view, open>>
       ELSE /\ UNCHANGED at
            /\ IF CanAdd(view, at)
               THEN Executes(Applied(view, at)) /\ Goes("record")
               ELSE /\ Goes("down")
                    /\ view' = db /\ open' = FALSE /\ UNCHANGED db
    /\ UNCHANGED <<done, crashes>>

Record ==
    /\ pc = "record"
    /\ Inserts(Recorded(view, at))
    /\ at' = at + 1
    /\ Goes("migrate")
    /\ UNCHANGED <<done, crashes>>

CommitMigrations ==
    /\ pc = "migrate" /\ at > Latest
    /\ Commits(view)
    /\ Goes("verify")
    /\ UNCHANGED <<at, done, crashes>>

\* _verify_schema; then the settings, then the own connections.
Verify ==
    /\ pc = "verify"
    /\ Goes(IF Columns \subseteq view.effects THEN "ownRead" ELSE "down")
    /\ UNCHANGED <<at, done, db, view, open, crashes>>

\* _apply_own_connection_migrations: the rebuild is one transaction of its
\* own connection, a no-op when the constraint is gone, and an error when a
\* column that it copies is missing.
Rebuild ==
    /\ pc = "own" /\ at <= Latest
    /\ IF at \in done \/ at \notin Own
       THEN at' = at + 1 /\ UNCHANGED <<pc, db, view, open>>
       ELSE /\ UNCHANGED at
            /\ IF at \in view.effects
               THEN Goes("ownRecord") /\ UNCHANGED <<db, view, open>>
               ELSE IF Copies(at) \subseteq view.effects
               THEN Commits(Rebuilt(view, at)) /\ Goes("ownRecord")
               ELSE Goes("down") /\ UNCHANGED <<db, view, open>>
    /\ UNCHANGED <<done, crashes>>

RecordRebuild ==
    /\ pc = "ownRecord"
    /\ Commits(Recorded(view, at))
    /\ at' = at + 1
    /\ Goes("own")
    /\ UNCHANGED <<done, crashes>>

Serve ==
    /\ pc = "own" /\ at > Latest
    /\ Goes("serving")
    /\ UNCHANGED <<at, done, db, view, open, crashes>>

\* The process dies, and what it had not committed is rolled back.
Crash ==
    /\ pc # "down" /\ crashes < MaxCrashes
    /\ Goes("down")
    /\ view' = db /\ open' = FALSE
    /\ crashes' = crashes + 1
    /\ UNCHANGED <<at, done, db>>

Step ==
    \/ Boot \/ CreateTables
    \/ Read("read", "migrate") \/ Migrate \/ Record \/ CommitMigrations
    \/ Verify
    \/ Read("ownRead", "own") \/ Rebuild \/ RecordRebuild
    \/ Serve

Next == Step \/ Crash

Spec == Init /\ [][Next]_vars

\* A boot goes on, and the platform restarts what has died.
FairSpec == Spec /\ WF_vars(Step)

-----------------------------------------------------------------------------
(* Correctness.                                                            *)

\* A version is recorded only when its effect is there, in the file as it
\* would be found after a death at this very moment: a record that runs ahead
\* of its effect would keep the migration from ever being applied.
RecordedIsDone == db.recorded \subseteq db.effects

\* A server that answers runs on every table and every migration's effect,
\* whatever release left the file behind and wherever earlier boots died; and
\* it is on record, so the next boot has nothing to do.
ServesWholeSchema ==
    pc = "serving" =>
        /\ db.tables = Tables
        /\ db.effects = Versions /\ db.recorded = Versions

\* No file, and no place to die in, keeps the server from ever coming up.
BootSucceeds == pc = "down" ~> pc = "serving"
=============================================================================
