----------------------------- MODULE C3SlotPool -----------------------------
(***************************************************************************)
(* The fleet-wide slot pool for C3 jobs: a ticket lock kept in files.      *)
(*                                                                         *)
(* Shards (threads) of several agent processes share one directory.  A     *)
(* shard takes the next number of a counter file, drops a file with that   *)
(* number and its pid in queue/, and polls until it holds the lowest       *)
(* number while fewer than `Size' files are in active/; it then renames    *)
(* its file into active/ and unlinks it when the job is over.  Claims and  *)
(* grant decisions run under an flock, so each is one action; a process    *)
(* can die at any point, inside a claim too, and the lock dies with it.    *)
(***************************************************************************)
EXTENDS Naturals, FiniteSets, Ranks

CONSTANTS
    Shards,       \* threads that want a slot
    Procs,        \* agent processes
    ProcOf,       \* which process a shard runs in
    Size,         \* slots
    MaxTicket,    \* bound: tickets handed out
    MaxCrashes,   \* bound: deaths of one process
    MayTear       \* can a process die between the counter file's truncation
                  \* and its write?

ASSUME PoolAssumption ==
    /\ IsFiniteSet(Shards)
    /\ ProcOf \in [Shards -> Procs]
    /\ Size \in Nat \ {0}
    /\ MaxTicket \in Nat
    /\ MaxCrashes \in Nat
    /\ MayTear \in BOOLEAN

VARIABLES
    counter,   \* what the counter file reads as; a torn file reads as 0
    queue,     \* queue/: files [ticket, pid]
    active,    \* active/: files [ticket, pid]
    life,      \* how often each process was restarted: with it, its pid
    pc,        \* where the shard is in lease()
    ticket     \* the shard's ticket

vars == <<counter, queue, active, life, pc, ticket>>

NoPid == <<>>
Pid(p) == <<p, life[p]>>
Pids == (Procs \X (0 .. MaxCrashes)) \cup {NoPid}
Tickets == 0 .. MaxTicket
Files == [ticket : Tickets, pid : Pids]

FileOf(s) == [ticket |-> ticket[s], pid |-> Pid(ProcOf[s])]
Waiting == {s \in Shards : pc[s] = "waiting"}
Holders == {s \in Shards : pc[s] = "in"}

TypeOK ==
    /\ counter \in Tickets
    /\ queue \subseteq Files
    /\ active \subseteq Files
    /\ life \in [Procs -> 0 .. MaxCrashes]
    /\ pc \in [Shards -> {"out", "waiting", "in"}]
    /\ ticket \in [Shards -> Tickets]

-----------------------------------------------------------------------------
\* Variant: reissue a number, as numbering from the directories would.
SameTicket(n) == n
NextTicket(n) == n + 1

Alive(pid) == \E p \in Procs : pid = Pid(p)

\* _reap; the variant leaves the dead in place.
Unreaped(dir) == dir
Reaped(dir) == {f \in dir : Alive(f.pid)}

\* Room is judged after the reap; the variant is off by one.
RoomForOneMore(dir) == Cardinality(dir) <= Size
HasRoom(dir) == Cardinality(dir) < Size

\* The strict turn; the variant grants whoever polls first.
AnyTurn(s, dir) == dir # {}
IsNext(s, dir) ==
    /\ \E f \in dir : f.ticket = ticket[s]
    /\ \A f \in dir : ticket[s] <= f.ticket

\* os.replace: a file of that name in active/ is overwritten.
Promoted(dir, file) == {f \in dir : f.ticket # file.ticket} \cup {file}

Init ==
    /\ counter = 0
    /\ queue = {}
    /\ active = {}
    /\ life = [p \in Procs |-> 0]
    /\ pc = [s \in Shards |-> "out"]
    /\ ticket = [s \in Shards |-> 0]

InUse(n) == \E f \in queue : f.ticket = n

\* _claim_ticket: if a file of that number waits in queue/, O_EXCL raises and
\* the benchmark fails, with the counter moved on.
Claim(s) ==
    /\ pc[s] = "out"
    /\ NextTicket(counter) \in Tickets
    /\ counter' = NextTicket(counter)
    /\ \/ /\ ~InUse(counter)
          /\ queue' = queue \cup {[ticket |-> counter, pid |-> Pid(ProcOf[s])]}
          /\ pc' = [pc EXCEPT ![s] = "waiting"]
          /\ ticket' = [ticket EXCEPT ![s] = counter]
       \/ InUse(counter) /\ UNCHANGED <<queue, pc, ticket>>
    /\ UNCHANGED <<active, life>>

\* One poll of _try_grant: reap, then the decision.
TryGrant(s) ==
    LET waiting == Reaped(queue)
        holding == Reaped(active)
        granted == HasRoom(holding) /\ IsNext(s, waiting)
    IN  /\ pc[s] = "waiting"
        /\ queue' = IF granted THEN waiting \ {FileOf(s)} ELSE waiting
        /\ active' = IF granted THEN Promoted(holding, FileOf(s)) ELSE holding
        /\ pc' = IF granted THEN [pc EXCEPT ![s] = "in"] ELSE pc
        /\ UNCHANGED <<counter, life, ticket>>

\* The end of lease(): unlink whatever file has the ticket's name.
Release(s) ==
    /\ pc[s] = "in"
    /\ pc' = [pc EXCEPT ![s] = "out"]
    /\ active' = {f \in active : f.ticket # ticket[s]}
    /\ UNCHANGED <<counter, queue, life, ticket>>

\* The same `finally' when the wait is interrupted.
GiveUp(s) ==
    /\ pc[s] = "waiting"
    /\ pc' = [pc EXCEPT ![s] = "out"]
    /\ queue' = {f \in queue : f.ticket # ticket[s]}
    /\ UNCHANGED <<counter, active, life, ticket>>

\* A process dies and another takes its place with a new pid; the files stay.
Die(p) ==
    /\ life[p] < MaxCrashes
    /\ life' = [life EXCEPT ![p] = life[p] + 1]
    /\ pc' = [s \in Shards |-> IF ProcOf[s] = p THEN "out" ELSE pc[s]]
    /\ UNCHANGED <<active, ticket>>

Crash(p) == Die(p) /\ UNCHANGED <<counter, queue>>

\* It dies in a claim: the counter truncated but not written; written but no
\* file created; the file created but the pid not written.
CrashInClaim(s) ==
    /\ pc[s] = "out"
    /\ NextTicket(counter) \in Tickets
    /\ Die(ProcOf[s])
    /\ \/ MayTear /\ counter' = 0 /\ UNCHANGED queue
       \/ counter' = NextTicket(counter) /\ UNCHANGED queue
       \/ /\ ~InUse(counter)
          /\ counter' = NextTicket(counter)
          /\ queue' = queue \cup {[ticket |-> counter, pid |-> NoPid]}

Next ==
    \/ \E s \in Shards :
          Claim(s) \/ TryGrant(s) \/ Release(s) \/ GiveUp(s) \/ CrashInClaim(s)
    \/ \E p \in Procs : Crash(p)

Spec == Init /\ [][Next]_vars

\* A shard in line keeps polling; and who has a slot gives it back, which is
\* the client's duty: a poll has a deadline, but a deploy that hangs keeps its
\* slot (C3Fanout, DeployHangs).
Fairness == \A s \in Shards : WF_vars(TryGrant(s)) /\ WF_vars(Release(s))

FairSpec == Spec /\ Fairness

-----------------------------------------------------------------------------
\* Never more shards with a slot than there are slots (c3_pool.py "the invariant
\* that keeps the cap from being overshot"), wherever a process dies but in one
\* place: it is false if MayTear, as a death that leaves the counter file
\* truncated has numbers start again below the tickets of those inside.
CapRespected == Cardinality(Holders) <= Size

\* Every shard in the line or in a slot has its own live file there, so a
\* sibling neither overtakes it nor takes its slot, and its own unlink frees
\* its own slot ("a ticket number can never collide with an in-flight active
\* lease").
FilesMatch ==
    /\ \A s \in Waiting : FileOf(s) \in queue
    /\ \A s \in Holders : FileOf(s) \in active
    /\ \A s, u \in Waiting \cup Holders : ticket[s] = ticket[u] => s = u

\* The files implement the first-come-first-served line; again, unless a death
\* tears the counter file.
Line == InOrder(Waiting, ticket)

Queue == INSTANCE SlotQueue WITH Clients <- Shards, line <- Line,
                                 inside <- Holders

ImplementsQueue == Queue!Spec

\* Nobody waits for ever, whoever dies around it ("an agent that dies mid-job
\* never wedges a slot forever"), if those alive give their slots back.
WaiterServed == \A s \in Shards : pc[s] = "waiting" ~> pc[s] # "waiting"
=============================================================================
