------------------------------ MODULE C3Proofs ------------------------------
(***************************************************************************)
(* The C3 slot pool keeps its cap and is one first-come-first-served line, *)
(* for any number of shards, processes and slots and any crashes, as long  *)
(* as the counter file is never torn.  The benchmarks fanned out over that *)
(* line leave no job running at C3 that nobody polls and nobody gave up,   *)
(* are cut into even slices for the cheapest machines, and score what they *)
(* would have scored uncut.                                                *)
(***************************************************************************)
EXTENDS C3SlotPool, C3Fanout, FiniteSetTheorems, FunctionTheorems,
        SequenceTheorems, WellFoundedInduction, TLAPS

\* Every number in use was issued, and no two files bear the same one.  A torn
\* counter breaks the first and with it all the rest.
Numbered ==
    /\ \A f \in queue \cup active : f.ticket < counter
    /\ \A f \in queue, g \in queue : f.ticket = g.ticket => f = g
    /\ \A f \in active, g \in active : f.ticket = g.ticket => f = g
    /\ \A f \in queue, g \in active : f.ticket # g.ticket

Slots ==
    /\ TypeOK
    /\ IsFiniteSet(active)
    /\ Numbered
    /\ FilesMatch
    /\ CapRespected

\* A shard in the line or in a slot bears an issued number.
LEMMA TicketIssued ==
    ASSUME Slots, NEW s \in Shards, pc[s] # "out"
    PROVE  ticket[s] < counter
<1>1. FileOf(s) \in queue \cup active
  <2>1. pc[s] = "waiting" \/ pc[s] = "in"
    BY DEF Slots, TypeOK
  <2>2. QED
    BY <2>1 DEF Slots, FilesMatch, Waiting, Holders
<1>2. FileOf(s).ticket = ticket[s]
  BY DEF FileOf
<1>3. QED
  BY <1>1, <1>2 DEF Slots, Numbered

\* A live shard's file outlives a reap.
LEMMA OwnFileAlive ==
    ASSUME Slots, NEW s \in Shards
    PROVE  Alive(FileOf(s).pid)
<1>1. ProcOf[s] \in Procs
  BY PoolAssumption DEF PoolAssumption
<1>2. QED
  BY <1>1 DEF Alive, FileOf

\* The holders are no more than their files.
LEMMA HoldersCounted ==
    ASSUME Slots
    PROVE  /\ IsFiniteSet(Reaped(active))
           /\ IsFiniteSet(Holders)
           /\ Cardinality(Holders) <= Cardinality(Reaped(active))
<1>1. IsFiniteSet(Reaped(active))
  <2>1. Reaped(active) \in SUBSET active
    BY DEF Reaped
  <2>2. QED
    BY <2>1, FS_Subset DEF Slots
<1> DEFINE file == [s \in Holders |-> FileOf(s)]
<1>2. \A s \in Holders : FileOf(s) \in Reaped(active)
  BY OwnFileAlive DEF Slots, FilesMatch, Reaped, Holders
<1>3. \A s, u \in Holders : FileOf(s) = FileOf(u) => s = u
  <2> SUFFICES ASSUME NEW s \in Holders, NEW u \in Holders,
                      FileOf(s) = FileOf(u)
               PROVE  s = u
    OBVIOUS
  <2>1. ticket[s] = ticket[u]
    BY DEF FileOf
  <2>2. QED
    BY <2>1 DEF Slots, FilesMatch
<1>4. file \in Injection(Holders, Reaped(active))
  BY <1>2, <1>3 DEF Injection, IsInjective
<1>5. QED
  BY <1>1, <1>4, FS_Injection

LEMMA SlotsInit ==
    ASSUME Init
    PROVE  Slots
<1>1. TypeOK
  BY PoolAssumption DEF PoolAssumption, Init, TypeOK, Tickets, Files
<1>2. IsFiniteSet(active)
  BY FS_EmptySet DEF Init
<1>3. Numbered
  BY DEF Init, Numbered
<1>4. Waiting = {} /\ Holders = {}
  BY DEF Init, Waiting, Holders
<1>5. FilesMatch
  BY <1>4 DEF FilesMatch
<1>6. CapRespected
  <2>1. Cardinality(Holders) = 0
    BY <1>4, FS_EmptySet
  <2>2. QED
    BY <2>1, PoolAssumption DEF PoolAssumption, CapRespected
<1>7. QED
  BY <1>1, <1>2, <1>3, <1>5, <1>6 DEF Slots

\* _claim_ticket.
LEMMA ClaimStep ==
    ASSUME Slots, NEW s \in Shards, Claim(s)
    PROVE  Slots'
<1>1. counter \in Nat /\ counter' = counter + 1 /\ counter' \in Tickets
  BY DEF Slots, TypeOK, Claim, NextTicket, Tickets
<1>2. ~InUse(counter)
  BY <1>1 DEF Slots, Numbered, InUse, TypeOK, Files, Tickets
<1> DEFINE new == [ticket |-> counter, pid |-> Pid(ProcOf[s])]
<1>3. /\ queue' = queue \cup {new}
      /\ pc' = [pc EXCEPT ![s] = "waiting"]
      /\ ticket' = [ticket EXCEPT ![s] = counter]
      /\ active' = active /\ life' = life
      /\ pc[s] = "out"
  BY <1>2 DEF Claim
<1>4. new \in Files
  BY <1>1, PoolAssumption
     DEF PoolAssumption, Slots, TypeOK, Files, Pids, Pid, Tickets
<1>5. TypeOK'
  BY <1>1, <1>3, <1>4 DEF Slots, TypeOK
<1>6. IsFiniteSet(active)'
  BY <1>3 DEF Slots
<1>7. Numbered'
  <2>1. \A f \in queue \cup active : f.ticket < counter /\ f.ticket \in Nat
    BY DEF Slots, Numbered, TypeOK, Files, Tickets
  <2>2. \A f \in (queue \cup active)' : f.ticket < counter'
    BY <1>1, <1>3, <2>1
  <2>3. \A f \in queue', g \in queue' : f.ticket = g.ticket => f = g
    BY <1>1, <1>3, <2>1 DEF Slots, Numbered
  <2>4. \A f \in queue', g \in active' : f.ticket # g.ticket
    BY <1>1, <1>3, <2>1 DEF Slots, Numbered
  <2>5. QED
    BY <1>3, <2>2, <2>3, <2>4 DEF Slots, Numbered
<1>8. /\ Holders' = Holders
      /\ Waiting' = Waiting \cup {s}
      /\ s \notin Waiting \cup Holders
      /\ \A u \in Shards : u # s => FileOf(u)' = FileOf(u)
      /\ \A u \in Shards : u # s => ticket'[u] = ticket[u]
      /\ ticket'[s] = counter
      /\ FileOf(s)' = new
  BY <1>3 DEF Slots, TypeOK, Holders, Waiting, FileOf, Pid
<1>9. FilesMatch'
  <2>1. \A u \in Waiting' : FileOf(u)' \in queue'
    BY <1>3, <1>8 DEF Slots, FilesMatch, Waiting
  <2>2. \A u \in Holders' : FileOf(u)' \in active'
    BY <1>3, <1>8 DEF Slots, FilesMatch, Holders
  <2>3. \A u \in Waiting \cup Holders : ticket[u] < counter
    BY TicketIssued DEF Waiting, Holders
  <2>4. \A u, v \in (Waiting \cup Holders)' : ticket'[u] = ticket'[v] => u = v
    <3> SUFFICES ASSUME NEW u \in (Waiting \cup Holders)',
                        NEW v \in (Waiting \cup Holders)',
                        ticket'[u] = ticket'[v], u # v
                 PROVE  FALSE
      OBVIOUS
    <3>1. u \in Shards /\ v \in Shards
      BY DEF Waiting, Holders
    <3>2. CASE u = s
      BY <1>1, <1>8, <2>3, <3>1, <3>2
    <3>3. CASE v = s
      BY <1>1, <1>8, <2>3, <3>1, <3>3
    <3>4. CASE u # s /\ v # s
      BY <1>8, <3>1, <3>4 DEF Slots, FilesMatch
    <3>5. QED
      BY <3>2, <3>3, <3>4
  <2>5. QED
    BY <2>1, <2>2, <2>4 DEF FilesMatch
<1>10. CapRespected'
  BY <1>8 DEF Slots, CapRespected
<1>11. QED
  BY <1>5, <1>6, <1>7, <1>9, <1>10 DEF Slots

\* The files and the shards the poll of another shard leaves behind.
LEMMA ReapedStep ==
    ASSUME Slots, NEW s \in Shards, TryGrant(s),
           ~(HasRoom(Reaped(active)) /\ IsNext(s, Reaped(queue)))
    PROVE  Slots'
<1>1. /\ queue' = Reaped(queue)
      /\ active' = Reaped(active)
      /\ UNCHANGED <<counter, pc, life, ticket>>
  BY DEF TryGrant
<1>2. Reaped(queue) \in SUBSET queue /\ Reaped(active) \in SUBSET active
  BY DEF Reaped
<1>3. TypeOK'
  BY <1>1, <1>2 DEF Slots, TypeOK
<1>4. IsFiniteSet(active)'
  BY <1>1, HoldersCounted
<1>5. Numbered'
  BY <1>1, <1>2 DEF Slots, Numbered
<1>6. /\ Waiting' = Waiting /\ Holders' = Holders
      /\ \A u \in Shards : FileOf(u)' = FileOf(u)
  BY <1>1 DEF Waiting, Holders, FileOf, Pid
<1>7. FilesMatch'
  <2>1. \A u \in Waiting : FileOf(u) \in Reaped(queue)
    BY OwnFileAlive DEF Slots, FilesMatch, Reaped, Waiting
  <2>2. \A u \in Holders : FileOf(u) \in Reaped(active)
    BY OwnFileAlive DEF Slots, FilesMatch, Reaped, Holders
  <2>3. Waiting \subseteq Shards /\ Holders \subseteq Shards
    BY DEF Waiting, Holders
  <2>4. \A u \in Waiting' : FileOf(u)' \in queue'
    BY <1>1, <1>6, <2>1, <2>3
  <2>5. \A u \in Holders' : FileOf(u)' \in active'
    BY <1>1, <1>6, <2>2, <2>3
  <2>6. \A u, v \in (Waiting \cup Holders)' : ticket'[u] = ticket'[v] => u = v
    BY <1>1, <1>6 DEF Slots, FilesMatch
  <2>7. QED
    BY <2>4, <2>5, <2>6 DEF FilesMatch
<1>8. CapRespected'
  BY <1>6 DEF Slots, CapRespected
<1>9. QED
  BY <1>3, <1>4, <1>5, <1>7, <1>8 DEF Slots

\* _try_grant: there is room for one more file, so for one more holder.
LEMMA GrantStep ==
    ASSUME Slots, NEW s \in Shards, TryGrant(s),
           HasRoom(Reaped(active)), IsNext(s, Reaped(queue))
    PROVE  Slots'
<1> DEFINE own == FileOf(s)
<1>1. /\ queue' = Reaped(queue) \ {own}
      /\ active' = Promoted(Reaped(active), own)
      /\ pc' = [pc EXCEPT ![s] = "in"]
      /\ UNCHANGED <<counter, life, ticket>>
      /\ pc[s] = "waiting"
  BY DEF TryGrant
<1>2. Reaped(queue) \subseteq queue /\ Reaped(active) \subseteq active
  BY DEF Reaped
<1>3. own \in queue /\ own.ticket = ticket[s]
  BY <1>1 DEF Slots, FilesMatch, Waiting, FileOf
<1>4. active' = Reaped(active) \cup {own}
  BY <1>1, <1>2, <1>3 DEF Promoted, Slots, Numbered
<1>5. TypeOK'
  BY <1>1, <1>2, <1>3, <1>4 DEF Slots, TypeOK
<1>6. IsFiniteSet(active)'
  BY <1>4, HoldersCounted, FS_AddElement
<1>7. Numbered'
  <2>1. queue' \subseteq queue /\ own \notin queue'
    BY <1>1, <1>2
  <2>2. active' \subseteq active \cup {own}
    BY <1>2, <1>4
  <2>3. \A f \in (queue \cup active)' : f.ticket < counter'
    BY <1>1, <1>3, <2>1, <2>2 DEF Slots, Numbered
  <2>4. \A f \in queue', g \in queue' : f.ticket = g.ticket => f = g
    BY <2>1 DEF Slots, Numbered
  <2>5. \A f \in active', g \in active' : f.ticket = g.ticket => f = g
    BY <1>3, <2>2 DEF Slots, Numbered
  <2>6. \A f \in queue', g \in active' : f.ticket # g.ticket
    BY <1>3, <2>1, <2>2 DEF Slots, Numbered
  <2>7. QED
    BY <2>3, <2>4, <2>5, <2>6 DEF Numbered
<1>8. /\ Waiting' = Waiting \ {s}
      /\ Holders' = Holders \cup {s}
      /\ s \in Waiting /\ s \notin Holders
      /\ \A u \in Shards : FileOf(u)' = FileOf(u)
      /\ Waiting \subseteq Shards /\ Holders \subseteq Shards
  BY <1>1 DEF Slots, TypeOK, Holders, Waiting, FileOf, Pid
<1>9. FilesMatch'
  <2>1. \A u \in Waiting : u # s => FileOf(u) # own
    <3> SUFFICES ASSUME NEW u \in Waiting, u # s, FileOf(u) = own
                 PROVE  FALSE
      OBVIOUS
    <3>1. ticket[u] = ticket[s]
      BY DEF FileOf
    <3>2. QED
      BY <1>8, <3>1 DEF Slots, FilesMatch
  <2>2. \A u \in Waiting : FileOf(u) \in Reaped(queue)
    BY OwnFileAlive, <1>8 DEF Slots, FilesMatch, Reaped
  <2>3. \A u \in Waiting' : FileOf(u)' \in queue'
    BY <1>1, <1>8, <2>1, <2>2
  <2>4. \A u \in Holders : FileOf(u) \in Reaped(active)
    BY OwnFileAlive, <1>8 DEF Slots, FilesMatch, Reaped
  <2>5. \A u \in Holders' : FileOf(u)' \in active'
    BY <1>4, <1>8, <2>4
  <2>6. (Waiting \cup Holders)' = Waiting \cup Holders
    BY <1>8
  <2>7. \A u, v \in (Waiting \cup Holders)' : ticket'[u] = ticket'[v] => u = v
    BY <1>1, <2>6 DEF Slots, FilesMatch
  <2>8. QED
    BY <2>3, <2>5, <2>7 DEF FilesMatch
<1>10. CapRespected'
  <2>1. /\ Cardinality(Reaped(active)) \in Nat
        /\ Cardinality(Holders) \in Nat
        /\ Cardinality(Holders) <= Cardinality(Reaped(active))
    BY HoldersCounted, FS_CardinalityType
  <2>2. Cardinality(Holders') = Cardinality(Holders) + 1
    BY <1>8, HoldersCounted, FS_AddElement
  <2>3. Cardinality(Reaped(active)) < Size /\ Size \in Nat
    BY PoolAssumption DEF PoolAssumption, HasRoom
  <2>4. Cardinality(Holders') <= Size
    BY <2>1, <2>2, <2>3
  <2>5. QED
    BY <1>1, <2>4 DEF CapRespected, Holders
<1>11. QED
  BY <1>5, <1>6, <1>7, <1>9, <1>10 DEF Slots

\* A step that only takes shards out of the line and out of their slots.
LEMMA FewerShards ==
    ASSUME Slots, TypeOK', Numbered', active' \subseteq active,
           Waiting' \subseteq Waiting, Holders' \subseteq Holders,
           \A u \in (Waiting \cup Holders)' : ticket'[u] = ticket[u],
           \A u \in Waiting' : FileOf(u)' \in queue',
           \A u \in Holders' : FileOf(u)' \in active'
    PROVE  Slots'
<1>1. IsFiniteSet(active)'
  BY FS_Subset DEF Slots
<1>2. FilesMatch'
  <2>1. \A u, v \in (Waiting \cup Holders)' : ticket'[u] = ticket'[v] => u = v
    BY DEF Slots, FilesMatch
  <2>2. QED
    BY <2>1 DEF FilesMatch
<1>3. CapRespected'
  <2>1. /\ Cardinality(Holders') <= Cardinality(Holders)
        /\ Cardinality(Holders') \in Nat
    BY HoldersCounted, FS_Subset, FS_CardinalityType
  <2>2. Cardinality(Holders) \in Nat /\ Size \in Nat
    BY HoldersCounted, FS_CardinalityType, PoolAssumption DEF PoolAssumption
  <2>3. Cardinality(Holders') <= Size
    BY <2>1, <2>2 DEF Slots, CapRespected
  <2>4. QED
    BY <2>3 DEF CapRespected
<1>4. QED
  BY <1>1, <1>2, <1>3 DEF Slots

\* The end of lease(): its number is its own, so it unlinks its own file only.
LEMMA ReleaseStep ==
    ASSUME Slots, NEW s \in Shards, Release(s)
    PROVE  Slots'
<1>1. /\ active' = {f \in active : f.ticket # ticket[s]}
      /\ pc' = [pc EXCEPT ![s] = "out"] /\ pc[s] = "in"
      /\ UNCHANGED <<counter, queue, life, ticket>>
  BY DEF Release
<1>2. TypeOK'
  BY <1>1 DEF Slots, TypeOK
<1>3. active' \subseteq active
  BY <1>1
<1>4. Numbered'
  BY <1>1, <1>3 DEF Slots, Numbered
<1>5. /\ Waiting' = Waiting /\ Holders' = Holders \ {s} /\ s \in Holders
      /\ \A u \in Shards : FileOf(u)' = FileOf(u)
      /\ Waiting \subseteq Shards /\ Holders \subseteq Shards
  BY <1>1 DEF Slots, TypeOK, Waiting, Holders, FileOf, Pid
<1>6. \A u \in Waiting' : FileOf(u)' \in queue'
  BY <1>1, <1>5 DEF Slots, FilesMatch
<1>7. \A u \in Holders' : FileOf(u)' \in active'
  <2> SUFFICES ASSUME NEW u \in Holders, u # s
               PROVE  FileOf(u) \in active'
    BY <1>5
  <2>1. FileOf(u) \in active /\ ticket[u] # ticket[s]
    BY <1>5 DEF Slots, FilesMatch
  <2>2. FileOf(u).ticket = ticket[u]
    BY DEF FileOf
  <2>3. QED
    BY <1>1, <2>1, <2>2
<1>8. QED
  BY <1>1, <1>2, <1>3, <1>4, <1>5, <1>6, <1>7, FewerShards

\* The same `finally' out of the line.
LEMMA GiveUpStep ==
    ASSUME Slots, NEW s \in Shards, GiveUp(s)
    PROVE  Slots'
<1>1. /\ queue' = {f \in queue : f.ticket # ticket[s]}
      /\ pc' = [pc EXCEPT ![s] = "out"] /\ pc[s] = "waiting"
      /\ UNCHANGED <<counter, active, life, ticket>>
  BY DEF GiveUp
<1>2. TypeOK'
  BY <1>1 DEF Slots, TypeOK
<1>3. queue' \subseteq queue
  BY <1>1
<1>4. Numbered'
  BY <1>1, <1>3 DEF Slots, Numbered
<1>5. /\ Waiting' = Waiting \ {s} /\ Holders' = Holders /\ s \in Waiting
      /\ \A u \in Shards : FileOf(u)' = FileOf(u)
      /\ Waiting \subseteq Shards /\ Holders \subseteq Shards
  BY <1>1 DEF Slots, TypeOK, Waiting, Holders, FileOf, Pid
<1>6. \A u \in Holders' : FileOf(u)' \in active'
  BY <1>1, <1>5 DEF Slots, FilesMatch
<1>7. \A u \in Waiting' : FileOf(u)' \in queue'
  <2> SUFFICES ASSUME NEW u \in Waiting, u # s
               PROVE  FileOf(u) \in queue'
    BY <1>5
  <2>1. FileOf(u) \in queue /\ ticket[u] # ticket[s]
    BY <1>5 DEF Slots, FilesMatch
  <2>2. FileOf(u).ticket = ticket[u]
    BY DEF FileOf
  <2>3. QED
    BY <1>1, <2>1, <2>2
<1>8. QED
  BY <1>1, <1>2, <1>4, <1>5, <1>6, <1>7, FewerShards

\* A death: the shards of the other processes keep their files, pid and all.
LEMMA DieStep ==
    ASSUME Slots, NEW p \in Procs, Die(p),
           counter' \in Tickets, queue' \subseteq Files,
           queue \subseteq queue', Numbered'
    PROVE  Slots'
<1>1. /\ life' = [life EXCEPT ![p] = life[p] + 1] /\ life[p] < MaxCrashes
      /\ pc' = [s \in Shards |-> IF ProcOf[s] = p THEN "out" ELSE pc[s]]
      /\ active' = active /\ ticket' = ticket
  BY DEF Die
<1>2. life' \in [Procs -> 0 .. MaxCrashes]
  BY <1>1, PoolAssumption DEF PoolAssumption, Slots, TypeOK
<1>3. TypeOK'
  BY <1>1, <1>2 DEF Slots, TypeOK
<1>4. Waiting' \subseteq Waiting /\ Holders' \subseteq Holders
  BY <1>1 DEF Waiting, Holders
<1>5. \A u \in (Waiting \cup Holders)' : FileOf(u)' = FileOf(u)
  <2> SUFFICES ASSUME NEW u \in (Waiting \cup Holders)'
               PROVE  FileOf(u)' = FileOf(u)
    OBVIOUS
  <2>1. u \in Shards /\ ProcOf[u] # p
    BY <1>1 DEF Waiting, Holders
  <2>2. ProcOf[u] \in Procs
    BY <2>1, PoolAssumption DEF PoolAssumption
  <2>3. life'[ProcOf[u]] = life[ProcOf[u]]
    BY <1>1, <2>1, <2>2 DEF Slots, TypeOK
  <2>4. QED
    BY <1>1, <2>3 DEF FileOf, Pid
<1>6. \A u \in Waiting' : FileOf(u)' \in queue'
  BY <1>4, <1>5 DEF Slots, FilesMatch
<1>7. \A u \in Holders' : FileOf(u)' \in active'
  BY <1>1, <1>4, <1>5 DEF Slots, FilesMatch
<1>8. QED
  BY <1>1, <1>3, <1>4, <1>6, <1>7, FewerShards

LEMMA CrashStep ==
    ASSUME Slots, NEW p \in Procs, Crash(p)
    PROVE  Slots'
<1>1. Die(p) /\ UNCHANGED <<counter, queue, active>>
  BY DEF Crash, Die
<1>2. Numbered'
  BY <1>1 DEF Slots, Numbered
<1>3. QED
  BY <1>1, <1>2, DieStep DEF Slots, TypeOK

\* A death in a claim: at worst a number is lost, or a file without a pid left.
LEMMA CrashInClaimStep ==
    ASSUME MayTear = FALSE, Slots, NEW s \in Shards, CrashInClaim(s)
    PROVE  Slots'
<1>1. /\ counter \in Nat /\ counter' = counter + 1 /\ counter' \in Tickets
      /\ Die(ProcOf[s]) /\ active' = active
  BY DEF Slots, TypeOK, CrashInClaim, NextTicket, Tickets, Die
<1> DEFINE blank == [ticket |-> counter, pid |-> NoPid]
<1>2. queue' = queue \/ queue' = queue \cup {blank}
  BY DEF CrashInClaim
<1>3. blank \in Files
  BY <1>1 DEF Slots, TypeOK, Files, Pids
<1>4. queue \subseteq queue' /\ queue' \subseteq queue \cup {blank}
  BY <1>2
<1>5. queue' \subseteq Files
  BY <1>3, <1>4 DEF Slots, TypeOK
<1>6. Numbered'
  <2>1. \A f \in queue \cup active : f.ticket < counter /\ f.ticket \in Nat
    BY DEF Slots, Numbered, TypeOK, Files, Tickets
  <2>2. blank.ticket = counter
    OBVIOUS
  <2>3. \A f \in (queue \cup active)' : f.ticket < counter'
    BY <1>1, <1>4, <2>1, <2>2
  <2>4. \A f \in queue', g \in queue' : f.ticket = g.ticket => f = g
    BY <1>1, <1>4, <2>1, <2>2 DEF Slots, Numbered
  <2>5. \A f \in queue', g \in active' : f.ticket # g.ticket
    BY <1>1, <1>4, <2>1, <2>2 DEF Slots, Numbered
  <2>6. QED
    BY <1>1, <2>3, <2>4, <2>5 DEF Slots, Numbered
<1>7. ProcOf[s] \in Procs
  BY PoolAssumption DEF PoolAssumption
<1>8. QED
  BY <1>1, <1>4, <1>5, <1>6, <1>7, DieStep

-----------------------------------------------------------------------------
-----------------------------------------------------------------------------
(* The members of a set in the order of their keys.                        *)

Keyed(S, key) ==
    /\ IsFiniteSet(S)
    /\ \A s \in S : key[s] \in Nat
    /\ \A s, u \in S : key[s] = key[u] => s = u

Before(S, key, s) == {u \in S : key[u] < key[s]}

\* A rank counts a part of the others.
LEMMA RankBounds ==
    ASSUME NEW S, NEW key, Keyed(S, key), NEW s \in S
    PROVE  /\ IsFiniteSet(Before(S, key, s))
           /\ Rank(S, key, s) = Cardinality(Before(S, key, s))
           /\ Rank(S, key, s) \in 0 .. Cardinality(S) - 1
<1>1. Before(S, key, s) \in SUBSET (S \ {s})
  BY DEF Before, Keyed
<1>2. IsFiniteSet(S \ {s}) /\ Cardinality(S \ {s}) = Cardinality(S) - 1
  BY FS_RemoveElement DEF Keyed
<1>3. /\ IsFiniteSet(Before(S, key, s))
      /\ Cardinality(Before(S, key, s)) <= Cardinality(S) - 1
  BY <1>1, <1>2, FS_Subset
<1>4. /\ Cardinality(S) \in Nat
      /\ Cardinality(Before(S, key, s)) \in Nat
  BY <1>3, FS_CardinalityType DEF Keyed
<1>5. Rank(S, key, s) = Cardinality(Before(S, key, s))
  BY DEF Rank, Before
<1> QED
  BY <1>3, <1>4, <1>5

\* A greater key has a greater rank.
LEMMA RankRises ==
    ASSUME NEW S, NEW key, Keyed(S, key), NEW s \in S, NEW u \in S,
           key[s] < key[u]
    PROVE  Rank(S, key, s) < Rank(S, key, u)
<1> DEFINE low == Before(S, key, s)
           high == Before(S, key, u)
<1>1. low \cup {s} \in SUBSET high /\ s \notin low
  BY DEF Before, Keyed
<1>2. /\ IsFiniteSet(low) /\ IsFiniteSet(high)
      /\ Rank(S, key, s) = Cardinality(low)
      /\ Rank(S, key, u) = Cardinality(high)
      /\ Rank(S, key, s) \in Nat /\ Rank(S, key, u) \in Nat
  BY RankBounds
<1>3. Cardinality(low \cup {s}) = Cardinality(low) + 1
  BY <1>1, <1>2, FS_AddElement
<1>4. Cardinality(low \cup {s}) <= Cardinality(high)
  BY <1>1, <1>2, FS_Subset
<1> QED
  BY <1>2, <1>3, <1>4

\* No two members share a rank.
LEMMA RankDiffers ==
    ASSUME NEW S, NEW key, Keyed(S, key), NEW s \in S, NEW u \in S,
           Rank(S, key, s) = Rank(S, key, u)
    PROVE  s = u
<1>1. /\ Rank(S, key, s) \in Nat /\ Rank(S, key, u) \in Nat
      /\ key[s] \in Nat /\ key[u] \in Nat
  BY RankBounds DEF Keyed
<1>2. ~(key[s] < key[u]) /\ ~(key[u] < key[s])
  BY <1>1, RankRises
<1> QED
  BY <1>1, <1>2 DEF Keyed

\* Every rank below the number of members is taken.
LEMMA RankOnto ==
    ASSUME NEW S, NEW key, Keyed(S, key), NEW k \in 1 .. Cardinality(S)
    PROVE  \E s \in S : Rank(S, key, s) = k - 1
<1> DEFINE n == Cardinality(S)
           rank == [s \in S |-> Rank(S, key, s)]
<1>1. n \in Nat
  BY FS_CardinalityType DEF Keyed
<1>2. IsFiniteSet(0 .. n - 1) /\ Cardinality(0 .. n - 1) = n
  <2>1. 0 \in Int /\ n - 1 \in Int
    BY <1>1
  <2>2. /\ IsFiniteSet(0 .. n - 1)
        /\ Cardinality(0 .. n - 1) = IF 0 > n - 1 THEN 0 ELSE n - 1 - 0 + 1
    BY <2>1, FS_Interval
  <2> QED
    BY <1>1, <2>2
<1>3. rank \in [S -> 0 .. n - 1]
  BY RankBounds
<1>4. \A s, u \in S : rank[s] = rank[u] => s = u
  BY RankDiffers
<1>5. rank \in Injection(S, 0 .. n - 1)
  BY <1>3, <1>4, Fun_IsInj
<1>6. rank \in Surjection(S, 0 .. n - 1)
  BY <1>2, <1>5, FS_Injection
<1>7. k - 1 \in 0 .. n - 1
  BY <1>1
<1>8. PICK s \in S : rank[s] = k - 1
  BY <1>6, <1>7 DEF Surjection
<1> QED
  BY <1>8

\* Everyone is at the place of his rank.
LEMMA OrderRanks ==
    ASSUME NEW S, NEW key, Keyed(S, key), NEW k \in 1 .. Cardinality(S)
    PROVE  /\ InOrder(S, key)[k] \in S
           /\ Rank(S, key, InOrder(S, key)[k]) = k - 1
<1>1. InOrder(S, key)[k] = CHOOSE s \in S : Rank(S, key, s) = k - 1
  BY DEF InOrder
<1> QED
  BY <1>1, RankOnto

\* The order goes by the keys.
LEMMA OrderRises ==
    ASSUME NEW S, NEW key, Keyed(S, key),
           NEW i \in 1 .. Cardinality(S), NEW j \in 1 .. Cardinality(S), i < j
    PROVE  key[InOrder(S, key)[i]] < key[InOrder(S, key)[j]]
<1> DEFINE a == InOrder(S, key)[i]
           b == InOrder(S, key)[j]
<1>1. /\ a \in S /\ b \in S
      /\ Rank(S, key, a) = i - 1 /\ Rank(S, key, b) = j - 1
  BY OrderRanks
<1>2. key[a] \in Nat /\ key[b] \in Nat /\ i \in Nat /\ j \in Nat
  BY <1>1 DEF Keyed
<1>3. a # b
  BY <1>1, <1>2
<1>4. ~(key[b] < key[a])
  BY <1>1, <1>2, RankRises
<1> QED
  BY <1>1, <1>2, <1>3, <1>4 DEF Keyed

\* Every member has a place in it.
LEMMA OrderHasAll ==
    ASSUME NEW S, NEW key, Keyed(S, key), NEW s \in S
    PROVE  \E k \in 1 .. Cardinality(S) : InOrder(S, key)[k] = s
<1> DEFINE k == Rank(S, key, s) + 1
<1>1. k \in 1 .. Cardinality(S)
  BY RankBounds, FS_CardinalityType DEF Keyed
<1>2. k - 1 = Rank(S, key, s)
  BY RankBounds
<1>3. /\ InOrder(S, key)[k] \in S
      /\ Rank(S, key, InOrder(S, key)[k]) = Rank(S, key, s)
  <2> HIDE DEF k
  <2> QED
    BY <1>1, <1>2, OrderRanks
<1> QED
  BY <1>1, <1>3, RankDiffers

\* The order has one place per member.
LEMMA OrderIsFunction ==
    ASSUME NEW S, NEW key, Keyed(S, key)
    PROVE  /\ InOrder(S, key) \in [1 .. Cardinality(S) -> S]
           /\ Cardinality(S) \in Nat
<1>1. \A k \in 1 .. Cardinality(S) : InOrder(S, key)[k] \in S
  BY OrderRanks
<1> QED
  BY <1>1, FS_CardinalityType DEF InOrder, Keyed

\* A function that rises and has as many places as there are members is that.
LEMMA OrderIs ==
    ASSUME NEW S, NEW key, Keyed(S, key),
           NEW f \in [1 .. Cardinality(S) -> S],
           \A i, j \in 1 .. Cardinality(S) : i < j => key[f[i]] < key[f[j]]
    PROVE  f = InOrder(S, key)
<1> DEFINE n == Cardinality(S)
           g == InOrder(S, key)
<1>1. n \in Nat /\ g \in [1 .. n -> S]
  BY OrderIsFunction
<1>2. \A i, j \in 1 .. n : f[i] = f[j] => i = j
  BY <1>1 DEF Keyed
<1>3. f \in Surjection(1 .. n, S)
  <2>1. f \in Injection(1 .. n, S)
    BY <1>2, Fun_IsInj
  <2>2. IsFiniteSet(S) /\ Cardinality(1 .. n) = Cardinality(S)
    BY <1>1, FS_Interval DEF Keyed
  <2> QED
    BY <2>1, <2>2, FS_Injection
<1>4. \A s \in S : \E i \in 1 .. n : f[i] = s
  BY <1>3 DEF Surjection
<1>5. ASSUME NEW k \in 1 .. n
      PROVE  Rank(S, key, f[k]) = k - 1
  <2> DEFINE ahead == Before(S, key, f[k])
             part == [i \in 1 .. k - 1 |-> f[i]]
  <2>1. part \in [1 .. k - 1 -> ahead]
    BY <1>1, <1>5 DEF Before
  <2>2. \A i, j \in 1 .. k - 1 : part[i] = part[j] => i = j
    BY <1>1, <1>2, <1>5
  <2>3. \A s \in ahead : \E i \in 1 .. k - 1 : part[i] = s
    <3> SUFFICES ASSUME NEW s \in ahead
                 PROVE  \E i \in 1 .. k - 1 : part[i] = s
      OBVIOUS
    <3>1. PICK i \in 1 .. n : f[i] = s
      BY <1>4 DEF Before
    <3>2. key[f[i]] < key[f[k]] /\ key[f[i]] \in Nat /\ key[f[k]] \in Nat
      BY <1>1, <3>1 DEF Before, Keyed
    <3>3. i < k
      BY <1>1, <3>2
    <3> QED
      BY <1>1, <3>1, <3>3
  <2>4. part \in Bijection(1 .. k - 1, ahead)
    BY <2>1, <2>2, <2>3, Fun_IsBij
  <2>5. IsFiniteSet(1 .. k - 1) /\ Cardinality(1 .. k - 1) = k - 1
    <3>1. 1 \in Int /\ k - 1 \in Int /\ k \in Nat
      BY <1>1
    <3>2. /\ IsFiniteSet(1 .. k - 1)
          /\ Cardinality(1 .. k - 1) =
                IF 1 > k - 1 THEN 0 ELSE k - 1 - 1 + 1
      BY <3>1, FS_Interval
    <3> QED
      BY <1>1, <3>1, <3>2
  <2>6. ExistsBijection(1 .. k - 1, ahead)
    BY <2>4, Fun_ExistsBij
  <2>7. Cardinality(ahead) = k - 1
    BY <2>5, <2>6, FS_Bijection
  <2> QED
    BY <2>7, RankBounds
<1>6. \A k \in 1 .. n : f[k] = g[k]
  BY <1>5, OrderRanks, RankDiffers
<1> QED
  BY <1>1, <1>6
-----------------------------------------------------------------------------
(* The files implement the line.                                           *)

\* The abstract line counts and orders as this module does.
LEMMA SameCount == \A S : Queue!Cardinality(S) = Cardinality(S)
BY DEF Queue!Cardinality, Cardinality

LEMMA SameOrder ==
    ASSUME NEW S, NEW key, Keyed(S, key)
    PROVE  Queue!InOrder(S, key) = InOrder(S, key)
<1> DEFINE n == Cardinality(S)
           f == Queue!InOrder(S, key)
           g == InOrder(S, key)
<1>1. f = [k \in 1 .. n |-> CHOOSE s \in S : Queue!Rank(S, key, s) = k - 1]
  BY SameCount DEF Queue!InOrder
<1>2. \A s : Queue!Rank(S, key, s) = Rank(S, key, s)
  BY SameCount DEF Queue!Rank, Rank
<1>3. ASSUME NEW k \in 1 .. n
      PROVE  f[k] = g[k]
  <2>1. f[k] = CHOOSE s \in S : Queue!Rank(S, key, s) = k - 1
    BY <1>1
  <2>2. \E s \in S : Queue!Rank(S, key, s) = k - 1
    BY <1>2, RankOnto
  <2>3. f[k] \in S /\ Rank(S, key, f[k]) = k - 1
    BY <1>2, <2>1, <2>2
  <2>4. g[k] \in S /\ Rank(S, key, g[k]) = k - 1
    BY OrderRanks
  <2> QED
    BY <2>3, <2>4, RankDiffers
<1>4. g \in [1 .. n -> S]
  BY OrderIsFunction
<1>5. f = [k \in 1 .. n |-> f[k]]
  BY <1>1
<1>6. g = [k \in 1 .. n |-> g[k]]
  BY <1>4
<1> HIDE DEF f, g
<1>7. f = g
  BY <1>3, <1>5, <1>6
<1> QED
  BY <1>7 DEF f, g

\* A function on 1 .. n is a sequence of that length.
LEMMA FunSeq ==
    ASSUME NEW S, NEW n \in Nat, NEW f \in [1 .. n -> S]
    PROVE  f \in Seq(S) /\ Len(f) = n
OBVIOUS

\* The line holds the waiting shards, by their numbers.
LEMMA LineFacts ==
    ASSUME Slots
    PROVE  /\ Keyed(Waiting, ticket)
           /\ Cardinality(Waiting) \in Nat
           /\ Line \in [1 .. Cardinality(Waiting) -> Waiting]
           /\ Line \in Seq(Shards) /\ Len(Line) = Cardinality(Waiting)
           /\ \A s \in Waiting : \E k \in 1 .. Len(Line) : Line[k] = s
           /\ \A i, j \in 1 .. Len(Line) :
                i < j => ticket[Line[i]] < ticket[Line[j]]
<1>1. Keyed(Waiting, ticket)
  <2>1. Waiting \in SUBSET Shards
    BY DEF Waiting
  <2>2. IsFiniteSet(Waiting)
    BY <2>1, FS_Subset, PoolAssumption DEF PoolAssumption
  <2>3. \A s \in Shards : ticket[s] \in Nat
    BY DEF Slots, TypeOK, Tickets
  <2> QED
    BY <2>1, <2>2, <2>3 DEF Keyed, Slots, FilesMatch
<1>2. /\ Cardinality(Waiting) \in Nat
      /\ Line \in [1 .. Cardinality(Waiting) -> Waiting]
  BY <1>1, OrderIsFunction DEF Line
<1>3. Line \in Seq(Shards) /\ Len(Line) = Cardinality(Waiting)
  <2>1. Line \in [1 .. Cardinality(Waiting) -> Shards]
    <3>1. Waiting \in SUBSET Shards
      BY DEF Waiting
    <3> QED
      BY <1>2, <3>1
  <2> QED
    BY <1>2, <2>1, FunSeq
<1>4. \A s \in Waiting : \E k \in 1 .. Len(Line) : Line[k] = s
  BY <1>1, <1>3, OrderHasAll DEF Line
<1>5. \A i, j \in 1 .. Len(Line) :
        i < j => ticket[Line[i]] < ticket[Line[j]]
  BY <1>1, <1>3, OrderRises DEF Line
<1> QED
  BY <1>1, <1>2, <1>3, <1>4, <1>5

\* What makes a sequence the line after a step.
LEMMA LineIs ==
    ASSUME Slots', NEW f \in Seq(Waiting'),
           Len(f) = Cardinality(Waiting'),
           \A i, j \in 1 .. Len(f) : i < j => ticket'[f[i]] < ticket'[f[j]]
    PROVE  Line' = f
<1>1. Keyed(Waiting', ticket')
  <2>1. Waiting' \in SUBSET Shards
    BY DEF Waiting
  <2>2. IsFiniteSet(Waiting')
    BY <2>1, FS_Subset, PoolAssumption DEF PoolAssumption
  <2>3. \A s \in Shards : ticket'[s] \in Nat
    BY DEF Slots, TypeOK, Tickets
  <2> QED
    BY <2>1, <2>2, <2>3 DEF Keyed, Slots, FilesMatch
<1>2. f \in [1 .. Cardinality(Waiting') -> Waiting']
  BY LenProperties
<1>3. f = InOrder(Waiting', ticket')
  BY <1>1, <1>2, OrderIs
<1> QED
  BY <1>3 DEF Line

\* A claim joins the line at its end.
LEMMA ClaimArrives ==
    ASSUME Slots, Slots', NEW s \in Shards, Claim(s)
    PROVE  Queue!Arrive(s)
<1>1. counter \in Nat
  BY DEF Slots, TypeOK, Tickets
<1>2. ~InUse(counter)
  BY <1>1 DEF Slots, Numbered, InUse, TypeOK, Files, Tickets
<1>3. /\ pc' = [pc EXCEPT ![s] = "waiting"]
      /\ ticket' = [ticket EXCEPT ![s] = counter] /\ pc[s] = "out"
  BY <1>2 DEF Claim
<1>4. /\ Holders' = Holders
      /\ Waiting' = Waiting \cup {s}
      /\ s \notin Waiting /\ s \notin Holders
      /\ \A u \in Waiting : ticket'[u] = ticket[u] /\ ticket[u] < counter
      /\ ticket'[s] = counter
  BY <1>3, TicketIssued DEF Slots, TypeOK, Holders, Waiting
<1> DEFINE n == Len(Line)
           f == Append(Line, s)
<1>5. /\ Line \in Seq(Waiting) /\ Line \in Seq(Waiting')
      /\ n \in Nat /\ n = Cardinality(Waiting)
      /\ \A i \in 1 .. n : Line[i] \in Waiting
  BY <1>4, LineFacts, SeqMonotonic
<1>6. /\ f \in Seq(Waiting') /\ Len(f) = n + 1
      /\ \A i \in 1 .. n : f[i] = Line[i]
      /\ f[n + 1] = s
  BY <1>4, <1>5, AppendProperties
<1>7. Cardinality(Waiting') = n + 1
  BY <1>4, <1>5, LineFacts, FS_AddElement DEF Keyed
<1>8. \A i, j \in 1 .. Len(f) : i < j => ticket'[f[i]] < ticket'[f[j]]
  <2> SUFFICES ASSUME NEW i \in 1 .. n + 1, NEW j \in 1 .. n + 1, i < j
               PROVE  ticket'[f[i]] < ticket'[f[j]]
    BY <1>6
  <2>1. i \in 1 .. n /\ f[i] = Line[i] /\ Line[i] \in Waiting
    BY <1>5, <1>6
  <2>2. CASE j = n + 1
    BY <1>4, <1>6, <2>1, <2>2
  <2>3. CASE j \in 1 .. n
    BY <1>4, <1>5, <1>6, <2>1, <2>3, LineFacts
  <2> QED
    BY <1>5, <2>2, <2>3
<1>9. Line' = f
  <2> HIDE DEF f
  <2> QED
    BY <1>6, <1>7, <1>8, LineIs
<1>10. s \notin Queue!ToSet(Line)
  BY <1>4, <1>5, LineFacts DEF Queue!ToSet
<1> QED
  BY <1>4, <1>9, <1>10 DEF Queue!Arrive

\* A grant is the head of the line's, and there is a slot for it.
LEMMA GrantAdmits ==
    ASSUME Slots, Slots', NEW s \in Shards, TryGrant(s),
           HasRoom(Reaped(active)), IsNext(s, Reaped(queue))
    PROVE  Queue!Admit
<1>1. /\ pc' = [pc EXCEPT ![s] = "in"] /\ pc[s] = "waiting"
      /\ ticket' = ticket
  BY DEF TryGrant
<1>2. /\ Waiting' = Waiting \ {s} /\ Holders' = Holders \cup {s}
      /\ s \in Waiting
  BY <1>1 DEF Slots, TypeOK, Holders, Waiting
<1>3. Cardinality(Holders) < Size
  <2>1. /\ Cardinality(Reaped(active)) \in Nat
        /\ Cardinality(Holders) \in Nat
        /\ Cardinality(Holders) <= Cardinality(Reaped(active))
    BY HoldersCounted, FS_CardinalityType
  <2> QED
    BY <2>1, PoolAssumption DEF PoolAssumption, HasRoom
<1>4. \A u \in Waiting : ticket[s] <= ticket[u]
  <2> SUFFICES ASSUME NEW u \in Waiting
               PROVE  ticket[s] <= ticket[u]
    OBVIOUS
  <2>1. FileOf(u) \in Reaped(queue) /\ FileOf(u).ticket = ticket[u]
    BY OwnFileAlive DEF Slots, FilesMatch, Reaped, Waiting, FileOf
  <2> QED
    BY <2>1 DEF IsNext
<1> DEFINE n == Len(Line)
           f == Tail(Line)
<1>5. /\ Line \in Seq(Waiting) /\ n \in Nat /\ n = Cardinality(Waiting)
      /\ \A i \in 1 .. n : Line[i] \in Waiting
      /\ \A i, j \in 1 .. n : i < j => ticket[Line[i]] < ticket[Line[j]]
      /\ \A u \in Waiting : ticket[u] \in Nat
  BY LineFacts DEF Keyed
<1>6. PICK k \in 1 .. n : Line[k] = s
  BY <1>2, LineFacts
<1>7. k = 1 /\ Line # <<>>
  <2>1. 1 \in 1 .. n /\ Line[1] \in Waiting /\ Line # <<>>
    BY <1>5, <1>6
  <2>2. ~(1 < k)
    BY <1>4, <1>5, <1>6, <2>1
  <2> QED
    BY <1>5, <1>6, <2>1, <2>2
<1>8. Head(Line) = s
  BY <1>5, <1>6, <1>7
<1>9. /\ f \in Seq(Waiting) /\ Len(f) = n - 1
      /\ \A i \in 1 .. n - 1 : f[i] = Line[i + 1]
  BY <1>5, <1>7, HeadTailProperties
<1>10. \A i \in 1 .. n - 1 : f[i] \in Waiting'
  BY <1>2, <1>5, <1>6, <1>7, <1>9
<1>11. f \in Seq(Waiting')
  <2>1. f \in [1 .. n - 1 -> Waiting'] /\ n - 1 \in Nat
    <3>1. f \in [1 .. n - 1 -> Waiting]
      <4> HIDE DEF f, n
      <4> QED
        BY <1>9, LenProperties
    <3>2. n - 1 \in Nat
      BY <1>9, LenProperties
    <3> HIDE DEF f, n
    <3> QED
      BY <1>10, <3>1, <3>2
  <2> HIDE DEF f
  <2> QED
    BY <2>1, FunSeq
<1>12. Cardinality(Waiting') = n - 1
  BY <1>2, <1>5, LineFacts, FS_RemoveElement DEF Keyed
<1>13. \A i, j \in 1 .. Len(f) : i < j => ticket'[f[i]] < ticket'[f[j]]
  BY <1>1, <1>5, <1>9
<1>14. Line' = f
  <2> HIDE DEF f
  <2> QED
    BY <1>9, <1>11, <1>12, <1>13, LineIs
<1> QED
  BY <1>2, <1>3, <1>7, <1>8, <1>14, SameCount DEF Queue!Admit

\* A release, a wait given up and a death take shards out; the others keep
\* their turns.
LEMMA FewerDepart ==
    ASSUME Slots, Slots', NEW gone, gone # {},
           Waiting' = Waiting \ gone, Holders' = Holders \ gone,
           ticket' = ticket
    PROVE  Queue!Depart(gone)
<1> DEFINE n == Len(Line)
           staying == {i \in 1 .. n : Line[i] \notin gone}
           self == [i \in staying |-> i]
           m == Cardinality(staying)
           place == InOrder(staying, self)
           f == [k \in 1 .. m |-> Line[place[k]]]
<1>1. /\ n \in Nat /\ n = Cardinality(Waiting)
      /\ \A i \in 1 .. n : Line[i] \in Waiting
      /\ \A i, j \in 1 .. n : i < j => ticket[Line[i]] < ticket[Line[j]]
      /\ \A u \in Waiting : \E i \in 1 .. n : Line[i] = u
      /\ \A u \in Waiting : ticket[u] \in Nat
  BY LineFacts DEF Keyed
<1>2. Keyed(staying, self)
  <2>1. IsFiniteSet(staying)
    <3>1. IsFiniteSet(1 .. n)
      BY <1>1, FS_Interval
    <3>2. staying \in SUBSET (1 .. n)
      OBVIOUS
    <3> QED
      BY <3>1, <3>2, FS_Subset
  <2> QED
    BY <1>1, <2>1 DEF Keyed
<1>3. m \in Nat /\ place \in [1 .. m -> staying]
  BY <1>2, OrderIsFunction
<1>4. \A i, j \in 1 .. m : i < j => place[i] < place[j]
  <2> SUFFICES ASSUME NEW i \in 1 .. m, NEW j \in 1 .. m, i < j
               PROVE  place[i] < place[j]
    OBVIOUS
  <2>1. self[place[i]] < self[place[j]]
    <3> HIDE DEF self, staying
    <3> QED
      BY <1>2, OrderRises
  <2>2. place[i] \in staying /\ place[j] \in staying
    BY <1>3
  <2> QED
    BY <2>1, <2>2
<1>5. m = Cardinality(Waiting')
  <2> DEFINE at == [i \in staying |-> Line[i]]
  <2>1. at \in [staying -> Waiting']
    BY <1>1
  <2>2. \A i, j \in staying : at[i] = at[j] => i = j
    <3> SUFFICES ASSUME NEW i \in staying, NEW j \in staying,
                        Line[i] = Line[j]
                 PROVE  i = j
      OBVIOUS
    <3>1. ~(i < j) /\ ~(j < i)
      BY <1>1
    <3> QED
      BY <1>1, <3>1
  <2>3. \A u \in Waiting' : \E i \in staying : at[i] = u
    BY <1>1
  <2>4. at \in Bijection(staying, Waiting')
    BY <2>1, <2>2, <2>3, Fun_IsBij
  <2>5. ExistsBijection(staying, Waiting')
    BY <2>4, Fun_ExistsBij
  <2> QED
    BY <1>2, <2>5, FS_Bijection DEF Keyed
<1>6. /\ f \in Seq(Waiting') /\ Len(f) = m
      /\ \A k \in 1 .. m : f[k] = Line[place[k]]
  <2>1. \A k \in 1 .. m : Line[place[k]] \in Waiting'
    BY <1>1, <1>3
  <2> HIDE DEF place, m, staying
  <2> QED
    BY <1>3, <2>1
<1>7. \A i, j \in 1 .. Len(f) : i < j => ticket'[f[i]] < ticket'[f[j]]
  <2>1. \A k \in 1 .. m : place[k] \in 1 .. n
    BY <1>3
  <2> HIDE DEF place, m, staying, f
  <2> QED
    BY <1>1, <1>4, <1>6, <2>1
<1>8. Line' = f
  <2> HIDE DEF f, m
  <2> QED
    BY <1>5, <1>6, <1>7, LineIs
<1>9. Queue!InOrder(staying, self) = InOrder(staying, self)
  BY <1>2, SameOrder
<1>10. Line' = Queue!Without(gone)
  BY <1>8, <1>9, SameCount DEF Queue!Without
<1> QED
  BY <1>10 DEF Queue!Depart

\* Nobody moves when no shard's place and number do.
LEMMA LineStays ==
    ASSUME pc' = pc, ticket' = ticket
    PROVE  Line' = Line /\ Holders' = Holders
<1>1. Waiting' = Waiting /\ Holders' = Holders
  BY DEF Waiting, Holders
<1> QED
  BY <1>1 DEF Line

\* At first nobody waits and nobody has a slot.
LEMMA EmptyLine ==
    ASSUME Init
    PROVE  Line = <<>> /\ Holders = {}
<1>1. Waiting = {} /\ Holders = {}
  BY DEF Init, Waiting, Holders
<1>2. Cardinality(Waiting) = 0
  BY <1>1, FS_EmptySet
<1>3. Line \in [1 .. 0 -> {}]
  BY <1>1, <1>2 DEF Line, InOrder
<1>4. Line \in Seq({}) /\ Len(Line) = 0
  BY <1>3, FunSeq
<1> QED
  BY <1>1, <1>4, EmptySeq

\* A shard that releases or gives up leaves on its own.
LEMMA OneDeparts ==
    ASSUME Slots, Slots', NEW s \in Shards, Release(s) \/ GiveUp(s)
    PROVE  Queue!Depart({s})
<1>1. pc' = [pc EXCEPT ![s] = "out"] /\ ticket' = ticket
  BY DEF Release, GiveUp
<1>2. Waiting' = Waiting \ {s} /\ Holders' = Holders \ {s}
  BY <1>1 DEF Slots, TypeOK, Waiting, Holders
<1> QED
  BY <1>1, <1>2, FewerDepart

\* A death takes the shards of its process out, or nobody notices it.
LEMMA DeadDepart ==
    ASSUME Slots, Slots', NEW p \in Procs, Die(p)
    PROVE  \/ \E gone \in SUBSET Shards : Queue!Depart(gone)
           \/ Line' = Line /\ Holders' = Holders
<1> DEFINE gone == {s \in Shards : ProcOf[s] = p}
<1>1. /\ pc' = [s \in Shards |-> IF ProcOf[s] = p THEN "out" ELSE pc[s]]
      /\ ticket' = ticket
  BY DEF Die
<1>2. Waiting' = Waiting \ gone /\ Holders' = Holders \ gone
  BY <1>1 DEF Waiting, Holders
<1>3. CASE gone = {}
  <2>1. pc' = pc
    BY <1>1, <1>3 DEF Slots, TypeOK
  <2> QED
    BY <1>1, <2>1, LineStays
<1>4. CASE gone # {}
  <2>1. gone \in SUBSET Shards
    OBVIOUS
  <2> HIDE DEF gone
  <2>2. Queue!Depart(gone)
    BY <1>1, <1>2, <1>4, FewerDepart
  <2> QED
    BY <2>1, <2>2
<1> QED
  BY <1>3, <1>4

\* Each step of the files is a step of the line, or none.
LEMMA QueueStep ==
    ASSUME Slots, Slots', [Next]_vars
    PROVE  Queue!Next \/ (Line' = Line /\ Holders' = Holders)
<1>1. ASSUME NEW s \in Shards, Claim(s)
      PROVE  Queue!Next \/ (Line' = Line /\ Holders' = Holders)
  <2>1. CASE InUse(counter)
    BY <1>1, <2>1, LineStays DEF Claim
  <2>2. CASE ~InUse(counter)
    BY <1>1, <2>2, ClaimArrives DEF Queue!Next
  <2> QED
    BY <2>1, <2>2
<1>2. ASSUME NEW s \in Shards, TryGrant(s)
      PROVE  Queue!Next \/ (Line' = Line /\ Holders' = Holders)
  <2>1. CASE HasRoom(Reaped(active)) /\ IsNext(s, Reaped(queue))
    BY <1>2, <2>1, GrantAdmits DEF Queue!Next
  <2>2. CASE ~(HasRoom(Reaped(active)) /\ IsNext(s, Reaped(queue)))
    BY <1>2, <2>2, LineStays DEF TryGrant
  <2> QED
    BY <2>1, <2>2
<1>3. ASSUME NEW s \in Shards, Release(s) \/ GiveUp(s)
      PROVE  Queue!Next
  <2>1. Queue!Depart({s}) /\ {s} \in SUBSET Shards
    BY <1>3, OneDeparts
  <2> QED
    BY <2>1 DEF Queue!Next
<1>4. ASSUME NEW p \in Procs, Die(p)
      PROVE  Queue!Next \/ (Line' = Line /\ Holders' = Holders)
  BY <1>4, DeadDepart DEF Queue!Next
<1>5. ASSUME NEW s \in Shards, CrashInClaim(s)
      PROVE  Queue!Next \/ (Line' = Line /\ Holders' = Holders)
  <2>1. Die(ProcOf[s]) /\ ProcOf[s] \in Procs
    BY <1>5, PoolAssumption DEF CrashInClaim, PoolAssumption
  <2> QED
    BY <1>4, <2>1
<1>6. CASE UNCHANGED vars
  BY <1>6, LineStays DEF vars
<1> QED
  BY <1>1, <1>2, <1>3, <1>4, <1>5, <1>6 DEF Next, Crash

-----------------------------------------------------------------------------
\* Unless the counter file is torn, every number in use was issued once and
\* each shard's file carries its own.
THEOREM SlotsHold == MayTear = FALSE /\ Spec => []Slots
<1>1. Init => Slots
  BY SlotsInit
<1>2. MayTear = FALSE /\ Slots /\ [Next]_vars => Slots'
  <2> SUFFICES ASSUME MayTear = FALSE, Slots, [Next]_vars
               PROVE  Slots'
    OBVIOUS
  <2>1. CASE \E s \in Shards : Claim(s)
    BY <2>1, ClaimStep
  <2>2. CASE \E s \in Shards : TryGrant(s)
    BY <2>2, GrantStep, ReapedStep
  <2>3. CASE \E s \in Shards : Release(s)
    BY <2>3, ReleaseStep
  <2>4. CASE \E s \in Shards : GiveUp(s)
    BY <2>4, GiveUpStep
  <2>5. CASE \E s \in Shards : CrashInClaim(s)
    BY <2>5, CrashInClaimStep
  <2>6. CASE \E p \in Procs : Crash(p)
    BY <2>6, CrashStep
  <2>7. CASE UNCHANGED vars
    BY <2>7 DEF vars, Slots, TypeOK, Numbered, FilesMatch, CapRespected,
       Waiting, Holders, FileOf, Pid
  <2>8. QED
    BY <2>1, <2>2, <2>3, <2>4, <2>5, <2>6, <2>7 DEF Next
<1>3. MayTear = FALSE => [](MayTear = FALSE)
  OBVIOUS
<1>4. QED
  BY <1>1, <1>2, <1>3, PTL DEF Spec

\* Never more shards with a slot than there are slots, whoever dies and
\* whenever, as long as no death tears the counter file (c3_pool.py's "the
\* invariant that keeps the cap from being overshot").
THEOREM CapHolds == MayTear = FALSE /\ Spec => []CapRespected
<1>1. Slots => CapRespected
  BY DEF Slots
<1>2. QED
  BY <1>1, SlotsHold, PTL

\* Every shard in the line or in a slot has its own live file there, under a
\* number no other shard bears ("a ticket number can never collide with an
\* in-flight active lease").
THEOREM FilesHold == MayTear = FALSE /\ Spec => []FilesMatch
<1>1. Slots => FilesMatch
  BY DEF Slots
<1>2. QED
  BY <1>1, SlotsHold, PTL

\* The ticket files are one first-come-first-served line, whatever the
\* shards, the processes and their deaths: a claim joins it at the end, a
\* grant takes its head into a free slot, and a release, an interrupted wait or
\* a death takes shards out and leaves the others their turns.
THEOREM FilesAreTheLine == MayTear = FALSE /\ Spec => ImplementsQueue
<1>1. Init => Queue!Init
  BY EmptyLine DEF Queue!Init
<1>2. Slots /\ Slots' /\ [Next]_vars => [Queue!Next]_<<Line, Holders>>
  BY QueueStep
<1>3. QED
  BY <1>1, <1>2, SlotsHold, PTL DEF Spec, ImplementsQueue, Queue!Spec

-----------------------------------------------------------------------------
(* The benchmarks that are fanned out over the pool.  A job is rented by a *)
(* thread that has its slot, and nobody else deploys under its name: so a  *)
(* job that runs is followed from its deploy to the poll's end, and what   *)
(* becomes of it there is either an end or on record in `abandoned'.       *)

Places == {"none", "line", "deploy", "redeploy", "hung", "poll", "ok", "error",
           "done", "failed"}

Statuses == {"none", "queued", "running", "ghost", "finished", "failed",
             "cancelled"}

Ends == {"idle", "running", "scored", "failed", "dead"}

FanTypes ==
    /\ thread \in [Threads -> Places]
    /\ job \in [Threads -> Statuses]
    /\ bench \in [Agents -> Ends]
    /\ line \in Seq(Threads)

\* Who waits is in the line, once, and who has been let in is inside.
Leased ==
    /\ \A i \in 1 .. Len(line) : thread[line[i]] = "line"
    /\ \A i, j \in 1 .. Len(line) : line[i] = line[j] => i = j
    /\ \A s \in Threads :
          thread[s] \in {"deploy", "redeploy", "hung", "poll", "ok", "error"}
              => s \in inside

\* Nothing is rented before a thread deploys.
Unrented ==
    \A s \in Threads :
        /\ bench[s[1]] = "idle" => thread[s] = "none" /\ job[s] = "none"
        /\ thread[s] \in {"line", "deploy", "redeploy"} => job[s] = "none"

Fanned == FanTypes /\ Leased /\ Unrented /\ LiveJobsAccounted

\* Who is left in the line was in it, and has not gone; nobody is in it twice.
LEMMA LeftInLine ==
    ASSUME NEW S, line \in Seq(S), NEW gone
    PROVE  /\ Pool!Without(gone) \in Seq(S)
           /\ \A k \in 1 .. Len(Pool!Without(gone)) :
                 /\ Pool!Without(gone)[k] \notin gone
                 /\ \E i \in 1 .. Len(line) : line[i] = Pool!Without(gone)[k]
           /\ (\A i, j \in 1 .. Len(line) : line[i] = line[j] => i = j) =>
                 \A k, l \in 1 .. Len(Pool!Without(gone)) :
                    Pool!Without(gone)[k] = Pool!Without(gone)[l] => k = l
<1> DEFINE n == Len(line)
           staying == {i \in 1 .. n : line[i] \notin gone}
           self == [i \in staying |-> i]
           m == Cardinality(staying)
           place == Pool!InOrder(staying, self)
           f == [k \in 1 .. m |-> line[place[k]]]
<1>1. n \in Nat /\ \A i \in 1 .. n : line[i] \in S
  BY LenProperties, ElementOfSeq
<1>2. Keyed(staying, self)
  <2>1. IsFiniteSet(1 .. n)
    BY <1>1, FS_Interval
  <2>2. IsFiniteSet(staying)
    BY <2>1, FS_Subset
  <2> QED
    BY <1>1, <2>2 DEF Keyed
<1>3. \A T : Pool!Cardinality(T) = Cardinality(T)
  BY DEF Pool!Cardinality, Cardinality
<1>4. m \in Nat
  BY <1>2, FS_CardinalityType DEF Keyed
<1>5. ASSUME NEW k \in 1 .. m
      PROVE  place[k] \in staying /\ Rank(staying, self, place[k]) = k - 1
  <2> HIDE DEF staying, self
  <2>1. place[k] = CHOOSE s \in staying : Pool!Rank(staying, self, s) = k - 1
    BY <1>3 DEF Pool!InOrder
  <2>2. \A s : Pool!Rank(staying, self, s) = Rank(staying, self, s)
    BY <1>3 DEF Pool!Rank, Rank
  <2>3. \E s \in staying : Rank(staying, self, s) = k - 1
    BY <1>2, RankOnto
  <2> QED
    BY <2>1, <2>2, <2>3
<1>6. Pool!Without(gone) = f
  BY <1>3 DEF Pool!Without
<1> HIDE DEF place
<1>7. \A k \in 1 .. m : f[k] \in S /\ f[k] = line[place[k]]
  BY <1>1, <1>5
<1>8. f \in [1 .. m -> S]
  BY <1>7
<1>9. f \in Seq(S) /\ Len(f) = m
  <2> HIDE DEF f, m
  <2> QED
    BY <1>4, <1>8, FunSeq
<1>10. ASSUME \A i, j \in 1 .. n : line[i] = line[j] => i = j,
              NEW k \in 1 .. m, NEW l \in 1 .. m, f[k] = f[l]
       PROVE  k = l
  <2>1. place[k] = place[l]
    BY <1>5, <1>7, <1>10
  <2>2. k - 1 = l - 1
    BY <1>5, <2>1
  <2> QED
    BY <1>4, <2>2
<1>11. ASSUME NEW k \in 1 .. m
       PROVE  f[k] \notin gone /\ \E i \in 1 .. n : line[i] = f[k]
  BY <1>5, <1>7
<1> HIDE DEF f, m
<1> QED
  BY <1>6, <1>9, <1>10, <1>11

\* A step of one thread that leaves the pool alone.
LEMMA ThreadGoes ==
    ASSUME Fanned, NEW s \in Threads,
           NEW place \in Places, NEW status \in Statuses,
           thread' = [thread EXCEPT ![s] = place],
           job' = [job EXCEPT ![s] = status],
           UNCHANGED <<bench, line, inside>>, abandoned \subseteq abandoned',
           thread[s] \in {"deploy", "redeploy", "poll"},
           place \in {"deploy", "redeploy", "hung", "poll", "ok", "error"},
           place \in {"deploy", "redeploy"} => status = "none",
           status \in {"queued", "running", "ghost"} =>
               place = "poll" \/ s \in abandoned'
    PROVE  Fanned'
<1>1. /\ FanTypes /\ Leased /\ Unrented
      /\ \A r \in Threads : job[r] \in {"queued", "running", "ghost"} =>
            (thread[r] = "poll" /\ r \in inside) \/ r \in abandoned
  BY DEF Fanned, LiveJobsAccounted, Live
<1>2. FanTypes'
  BY <1>1 DEF FanTypes
<1>3. /\ thread'[s] = place /\ job'[s] = status
      /\ \A r \in Threads : r # s => thread'[r] = thread[r] /\ job'[r] = job[r]
  BY <1>1 DEF FanTypes
<1>4. Len(line) \in Nat /\ \A i \in 1 .. Len(line) : line[i] \in Threads
  BY <1>1, ElementOfSeq, LenProperties DEF FanTypes
<1>5. s \in inside /\ bench[s[1]] # "idle"
      /\ \A i \in 1 .. Len(line) : line[i] # s
  BY <1>1 DEF Leased, Unrented
<1>6. Leased'
  BY <1>1, <1>3, <1>4, <1>5 DEF Leased
<1>7. Unrented'
  BY <1>1, <1>3, <1>5 DEF Unrented
<1>8. \A r \in Threads : job'[r] \in {"queued", "running", "ghost"} =>
         (thread'[r] = "poll" /\ r \in inside') \/ r \in abandoned'
  BY <1>1, <1>3, <1>5
<1>9. LiveJobsAccounted'
  BY <1>8 DEF LiveJobsAccounted, Live
<1> QED
  BY <1>2, <1>6, <1>7, <1>9 DEF Fanned

\* A thread and a job that stay as they are, written as an update.
LEMMA SameJob ==
    ASSUME Fanned, NEW s \in Threads, NEW status \in Statuses
    PROVE  /\ job = [job EXCEPT ![s] = job[s]] /\ job[s] \in Statuses
           /\ thread = [thread EXCEPT ![s] = thread[s]] /\ thread[s] \in Places
BY DEF Fanned, FanTypes

\* A deploy is throttled, refused, or accepted, or hangs.
LEMMA DeployStep ==
    ASSUME Fanned, NEW s \in Threads,
           \/ ThrottledDeploy(s) \/ RefusedDeploy(s) \/ StaleCli(s)
           \/ Deployed(s) \/ DeployHangs(s)
    PROVE  Fanned'
<1>1. /\ thread[s] \in {"deploy", "redeploy"} /\ job[s] = "none"
      /\ UNCHANGED <<bench, line, inside>>
  BY DEF ThrottledDeploy, RefusedDeploy, StaleCli, Deployed, DeployHangs,
     Deploying, Fanned, Unrented
<1>2. /\ job = [job EXCEPT ![s] = job[s]]
      /\ thread = [thread EXCEPT ![s] = thread[s]]
  BY SameJob DEF Statuses
<1>3. CASE ThrottledDeploy(s) \/ RefusedDeploy(s) \/ StaleCli(s)
  <2>1. /\ UNCHANGED <<job, abandoned>>
        /\ \E place \in {thread[s], "redeploy", "error"} :
              thread' = [thread EXCEPT ![s] = place]
    BY <1>2, <1>3 DEF ThrottledDeploy, RefusedDeploy, StaleCli, Goes
  <2> QED
    BY <1>1, <1>2, <2>1, ThreadGoes DEF Places, Statuses
<1>4. CASE Deployed(s)
  <2>1. CASE Goes(s, "poll") /\ JobBecomes(s, "queued") /\ UNCHANGED abandoned
    BY <1>1, <2>1, ThreadGoes DEF Goes, JobBecomes, Places, Statuses
  <2>2. CASE Goes(s, "error") /\ JobBecomes(s, "cancelled")
             /\ UNCHANGED abandoned
    BY <1>1, <2>2, ThreadGoes DEF Goes, JobBecomes, Places, Statuses
  <2>3. CASE Goes(s, "error") /\ JobBecomes(s, "queued")
             /\ abandoned' = abandoned \cup {s}
    BY <1>1, <2>3, ThreadGoes DEF Goes, JobBecomes, Places, Statuses
  <2> QED
    BY <1>4, <2>1, <2>2, <2>3 DEF Deployed
<1>5. CASE DeployHangs(s)
  <2>1. CASE UNCHANGED <<job, abandoned>>
    BY <1>1, <1>2, <1>5, <2>1, ThreadGoes
    DEF DeployHangs, Goes, Places, Statuses
  <2>2. CASE JobBecomes(s, "queued") /\ abandoned' = abandoned \cup {s}
    BY <1>1, <1>5, <2>2, ThreadGoes
    DEF DeployHangs, Goes, JobBecomes, Places, Statuses
  <2> QED
    BY <1>5, <2>1, <2>2 DEF DeployHangs
<1> QED
  BY <1>3, <1>4, <1>5

\* A poll ends, with its job or without it.
LEMMA PollStep ==
    ASSUME Fanned, NEW s \in Threads,
           Completed(s) \/ JobFailed(s) \/ GiveUpJob(s) \/ PollTimeout(s)
    PROVE  Fanned'
<1>1. thread[s] = "poll" /\ UNCHANGED <<bench, line, inside>>
  BY DEF Completed, JobFailed, GiveUpJob, PollTimeout
<1>2. /\ job = [job EXCEPT ![s] = job[s]] /\ job[s] \in Statuses
  BY SameJob DEF Statuses
<1>3. CASE Completed(s) \/ JobFailed(s)
  <2>1. /\ UNCHANGED <<job, abandoned>> /\ job[s] \in {"finished", "failed"}
        /\ \E place \in {"ok", "error"} :
              thread' = [thread EXCEPT ![s] = place]
    BY <1>3 DEF Completed, JobFailed, Goes
  <2> QED
    BY <1>1, <1>2, <2>1, ThreadGoes DEF Places
<1>4. CASE GiveUpJob(s) \/ PollTimeout(s)
  <2>1. /\ thread' = [thread EXCEPT ![s] = "error"]
        /\ Cancel(s) \/ (UNCHANGED job /\ abandoned' = abandoned \cup {s})
    BY <1>4 DEF GiveUpJob, PollTimeout, Goes
  <2>2. CASE UNCHANGED job /\ abandoned' = abandoned \cup {s}
    BY <1>1, <1>2, <2>1, <2>2, ThreadGoes DEF Places
  <2>3. CASE JobBecomes(s, IF s \in Live THEN "cancelled" ELSE job[s])
             /\ UNCHANGED abandoned
    <3>1. CASE s \in Live
      BY <1>1, <2>1, <2>3, <3>1, ThreadGoes DEF JobBecomes, Places, Statuses
    <3>2. CASE s \notin Live
      BY <1>1, <1>2, <2>1, <2>3, <3>2, ThreadGoes DEF JobBecomes, Places, Live
    <3> QED
      BY <3>1, <3>2
  <2> QED
    BY <2>1, <2>2, <2>3 DEF Cancel
<1> QED
  BY <1>3, <1>4

\* C3 moves a job on.
LEMMA JobStep ==
    ASSUME Fanned, NEW s \in Threads, JobMoves(s)
    PROVE  Fanned'
<1>1. /\ UNCHANGED <<bench, thread, line, inside, abandoned>>
      /\ job[s] \in {"queued", "running"}
      /\ \E e \in {"running", "finished", "failed", "ghost"} :
            job' = [job EXCEPT ![s] = e]
  BY DEF JobMoves, JobBecomes
<1>2. PICK e \in {"running", "finished", "failed", "ghost"} :
         job' = [job EXCEPT ![s] = e]
  BY <1>1
<1>3. FanTypes' /\ Leased'
  BY <1>1, <1>2 DEF Fanned, FanTypes, Leased, Statuses
<1>4. \A r \in Threads : r # s => job'[r] = job[r]
  BY <1>2 DEF Fanned, FanTypes
<1>5. Unrented'
  BY <1>1, <1>4 DEF Fanned, Unrented
<1>6. \A r \in Live' : r \in Live
  BY <1>1, <1>4 DEF Live
<1>7. LiveJobsAccounted'
  BY <1>1, <1>6 DEF Fanned, LiveJobsAccounted
<1> QED
  BY <1>3, <1>5, <1>7 DEF Fanned

-----------------------------------------------------------------------------
(* The pool and the benchmark.                                             *)

\* A thread joins the line.
LEMMA JoinStep ==
    ASSUME Fanned, NEW s \in Threads, JoinLine(s)
    PROVE  Fanned'
<1>1. /\ thread[s] = "line" /\ line' = Append(line, s)
      /\ UNCHANGED <<bench, thread, job, inside, abandoned>>
  BY DEF JoinLine, Pool!Arrive
<1>2. line \in Seq(Threads)
  BY DEF Fanned, FanTypes
<1>3. /\ line' \in Seq(Threads) /\ Len(line') = Len(line) + 1
      /\ Len(line) \in Nat /\ line'[Len(line) + 1] = s
      /\ \A i \in 1 .. Len(line) : line'[i] = line[i]
  BY <1>1, <1>2, AppendProperties, LenProperties
<1>4. \A i \in 1 .. Len(line') : i \in 1 .. Len(line) \/ i = Len(line) + 1
  BY <1>3
<1>5. \A i \in 1 .. Len(line') : thread[line'[i]] = "line"
  BY <1>1, <1>3, <1>4 DEF Fanned, Leased
<1>6. \A i \in 1 .. Len(line) : line[i] # s
  <2>1. s \notin Pool!ToSet(line)
    BY DEF JoinLine, Pool!Arrive
  <2> QED
    BY <1>2, <2>1, LenProperties DEF Pool!ToSet
<1>7. \A i, j \in 1 .. Len(line') : line'[i] = line'[j] => i = j
  BY <1>3, <1>4, <1>6 DEF Fanned, Leased
<1>8. FanTypes' /\ Leased'
  BY <1>1, <1>3, <1>5, <1>7 DEF Fanned, FanTypes, Leased
<1>9. Unrented' /\ LiveJobsAccounted'
  BY <1>1 DEF Fanned, Unrented, LiveJobsAccounted, Live
<1> QED
  BY <1>8, <1>9 DEF Fanned

\* The head of the line gets a slot.
LEMMA EnterStep ==
    ASSUME Fanned, EnterSlot
    PROVE  Fanned'
<1> DEFINE s == Head(line)
<1>1. /\ line # <<>> /\ line' = Tail(line) /\ inside' = inside \cup {s}
      /\ thread' = [thread EXCEPT ![s] = "deploy"]
      /\ UNCHANGED <<bench, job, abandoned>>
  BY DEF EnterSlot, Pool!Admit, Goes
<1>2. line \in Seq(Threads) /\ thread \in [Threads -> Places]
  BY DEF Fanned, FanTypes
<1>3. /\ line' \in Seq(Threads) /\ Len(line) \in Nat \ {0}
      /\ Len(line') = Len(line) - 1 /\ s = line[1] /\ s \in Threads
      /\ \A i \in 1 .. Len(line') : line'[i] = line[i + 1]
  BY <1>1, <1>2, HeadTailProperties, LenProperties, ElementOfSeq
<1>4. thread[s] = "line" /\ job[s] = "none" /\ bench[s[1]] # "idle"
  BY <1>3 DEF Fanned, Leased, Unrented
<1>5. \A i \in 1 .. Len(line') : /\ i + 1 \in 1 .. Len(line)
                                 /\ line'[i] \in Threads /\ line'[i] # s
  <2>1. \A i \in 1 .. Len(line') : i + 1 \in 1 .. Len(line) /\ i + 1 # 1
    BY <1>3
  <2>2. 1 \in 1 .. Len(line)
    BY <1>3
  <2> QED
    BY <1>2, <1>3, <2>1, <2>2, ElementOfSeq DEF Fanned, Leased
<1>6. \A i \in 1 .. Len(line') : thread[line'[i]] = "line"
  BY <1>3, <1>5 DEF Fanned, Leased
<1>7. \A i, j \in 1 .. Len(line') : line'[i] = line'[j] => i = j
  <2> SUFFICES ASSUME NEW i \in 1 .. Len(line'), NEW j \in 1 .. Len(line'),
                      line'[i] = line'[j]
               PROVE  i = j
    OBVIOUS
  <2>1. i + 1 = j + 1
    BY <1>3, <1>5 DEF Fanned, Leased
  <2> QED
    BY <1>3, <2>1
<1>8. /\ thread'[s] = "deploy" /\ thread' \in [Threads -> Places]
      /\ \A r \in Threads : r # s => thread'[r] = thread[r]
  BY <1>1, <1>2, <1>3 DEF Places
<1> HIDE DEF s
<1>9. FanTypes'
  BY <1>1, <1>3, <1>8 DEF Fanned, FanTypes
<1>10. Leased'
  BY <1>1, <1>5, <1>6, <1>7, <1>8 DEF Fanned, Leased
<1>11. Unrented'
  BY <1>1, <1>4, <1>8 DEF Fanned, Unrented
<1>12. LiveJobsAccounted'
  BY <1>1, <1>4, <1>8 DEF Fanned, LiveJobsAccounted, Live
<1> QED
  BY <1>9, <1>10, <1>11, <1>12 DEF Fanned

\* Threads leave the pool: one that is through, or those of a process that
\* dies, whose jobs go on.
LEMMA DepartStep ==
    ASSUME Fanned, NEW gone \in SUBSET Threads, Pool!Depart(gone),
           UNCHANGED job,
           thread' \in [Threads -> Places], bench' \in [Agents -> Ends],
           \A s \in Threads \ gone : thread'[s] = thread[s],
           \A s \in gone : thread'[s] \in {"none", "done", "failed"},
           \A s \in Threads : bench'[s[1]] = "idle" =>
                bench[s[1]] = "idle" /\ s \notin gone,
           abandoned \subseteq abandoned',
           \A s \in gone : thread[s] = "poll" => s \in abandoned'
    PROVE  Fanned'
<1>1. line' = Pool!Without(gone) /\ inside' = inside \ gone
  BY DEF Pool!Depart
<1>2. line \in Seq(Threads) /\ FanTypes /\ Leased /\ Unrented
  BY DEF Fanned, FanTypes
<1>3. /\ line' \in Seq(Threads)
      /\ \A k \in 1 .. Len(line') :
            /\ line'[k] \notin gone
            /\ \E i \in 1 .. Len(line) : line[i] = line'[k]
      /\ \A k, l \in 1 .. Len(line') : line'[k] = line'[l] => k = l
  <2>1. \A i, j \in 1 .. Len(line) : line[i] = line[j] => i = j
    BY <1>2 DEF Leased
  <2> DEFINE left == Pool!Without(gone)
  <2>2. /\ left \in Seq(Threads)
        /\ \A k \in 1 .. Len(left) :
              left[k] \notin gone /\ \E i \in 1 .. Len(line) : line[i] = left[k]
    BY <1>2, LeftInLine
  <2>3. \A k, l \in 1 .. Len(left) : left[k] = left[l] => k = l
    BY <1>2, <2>1, LeftInLine
  <2>4. line' = left
    BY <1>1
  <2> HIDE DEF left
  <2> QED
    BY <2>2, <2>3, <2>4
<1>4. FanTypes'
  BY <1>2, <1>3 DEF FanTypes, Places
<1>5. \A k \in 1 .. Len(line') : thread'[line'[k]] = "line"
  <2> SUFFICES ASSUME NEW k \in 1 .. Len(line')
               PROVE  thread'[line'[k]] = "line"
    OBVIOUS
  <2>1. PICK i \in 1 .. Len(line) : line[i] = line'[k]
    BY <1>3
  <2>2. line[i] \in Threads /\ line[i] \notin gone /\ thread[line[i]] = "line"
    BY <1>2, <1>3, <2>1, ElementOfSeq DEF Leased
  <2> QED
    BY <2>1, <2>2
<1>6. Leased'
  BY <1>1, <1>2, <1>3, <1>5 DEF Leased
<1>7. Unrented'
  BY <1>2 DEF Unrented
<1>8. \A s \in Live' : s \in Live
  BY DEF Live
<1>9. \A s \in Live' :
         (thread'[s] = "poll" /\ s \in inside') \/ s \in abandoned'
  BY <1>1, <1>8 DEF Fanned, LiveJobsAccounted, Live
<1>10. LiveJobsAccounted'
  BY <1>9 DEF LiveJobsAccounted
<1> QED
  BY <1>4, <1>6, <1>7, <1>10 DEF Fanned

\* A thread that is through gives its slot back.
LEMMA LeaveStep ==
    ASSUME Fanned, NEW s \in Threads, LeaveSlot(s)
    PROVE  Fanned'
<1>1. /\ thread[s] \in {"ok", "error"} /\ Pool!Depart({s})
      /\ UNCHANGED <<bench, job, abandoned>>
      /\ \E place \in {"done", "failed"} :
            thread' = [thread EXCEPT ![s] = place]
  BY DEF LeaveSlot, Goes
<1>2. /\ thread \in [Threads -> Places] /\ bench[s[1]] # "idle"
      /\ bench \in [Agents -> Ends]
  BY <1>1 DEF Fanned, FanTypes, Unrented
<1>3. /\ thread' \in [Threads -> Places]
      /\ thread'[s] \in {"done", "failed"}
      /\ \A r \in Threads \ {s} : thread'[r] = thread[r]
  BY <1>1, <1>2 DEF Places
<1> QED
  BY <1>1, <1>2, <1>3, DepartStep DEF Places

\* An agent dies with its threads; the jobs they polled are abandoned.
LEMMA DeadStep ==
    ASSUME Fanned, NEW a \in Agents, AgentDies(a)
    PROVE  Fanned'
<1> DEFINE gone == ThreadsOf(a)
<1>1. /\ bench[a] = "running" /\ bench' = [bench EXCEPT ![a] = "dead"]
      /\ thread' = [s \in Threads |-> IF s[1] = a THEN "none" ELSE thread[s]]
      /\ Pool!Depart(gone)
      /\ abandoned' = abandoned \cup {s \in gone : thread[s] = "poll"}
      /\ UNCHANGED job
  BY DEF AgentDies
<1>2. /\ thread \in [Threads -> Places]
      /\ bench \in [Agents -> Ends]
  BY DEF Fanned, FanTypes
<1>3. gone \in SUBSET Threads /\ \A s \in Threads : s \in gone <=> s[1] = a
  BY DEF ThreadsOf, Threads
<1> HIDE DEF gone
<1>4. /\ thread' \in [Threads -> Places]
      /\ \A s \in gone : thread'[s] = "none"
      /\ \A s \in Threads \ gone : thread'[s] = thread[s]
  BY <1>1, <1>2, <1>3 DEF Places
<1>5. /\ bench' \in [Agents -> Ends]
      /\ \A s \in Threads : bench'[s[1]] = "idle" =>
            bench[s[1]] = "idle" /\ s \notin gone
  <2>1. \A s \in Threads : s[1] \in Agents
    BY DEF Threads
  <2> QED
    BY <1>1, <1>2, <1>3, <2>1 DEF Ends
<1> QED
  BY <1>1, <1>3, <1>4, <1>5, DepartStep DEF Places

\* A benchmark is cut into shards, or merged.
LEMMA BenchStep ==
    ASSUME Fanned, NEW a \in Agents, StartBenchmark(a) \/ Merge(a)
    PROVE  Fanned'
<1>1. /\ bench[a] \in {"idle", "running"}
      /\ \E b \in {"running", "failed", "scored"} :
            bench' = [bench EXCEPT ![a] = b]
      /\ UNCHANGED <<job, line, inside, abandoned>>
  BY DEF StartBenchmark, Merge
<1>2. /\ bench' \in [Agents -> Ends]
      /\ bench'[a] # "idle"
      /\ \A b \in Agents : b # a => bench'[b] = bench[b]
  BY <1>1 DEF Fanned, FanTypes, Ends
<1>3. \A s \in Threads : s[1] \in Agents
  BY DEF Threads
<1>4. CASE thread' = thread
  BY <1>1, <1>2, <1>3, <1>4
  DEF Fanned, FanTypes, Leased, Unrented, LiveJobsAccounted, Live
<1>5. ASSUME bench[a] = "idle", NEW shards \in SUBSET ({a} \X Int),
             thread' = [s \in Threads |->
                          IF s \in shards THEN "line" ELSE thread[s]]
      PROVE  Fanned'
  <2>1. \A s \in shards : s[1] = a
    OBVIOUS
  <2>2. /\ thread' \in [Threads -> Places]
        /\ \A s \in Threads : \/ s[1] = a /\ thread'[s] \in {"line", thread[s]}
                              \/ s[1] # a /\ thread'[s] = thread[s]
    BY <1>5, <2>1 DEF Fanned, FanTypes, Places
  <2>3. \A s \in Threads : s[1] = a => thread[s] = "none" /\ job[s] = "none"
    BY <1>5 DEF Fanned, Unrented
  <2>4. FanTypes'
    BY <1>1, <1>2, <2>2 DEF Fanned, FanTypes
  <2>5. Leased'
    <3>1. \A i \in 1 .. Len(line) : line[i] \in Threads
      BY ElementOfSeq DEF Fanned, FanTypes
    <3> QED
      BY <1>1, <2>2, <2>3, <3>1 DEF Fanned, Leased
  <2>6. Unrented'
    BY <1>1, <1>2, <1>3, <2>2, <2>3 DEF Fanned, Unrented
  <2>7. LiveJobsAccounted'
    BY <1>1, <2>2, <2>3 DEF Fanned, LiveJobsAccounted, Live
  <2> QED
    BY <2>4, <2>5, <2>6, <2>7 DEF Fanned
<1>6. CASE StartBenchmark(a)
  <2> DEFINE cut(timeout, waves) == DOMAIN PlanShards(Work[a],
                 Worthwhile(timeout, waves, Fixed, Min({Cap, Total(Work[a])})))
             become(S) == [s \in Threads |->
                             IF s \in {a} \X S THEN "line" ELSE thread[s]]
  <2>1. /\ bench[a] = "idle"
        /\ \/ UNCHANGED thread
           \/ \E timeout \in Timeouts, waves \in 1 .. Total(Work[a]) :
                 thread' = become(cut(timeout, waves))
    BY <1>6 DEF StartBenchmark
  <2>2. \A timeout \in Timeouts, waves \in 1 .. Total(Work[a]) :
           cut(timeout, waves) \subseteq Int
    BY DEF PlanShards, BalancedSizes
  <2> HIDE DEF cut
  <2>3. CASE UNCHANGED thread
    BY <1>4, <2>3
  <2>4. ASSUME NEW S, S \subseteq Int, thread' = become(S)
        PROVE  Fanned'
    <3>1. {a} \X S \in SUBSET ({a} \X Int)
      BY <2>4
    <3> QED
      BY <1>5, <2>1, <2>4, <3>1
  <2> HIDE DEF become
  <2> QED
    BY <2>1, <2>2, <2>3, <2>4
<1>7. CASE Merge(a)
  BY <1>4, <1>7 DEF Merge
<1> QED
  BY <1>6, <1>7

\* The invariant of the fan-out.
LEMMA FannedHolds == FanoutSpec => []Fanned
<1>1. FanoutInit => Fanned
  <2> SUFFICES ASSUME FanoutInit PROVE Fanned
    OBVIOUS
  <2>1. FanTypes
    BY DEF FanoutInit, Pool!Init, FanTypes, Places, Statuses, Ends
  <2>2. Leased /\ Unrented /\ LiveJobsAccounted
    BY DEF FanoutInit, Pool!Init, Leased, Unrented, LiveJobsAccounted, Live,
       Threads
  <2> QED
    BY <2>1, <2>2 DEF Fanned
<1>2. Fanned /\ [FanoutNext]_fanoutVars => Fanned'
  <2> SUFFICES ASSUME Fanned, [FanoutNext]_fanoutVars PROVE Fanned'
    OBVIOUS
  <2>1. CASE UNCHANGED fanoutVars
    BY <2>1 DEF fanoutVars, Fanned, FanTypes, Leased, Unrented,
       LiveJobsAccounted, Live
  <2>2. ASSUME NEW s \in Threads, ShardStep(s) \/ DeployHangs(s)
        PROVE  Fanned'
    BY <2>2, JoinStep, LeaveStep, DeployStep, PollStep DEF ShardStep
  <2>3. ASSUME NEW a \in Agents
        PROVE  ThreadsOf(a) \subseteq Threads
    BY DEF ThreadsOf, Threads
  <2> QED
    BY <2>1, <2>2, <2>3, BenchStep, DeadStep, EnterStep, JobStep
    DEF FanoutNext, AgentStep
<1> QED
  BY <1>1, <1>2, PTL DEF FanoutSpec

\* Every job that runs at C3 has a thread with a slot that polls it, or was
\* given up on record: whatever deploys, polls and cancels come to, whoever
\* dies, and however the benchmarks are cut.
THEOREM NoJobUnaccounted == FanoutSpec => []LiveJobsAccounted
  BY FannedHolds, PTL DEF Fanned

-----------------------------------------------------------------------------
(* Induction, by the least or the smallest counterexample.                 *)

\* Any set of natural numbers that has a member has a least one.
LEMMA LeastNumber ==
    ASSUME NEW T \in SUBSET Nat, T # {}
    PROVE  \E x \in T : \A y \in T : x <= y
<1>1. \E x \in T : \A y \in T : ~(<<y, x>> \in OpToRel(<, Nat))
  BY NatLessThanWellFounded, WFMin
<1>2. PICK x \in T : \A y \in T : ~(<<y, x>> \in OpToRel(<, Nat))
  BY <1>1
<1>3. \A y \in T : ~(y < x)
  BY <1>2 DEF OpToRel
<1>4. ASSUME NEW y \in T PROVE x <= y
  <2>1. x \in Nat /\ y \in Nat /\ ~(y < x)
    BY <1>2, <1>3, <1>4
  <2> QED
    BY <2>1
<1> QED
  BY <1>2, <1>4

\* Of the parts of a finite set, any collection has one no other is inside of.
LEMMA SmallestPart ==
    ASSUME NEW S, IsFiniteSet(S), NEW C \in SUBSET SUBSET S, C # {}
    PROVE  \E P \in C : \A Q \in C : Q \subseteq P => Q = P
<1>1. IsWellFoundedOn(StrictSubsetOrdering(S), SUBSET S)
  BY FS_FiniteSubsetsOfFinite, FS_StrictSubsetOrderingWellFounded
<1>2. PICK P \in C : \A Q \in C : ~(<<Q, P>> \in StrictSubsetOrdering(S))
  BY <1>1, WFMin
<1>3. \A Q \in C : Q \subseteq P => Q = P
  BY <1>2 DEF StrictSubsetOrdering
<1> QED
  BY <1>3

-----------------------------------------------------------------------------
(* Sums.                                                                   *)

Taken(P) == CHOOSE x \in P : TRUE

\* g has, for every part of S, what the fold of the library makes of q on it.
Sums(g, q, S) ==
    g = [P \in SUBSET S |->
            IF P = {} THEN 0 ELSE q[Taken(P)] + g[P \ {Taken(P)}]]

\* It takes a member.
LEMMA AnyIsIn == ASSUME NEW P, P # {} PROVE Taken(P) \in P
BY DEF Taken

\* What such a function has for one part.
LEMMA SumsAt ==
    ASSUME NEW S, NEW q, NEW g, Sums(g, q, S), NEW P \in SUBSET S
    PROVE  g[P] = IF P = {} THEN 0 ELSE q[Taken(P)] + g[P \ {Taken(P)}]
BY DEF Sums

\* Two such functions agree where both are defined.
LEMMA SumsAgree ==
    ASSUME NEW S, IsFiniteSet(S), NEW q, NEW g, Sums(g, q, S),
           NEW T \in SUBSET S, NEW h, Sums(h, q, T)
    PROVE  \A P \in SUBSET T : g[P] = h[P]
<1> DEFINE C == {P \in SUBSET T : g[P] # h[P]}
<1>1. SUFFICES ASSUME C # {} PROVE FALSE
  OBVIOUS
<1>2. PICK P \in C : \A Q \in C : Q \subseteq P => Q = P
  <2>1. IsFiniteSet(T) /\ C \in SUBSET SUBSET T
    BY FS_Subset
  <2> HIDE DEF C
  <2> QED
    BY <1>1, <2>1, SmallestPart
<1> DEFINE x == Taken(P)
<1>3. /\ g[P] = IF P = {} THEN 0 ELSE q[x] + g[P \ {x}]
      /\ h[P] = IF P = {} THEN 0 ELSE q[x] + h[P \ {x}]
  <2>1. P \in SUBSET T /\ P \in SUBSET S
    BY <1>2
  <2>2. g[P] = IF P = {} THEN 0 ELSE q[Taken(P)] + g[P \ {Taken(P)}]
    BY <2>1 DEF Sums
  <2>3. h[P] = IF P = {} THEN 0 ELSE q[Taken(P)] + h[P \ {Taken(P)}]
    BY <2>1 DEF Sums
  <2> QED
    BY <2>2, <2>3
<1>4. P # {} => g[P \ {x}] = h[P \ {x}]
  <2>1. P # {} => x \in P
    BY AnyIsIn
  <2> HIDE DEF x
  <2> QED
    BY <1>2, <2>1
<1> QED
  BY <1>2, <1>3, <1>4

\* There is such a function.
LEMMA SumsExist ==
    ASSUME NEW S, IsFiniteSet(S), NEW q
    PROVE  \E g : Sums(g, q, S)
<1> DEFINE C == {P \in SUBSET S : ~ \E g : Sums(g, q, P)}
<1>1. SUFFICES ASSUME C # {} PROVE FALSE
  OBVIOUS
<1>2. PICK P \in C : \A Q \in C : Q \subseteq P => Q = P
  <2> HIDE DEF C
  <2>1. C \in SUBSET SUBSET S
    BY DEF C
  <2> QED
    BY <1>1, <2>1, SmallestPart
<1> DEFINE sums(Q) == CHOOSE g : Sums(g, q, Q)
           h == [Q \in SUBSET P |->
                    IF Q = {} THEN 0
                    ELSE q[Taken(Q)] + sums(Q \ {Taken(Q)})[Q \ {Taken(Q)}]]
<1>3. ASSUME NEW Q \in SUBSET P, Q # P
      PROVE  Sums(sums(Q), q, Q)
  BY <1>2, <1>3
<1>4. ASSUME NEW Q \in SUBSET P, Q # {}
      PROVE  /\ Q \ {Taken(Q)} \in SUBSET P /\ Q \ {Taken(Q)} # P
             /\ Q \ {Taken(Q)} \in SUBSET Q
  BY <1>4, AnyIsIn
<1> HIDE DEF sums
<1>5. ASSUME NEW Q \in SUBSET P, Q # P
      PROVE  h[Q] = sums(Q)[Q]
  <2> DEFINE x == Taken(Q)
  <2>1. sums(Q)[Q] = IF Q = {} THEN 0 ELSE q[x] + sums(Q)[Q \ {x}]
    BY <1>3, <1>5, SumsAt
  <2>2. CASE Q # {}
    <3>1. sums(Q)[Q \ {x}] = sums(Q \ {x})[Q \ {x}]
      <4>1. IsFiniteSet(Q)
        BY <1>2, FS_Subset
      <4>2. Sums(sums(Q), q, Q) /\ Sums(sums(Q \ {x}), q, Q \ {x})
        BY <1>3, <1>4, <1>5, <2>2
      <4> HIDE DEF x
      <4> QED
        BY <4>1, <4>2, SumsAgree
    <3> QED
      BY <2>1, <2>2, <3>1
  <2> QED
    BY <2>1, <2>2
<1>6. Sums(h, q, P)
  <2>1. ASSUME NEW Q \in SUBSET P, Q # {}
        PROVE  h[Q] = q[Taken(Q)] + h[Q \ {Taken(Q)}]
    BY <1>4, <1>5, <2>1
  <2>2. h = [Q \in SUBSET P |->
               IF Q = {} THEN 0 ELSE q[Taken(Q)] + h[Q \ {Taken(Q)}]]
    <3>1. \A Q \in SUBSET P :
             h[Q] = IF Q = {} THEN 0 ELSE q[Taken(Q)] + h[Q \ {Taken(Q)}]
      BY <2>1
    <3>2. h = [Q \in SUBSET P |-> h[Q]]
      OBVIOUS
    <3> HIDE DEF h
    <3> QED
      BY <3>1, <3>2
  <2> HIDE DEF h
  <2> QED
    BY <2>2 DEF Sums
<1> QED
  BY <1>2, <1>6

\* The sum of q on S.
SumOf(q, S) == (CHOOSE g : Sums(g, q, S))[S]

\* The sum of a part is what any of these functions has for it.
LEMMA SumIs ==
    ASSUME NEW S, IsFiniteSet(S), NEW q, NEW g, Sums(g, q, S)
    PROVE  \A P \in SUBSET S : SumOf(q, P) = g[P]
<1> SUFFICES ASSUME NEW P \in SUBSET S PROVE SumOf(q, P) = g[P]
  OBVIOUS
<1>1. IsFiniteSet(P)
  BY FS_Subset
<1> DEFINE h == CHOOSE k : Sums(k, q, P)
<1>2. Sums(h, q, P)
  BY <1>1, SumsExist
<1>3. SumOf(q, P) = h[P]
  BY DEF SumOf
<1> HIDE DEF h
<1> QED
  BY <1>2, <1>3, SumsAgree

\* Nothing sums up to nothing.
LEMMA SumOfNone == ASSUME NEW q PROVE SumOf(q, {}) = 0
<1>1. IsFiniteSet({})
  BY FS_EmptySet
<1>2. PICK g : Sums(g, q, {})
  BY <1>1, SumsExist
<1> QED
  BY <1>1, <1>2, SumIs, SumsAt

\* Whichever is taken first.
LEMMA SumOfFirst ==
    ASSUME NEW S, IsFiniteSet(S), NEW q, \A x \in S : q[x] \in Int
    PROVE  /\ SumOf(q, S) \in Int
           /\ \A x \in S : SumOf(q, S) = q[x] + SumOf(q, S \ {x})
<1>1. PICK g : Sums(g, q, S)
  BY SumsExist
<1>2. \A P \in SUBSET S : SumOf(q, P) = g[P]
  BY <1>1, SumIs
<1> DEFINE Good(P) == g[P] \in Int /\ \A x \in P : g[P] = q[x] + g[P \ {x}]
           C == {P \in SUBSET S : ~ Good(P)}
<1>3. C = {}
  <2>1. SUFFICES ASSUME C # {} PROVE FALSE
    OBVIOUS
  <2>2. PICK P \in C : \A Q \in C : Q \subseteq P => Q = P
    <3> HIDE DEF C
    <3>1. C \in SUBSET SUBSET S
      BY DEF C
    <3> QED
      BY <2>1, <3>1, SmallestPart
  <2>3. \A Q \in SUBSET P : Q # P => Good(Q)
    BY <2>2
  <2>4. P \in SUBSET S
    BY <2>2
  <2> HIDE DEF C, Good
  <2>5. g[P] = IF P = {} THEN 0 ELSE q[Taken(P)] + g[P \ {Taken(P)}]
    BY <1>1, <2>4, SumsAt
  <2>6. P # {}
    BY <2>2, <2>5 DEF C, Good
  <2> DEFINE c == Taken(P)
  <2>7. c \in P /\ q[c] \in Int
    BY <2>4, <2>6, AnyIsIn
  <2> HIDE DEF c
  <2>8. g[P \ {c}] \in Int /\ g[P] = q[c] + g[P \ {c}]
    BY <2>3, <2>5, <2>6, <2>7 DEF c, Good
  <2>9. ASSUME NEW x \in P, x # c
        PROVE  g[P] = q[x] + g[P \ {x}]
    <3>1. q[x] \in Int /\ x \in P \ {c} /\ c \in P \ {x}
      BY <2>4, <2>7, <2>9
    <3>2. (P \ {c}) \ {x} = (P \ {x}) \ {c}
      OBVIOUS
    <3>3. g[P \ {c}] = q[x] + g[(P \ {c}) \ {x}]
      BY <2>3, <2>7, <3>1 DEF Good
    <3>4. g[P \ {x}] = q[c] + g[(P \ {x}) \ {c}]
      BY <2>3, <3>1 DEF Good
    <3>5. g[(P \ {x}) \ {c}] \in Int
      <4>1. (P \ {x}) \ {c} \in SUBSET P /\ (P \ {x}) \ {c} # P
        BY <2>7
      <4> QED
        BY <2>3, <4>1 DEF Good
    <3> DEFINE both == g[(P \ {x}) \ {c}]
    <3>6. /\ g[P] = q[c] + g[P \ {c}]
          /\ g[P \ {c}] = q[x] + both
          /\ g[P \ {x}] = q[c] + both
          /\ both \in Int
      BY <2>8, <3>2, <3>3, <3>4, <3>5
    <3> HIDE DEF both
    <3> QED
      BY <2>7, <3>1, <3>6
  <2>10. g[P] \in Int
    BY <2>7, <2>8
  <2>11. \A x \in P : g[P] = q[x] + g[P \ {x}]
    BY <2>8, <2>9
  <2>12. Good(P)
    BY <2>10, <2>11 DEF Good
  <2> QED
    BY <2>2, <2>12 DEF C
<1>4. Good(S)
  BY <1>3
<1> QED
  BY <1>2, <1>4

\* The fold of the library is that sum.
LEMMA FoldIsSum ==
    ASSUME NEW n, IsFiniteSet(DOMAIN n)
    PROVE  FoldSeq(+, 0, n) = SumOf(n, DOMAIN n)
BY DEF FoldSeq, FoldFunction, FoldFunctionOnSet, MapThenFoldSet, SumOf, Sums,
   Taken

\* So is the sum of the qualities of a set of records.
LEMMA MapIsSum ==
    ASSUME NEW S, IsFiniteSet(S), NEW q, \A r \in S : q[r] = Quality(r)
    PROVE  MapThenSumSet(Quality, S) = SumOf(q, S)
<1> DEFINE Folds(g) == g = [P \in SUBSET S |->
                 IF P = {} THEN 0 ELSE Quality(Taken(P)) + g[P \ {Taken(P)}]]
<1>1. MapThenSumSet(Quality, S) = (CHOOSE g : Folds(g))[S]
  BY DEF MapThenSumSet, MapThenFoldSet, Taken
<1>2. PICK g : Sums(g, q, S)
  BY SumsExist
<1>3. ASSUME NEW h PROVE Folds(h) <=> Sums(h, q, S)
  <2>1. \A P \in SUBSET S : P # {} => q[Taken(P)] = Quality(Taken(P))
    BY AnyIsIn
  <2> QED
    BY <2>1 DEF Sums
<1> HIDE DEF Folds
<1>4. Folds(CHOOSE h : Folds(h))
  BY <1>2, <1>3
<1> DEFINE k == CHOOSE h : Folds(h)
<1>5. Sums(k, q, S)
  BY <1>3, <1>4
<1>6. SumOf(q, S) = k[S]
  <2> HIDE DEF k
  <2> QED
    BY <1>5, SumIs
<1> QED
  BY <1>1, <1>6

\* The image of a finite set is finite.
LEMMA ImageIsFinite ==
    ASSUME NEW S, IsFiniteSet(S), NEW f
    PROVE  IsFiniteSet({f[x] : x \in S})
<1> DEFINE g == [x \in S |-> f[x]]
           T == {f[x] : x \in S}
<1>1. g \in Surjection(S, T)
  BY DEF Surjection
<1> HIDE DEF g, T
<1> QED
  BY <1>1, FS_Surjection DEF T

\* Two sums of the same terms are equal.
LEMMA SumOfImage ==
    ASSUME NEW S, IsFiniteSet(S), NEW f,
           \A x, y \in S : f[x] = f[y] => x = y,
           NEW q, NEW p, \A x \in S : q[f[x]] \in Int /\ p[x] = q[f[x]]
    PROVE  SumOf(p, S) = SumOf(q, {f[x] : x \in S})
<1> DEFINE Im(P) == {f[x] : x \in P}
           C == {P \in SUBSET S : SumOf(p, P) # SumOf(q, Im(P))}
<1>1. SUFFICES ASSUME C # {} PROVE FALSE
  OBVIOUS
<1>2. PICK P \in C : \A Q \in C : Q \subseteq P => Q = P
  <2>1. C \in SUBSET SUBSET S
    OBVIOUS
  <2> HIDE DEF C
  <2> QED
    BY <1>1, <2>1, SmallestPart
<1>3. P \in SUBSET S /\ IsFiniteSet(P)
  BY <1>2, FS_Subset
<1>4. P # {}
  BY <1>2, SumOfNone
<1>5. PICK x \in P : TRUE
  BY <1>4
<1>6. SumOf(p, P \ {x}) = SumOf(q, Im(P \ {x}))
  BY <1>2, <1>5
<1>7. SumOf(p, P) = p[x] + SumOf(p, P \ {x})
  <2>1. \A y \in P : p[y] \in Int
    BY <1>3
  <2> QED
    BY <1>3, <1>5, <2>1, SumOfFirst
<1>8. IsFiniteSet(Im(P)) /\ \A y \in Im(P) : q[y] \in Int
  BY <1>3, ImageIsFinite
<1>9. f[x] \in Im(P) /\ Im(P) \ {f[x]} = Im(P \ {x})
  BY <1>3, <1>5
<1> HIDE DEF Im
<1>10. SumOf(q, Im(P)) = q[f[x]] + SumOf(q, Im(P \ {x}))
  <2>1. SumOf(q, Im(P)) = q[f[x]] + SumOf(q, Im(P) \ {f[x]})
    BY <1>8, <1>9, SumOfFirst
  <2> QED
    BY <1>9, <2>1
<1> QED
  BY <1>2, <1>3, <1>5, <1>6, <1>7, <1>10

\* The same with the same members.
LEMMA SumOfSame ==
    ASSUME NEW S, IsFiniteSet(S), NEW q, NEW p,
           \A x \in S : q[x] \in Int /\ p[x] = q[x]
    PROVE  SumOf(p, S) = SumOf(q, S)
<1> DEFINE f == [x \in S |-> x]
<1>1. {f[x] : x \in S} = S /\ \A x \in S : f[x] = x
  OBVIOUS
<1> HIDE DEF f
<1>2. SumOf(p, S) = SumOf(q, {f[x] : x \in S})
  BY <1>1, SumOfImage
<1> QED
  BY <1>1, <1>2

-----------------------------------------------------------------------------
(* The instances of a benchmark, in one row.                               *)

\* How many there are in the first t tracks.
UpTo(n, t) == SumOf(n, 1 .. t)

\* A track's instances come after those of the tracks before.
LEMMA UpToGrows ==
    ASSUME NEW n \in Seq(Nat)
    PROVE  /\ Len(n) \in Nat /\ DOMAIN n = 1 .. Len(n)
           /\ UpTo(n, 0) = 0
           /\ \A t \in 0 .. Len(n) : UpTo(n, t) \in Nat
           /\ \A t \in 1 .. Len(n) :
                 n[t] \in Nat /\ UpTo(n, t) = UpTo(n, t - 1) + n[t]
<1>1. /\ Len(n) \in Nat /\ DOMAIN n = 1 .. Len(n)
      /\ \A t \in 1 .. Len(n) : n[t] \in Nat
  BY LenProperties, ElementOfSeq
<1>2. UpTo(n, 0) = 0
  <2>1. 1 .. 0 = {}
    OBVIOUS
  <2> QED
    BY <2>1, SumOfNone DEF UpTo
<1>3. ASSUME NEW t \in 1 .. Len(n)
      PROVE  UpTo(n, t) = UpTo(n, t - 1) + n[t] /\ UpTo(n, t) \in Int
  <2>1. IsFiniteSet(1 .. t) /\ \A i \in 1 .. t : n[i] \in Int
    <3>1. IsFiniteSet(1 .. t)
      BY FS_Interval
    <3> QED
      BY <1>1, <3>1
  <2>2. t \in 1 .. t /\ (1 .. t) \ {t} = 1 .. t - 1
    OBVIOUS
  <2>3. SumOf(n, 1 .. t) = n[t] + SumOf(n, 1 .. t - 1)
    BY <2>1, <2>2, SumOfFirst
  <2>4. SumOf(n, 1 .. t) \in Int
    BY <2>1, SumOfFirst
  <2>5. SumOf(n, 1 .. t - 1) \in Int
    <3>1. IsFiniteSet(1 .. t - 1)
      BY FS_Interval
    <3>2. \A i \in 1 .. t - 1 : n[i] \in Int
      BY <1>1
    <3> QED
      BY <3>1, <3>2, SumOfFirst
  <2> QED
    BY <1>1, <2>3, <2>4, <2>5 DEF UpTo
<1>4. \A t \in 0 .. Len(n) : UpTo(n, t) \in Nat
  <2> DEFINE C == {t \in 0 .. Len(n) : UpTo(n, t) \notin Nat}
  <2>1. SUFFICES ASSUME C # {} PROVE FALSE
    OBVIOUS
  <2>2. PICK t \in C : \A u \in C : t <= u
    <3>1. C \in SUBSET Nat
      BY <1>1
    <3> HIDE DEF C
    <3> QED
      BY <2>1, <3>1, LeastNumber
  <2>3. t # 0 /\ t \in 1 .. Len(n)
    BY <1>1, <1>2, <2>2
  <2>4. UpTo(n, t - 1) \in Nat
    BY <1>1, <2>2, <2>3
  <2> QED
    BY <1>1, <1>3, <2>2, <2>3, <2>4
<1> QED
  BY <1>1, <1>2, <1>3, <1>4

\* Total and Position are about the same row.
LEMMA TotalIs ==
    ASSUME NEW n \in Seq(Nat)
    PROVE  /\ Total(n) = UpTo(n, Len(n))
           /\ \A t \in 1 .. Len(n), i \in Nat :
                 Position(n, t, i) = UpTo(n, t - 1) + i
<1>1. Len(n) \in Nat /\ DOMAIN n = 1 .. Len(n)
  BY UpToGrows
<1>2. Total(n) = UpTo(n, Len(n))
  <2>1. IsFiniteSet(DOMAIN n)
    BY <1>1, FS_Interval
  <2> QED
    BY <1>1, <2>1, FoldIsSum DEF Total, UpTo
<1>3. ASSUME NEW t \in 1 .. Len(n)
      PROVE  Total(SubSeq(n, 1, t - 1)) = UpTo(n, t - 1)
  <2> DEFINE m == SubSeq(n, 1, t - 1)
  <2>1. DOMAIN m = 1 .. t - 1 /\ \A i \in 1 .. t - 1 : m[i] = n[i]
    BY <1>1, SubSeqProperties
  <2>2. IsFiniteSet(1 .. t - 1)
    BY FS_Interval
  <2>3. \A i \in 1 .. t - 1 : n[i] \in Int
    BY <1>1, ElementOfSeq
  <2> HIDE DEF m
  <2>4. Total(m) = SumOf(m, 1 .. t - 1)
    BY <2>1, <2>2, FoldIsSum DEF Total
  <2>5. SumOf(m, 1 .. t - 1) = SumOf(n, 1 .. t - 1)
    BY <2>1, <2>2, <2>3, SumOfSame
  <2> QED
    BY <2>4, <2>5 DEF UpTo, m
<1> QED
  BY <1>2, <1>3 DEF Position

\* So no track begins before an earlier one.
LEMMA UpToRises ==
    ASSUME NEW n \in Seq(Nat), NEW t \in 0 .. Len(n), NEW u \in 0 .. Len(n),
           t <= u
    PROVE  UpTo(n, t) <= UpTo(n, u)
<1> DEFINE C == {w \in 0 .. Len(n) : t <= w /\ ~(UpTo(n, t) <= UpTo(n, w))}
<1>1. /\ Len(n) \in Nat
      /\ \A w \in 0 .. Len(n) : UpTo(n, w) \in Nat
      /\ \A w \in 1 .. Len(n) :
            n[w] \in Nat /\ UpTo(n, w) = UpTo(n, w - 1) + n[w]
  BY UpToGrows
<1>2. SUFFICES ASSUME C # {} PROVE FALSE
  BY <1>1
<1>3. PICK w \in C : \A v \in C : w <= v
  <2>1. C \in SUBSET Nat
    BY <1>1
  <2> HIDE DEF C
  <2> QED
    BY <1>2, <2>1, LeastNumber
<1>4. w \in 1 .. Len(n) /\ t <= w - 1 /\ w - 1 \in 0 .. Len(n)
  BY <1>1, <1>3
<1>5. UpTo(n, t) <= UpTo(n, w - 1)
  BY <1>1, <1>3, <1>4
<1>6. /\ UpTo(n, w) = UpTo(n, w - 1) + n[w] /\ n[w] \in Nat
      /\ UpTo(n, w - 1) \in Nat /\ UpTo(n, t) \in Nat
      /\ ~(UpTo(n, t) <= UpTo(n, w))
  BY <1>1, <1>3, <1>4
<1> QED
  BY <1>5, <1>6

\* The instances of a benchmark are the pairs of a track and an index in it.
LEMMA InstancesAre ==
    ASSUME NEW n \in Seq(Nat)
    PROVE  /\ \A x \in Instances(n) :
                 x[1] \in 1 .. Len(n) /\ x[2] \in 0 .. n[x[1]] - 1
                 /\ x = <<x[1], x[2]>>
           /\ \A t \in 1 .. Len(n) : \A i \in 0 .. n[t] - 1 :
                 <<t, i>> \in Instances(n)
<1>1. Len(n) \in Nat /\ DOMAIN n = 1 .. Len(n)
      /\ \A t \in 1 .. Len(n) : n[t] \in Nat
  BY UpToGrows
<1>2. DOMAIN <<>> = {}
  OBVIOUS
<1>3. Instances(n) = UNION {{t} \X (0 .. n[t] - 1) : t \in 1 .. Len(n)}
  BY <1>1, <1>2 DEF Instances, Window
<1> QED
  BY <1>3

\* The place of an instance in the row.
Place(n, x) == Position(n, x[1], x[2])

\* Each instance has a place, each place an instance, and no two share one.
LEMMA PlacesAre ==
    ASSUME NEW n \in Seq(Nat)
    PROVE  /\ Total(n) \in Nat
           /\ \A x \in Instances(n) :
                 /\ Place(n, x) \in 0 .. Total(n) - 1
                 /\ Place(n, x) = UpTo(n, x[1] - 1) + x[2]
           /\ \A x, y \in Instances(n) : Place(n, x) = Place(n, y) => x = y
           /\ \A p \in 0 .. Total(n) - 1 :
                 \E x \in Instances(n) : Place(n, x) = p
<1> DEFINE T == Total(n)
           U(t) == UpTo(n, t)
<1>1. /\ Len(n) \in Nat /\ U(0) = 0
      /\ \A t \in 0 .. Len(n) : U(t) \in Nat
      /\ \A t \in 1 .. Len(n) : n[t] \in Nat /\ U(t) = U(t - 1) + n[t]
  BY UpToGrows
<1>2. T = U(Len(n)) /\ T \in Nat
  BY <1>1, TotalIs
<1>3. \A t, u \in 0 .. Len(n) : t <= u => U(t) <= U(u)
  BY UpToRises
<1>4. ASSUME NEW x \in Instances(n)
      PROVE  /\ x[1] \in 1 .. Len(n) /\ x[2] \in Nat
             /\ x = <<x[1], x[2]>>
             /\ Place(n, x) = U(x[1] - 1) + x[2]
             /\ U(x[1] - 1) <= Place(n, x) /\ Place(n, x) < U(x[1])
             /\ Place(n, x) \in Nat
  <2>1. x[1] \in 1 .. Len(n) /\ x[2] \in 0 .. n[x[1]] - 1
        /\ x = <<x[1], x[2]>>
    BY InstancesAre
  <2> HIDE DEF U
  <2>2. x[1] - 1 \in 0 .. Len(n)
    BY <1>1, <2>1
  <2>3. n[x[1]] \in Nat /\ U(x[1]) = U(x[1] - 1) + n[x[1]]
        /\ U(x[1] - 1) \in Nat
    BY <1>1, <2>1, <2>2
  <2>4. x[2] \in Nat
    BY <2>1, <2>3
  <2>5. Place(n, x) = U(x[1] - 1) + x[2]
    BY <2>1, <2>4, TotalIs DEF Place, U
  <2> QED
    BY <2>1, <2>3, <2>4, <2>5
<1> HIDE DEF U, T
<1>5. ASSUME NEW x \in Instances(n)
      PROVE  Place(n, x) \in 0 .. T - 1
  <2>1. U(x[1]) <= U(Len(n)) /\ U(x[1]) \in Nat
    BY <1>1, <1>3, <1>4
  <2> QED
    BY <1>2, <1>4, <2>1
<1>6. ASSUME NEW x \in Instances(n), NEW y \in Instances(n),
             Place(n, x) = Place(n, y)
      PROVE  x = y
  <2>1. ASSUME NEW v \in Instances(n), NEW w \in Instances(n),
               Place(n, v) = Place(n, w)
        PROVE  ~(v[1] < w[1])
    <3>1. SUFFICES ASSUME v[1] < w[1] PROVE FALSE
      OBVIOUS
    <3>2. /\ v[1] \in 1 .. Len(n) /\ w[1] \in 1 .. Len(n)
          /\ Place(n, v) < U(v[1]) /\ U(w[1] - 1) <= Place(n, w)
      BY <1>4
    <3>3. U(v[1]) <= U(w[1] - 1)
      BY <1>1, <1>3, <3>1, <3>2
    <3>4. U(v[1]) \in Nat /\ U(w[1] - 1) \in Nat
          /\ Place(n, v) \in Nat /\ Place(n, w) \in Nat
      <4>1. v[1] \in 0 .. Len(n) /\ w[1] - 1 \in 0 .. Len(n)
        BY <1>1, <3>2
      <4> QED
        BY <1>1, <1>4, <4>1
    <3> QED
      BY <2>1, <3>2, <3>3, <3>4
  <2>2. x[1] = y[1]
    BY <1>4, <1>6, <2>1
  <2>3. x[2] = y[2]
    <3>1. U(x[1] - 1) \in Nat
      BY <1>1, <1>4
    <3> QED
      BY <1>4, <1>6, <2>2, <3>1
  <2> QED
    BY <1>4, <2>2, <2>3
<1>7. ASSUME NEW p \in 0 .. T - 1
      PROVE  \E x \in Instances(n) : Place(n, x) = p
  <2> DEFINE C == {t \in 0 .. Len(n) : p < U(t)}
  <2>1. C \in SUBSET Nat /\ Len(n) \in C
    BY <1>1, <1>2
  <2>2. PICK t \in C : \A u \in C : t <= u
    <3> HIDE DEF C
    <3> QED
      BY <2>1, LeastNumber
  <2>3. t \in 1 .. Len(n)
    BY <1>1, <2>2
  <2>4. t - 1 \in 0 .. Len(n) /\ ~(p < U(t - 1))
    BY <1>1, <2>2, <2>3
  <2> DEFINE i == p - U(t - 1)
  <2>5. i \in 0 .. n[t] - 1 /\ i \in Nat
    <3>1. /\ U(t) = U(t - 1) + n[t] /\ n[t] \in Nat /\ U(t - 1) \in Nat
          /\ p < U(t) /\ ~(p < U(t - 1)) /\ p \in Nat
      BY <1>1, <1>2, <2>2, <2>3, <2>4
    <3> QED
      BY <3>1
  <2>6. <<t, i>> \in Instances(n)
    BY <2>3, <2>5, InstancesAre
  <2>7. Place(n, <<t, i>>) = U(t - 1) + i
    <3> HIDE DEF i
    <3> QED
      BY <2>3, <2>5, TotalIs DEF Place, U
  <2>8. U(t - 1) + i = p
    BY <1>1, <1>2, <2>4
  <2> QED
    BY <2>6, <2>7, <2>8
<1> QED
  BY <1>2, <1>4, <1>5, <1>6, <1>7 DEF T, U

-----------------------------------------------------------------------------
(* The machines, one after the other along the row.                        *)

\* b says how many instances are in the machines before each, given how many
\* each takes.
Begins(b, sizes, m, total) ==
    /\ m \in Nat \ {0} /\ total \in Nat
    /\ sizes \in [1 .. m -> Nat \ {0}]
    /\ b \in [1 .. m + 1 -> Nat]
    /\ b[1] = 0 /\ b[m + 1] = total
    /\ \A k \in 1 .. m : b[k + 1] = b[k] + sizes[k]

\* So no machine begins before an earlier one.
LEMMA BeginsRise ==
    ASSUME NEW b, NEW sizes, NEW m, NEW total, Begins(b, sizes, m, total),
           NEW k \in 1 .. m + 1, NEW l \in 1 .. m + 1, k <= l
    PROVE  b[k] <= b[l]
<1> DEFINE C == {w \in 1 .. m + 1 : k <= w /\ ~(b[k] <= b[w])}
<1>1. SUFFICES ASSUME C # {} PROVE FALSE
  OBVIOUS
<1>2. m \in Nat /\ C \in SUBSET Nat
  BY DEF Begins
<1>3. PICK w \in C : \A v \in C : w <= v
  <2> HIDE DEF C
  <2> QED
    BY <1>1, <1>2, LeastNumber
<1>4. /\ w \in 1 .. m + 1 /\ k <= w /\ ~(b[k] <= b[w])
      /\ b[k] \in Nat /\ b[w] \in Nat
  BY <1>3 DEF Begins
<1>5. w - 1 \in 1 .. m /\ k <= w - 1 /\ (w - 1) + 1 = w
  BY <1>2, <1>4
<1>6. b[k] <= b[w - 1]
  <2>1. ~(w <= w - 1) /\ w - 1 \in 1 .. m + 1
    BY <1>2, <1>5
  <2>2. w - 1 \notin C
    <3> HIDE DEF C
    <3> QED
      BY <1>3, <2>1
  <2> QED
    BY <1>5, <2>1, <2>2
<1>7. /\ b[w - 1] \in Nat /\ sizes[w - 1] \in Nat
      /\ b[w] = b[w - 1] + sizes[w - 1]
  BY <1>2, <1>5 DEF Begins
<1> HIDE DEF C
<1> QED
  BY <1>4, <1>6, <1>7

\* Every instance is within one machine's part of the row.
LEMMA OneMachine ==
    ASSUME NEW b, NEW sizes, NEW m, NEW total, Begins(b, sizes, m, total),
           NEW p \in 0 .. total - 1
    PROVE  \E k \in 1 .. m :
              /\ b[k] <= p /\ p < b[k + 1]
              /\ \A l \in 1 .. m : b[l] <= p /\ p < b[l + 1] => l = k
<1>1. m \in Nat \ {0} /\ total \in Nat /\ p \in Nat
  BY DEF Begins
<1> DEFINE C == {k \in 1 .. m : p < b[k + 1]}
<1>2. C \in SUBSET Nat /\ m \in C
  BY <1>1 DEF Begins
<1>3. PICK k \in C : \A v \in C : k <= v
  <2> HIDE DEF C
  <2> QED
    BY <1>2, LeastNumber
<1>4. k \in 1 .. m /\ p < b[k + 1]
  BY <1>3
<1>5. b[k] <= p
  <2>1. CASE k = 1
    BY <1>1, <2>1 DEF Begins
  <2>2. CASE k # 1
    <3>1. k - 1 \in 1 .. m /\ (k - 1) + 1 = k
      BY <1>1, <1>4, <2>2
    <3>2. ~(p < b[k])
      BY <1>1, <1>3, <3>1
    <3>3. b[k] \in Nat
      BY <1>1, <1>4 DEF Begins
    <3> QED
      BY <1>1, <3>2, <3>3
  <2> QED
    BY <2>1, <2>2
<1>6. ASSUME NEW l \in 1 .. m, b[l] <= p, p < b[l + 1]
      PROVE  l = k
  <2>1. ~(l < k)
    BY <1>1, <1>3, <1>6
  <2>2. ~(k < l)
    <3>1. SUFFICES ASSUME k < l PROVE FALSE
      OBVIOUS
    <3>2. k + 1 \in 1 .. m + 1 /\ l \in 1 .. m + 1 /\ k + 1 <= l
      BY <1>1, <1>4, <3>1
    <3>3. b[k + 1] <= b[l] /\ b[k + 1] \in Nat /\ b[l] \in Nat
      BY <3>2, BeginsRise DEF Begins
    <3> QED
      BY <1>1, <1>4, <1>6, <3>3
  <2> QED
    BY <1>1, <1>4, <2>1, <2>2
<1> QED
  BY <1>4, <1>5, <1>6

\* The loop puts every instance into the machine whose part it is in.
LEMMA PackedAre ==
    ASSUME NEW b, NEW sizes, NEW m, NEW total, Begins(b, sizes, m, total),
           NEW p \in 0 .. total - 1
    PROVE  /\ Packed(sizes, total)[p].shard \in 1 .. m
           /\ \A k \in 1 .. m : Packed(sizes, total)[p].shard = k
                                   <=> b[k] <= p /\ p < b[k + 1]
<1> DEFINE shard(i) == CHOOSE k \in 1 .. m : b[k] <= i /\ i < b[k + 1]
           f == [i \in 0 .. total - 1 |->
                   [shard |-> shard(i), used |-> i - b[shard(i)] + 1]]
           Packs(g) == g = [k \in 0 .. total - 1 |->
                IF k = 0 THEN [shard |-> 1, used |-> 1]
                ELSE IF g[k - 1].used = sizes[g[k - 1].shard]
                     THEN [shard |-> g[k - 1].shard + 1, used |-> 1]
                     ELSE [g[k - 1] EXCEPT !.used = @ + 1]]
<1>1. m \in Nat \ {0} /\ total \in Nat
  BY DEF Begins
<1>2. ASSUME NEW i \in 0 .. total - 1
      PROVE  /\ shard(i) \in 1 .. m
             /\ b[shard(i)] <= i /\ i < b[shard(i) + 1]
             /\ \A l \in 1 .. m : b[l] <= i /\ i < b[l + 1] => l = shard(i)
  BY OneMachine
<1> HIDE DEF shard
<1>3. ASSUME NEW k \in 1 .. total - 1
      PROVE  LET s == shard(k - 1)
             IN  /\ k - 1 \in 0 .. total - 1
                 /\ IF k - b[s] = sizes[s]
                    THEN shard(k) = s + 1 /\ k - b[shard(k)] = 0
                    ELSE shard(k) = s
  <2> DEFINE s == shard(k - 1)
  <2>1. k - 1 \in 0 .. total - 1 /\ k \in 0 .. total - 1
    BY <1>1
  <2>2. /\ s \in 1 .. m /\ b[s] <= k - 1 /\ k - 1 < b[s + 1]
    BY <1>2, <2>1
  <2> HIDE DEF s
  <2>3. /\ b[s] \in Nat /\ sizes[s] \in Nat \ {0} /\ b[s + 1] \in Nat
        /\ b[s + 1] = b[s] + sizes[s]
    BY <1>1, <2>2 DEF Begins
  <2>4. CASE k - b[s] = sizes[s]
    <3>1. b[s + 1] = k
      BY <2>1, <2>3, <2>4
    <3>2. s # m
      BY <1>1, <3>1 DEF Begins
    <3>3. s + 1 \in 1 .. m
      BY <1>1, <2>2, <3>2
    <3>4. /\ sizes[s + 1] \in Nat \ {0}
          /\ b[(s + 1) + 1] = b[s + 1] + sizes[s + 1]
      BY <3>3 DEF Begins
    <3>5. b[s + 1] <= k /\ k < b[(s + 1) + 1]
      BY <3>1, <3>4
    <3>6. shard(k) = s + 1
      BY <1>2, <2>1, <3>3, <3>5
    <3> QED
      BY <2>1, <2>4, <3>1, <3>6 DEF s
  <2>5. CASE k - b[s] # sizes[s]
    <3>1. b[s] <= k /\ k < b[s + 1]
      BY <2>1, <2>2, <2>3, <2>5
    <3>2. shard(k) = s
      BY <1>2, <2>1, <2>2, <3>1
    <3> QED
      BY <2>1, <2>5, <3>2 DEF s
  <2> QED
    BY <2>4, <2>5
<1>4. ASSUME total > 0
      PROVE  shard(0) = 1 /\ b[1] = 0 /\ 0 \in 0 .. total - 1
  <2>1. 0 \in 0 .. total - 1 /\ 1 \in 1 .. m /\ b[1] = 0
    BY <1>1, <1>4 DEF Begins
  <2>2. b[1 + 1] = b[1] + sizes[1] /\ sizes[1] \in Nat \ {0}
    BY <2>1 DEF Begins
  <2>3. b[1] <= 0 /\ 0 < b[1 + 1]
    BY <2>1, <2>2
  <2> QED
    BY <1>2, <2>1, <2>3
\* f is a way to pack.
<1>5. Packs(f)
  <2>1. ASSUME NEW k \in 0 .. total - 1
        PROVE  f[k] = IF k = 0 THEN [shard |-> 1, used |-> 1]
                      ELSE IF f[k - 1].used = sizes[f[k - 1].shard]
                           THEN [shard |-> f[k - 1].shard + 1, used |-> 1]
                           ELSE [f[k - 1] EXCEPT !.used = @ + 1]
    <3>1. CASE k = 0
      BY <1>1, <1>4, <3>1
    <3>2. CASE k # 0
      <4> DEFINE s == shard(k - 1)
      <4>1. k \in 1 .. total - 1 /\ k - 1 \in 0 .. total - 1
        BY <1>1, <3>2
      <4>2. f[k - 1] = [shard |-> s, used |-> k - 1 - b[s] + 1]
        BY <4>1
      <4>3. s \in 1 .. m /\ b[s] \in Nat
        <5>1. s \in 1 .. m
          BY <1>2, <4>1
        <5> HIDE DEF s
        <5>2. s \in 1 .. m + 1
          BY <1>1, <5>1
        <5> QED
          BY <5>1, <5>2 DEF Begins
      <4>4. f[k - 1] = [shard |-> s, used |-> k - b[s]]
        <5> HIDE DEF s
        <5>1. k - 1 - b[s] + 1 = k - b[s]
          BY <4>1, <4>3
        <5> QED
          BY <4>2, <5>1
      <4>5. f[k] = [shard |-> shard(k), used |-> k - b[shard(k)] + 1]
        OBVIOUS
      <4>6. IF k - b[s] = sizes[s]
            THEN shard(k) = s + 1 /\ k - b[shard(k)] = 0
            ELSE shard(k) = s
        BY <1>3, <4>1
      <4> HIDE DEF f, s
      <4> QED
        BY <3>2, <4>4, <4>5, <4>6
    <3> QED
      BY <3>1, <3>2
  <2>2. f = [k \in 0 .. total - 1 |-> f[k]]
    OBVIOUS
  <2> HIDE DEF f
  <2> QED
    BY <2>1, <2>2
\* There is no other.
<1>6. ASSUME NEW g, Packs(g)
      PROVE  \A i \in 0 .. total - 1 : g[i] = f[i]
  <2> HIDE DEF f
  <2> DEFINE C == {i \in 0 .. total - 1 : g[i] # f[i]}
  <2>1. SUFFICES ASSUME C # {} PROVE FALSE
    OBVIOUS
  <2>2. PICK i \in C : \A j \in C : i <= j
    <3>1. C \in SUBSET Nat
      BY <1>1
    <3> HIDE DEF C
    <3> QED
      BY <2>1, <3>1, LeastNumber
  <2>3. i \in 0 .. total - 1 /\ g[i] # f[i]
    BY <2>2
  <2>4. i # 0 => g[i - 1] = f[i - 1]
    BY <1>1, <2>2
  <2> DEFINE next(h) == IF i = 0 THEN [shard |-> 1, used |-> 1]
                        ELSE IF h.used = sizes[h.shard]
                             THEN [shard |-> h.shard + 1, used |-> 1]
                             ELSE [h EXCEPT !.used = @ + 1]
  <2>5. g[i] = f[i]
    <3>1. g[i] = next(g[i - 1])
      BY <1>6, <2>3
    <3>2. f[i] = next(f[i - 1])
      BY <1>5, <2>3
    <3> QED
      BY <2>4, <3>1, <3>2
  <2> QED
    BY <2>3, <2>5
<1>7. Packed(sizes, total) = CHOOSE g : Packs(g)
  BY DEF Packed
<1> HIDE DEF Packs
<1>8. Packs(CHOOSE g : Packs(g))
  BY <1>5
<1>9. Packed(sizes, total)[p].shard = shard(p)
  <2>1. Packed(sizes, total)[p] = f[p]
    BY <1>6, <1>7, <1>8
  <2> QED
    BY <2>1
<1> QED
  BY <1>2, <1>9

\* Division with a remainder.
LEMMA Division ==
    ASSUME NEW a \in Nat, NEW m \in Nat \ {0}
    PROVE  /\ a \div m \in Nat /\ a % m \in 0 .. m - 1
           /\ a = m * (a \div m) + (a % m)
<1>1. a \in Int /\ m \in Int /\ m > 0
  OBVIOUS
<1>2. a \div m \in Int /\ a % m \in Int
  BY <1>1
<1>3. a % m >= 0 /\ a % m < m
  BY <1>1
<1>4. a = m * (a \div m) + (a % m)
  BY <1>1
<1>5. a \div m >= 0
  BY <1>1
<1> QED
  BY <1>2, <1>3, <1>4, <1>5

\* The larger or smaller of two numbers.
LEMMA OfTwo ==
    ASSUME NEW x \in Int, NEW y \in Int
    PROVE  /\ Max({x, y}) = IF x <= y THEN y ELSE x
           /\ Min({x, y}) = IF x <= y THEN x ELSE y
<1> DEFINE hi == IF x <= y THEN y ELSE x
           lo == IF x <= y THEN x ELSE y
<1>1. \A z : z = hi <=> z \in {x, y} /\ \A w \in {x, y} : z >= w
  OBVIOUS
<1>2. \A z : z = lo <=> z \in {x, y} /\ \A w \in {x, y} : z <= w
  OBVIOUS
<1>3. Max({x, y}) = hi
  <2> HIDE DEF hi
  <2> QED
    BY <1>1 DEF Max
<1>4. Min({x, y}) = lo
  <2> HIDE DEF lo
  <2> QED
    BY <1>2 DEF Min
<1> QED
  BY <1>3, <1>4

\* No machine without an instance, and loads that differ by at most one.
LEMMA SizesAre ==
    ASSUME NEW total \in Nat \ {0}, NEW machines \in Nat \ {0}
    PROVE  LET sizes == BalancedSizes(total, machines)
           IN  \E m \in Nat \ {0} :
                  /\ m <= machines /\ DOMAIN sizes = 1 .. m
                  /\ \E b : Begins(b, sizes, m, total)
                  /\ \A k, l \in 1 .. m : sizes[k] <= sizes[l] + 1
<1> DEFINE m == IF machines <= total THEN machines ELSE total
           q == total \div m
           r == total % m
           sizes == [k \in 1 .. m |-> IF k <= r THEN q + 1 ELSE q]
           b == [k \in 1 .. m + 1 |->
                   (k - 1) * q + (IF k - 1 <= r THEN k - 1 ELSE r)]
<1>1. m \in Nat \ {0} /\ m <= machines /\ m <= total
  OBVIOUS
<1>2. BalancedSizes(total, machines) = sizes
  <2>1. Max({1, machines}) = machines
    BY OfTwo
  <2>2. Min({machines, total}) = m
    BY OfTwo
  <2> QED
    BY <2>1, <2>2 DEF BalancedSizes
<1> HIDE DEF m
<1>3. q \in Nat /\ r \in 0 .. m - 1 /\ total = m * q + r
  BY <1>1, Division
<1> HIDE DEF q, r
<1>4. q # 0
  BY <1>1, <1>3
<1>5. sizes \in [1 .. m -> Nat \ {0}]
  BY <1>1, <1>3, <1>4
<1>6. b \in [1 .. m + 1 -> Nat]
  <2>1. ASSUME NEW k \in 1 .. m + 1
        PROVE  (k - 1) * q + (IF k - 1 <= r THEN k - 1 ELSE r) \in Nat
    BY <1>1, <1>3, <2>1
  <2> QED
    BY <2>1
<1>7. b[1] = 0 /\ b[m + 1] = total
  <2>1. 1 \in 1 .. m + 1 /\ m + 1 \in 1 .. m + 1
    BY <1>1
  <2>2. b[1] = 0
    BY <1>3, <2>1
  <2>3. b[m + 1] = m * q + r
    BY <1>1, <1>3, <2>1
  <2> QED
    BY <1>3, <2>2, <2>3
<1>8. ASSUME NEW k \in 1 .. m
      PROVE  b[k + 1] = b[k] + sizes[k]
  <2>1. k \in 1 .. m + 1 /\ k + 1 \in 1 .. m + 1 /\ (k + 1) - 1 = k
    BY <1>1
  <2>2. b[k + 1] = k * q + (IF k <= r THEN k ELSE r)
    BY <2>1
  <2>3. b[k] = (k - 1) * q + (IF k - 1 <= r THEN k - 1 ELSE r)
    BY <2>1
  <2>4. sizes[k] = IF k <= r THEN q + 1 ELSE q
    OBVIOUS
  <2>5. k * q = (k - 1) * q + q /\ (k - 1) * q \in Int
    BY <1>1, <1>3
  <2> DEFINE before == (k - 1) * q
  <2> HIDE DEF before, b, sizes
  <2> QED
    BY <1>3, <2>2, <2>3, <2>4, <2>5 DEF before
<1>9. Begins(b, sizes, m, total)
  <2> HIDE DEF b, sizes
  <2> QED
    BY <1>1, <1>5, <1>6, <1>7, <1>8 DEF Begins
<1>10. \A k, l \in 1 .. m : sizes[k] <= sizes[l] + 1
  BY <1>1, <1>3
<1>11. DOMAIN sizes = 1 .. m
  OBVIOUS
<1> HIDE DEF b, sizes
<1> QED
  BY <1>1, <1>2, <1>9, <1>10, <1>11

\* The part of the row a shard gets, as instances.
Share(n, from, to) ==
    {x \in Instances(n) : from <= Place(n, x) /\ Place(n, x) < to}

\* Each machine's window is the instances of its part of the row, and every
\* instance is in one of them.
LEMMA PlanIs ==
    ASSUME NEW n \in Seq(Nat), Total(n) > 0, NEW machines \in Nat \ {0}
    PROVE  \E m, sizes, b :
              /\ m \in Nat \ {0}
              /\ m <= machines
              /\ Begins(b, sizes, m, Total(n))
              /\ \A k, l \in 1 .. m : sizes[k] <= sizes[l] + 1
              /\ PlanShards(n, machines)
                    = [k \in 1 .. m |-> Share(n, b[k], b[k + 1])]
<1> DEFINE sizes == BalancedSizes(Total(n), machines)
           place == Packed(sizes, Total(n))
<1>1. Total(n) \in Nat \ {0}
  BY PlacesAre
<1>2. PICK m \in Nat \ {0} : /\ m <= machines /\ DOMAIN sizes = 1 .. m
                             /\ \E b : Begins(b, sizes, m, Total(n))
                             /\ \A k, l \in 1 .. m : sizes[k] <= sizes[l] + 1
  BY <1>1, SizesAre
<1>3. PICK b : Begins(b, sizes, m, Total(n))
  BY <1>2
<1>4. PlanShards(n, machines) = [k \in DOMAIN sizes |->
          {x \in Instances(n) : place[Place(n, x)].shard = k}]
  BY DEF PlanShards, Place
<1> HIDE DEF sizes, place
<1>5. ASSUME NEW x \in Instances(n), NEW k \in 1 .. m
      PROVE  place[Place(n, x)].shard = k
                <=> b[k] <= Place(n, x) /\ Place(n, x) < b[k + 1]
  <2>1. Place(n, x) \in 0 .. Total(n) - 1
    BY PlacesAre
  <2> QED
    BY <1>3, <2>1, PackedAre DEF place
<1>6. PlanShards(n, machines) = [k \in 1 .. m |-> Share(n, b[k], b[k + 1])]
  BY <1>2, <1>4, <1>5 DEF Share
<1> QED
  BY <1>2, <1>3, <1>6

\* As many instances as the part is long.
LEMMA ShareCounts ==
    ASSUME NEW n \in Seq(Nat), NEW from \in Nat, NEW to \in Nat,
           from <= to, to <= Total(n)
    PROVE  /\ IsFiniteSet(Share(n, from, to))
           /\ Cardinality(Share(n, from, to)) = to - from
<1> DEFINE w == Share(n, from, to)
           f == [x \in w |-> Place(n, x)]
<1>1. \A x \in w : x \in Instances(n) /\ Place(n, x) \in from .. to - 1
  BY PlacesAre DEF Share
<1>2. f \in Injection(w, from .. to - 1)
  <2>1. \A x, y \in w : f[x] = f[y] => x = y
    BY <1>1, PlacesAre
  <2>2. f \in [w -> from .. to - 1]
    BY <1>1
  <2> HIDE DEF f, w
  <2> QED
    BY <2>1, <2>2 DEF Injection, IsInjective
<1>3. \A p \in from .. to - 1 : \E x \in w : f[x] = p
  <2> SUFFICES ASSUME NEW p \in from .. to - 1 PROVE \E x \in w : f[x] = p
    OBVIOUS
  <2>1. p \in 0 .. Total(n) - 1 /\ from <= p /\ p < to
    BY PlacesAre
  <2>2. PICK x \in Instances(n) : Place(n, x) = p
    BY <2>1, PlacesAre
  <2> QED
    BY <2>1, <2>2 DEF Share
<1>4. f \in Bijection(w, from .. to - 1)
  <2> HIDE DEF f, w
  <2> QED
    BY <1>2, <1>3 DEF Bijection, Surjection, Injection
<1>5. IsFiniteSet(from .. to - 1)
  BY FS_Interval
<1>6. Cardinality(from .. to - 1) = to - from
  <2>1. to - 1 \in Int /\ to - 1 - from + 1 = to - from /\ from <= to - 1 + 1
    OBVIOUS
  <2> DEFINE last == to - 1
  <2> HIDE DEF last
  <2>2. Cardinality(from .. last)
            = IF from > last THEN 0 ELSE last - from + 1
    BY <2>1, FS_Interval DEF last
  <2>3. from > last => to - from = 0
    BY DEF last
  <2> QED
    BY <2>1, <2>2, <2>3 DEF last
<1>7. ExistsBijection(from .. to - 1, w)
  <2>1. ExistsBijection(w, from .. to - 1)
    BY <1>4 DEF ExistsBijection
  <2> QED
    BY <2>1, Fun_ExistsBijSymmetric
<1> HIDE DEF w, f
<1>8. IsFiniteSet(w) /\ Cardinality(w) = Cardinality(from .. to - 1)
  BY <1>5, <1>7, FS_Bijection DEF ExistsBijection
<1> QED
  BY <1>6, <1>8 DEF w

\* The first and the number of a slice.
LEMMA IntervalIs ==
    ASSUME NEW a \in Int, NEW c \in Int, a <= c
    PROVE  Min(a .. c) = a /\ Cardinality(a .. c) = c - a + 1
<1>1. \A z : z = a <=> z \in a .. c /\ \A w \in a .. c : z <= w
  OBVIOUS
<1>2. Min(a .. c) = a
  BY <1>1 DEF Min
<1>3. Cardinality(a .. c) = c - a + 1
  BY FS_Interval
<1> QED
  BY <1>2, <1>3

\* A count and a start for each track say it all.
LEMMA SlicesAreWhole ==
    ASSUME NEW n \in Seq(Nat), NEW from \in Nat, NEW to \in Nat
    PROVE  LET j == ShardJob(Share(n, from, to))
           IN  Window(j.counts, j.starts) = Share(n, from, to)
<1> DEFINE w == Share(n, from, to)
           of(t) == {x[2] : x \in {y \in w : y[1] = t}}
           tracks == {x[1] : x \in w}
           counts == [t \in tracks |-> Cardinality(of(t))]
           starts == [t \in tracks |-> Min(of(t))]
<1>1. ASSUME NEW t \in tracks
      PROVE  \E a, c \in Nat : a <= c /\ of(t) = a .. c
  <2>1. PICK x \in w : x[1] = t
    OBVIOUS
  <2> DEFINE u == UpTo(n, t - 1)
             a == IF from <= u THEN 0 ELSE from - u
             c == IF to - u <= n[t] THEN to - u - 1 ELSE n[t] - 1
  <2>2. /\ t \in 1 .. Len(n) /\ n[t] \in Nat /\ u \in Nat
    <3>1. t \in 1 .. Len(n)
      BY <2>1, InstancesAre DEF Share
    <3>2. t - 1 \in 0 .. Len(n)
      BY <3>1, UpToGrows
    <3> QED
      BY <3>1, <3>2, UpToGrows
  <2> HIDE DEF u
  <2>3. \A i \in 0 .. n[t] - 1 :
           <<t, i>> \in Instances(n) /\ Place(n, <<t, i>>) = u + i
    BY <2>2, InstancesAre, PlacesAre DEF u
  <2>4. \A y \in w : y[1] = t => y[2] \in 0 .. n[t] - 1 /\ y = <<t, y[2]>>
    BY <2>2, InstancesAre DEF Share
  <2>5. \A i : i \in of(t) <=> i \in 0 .. n[t] - 1 /\ <<t, i>> \in w
    BY <2>3, <2>4
  <2>6. \A i : i \in of(t)
                  <=> i \in 0 .. n[t] - 1 /\ from <= u + i /\ u + i < to
    <3> HIDE DEF of
    <3> QED
      BY <2>3, <2>5 DEF Share
  <2> HIDE DEF of, w
  <2>7. \A i : i \in of(t) <=> i \in a .. c
    <3>1. \A i : i \in 0 .. n[t] - 1 /\ from <= u + i /\ u + i < to
                    <=> i \in a .. c
      BY <2>2
    <3> QED
      BY <2>6, <3>1
  <2>8. x[2] \in of(t)
    BY <2>1 DEF of
  <2>9. a \in Nat /\ c \in Int
    BY <2>2
  <2> HIDE DEF a, c
  <2>10. of(t) = a .. c
    BY <2>7
  <2>11. c \in Nat /\ a <= c
    BY <2>8, <2>9, <2>10
  <2> QED
    BY <2>9, <2>10, <2>11
<1>2. ASSUME NEW t \in tracks
      PROVE  LET s == Max({0, starts[t]})
             IN  s .. s + counts[t] - 1 = of(t)
  <2> HIDE DEF of
  <2>1. PICK a, c \in Nat : a <= c /\ of(t) = a .. c
    BY <1>1
  <2>2. Min(of(t)) = a /\ Cardinality(of(t)) = c - a + 1
    BY <2>1, IntervalIs
  <2>3. Max({0, a}) = a
    BY OfTwo
  <2>4. starts[t] = a /\ counts[t] = c - a + 1
    BY <2>2
  <2> HIDE DEF starts, counts, tracks
  <2>5. a + (c - a + 1) - 1 = c
    OBVIOUS
  <2> QED
    BY <2>1, <2>3, <2>4, <2>5
<1>3. DOMAIN starts = tracks /\ DOMAIN counts = tracks
  OBVIOUS
<1> HIDE DEF starts, counts
<1>4. Window(counts, starts) = UNION {{t} \X of(t) : t \in tracks}
  <2> HIDE DEF of, tracks
  <2>1. \A t \in tracks :
           LET s == IF t \in DOMAIN starts THEN Max({0, starts[t]}) ELSE 0
           IN  s .. s + counts[t] - 1 = of(t)
    BY <1>2, <1>3
  <2> QED
    BY <1>3, <2>1 DEF Window
<1>5. UNION {{t} \X of(t) : t \in tracks} = w
  <2>1. \A x \in w : x = <<x[1], x[2]>>
    BY InstancesAre DEF Share
  <2>2. \A t, i : <<t, i>> \in w <=> t \in tracks /\ i \in of(t)
    <3>1. ASSUME NEW t, NEW i, <<t, i>> \in w
          PROVE  t \in tracks /\ i \in of(t)
      <4>1. <<t, i>>[1] = t /\ <<t, i>>[2] = i
        OBVIOUS
      <4> QED
        BY <3>1, <4>1
    <3>2. ASSUME NEW t, NEW i, i \in of(t)
          PROVE  <<t, i>> \in w
      <4>1. PICK x \in w : x[1] = t /\ x[2] = i
        BY <3>2
      <4> QED
        BY <2>1, <4>1
    <3> HIDE DEF w, tracks, of
    <3> QED
      BY <3>1, <3>2
  <2>3. \A x \in w : x[1] \in tracks /\ x[2] \in of(x[1])
    OBVIOUS
  <2> HIDE DEF w, tracks, of
  <2>4. ASSUME NEW x \in UNION {{t} \X of(t) : t \in tracks}
        PROVE  x \in w
    <3>1. PICK t \in tracks : x \in {t} \X of(t)
      OBVIOUS
    <3>2. x = <<t, x[2]>> /\ x[2] \in of(t)
      BY <3>1
    <3> QED
      BY <2>2, <3>2
  <2>5. ASSUME NEW x \in w
        PROVE  x \in UNION {{t} \X of(t) : t \in tracks}
    <3>1. x \in {x[1]} \X of(x[1])
      BY <2>1, <2>3
    <3> QED
      BY <2>3, <3>1
  <2> QED
    BY <2>4, <2>5
<1>6. ShardJob(w) = [counts |-> counts, starts |-> starts]
  BY DEF ShardJob, counts, starts
<1>7. ShardJob(w).counts = counts /\ ShardJob(w).starts = starts
  BY <1>6
<1> QED
  BY <1>4, <1>5, <1>7 DEF w

\* Each instance once, no machine for none, whole slices and even loads, of
\* any benchmark on any number of machines.
LEMMA PlansAreEven ==
    ASSUME NEW n \in Seq(Nat), Total(n) > 0, NEW machines \in Nat \ {0}
    PROVE  LET windows == PlanShards(n, machines)
           IN  /\ \A x \in Instances(n) :
                    Cardinality({k \in DOMAIN windows : x \in windows[k]}) = 1
               /\ \A k \in DOMAIN windows :
                    LET j == ShardJob(windows[k])
                    IN  Window(j.counts, j.starts) = windows[k]
               /\ \A k, l \in DOMAIN windows :
                    /\ windows[k] # {}
                    /\ Cardinality(windows[k]) <= Cardinality(windows[l]) + 1
<1> DEFINE windows == PlanShards(n, machines)
<1>1. PICK m, sizes, b :
              /\ m \in Nat \ {0}
              /\ m <= machines
              /\ Begins(b, sizes, m, Total(n))
              /\ \A k, l \in 1 .. m : sizes[k] <= sizes[l] + 1
              /\ windows = [k \in 1 .. m |-> Share(n, b[k], b[k + 1])]
  BY PlanIs
<1>2. DOMAIN windows = 1 .. m
  BY <1>1
<1>3. \A k \in 1 .. m : windows[k] = Share(n, b[k], b[k + 1])
  BY <1>1
<1> HIDE DEF windows
<1>4. ASSUME NEW k \in 1 .. m
      PROVE  /\ b[k] \in Nat /\ b[k + 1] \in Nat
             /\ sizes[k] \in Nat \ {0} /\ b[k + 1] = b[k] + sizes[k]
             /\ b[k] <= b[k + 1] /\ b[k + 1] <= Total(n)
  <2>1. k \in 1 .. m + 1 /\ k + 1 \in 1 .. m + 1 /\ m + 1 \in 1 .. m + 1
        /\ k + 1 <= m + 1
    <3>1. m \in Nat
      BY <1>1
    <3> QED
      BY <3>1
  <2>2. b[k + 1] <= b[m + 1]
    <3> DEFINE next == k + 1
               end == m + 1
    <3>1. next \in 1 .. m + 1 /\ end \in 1 .. m + 1 /\ next <= end
      BY <1>1, <2>1
    <3> HIDE DEF next, end
    <3>2. b[next] <= b[end]
      BY <1>1, <3>1, BeginsRise
    <3> QED
      BY <3>2 DEF next, end
  <2>3. /\ b[k] \in Nat /\ b[k + 1] \in Nat /\ b[m + 1] = Total(n)
        /\ sizes[k] \in Nat \ {0} /\ b[k + 1] = b[k] + sizes[k]
    BY <1>1, <2>1 DEF Begins
  <2> QED
    BY <2>2, <2>3
<1>5. ASSUME NEW x \in Instances(n)
      PROVE  Cardinality({k \in DOMAIN windows : x \in windows[k]}) = 1
  <2>1. Place(n, x) \in 0 .. Total(n) - 1
    BY PlacesAre
  <2>2. PICK k \in 1 .. m :
              /\ b[k] <= Place(n, x) /\ Place(n, x) < b[k + 1]
              /\ \A l \in 1 .. m : b[l] <= Place(n, x)
                     /\ Place(n, x) < b[l + 1] => l = k
    BY <1>1, <2>1, OneMachine
  <2>3. {l \in DOMAIN windows : x \in windows[l]} = {k}
    BY <1>2, <1>3, <2>2 DEF Share
  <2> QED
    BY <2>3, FS_Singleton
<1>6. ASSUME NEW k \in 1 .. m
      PROVE  LET j == ShardJob(windows[k])
             IN  Window(j.counts, j.starts) = windows[k]
  <2> DEFINE from == b[k]
             to == b[k + 1]
  <2>1. windows[k] = Share(n, from, to) /\ from \in Nat /\ to \in Nat
    BY <1>3, <1>4
  <2> HIDE DEF from, to
  <2> QED
    BY <2>1, SlicesAreWhole
<1>7. ASSUME NEW k \in 1 .. m
      PROVE  Cardinality(windows[k]) = sizes[k] /\ windows[k] # {}
  <2>1. Cardinality(windows[k]) = b[k + 1] - b[k]
    BY <1>3, <1>4, ShareCounts
  <2>2. Cardinality(windows[k]) = sizes[k] /\ sizes[k] # 0
    BY <1>4, <2>1
  <2> QED
    BY <2>2, FS_EmptySet
<1>8. \A k, l \in 1 .. m :
         Cardinality(windows[k]) <= Cardinality(windows[l]) + 1
  BY <1>1, <1>7
<1> QED
  BY <1>2, <1>5, <1>6, <1>7, <1>8 DEF windows

\* Its small inputs are what the property is about.
LEMMA AllPlansAreEven == EvenPlans
<1> SUFFICES ASSUME NEW n \in [1 .. 2 -> 0 .. MaxInput],
                    NEW machines \in 1 .. MaxInput, Total(n) > 0
             PROVE  LET windows == PlanShards(n, machines)
           IN  /\ \A x \in Instances(n) :
                    Cardinality({k \in DOMAIN windows : x \in windows[k]}) = 1
               /\ \A k \in DOMAIN windows :
                    LET j == ShardJob(windows[k])
                    IN  Window(j.counts, j.starts) = windows[k]
               /\ \A k, l \in DOMAIN windows :
                    /\ windows[k] # {}
                    /\ Cardinality(windows[k]) <= Cardinality(windows[l]) + 1
  BY DEF EvenPlans
<1>1. n \in Seq(Nat)
  <2>1. n \in [1 .. 2 -> Nat]
    BY FanoutAssumption
  <2> QED
    <3>1. Seq(Nat) = UNION {[1 .. k -> Nat] : k \in Nat}
      BY SeqDef
    <3>2. [1 .. 2 -> Nat] \in {[1 .. k -> Nat] : k \in Nat}
      OBVIOUS
    <3> QED
      BY <2>1, <3>1, <3>2, Zenon
<1>2. machines \in Nat \ {0}
  BY FanoutAssumption
<1> QED
  BY <1>1, <1>2, PlansAreEven

-----------------------------------------------------------------------------
(* How many machines, and which.                                           *)

\* The number of machines that is taken: each of them was worth it, and one
\* more, if there may be one, is not.
LEMMA PayingIs ==
    ASSUME NEW solve \in Nat, NEW fixed \in Nat, NEW most \in Nat \ {0}
    PROVE  LET m == Paying(solve, fixed, most)
           IN  /\ m \in 1 .. most
               /\ \A k \in 2 .. m : solve > fixed * k * (k - 1)
               /\ m < most => solve <= fixed * (m + 1) * m
<1> DEFINE Pay(k) == solve > fixed * k * (k - 1)
           pays == {m \in 2 .. most : \A k \in 2 .. m : Pay(k)}
           S == {1} \cup pays
<1> HIDE DEF Pay
<1>1. S \subseteq 1 .. most /\ 1 \in S
  OBVIOUS
\* The least number nothing in S is above.
<1> DEFINE C == {u \in Nat : \A x \in S : x <= u}
<1>2. PICK u \in C : \A v \in C : u <= v
  <2>1. most \in C
    BY <1>1
  <2> HIDE DEF C
  <2>2. C \in SUBSET Nat /\ C # {}
    BY <2>1 DEF C
  <2> QED
    BY <2>2, LeastNumber
<1>3. u \in S
  <2>1. SUFFICES ASSUME u \notin S PROVE FALSE
    OBVIOUS
  <2> HIDE DEF S
  <2>2. u # 0
    BY <1>1, <1>2
  <2>3. u - 1 \in C
    <3>1. ASSUME NEW x \in S PROVE x <= u - 1
      BY <1>1, <1>2, <2>1, <3>1
    <3> QED
      BY <1>2, <2>2, <3>1
  <2> QED
    BY <1>2, <2>3
<1>4. Paying(solve, fixed, most) = u
  <2>1. Paying(solve, fixed, most) = Max(S)
    BY DEF Paying, Pay
  <2> HIDE DEF S
  <2>2. \A z : z = u <=> z \in S /\ \A w \in S : z >= w
    <3>1. u \in Nat /\ S \subseteq Nat /\ \A x \in S : x <= u
      BY <1>1, <1>2
    <3>2. \A w \in S : u >= w
      BY <3>1
    <3>3. ASSUME NEW z \in S, \A w \in S : z >= w
          PROVE  z = u
      <4>1. z \in Nat /\ z <= u /\ z >= u
        BY <1>3, <3>1, <3>3
      <4> QED
        BY <3>1, <4>1
    <3> QED
      BY <1>3, <3>2, <3>3
  <2>3. Max(S) = u
    BY <2>2 DEF Max
  <2> QED
    BY <2>1, <2>3
<1>5. u \in 1 .. most
  BY <1>1, <1>3
<1>6. \A k \in 2 .. u : Pay(k)
  BY <1>3, <1>5
<1>7. ASSUME u < most PROVE ~ Pay(u + 1)
  <2>1. SUFFICES ASSUME Pay(u + 1) PROVE FALSE
    OBVIOUS
  <2>2. u + 1 \in 2 .. most /\ \A k \in 2 .. u + 1 : k \in 2 .. u \/ k = u + 1
    BY <1>5, <1>7
  <2>3. u + 1 \in S
    BY <1>6, <2>1, <2>2
  <2>4. u + 1 <= u
    BY <1>2, <2>3
  <2> QED
    BY <1>5, <2>4
<1>8. u < most => solve <= fixed * (u + 1) * u
  <2>1. SUFFICES ASSUME u < most PROVE solve <= fixed * (u + 1) * u
    OBVIOUS
  <2>2. ~(solve > fixed * (u + 1) * ((u + 1) - 1))
    BY <1>7, <2>1 DEF Pay
  <2>3. (u + 1) - 1 = u
    BY <1>5
  <2>4. fixed * (u + 1) * u \in Int
    BY <1>5
  <2> QED
    BY <2>2, <2>3, <2>4
<1>9. \A k \in 2 .. u : solve > fixed * k * (k - 1)
  BY <1>6 DEF Pay
<1> QED
  BY <1>4, <1>5, <1>8, <1>9

\* One number of machines against another, a and k.
LEMMA NoFaster ==
    ASSUME NEW solve \in Nat, NEW fixed \in Nat, NEW m \in Nat \ {0},
           NEW k \in Nat \ {0},
           k > m => solve <= fixed * (m + 1) * m,
           k < m => solve > fixed * m * (m - 1)
    PROVE  solve * k + fixed * m * m * k <= solve * m + fixed * k * k * m
<1> DEFINE f == fixed * (m * k)
<1>1. /\ solve * k + fixed * m * m * k = solve * k + f * m
      /\ solve * m + fixed * k * k * m = solve * m + f * k
      /\ f \in Nat
  <2>1. fixed * m * m * k = f * m /\ fixed * k * k * m = f * k
    OBVIOUS
  <2>2. f \in Nat
    OBVIOUS
  <2> HIDE DEF f
  <2> QED
    BY <2>1, <2>2
<1>2. CASE k = m
  BY <1>2
<1>3. CASE k > m
  <2>1. PICK d \in Nat : k = m + d
    BY <1>3
  <2>2. solve <= f
    <3>1. solve <= fixed * (m + 1) * m
      BY <1>3
    <3>2. fixed * (m + 1) * m <= fixed * (m * k)
      <4>1. fixed * (m + 1) * m = (fixed * m) * (m + 1)
            /\ fixed * (m * k) = (fixed * m) * k
        OBVIOUS
      <4>2. fixed * m \in Nat /\ m + 1 <= k
        BY <1>3
      <4> DEFINE c == fixed * m
      <4>3. c * (m + 1) <= c * k
        <5> HIDE DEF c
        <5>1. c \in Nat
          BY <4>2 DEF c
        <5> QED
          BY <4>2, <5>1
      <4> QED
        BY <4>1, <4>3
    <3> HIDE DEF f
    <3>3. fixed * (m + 1) * m \in Nat
      OBVIOUS
    <3> QED
      BY <1>1, <3>1, <3>2, <3>3 DEF f
  <2> HIDE DEF f
  <2>3. solve * d <= f * d
    BY <1>1, <2>1, <2>2
  <2>4. /\ solve * k = solve * m + solve * d
        /\ f * k = f * m + f * d
        /\ solve * m \in Nat /\ solve * d \in Nat
        /\ f * m \in Nat /\ f * d \in Nat
    BY <1>1, <2>1
  <2>5. solve * k + f * m <= solve * m + f * k
    BY <2>3, <2>4
  <2> QED
    BY <1>1, <2>5
<1>4. CASE k < m
  <2>1. PICK d \in Nat : m = k + d
    BY <1>4
  <2>2. f <= solve
    <3>1. solve > fixed * m * (m - 1)
      BY <1>4
    <3>2. fixed * (m * k) <= fixed * m * (m - 1)
      <4>1. fixed * (m * k) = (fixed * m) * k
        OBVIOUS
      <4>2. fixed * m \in Nat /\ k <= m - 1
        BY <1>4
      <4> DEFINE c == fixed * m
      <4>3. c * k <= c * (m - 1)
        <5> HIDE DEF c
        <5>1. c \in Nat
          BY <4>2 DEF c
        <5> QED
          BY <4>2, <5>1
      <4> QED
        BY <4>1, <4>3
    <3> HIDE DEF f
    <3>3. fixed * m * (m - 1) \in Nat
      OBVIOUS
    <3> QED
      BY <1>1, <3>1, <3>2, <3>3 DEF f
  <2> HIDE DEF f
  <2>3. f * d <= solve * d
    BY <1>1, <2>1, <2>2
  <2>4. /\ solve * m = solve * k + solve * d
        /\ f * m = f * k + f * d
        /\ solve * k \in Nat /\ solve * d \in Nat
        /\ f * k \in Nat /\ f * d \in Nat
    BY <1>1, <2>1
  <2>5. solve * k + f * m <= solve * m + f * k
    BY <2>3, <2>4
  <2> QED
    BY <1>1, <2>5
<1> QED
  BY <1>2, <1>3, <1>4

\* What there are at most to choose from.
LEMMA MostShards ==
    ASSUME NEW cap \in Nat \ {0}, NEW waves \in Nat \ {0}
    PROVE  Min({cap, waves}) \in Nat \ {0} /\ Min({cap, waves}) <= cap
<1>1. cap \in Int /\ waves \in Int
  OBVIOUS
<1>2. Min({cap, waves}) = IF cap <= waves THEN cap ELSE waves
  BY <1>1, OfTwo
<1> QED
  BY <1>2

\* The number of machines is one that the cap allows.
LEMMA WorthwhileFits ==
    ASSUME NEW timeout \in Nat, NEW waves \in Nat \ {0}, NEW fixed \in Nat,
           NEW cap \in Nat \ {0}
    PROVE  Worthwhile(timeout, waves, fixed, cap) \in 1 .. cap
<1> DEFINE most == Min({cap, waves})
           solve == waves * timeout
<1>1. most \in Nat \ {0} /\ most <= cap /\ solve \in Nat
  BY MostShards
<1>2. Worthwhile(timeout, waves, fixed, cap) \in {cap, Paying(solve, fixed, most)}
  BY DEF Worthwhile
<1> HIDE DEF most, solve
<1>3. Paying(solve, fixed, most) \in 1 .. most
  BY <1>1, PayingIs
<1> QED
  BY <1>1, <1>2, <1>3

\* So no number of machines is faster than the one that is taken.
LEMMA PayingIsCheapest ==
    ASSUME NEW solve \in Nat, NEW fixed \in Nat, NEW most \in Nat \ {0},
           NEW k \in 1 .. most
    PROVE  LET m == Paying(solve, fixed, most)
           IN  solve * k + fixed * m * m * k <= solve * m + fixed * k * k * m
<1> DEFINE m == Paying(solve, fixed, most)
<1>1. /\ m \in 1 .. most
      /\ \A j \in 2 .. m : solve > fixed * j * (j - 1)
      /\ m < most => solve <= fixed * (m + 1) * m
  BY PayingIs
<1> HIDE DEF m
<1>2. k \in Nat \ {0} /\ m \in Nat \ {0}
  BY <1>1
<1>3. k > m => solve <= fixed * (m + 1) * m
  BY <1>1
<1>4. k < m => solve > fixed * m * (m - 1)
  <2>1. k < m => m \in 2 .. m
    BY <1>2
  <2> QED
    BY <1>1, <2>1
<1>5. solve * k + fixed * m * m * k <= solve * m + fixed * k * k * m
  BY <1>2, <1>3, <1>4, NoFaster
<1> QED
  BY <1>5 DEF m

LEMMA CountsAreCheapest == CheapestCounts
<1> SUFFICES ASSUME NEW timeout \in 0 .. MaxInput, NEW fixed \in 0 .. MaxInput,
                    NEW waves \in 1 .. MaxInput, NEW cap \in 1 .. MaxInput
             PROVE  LET m == Worthwhile(timeout, waves, fixed, cap)
                        solve == waves * timeout
                    IN  /\ m \in 1 .. cap
                        /\ timeout > 0 /\ fixed > 0 =>
                           \A k \in 1 .. Min({cap, waves}) :
                              solve * k + fixed * m * m * k
                                  <= solve * m + fixed * k * k * m
  BY DEF CheapestCounts
<1> DEFINE m == Worthwhile(timeout, waves, fixed, cap)
           solve == waves * timeout
           most == Min({cap, waves})
<1>1. /\ timeout \in Nat /\ fixed \in Nat
      /\ waves \in Nat \ {0} /\ cap \in Nat \ {0}
  BY FanoutAssumption
<1>2. solve \in Nat /\ most \in Nat \ {0}
  BY <1>1, MostShards
<1>3. m \in 1 .. cap
  BY <1>1, WorthwhileFits
<1>4. timeout > 0 /\ fixed > 0 => m = Paying(solve, fixed, most)
  BY DEF Worthwhile
<1> HIDE DEF m, solve, most
<1>5. ASSUME timeout > 0, fixed > 0, NEW k \in 1 .. most
      PROVE  solve * k + fixed * m * m * k <= solve * m + fixed * k * k * m
  <2>1. m = Paying(solve, fixed, most)
    BY <1>4, <1>5
  <2> QED
    BY <1>1, <1>2, <1>5, <2>1, PayingIsCheapest
<1> QED
  BY <1>3, <1>5 DEF m, solve, most

\* The order of the machines: lexicographic, on keys of one length.
LEMMA PrecedesOrders ==
    ASSUME NEW m \in Nat
    PROVE  /\ \A x \in [1 .. m -> Int] : ~Precedes(x, x)
           /\ \A x, y, z \in [1 .. m -> Int] :
                 Precedes(x, y) /\ Precedes(y, z) => Precedes(x, z)
<1>1. ASSUME NEW x \in [1 .. m -> Int] PROVE ~Precedes(x, x)
  BY DEF Precedes
<1>2. ASSUME NEW x \in [1 .. m -> Int], NEW y \in [1 .. m -> Int],
             NEW z \in [1 .. m -> Int], Precedes(x, y), Precedes(y, z)
      PROVE  Precedes(x, z)
  <2>1. PICK i \in 1 .. m : x[i] < y[i] /\ \A k \in 1 .. i - 1 : x[k] = y[k]
    BY <1>2 DEF Precedes
  <2>2. PICK j \in 1 .. m : y[j] < z[j] /\ \A k \in 1 .. j - 1 : y[k] = z[k]
    BY <1>2 DEF Precedes
  <2> DEFINE l == IF i <= j THEN i ELSE j
  <2>3. l \in 1 .. m /\ \A k \in 1 .. l - 1 : x[k] = z[k]
    BY <2>1, <2>2
  <2>4. x[l] < z[l]
    <3>1. x[i] \in Int /\ y[i] \in Int /\ z[i] \in Int
          /\ x[j] \in Int /\ y[j] \in Int /\ z[j] \in Int
      OBVIOUS
    <3>2. i < j => y[i] = z[i]
      BY <2>2
    <3>3. j < i => x[j] = y[j]
      BY <2>1
    <3> QED
      BY <2>1, <2>2, <3>1, <3>2, <3>3
  <2> HIDE DEF l
  <2> QED
    BY <2>3, <2>4 DEF Precedes
<1> QED
  BY <1>1, <1>2

\* So one of finitely many machines comes before the others.
LEMMA OneIsFirst ==
    ASSUME NEW S, IsFiniteSet(S), S # {}, NEW m \in Nat,
           NEW key \in [S -> [1 .. m -> Int]]
    PROVE  \E p \in S : \A q \in S : ~Precedes(key[q], key[p])
<1> DEFINE Has(P) == \E p \in P : \A q \in P : ~Precedes(key[q], key[p])
           C == {P \in SUBSET S : P # {} /\ ~Has(P)}
<1>1. SUFFICES ASSUME C # {} PROVE FALSE
  OBVIOUS
<1>2. PICK P \in C : \A Q \in C : Q \subseteq P => Q = P
  <2>1. C \in SUBSET SUBSET S
    OBVIOUS
  <2> HIDE DEF C
  <2> QED
    BY <1>1, <2>1, SmallestPart
<1>3. P \in SUBSET S /\ P # {} /\ ~Has(P)
  BY <1>2
<1>4. PICK x \in P : TRUE
  BY <1>3
<1>5. /\ \A y \in P : ~Precedes(key[y], key[y])
      /\ \A u, v, w \in P : Precedes(key[u], key[v])
             /\ Precedes(key[v], key[w]) => Precedes(key[u], key[w])
  BY <1>3, PrecedesOrders
<1>6. CASE P \ {x} = {}
  BY <1>3, <1>4, <1>5, <1>6
<1>7. CASE P \ {x} # {}
  <2>1. Has(P \ {x})
    <3>1. P \ {x} \in SUBSET S /\ P \ {x} # P
      BY <1>3, <1>4
    <3> HIDE DEF Has
    <3> QED
      BY <1>2, <1>7, <3>1
  <2>2. PICK y \in P \ {x} : \A q \in P \ {x} : ~Precedes(key[q], key[y])
    BY <2>1
  <2>3. CASE Precedes(key[x], key[y])
    BY <1>3, <1>4, <1>5, <2>2, <2>3
  <2>4. CASE ~Precedes(key[x], key[y])
    BY <1>3, <1>4, <2>2, <2>4
  <2> QED
    BY <2>3, <2>4
<1> QED
  BY <1>6, <1>7

\* A whole times a greater number is no less.
LEMMA TimesGrows ==
    ASSUME NEW c \in Nat, NEW u \in Int, NEW v \in Int, u <= v
    PROVE  c * u <= c * v
<1>1. /\ c * v = c * u + c * (v - u)
      /\ c * u \in Int /\ c * v \in Int
  OBVIOUS
<1>2. v - u \in Nat
  OBVIOUS
<1> DEFINE d == v - u
<1>3. c * d \in Nat
  <2> HIDE DEF d
  <2> QED
    BY <1>2 DEF d
<1> QED
  BY <1>1, <1>3

\* A sum is between as many times its least and its greatest summand.
LEMMA SumBetween ==
    ASSUME NEW S, IsFiniteSet(S), S # {}, NEW q, \A x \in S : q[x] \in Int
    PROVE  \E x, y \in S : /\ Cardinality(S) * q[x] <= SumOf(q, S)
                           /\ SumOf(q, S) <= Cardinality(S) * q[y]
<1> DEFINE Between(P) ==
              \E x, y \in P : /\ Cardinality(P) * q[x] <= SumOf(q, P)
                              /\ SumOf(q, P) <= Cardinality(P) * q[y]
           C == {P \in SUBSET S : P # {} /\ ~ Between(P)}
<1>1. SUFFICES ASSUME C # {} PROVE FALSE
  OBVIOUS
<1>2. PICK P \in C : \A Q \in C : Q \subseteq P => Q = P
  <2>1. C \in SUBSET SUBSET S
    OBVIOUS
  <2> HIDE DEF C
  <2> QED
    BY <1>1, <2>1, SmallestPart
<1>3. P \in SUBSET S /\ P # {} /\ ~ Between(P)
  BY <1>2
<1>4. PICK z \in P : TRUE
  BY <1>3
<1> DEFINE rest == P \ {z}
           c == Cardinality(rest)
<1>5. /\ IsFiniteSet(P) /\ IsFiniteSet(rest)
      /\ c \in Nat /\ Cardinality(P) = c + 1
  <2>1. IsFiniteSet(P)
    BY <1>3, FS_Subset
  <2>2. /\ IsFiniteSet(rest)
        /\ Cardinality(rest) = Cardinality(P) - 1
    BY <1>4, <2>1, FS_RemoveElement
  <2> HIDE DEF rest
  <2>3. Cardinality(P) \in Nat /\ Cardinality(rest) \in Nat
    BY <2>1, <2>2, FS_CardinalityType
  <2> QED
    BY <2>1, <2>2, <2>3
<1>6. /\ SumOf(q, rest) \in Int /\ q[z] \in Int
      /\ SumOf(q, P) = q[z] + SumOf(q, rest)
  <2>1. /\ \A x \in P : q[x] \in Int
        /\ \A x \in rest : q[x] \in Int
    BY <1>3
  <2> HIDE DEF rest
  <2>2. SumOf(q, rest) \in Int
    BY <1>5, <2>1, SumOfFirst
  <2>3. SumOf(q, P) = q[z] + SumOf(q, P \ {z})
    BY <1>4, <1>5, <2>1, SumOfFirst
  <2> QED
    BY <1>4, <2>1, <2>2, <2>3 DEF rest
<1>7. \A k \in Int : (c + 1) * k = c * k + k /\ c * k \in Int
  <2> HIDE DEF c
  <2> QED
    BY <1>5
<1>8. CASE rest = {}
  <2>1. c = 0 /\ SumOf(q, rest) = 0
    BY <1>8, SumOfNone, FS_EmptySet
  <2>2. Cardinality(P) * q[z] = q[z] /\ SumOf(q, P) = q[z]
    BY <1>5, <1>6, <2>1
  <2> QED
    BY <1>3, <1>4, <1>6, <2>2
<1>9. CASE rest # {}
  <2>1. Between(rest)
    <3>1. rest \in SUBSET S /\ rest # P /\ rest \subseteq P
      BY <1>3, <1>4
    <3> HIDE DEF Between, rest
    <3> QED
      BY <1>2, <1>9, <3>1
  <2>2. PICK x \in rest, y \in rest :
            c * q[x] <= SumOf(q, rest) /\ SumOf(q, rest) <= c * q[y]
    BY <2>1
  <2>3. q[x] \in Int /\ q[y] \in Int /\ x \in P /\ y \in P
    BY <1>3
  <2> HIDE DEF c, rest
  <2>4. \E u \in P : Cardinality(P) * q[u] <= SumOf(q, P)
    <3>1. CASE q[z] <= q[x]
      <4>1. c * q[z] <= c * q[x]
        BY <1>5, <1>6, <2>3, <3>1, TimesGrows
      <4>2. Cardinality(P) * q[z] <= SumOf(q, P)
        BY <1>5, <1>6, <1>7, <2>2, <2>3, <4>1
      <4> QED
        BY <1>4, <4>2
    <3>2. CASE q[x] <= q[z]
      <4>1. Cardinality(P) * q[x] <= SumOf(q, P)
        BY <1>5, <1>6, <1>7, <2>2, <2>3, <3>2
      <4> QED
        BY <2>3, <4>1
    <3> QED
      BY <1>6, <2>3, <3>1, <3>2
  <2>5. \E u \in P : SumOf(q, P) <= Cardinality(P) * q[u]
    <3>1. CASE q[y] <= q[z]
      <4>1. c * q[y] <= c * q[z]
        BY <1>5, <1>6, <2>3, <3>1, TimesGrows
      <4>2. SumOf(q, P) <= Cardinality(P) * q[z]
        BY <1>5, <1>6, <1>7, <2>2, <2>3, <4>1
      <4> QED
        BY <1>4, <4>2
    <3>2. CASE q[z] <= q[y]
      <4>1. SumOf(q, P) <= Cardinality(P) * q[y]
        BY <1>5, <1>6, <1>7, <2>2, <2>3, <3>2
      <4> QED
        BY <2>3, <4>1
    <3> QED
      BY <1>6, <2>3, <3>1, <3>2
  <2> QED
    BY <1>3, <2>4, <2>5
<1> QED
  BY <1>8, <1>9

\* The rate of a vCPU, for those whose rate and size are listed.
Unit(pool) == [p \in Sized(pool) |-> p.rate \div p.vcpu]

\* Some machine has the least of the listed rates, some the greatest.
LEMMA RatesAre ==
    ASSUME NEW pool \in SUBSET Pools, Rated(pool) # {}
    PROVE  /\ \E p \in Rated(pool) :
                 /\ p.rate = Min({x.rate : x \in Rated(pool)})
                 /\ \A q \in Rated(pool) : p.rate <= q.rate
           /\ \E p \in Rated(pool) :
                 p.rate = Max({x.rate : x \in Rated(pool)})
<1>1. IsFiniteSet(Rated(pool)) /\ \A p \in Rated(pool) : p.rate \in Nat
  <2>1. Rated(pool) \in SUBSET Pools
    BY DEF Rated
  <2> QED
    BY <2>1, PoolsAssumption, FS_Subset
<1> DEFINE S == Rated(pool)
           rates == {x.rate : x \in S}
<1> HIDE DEF S
<1>2. rates \in SUBSET Nat /\ rates # {}
  BY <1>1 DEF S
<1>3. Min(rates) \in rates /\ \A y \in rates : Min(rates) <= y
  <2> HIDE DEF rates
  <2>1. \E x \in rates : \A y \in rates : x <= y
    BY <1>2, LeastNumber
  <2> QED
    BY <2>1 DEF Min
<1>4. Max(rates) \in rates
  <2> DEFINE key == [p \in S |-> <<-p.rate>>]
  <2>1. key \in [S -> [1 .. 1 -> Int]]
    BY <1>1 DEF S
  <2>2. PICK p \in S : \A q \in S : ~Precedes(key[q], key[p])
    <3> HIDE DEF key
    <3> QED
      BY <1>1, <2>1, OneIsFirst DEF S
  <2>3. ASSUME NEW q \in S PROVE p.rate >= q.rate
    <3> DEFINE x == <<-q.rate>>
               y == <<-p.rate>>
    <3>1. DOMAIN x = 1 .. 1 /\ x[1] = -q.rate /\ y[1] = -p.rate
      OBVIOUS
    <3>2. ~Precedes(x, y)
      BY <2>2
    <3> HIDE DEF x, y
    <3>3. ~(x[1] < y[1])
      BY <3>1, <3>2 DEF Precedes
    <3> QED
      BY <1>1, <3>1, <3>3 DEF S
  <2>4. \E x \in rates : \A y \in rates : x >= y
    BY <2>3
  <2> HIDE DEF rates
  <2> QED
    BY <2>4 DEF Max
<1> QED
  BY <1>3, <1>4 DEF S

\* The mean rate of a vCPU, times what it is a mean of, is between those of two
\* machines.
LEMMA MeanIs ==
    ASSUME NEW pool \in SUBSET Pools, Sized(pool) # {}
    PROVE  /\ Averaged(pool) \in Nat \ {0}
           /\ \A p \in Sized(pool) :
                 /\ p.rate \in Nat \ {0} /\ p.vcpu \in Nat \ {0}
                 /\ Unit(pool)[p] \in Nat \ {0}
                 /\ p.rate = Unit(pool)[p] * p.vcpu
           /\ PerVcpu(pool) \in Int
           /\ \E x, y \in Sized(pool) :
                 /\ Averaged(pool) * Unit(pool)[x] <= PerVcpu(pool)
                 /\ PerVcpu(pool) <= Averaged(pool) * Unit(pool)[y]
<1>1. /\ IsFiniteSet(Sized(pool))
      /\ \A p \in Sized(pool) :
            /\ p.rate \in Nat \ {0} /\ p.vcpu \in Nat \ {0}
            /\ p.rate % p.vcpu = 0
  <2>1. Sized(pool) \in SUBSET Pools
    BY DEF Sized, Rated
  <2> QED
    BY <2>1, PoolsAssumption, FS_Subset DEF Sized, Rated
<1> DEFINE S == Sized(pool)
           q == Unit(pool)
<1>2. q = [p \in S |-> p.rate \div p.vcpu] /\ DOMAIN q = S
  BY DEF Unit
<1>3. Averaged(pool) = Cardinality(S)
  BY DEF Averaged
<1>4. Cardinality(S) \in Nat \ {0}
  BY <1>1, FS_CardinalityType, FS_EmptySet
<1>5. ASSUME NEW p \in S
      PROVE  q[p] \in Nat \ {0} /\ p.rate = q[p] * p.vcpu
  <2>1. p.rate \in Nat \ {0} /\ p.vcpu \in Nat \ {0} /\ p.rate % p.vcpu = 0
    BY <1>1
  <2>2. q[p] = p.rate \div p.vcpu
    BY <1>2
  <2>3. \A a, b \in Nat \ {0} : a % b = 0 =>
            a \div b \in Nat \ {0} /\ a = (a \div b) * b
    <3> TAKE a, b \in Nat \ {0}
    <3> HAVE a % b = 0
    <3>1. a = b * (a \div b) + (a % b) /\ a \div b \in Int
      OBVIOUS
    <3>2. a = (a \div b) * b
      BY <3>1
    <3>3. a \div b \in Nat
      BY Division
    <3> QED
      BY <3>2, <3>3
  <2> DEFINE a == p.rate
             b == p.vcpu
  <2>4. a \in Nat \ {0} /\ b \in Nat \ {0} /\ a % b = 0
    BY <2>1
  <2>5. q[p] = a \div b
    BY <2>2
  <2> HIDE DEF a, b, q
  <2>6. a \div b \in Nat \ {0} /\ a = (a \div b) * b
    BY <2>3, <2>4
  <2>7. q[p] \in Nat \ {0} /\ a = q[p] * b
    BY <2>5, <2>6
  <2> QED
    BY <2>7 DEF a, b
<1>6. PerVcpu(pool) = SumOf(q, S)
  <2>1. PerVcpu(pool) = FoldFunction(+, 0, q)
    BY <1>2 DEF PerVcpu
  <2>2. FoldSeq(+, 0, q) = FoldFunction(+, 0, q)
    BY DEF FoldSeq
  <2> HIDE DEF q, S
  <2>3. FoldSeq(+, 0, q) = SumOf(q, DOMAIN q)
    BY <1>1, <1>2, FoldIsSum DEF S
  <2> QED
    BY <1>2, <2>1, <2>2, <2>3
<1>7. SumOf(q, S) \in Int
  <2> HIDE DEF q
  <2> QED
    BY <1>1, <1>5, SumOfFirst
<1>8. \E x, y \in S : /\ Cardinality(S) * q[x] <= SumOf(q, S)
                      /\ SumOf(q, S) <= Cardinality(S) * q[y]
  <2> HIDE DEF q
  <2> QED
    BY <1>1, <1>5, SumBetween
<1> HIDE DEF q, S
<1>9. /\ PerVcpu(pool) \in Int
      /\ \E x, y \in S : /\ Averaged(pool) * q[x] <= PerVcpu(pool)
                         /\ PerVcpu(pool) <= Averaged(pool) * q[y]
  BY <1>3, <1>6, <1>7, <1>8
<1> QED
  BY <1>1, <1>3, <1>4, <1>5, <1>9 DEF q, S

\* Prices are whole and no machine is free.
LEMMA PricesAre ==
    ASSUME NEW pool \in SUBSET Pools, Rated(pool) # {}
    PROVE  /\ Averaged(pool) \in Nat \ {0}
           /\ PerVcpu(pool) \in Nat \ {0}
           /\ \A p \in pool : Price(p, pool) \in Nat \ {0}
<1>1. \A p \in pool : p.vcpu \in Nat /\ p.rate \in Nat
  BY PoolsAssumption
<1>2. \A a, b \in Nat \ {0} : a * b \in Nat \ {0}
  <2> TAKE a, b \in Nat \ {0}
  <2>1. a * b = a * (b - 1) + a /\ b - 1 \in Nat
    OBVIOUS
  <2>2. \A c \in Nat : a * c \in Nat
    OBVIOUS
  <2>3. a * (b - 1) \in Nat
    BY <2>1, <2>2
  <2> QED
    BY <2>1, <2>3
<1>3. Averaged(pool) \in Nat \ {0} /\ PerVcpu(pool) \in Nat \ {0}
  <2>1. CASE Sized(pool) = {}
    <3>1. Averaged(pool) = 1
      BY <2>1 DEF Averaged
    <3>2. PerVcpu(pool) = Max({p.rate : p \in Rated(pool)})
      BY <2>1 DEF PerVcpu
    <3>3. PICK p \in Rated(pool) : p.rate = Max({x.rate : x \in Rated(pool)})
      BY RatesAre
    <3>4. p.rate \in Nat \ {0}
      BY <1>1, <3>3 DEF Rated
    <3> QED
      BY <3>1, <3>2, <3>3, <3>4
  <2>2. CASE Sized(pool) # {}
    <3>1. PICK x \in Sized(pool) :
                  Averaged(pool) * Unit(pool)[x] <= PerVcpu(pool)
      BY <2>2, MeanIs
    <3>2. /\ Averaged(pool) \in Nat \ {0} /\ Unit(pool)[x] \in Nat \ {0}
          /\ PerVcpu(pool) \in Int
      BY <2>2, <3>1, MeanIs
    <3>3. Averaged(pool) * Unit(pool)[x] \in Nat \ {0}
      BY <1>2, <3>2
    <3> QED
      BY <3>1, <3>2, <3>3
  <2> QED
    BY <2>1, <2>2
<1>4. ASSUME NEW p \in pool PROVE Price(p, pool) \in Nat \ {0}
  <2>1. CASE p.rate > 0
    <3>1. Price(p, pool) = Averaged(pool) * p.rate /\ p.rate \in Nat \ {0}
      BY <1>1, <2>1 DEF Price
    <3> QED
      BY <1>2, <1>3, <3>1
  <2>2. CASE ~ (p.rate > 0)
    <3> DEFINE v == IF p.vcpu > 0 THEN p.vcpu ELSE AssumedShardVcpus
    <3>1. Price(p, pool) = PerVcpu(pool) * v
      BY <2>2 DEF Price
    <3>2. v \in Nat \ {0}
      BY <1>1 DEF AssumedShardVcpus
    <3> HIDE DEF v
    <3> QED
      BY <1>2, <1>3, <3>1, <3>2
  <2> QED
    BY <2>1, <2>2
<1> QED
  BY <1>3, <1>4

\* A missing price is between those of two machines of its size.
LEMMA PricesAreTypical == TypicalPrices
<1> SUFFICES ASSUME NEW pool \in SUBSET Pools, NEW p \in pool,
                    p.rate = 0, Rated(pool) # {}
             PROVE
        LET vcpu == IF p.vcpu > 0 THEN p.vcpu ELSE AssumedShardVcpus
            most == Averaged(pool) * vcpu
        IN  /\ Price(p, pool) > 0
            /\ Sized(pool) # {} => \E x, y \in Sized(pool) :
                /\ most * x.rate <= Price(p, pool) * x.vcpu
                /\ Price(p, pool) * y.vcpu <= most * y.rate
  BY DEF TypicalPrices
<1> DEFINE vcpu == IF p.vcpu > 0 THEN p.vcpu ELSE AssumedShardVcpus
           most == Averaged(pool) * vcpu
<1>1. Price(p, pool) > 0
  BY PricesAre
<1>2. ASSUME Sized(pool) # {}
      PROVE  \E x, y \in Sized(pool) :
                /\ most * x.rate <= Price(p, pool) * x.vcpu
                /\ Price(p, pool) * y.vcpu <= most * y.rate
  <2>1. PICK x \in Sized(pool), y \in Sized(pool) :
               /\ Averaged(pool) * Unit(pool)[x] <= PerVcpu(pool)
               /\ PerVcpu(pool) <= Averaged(pool) * Unit(pool)[y]
    BY <1>2, MeanIs
  <2>2. /\ x.vcpu \in Nat /\ Unit(pool)[x] \in Nat
        /\ x.rate = Unit(pool)[x] * x.vcpu
        /\ y.vcpu \in Nat /\ Unit(pool)[y] \in Nat
        /\ y.rate = Unit(pool)[y] * y.vcpu
        /\ Averaged(pool) \in Nat /\ PerVcpu(pool) \in Int
    BY <1>2, <2>1, MeanIs
  <2>3. vcpu \in Nat
    <3>1. p.vcpu \in Nat
      BY PoolsAssumption
    <3> QED
      BY <3>1 DEF AssumedShardVcpus
  <2>4. Price(p, pool) = PerVcpu(pool) * vcpu
    BY DEF Price
  <2> DEFINE k == Averaged(pool)
             m == PerVcpu(pool)
             u == Unit(pool)[x]
             w == Unit(pool)[y]
  <2> HIDE DEF vcpu, k, m, u, w
  <2>5. k * u \in Int /\ k * w \in Int
    BY <2>2 DEF k, u, w
  <2>6. \A a, b \in Int : \A c \in Nat, d \in Nat :
            a <= b => (a * c) * d <= (b * c) * d
    <3> TAKE a, b \in Int
    <3> TAKE c \in Nat, d \in Nat
    <3> HAVE a <= b
    <3>1. c * a <= c * b
      BY TimesGrows
    <3>2. c * a \in Int /\ c * b \in Int
      OBVIOUS
    <3>3. d * (c * a) <= d * (c * b)
      BY <3>1, <3>2, TimesGrows
    <3> QED
      BY <3>3
  <2>7. (k * u) * vcpu * x.vcpu <= (m * vcpu) * x.vcpu
    BY <2>1, <2>2, <2>3, <2>5, <2>6 DEF k, m, u
  <2>8. (m * vcpu) * y.vcpu <= (k * w) * vcpu * y.vcpu
    BY <2>1, <2>2, <2>3, <2>5, <2>6 DEF k, m, w
  <2>9. \A a, b, c, d \in Int : (a * b) * c * d = (a * c) * (b * d)
    OBVIOUS
  <2>10. /\ (k * u) * vcpu * x.vcpu = (k * vcpu) * x.rate
         /\ (k * w) * vcpu * y.vcpu = (k * vcpu) * y.rate
    BY <2>2, <2>3, <2>9 DEF k, u, w
  <2> QED
    BY <2>4, <2>7, <2>8, <2>10 DEF k, m
<1> QED
  BY <1>1, <1>2

\* One machine of a set of pools, by either key.
LEMMA MachineIs ==
    ASSUME NEW pool \in SUBSET Pools, pool # {},
           NEW n \in Nat, NEW timeout \in Nat
    PROVE  LET wall(p) == WallTime(p, n, timeout, Fixed, 0)
               wallRate == Averaged(pool) * Min({p.rate : p \in Rated(pool)})
               Cheapest(p) == <<(Price(p, pool) + wallRate) * wall(p),
                                wall(p), -p.tier, -p.vcpu>>
               Largest(p) == <<-p.tier, -p.vcpu, p.rate>>
           IN  /\ First(pool, Largest) \in pool
               /\ Rated(pool) # {} =>
                  /\ \A p \in pool :
                        wall(p) \in Int /\ Price(p, pool) \in Int
                  /\ wallRate \in Int
                  /\ \A r \in Rated(pool) :
                        (\A x \in Rated(pool) : r.rate <= x.rate)
                            => wallRate = Averaged(pool) * r.rate
                  /\ LET p == First(pool, Cheapest)
                     IN  /\ p \in pool
                         /\ \A q \in pool :
                               (Price(p, pool) + wallRate) * wall(p)
                                  <= (Price(q, pool) + wallRate) * wall(q)
<1> DEFINE wall(p) == WallTime(p, n, timeout, Fixed, 0)
           price(p) == Price(p, pool)
           wallRate == Averaged(pool) * Min({p.rate : p \in Rated(pool)})
           Cheapest(p) == <<(price(p) + wallRate) * wall(p), wall(p),
                            -p.tier, -p.vcpu>>
           Largest(p) == <<-p.tier, -p.vcpu, p.rate>>
<1>1. /\ IsFiniteSet(pool)
      /\ \A p \in pool : p.tier \in Nat /\ p.vcpu \in Nat /\ p.rate \in Nat
  BY PoolsAssumption, FS_Subset
<1>2. ASSUME NEW p \in pool PROVE wall(p) \in Int
  <2> DEFINE workers == Max({4, p.vcpu \div 2})
  <2>1. p.vcpu \div 2 \in Int
    BY <1>1
  <2>2. workers \in Nat \ {0}
    <3>1. workers = IF 4 <= p.vcpu \div 2 THEN p.vcpu \div 2 ELSE 4
      BY <2>1, OfTwo
    <3> QED
      BY <2>1, <3>1
  <2> HIDE DEF workers
  <2>3. (n + workers - 1) \div workers \in Nat
    <3>1. n + workers - 1 \in Nat
      BY <2>2
    <3> QED
      BY <2>2, <3>1, Division
  <2>4. wall(p) = Fixed + ((n + workers - 1) \div workers) * timeout
    BY DEF WallTime, CeilDiv, workers
  <2>5. Fixed \in Nat
    BY FanoutAssumption
  <2> DEFINE waves == (n + workers - 1) \div workers
  <2> HIDE DEF waves
  <2>6. waves * timeout \in Nat
    BY <2>3 DEF waves
  <2> QED
    BY <2>4, <2>5, <2>6 DEF waves
<1> HIDE DEF wall
<1>3. ASSUME Rated(pool) # {}
      PROVE  /\ wallRate \in Int /\ \A p \in pool : price(p) \in Int
             /\ \A r \in Rated(pool) :
                   (\A x \in Rated(pool) : r.rate <= x.rate)
                      => wallRate = Averaged(pool) * r.rate
  <2>1. Averaged(pool) \in Nat /\ \A p \in pool : price(p) \in Int
    BY <1>3, PricesAre
  <2> DEFINE least == Min({p.rate : p \in Rated(pool)})
  <2>2. PICK p \in Rated(pool) :
               p.rate = least /\ \A q \in Rated(pool) : p.rate <= q.rate
    BY <1>3, RatesAre
  <2>3. \A q \in Rated(pool) : q.rate \in Int
    BY <1>1 DEF Rated
  <2> HIDE DEF least
  <2>4. least \in Int
    BY <2>2, <2>3
  <2>5. \A r \in Rated(pool) :
           (\A x \in Rated(pool) : r.rate <= x.rate) => r.rate = least
    BY <2>2, <2>3
  <2>6. wallRate = Averaged(pool) * least
    BY DEF least
  <2> HIDE DEF wallRate, price
  <2>7. wallRate \in Int
    BY <2>1, <2>4, <2>6
  <2> QED
    BY <2>1, <2>5, <2>6, <2>7
<1> HIDE DEF wallRate, price
<1>4. First(pool, Largest) \in pool
  <2> DEFINE key == [p \in pool |-> Largest(p)]
  <2>1. key \in [pool -> [1 .. 3 -> Int]]
    BY <1>1
  <2> HIDE DEF key
  <2>2. \E p \in pool : \A q \in pool : ~Precedes(key[q], key[p])
    BY <1>1, <2>1, OneIsFirst
  <2>3. \E p \in pool : \A q \in pool : ~Precedes(Largest(q), Largest(p))
    BY <2>2 DEF key
  <2> QED
    BY <2>3 DEF First
<1> DEFINE best == First(pool, Cheapest)
<1>5. ASSUME Rated(pool) # {}
      PROVE  /\ best \in pool
             /\ \A q \in pool : ~Precedes(Cheapest(q), Cheapest(best))
  <2> DEFINE key == [p \in pool |-> Cheapest(p)]
  <2>1. key \in [pool -> [1 .. 4 -> Int]]
    <3>1. ASSUME NEW p \in pool
          PROVE  Cheapest(p) \in [1 .. 4 -> Int]
      <4>1. /\ wall(p) \in Int /\ price(p) + wallRate \in Int
            /\ -p.tier \in Int /\ -p.vcpu \in Int
        BY <1>1, <1>2, <1>3, <1>5
      <4>2. (price(p) + wallRate) * wall(p) \in Int
        BY <4>1
      <4> QED
        BY <4>1, <4>2
    <3> QED
      BY <3>1
  <2> HIDE DEF key
  <2>2. \E p \in pool : \A q \in pool : ~Precedes(key[q], key[p])
    BY <1>1, <2>1, OneIsFirst
  <2>3. \E p \in pool : \A q \in pool : ~Precedes(Cheapest(q), Cheapest(p))
    BY <2>2 DEF key
  <2> QED
    BY <2>3 DEF First
<1>6. ASSUME Rated(pool) # {}, NEW q \in pool
      PROVE  (price(best) + wallRate) * wall(best)
                <= (price(q) + wallRate) * wall(q)
  <2> HIDE DEF best
  <2> DEFINE x == Cheapest(q)
             y == Cheapest(best)
  <2>1. DOMAIN x = 1 .. 4 /\ x[1] = (price(q) + wallRate) * wall(q)
        /\ y[1] = (price(best) + wallRate) * wall(best)
    OBVIOUS
  <2>2. x[1] \in Int /\ y[1] \in Int
    <3>1. /\ wall(q) \in Int /\ price(q) + wallRate \in Int
          /\ wall(best) \in Int /\ price(best) + wallRate \in Int
      BY <1>1, <1>2, <1>3, <1>5, <1>6
    <3> QED
      BY <2>1, <3>1
  <2>3. ~Precedes(x, y)
    BY <1>5, <1>6
  <2> HIDE DEF x, y
  <2>4. ~(x[1] < y[1])
    BY <2>1, <2>3 DEF Precedes
  <2>5. y[1] <= x[1]
    BY <2>2, <2>4
  <2> QED
    BY <2>1, <2>5
<1> QED
  BY <1>2, <1>3, <1>4, <1>5, <1>6 DEF wall, wallRate, price

\* The machine that is taken fits, and is worth what it costs more.
LEMMA MachinesAreSensible == SensibleMachines
<1> SUFFICES ASSUME NEW listing \in SUBSET Pools,
                    NEW wedged \in SUBSET {p.name : p \in Pools},
                    NEW n \in {0, 1, MaxInput, 10 * MaxInput},
                    NEW timeout \in 0 .. 2
             PROVE
        LET listed == ListCpuProfiles(listing)
            fit == {p \in listed : p.name \notin wedged}
            sure == {p \in fit : p.tier > Low}
            pool == IF sure = {} THEN fit ELSE sure
            name == BestCpuHardware(listed, Blocklist({}, wedged), n, timeout,
                                    Fixed, 0)
            time(p) == WallTime(p, n, timeout, Fixed, 0)
        IN  IF fit = {} THEN name = DefaultCpu
            ELSE \E p \in pool :
                /\ p.name = name
                /\ n > 0 /\ timeout > 0 =>
                    \A q \in pool, r \in Rated(pool) :
                        (\A x \in Rated(pool) : r.rate <= x.rate) =>
                            Price(p, pool) * time(p) - Price(q, pool) * time(q)
                                <= Averaged(pool) * r.rate
                                    * (time(q) - time(p))
  BY DEF SensibleMachines
<1> DEFINE listed == ListCpuProfiles(listing)
           blocked == Blocklist({}, wedged)
           fit == {p \in listed : p.name \notin blocked}
           better == {p \in fit : p.tier >= Medium}
           pool == IF better # {} THEN better ELSE fit
           name == BestCpuHardware(listed, blocked, n, timeout, Fixed, 0)
           time(p) == WallTime(p, n, timeout, Fixed, 0)
           wallRate == Averaged(pool) * Min({p.rate : p \in Rated(pool)})
           Cheapest(p) == <<(Price(p, pool) + wallRate) * time(p),
                            time(p), -p.tier, -p.vcpu>>
           Largest(p) == <<-p.tier, -p.vcpu, p.rate>>
<1>1. n \in Nat /\ timeout \in Nat
  BY FanoutAssumption
<1>2. listed \in SUBSET Pools
  BY DEF ListCpuProfiles
<1> HIDE DEF listed
<1>3. name = IF fit = {} THEN DefaultCpu
             ELSE IF n > 0 /\ timeout > 0 /\ Rated(pool) # {}
                  THEN First(pool, Cheapest).name
                  ELSE First(pool, Largest).name
  BY DEF BestCpuHardware
\* What fits and what is sure to start, as the property has it.
<1> DEFINE sure == {p \in fit : p.tier > Low}
<1>4. pool = IF sure = {} THEN fit ELSE sure
  <2>1. better = sure
    BY <1>2, PoolsAssumption DEF Low, Medium
  <2> HIDE DEF better, sure
  <2> QED
    BY <2>1
<1>5. fit = {p \in listed : p.name \notin wedged}
  BY DEF Blocklist
<1> HIDE DEF blocked, name, sure
<1> SUFFICES IF fit = {} THEN name = DefaultCpu
             ELSE \E p \in pool :
                /\ p.name = name
                /\ n > 0 /\ timeout > 0 =>
                    \A q \in pool, r \in Rated(pool) :
                        (\A x \in Rated(pool) : r.rate <= x.rate) =>
                            Price(p, pool) * time(p) - Price(q, pool) * time(q)
                                <= Averaged(pool) * r.rate
                                    * (time(q) - time(p))
  <2> HIDE DEF fit, pool, time
  <2> QED
    BY <1>4, <1>5 DEF listed, name, blocked, sure, time
<1>6. CASE fit = {}
  <2> HIDE DEF fit
  <2> QED
    BY <1>3, <1>6
<1>7. CASE fit # {}
  <2>1. pool \in SUBSET Pools /\ pool # {}
    BY <1>2, <1>7
  <2> DEFINE least == First(pool, Cheapest)
             largest == First(pool, Largest)
  <2>2. /\ largest \in pool
        /\ Rated(pool) # {} =>
           /\ \A p \in pool : time(p) \in Int /\ Price(p, pool) \in Int
           /\ wallRate \in Int
           /\ \A r \in Rated(pool) :
                 (\A x \in Rated(pool) : r.rate <= x.rate)
                    => wallRate = Averaged(pool) * r.rate
           /\ least \in pool
           /\ \A q \in pool : (Price(least, pool) + wallRate) * time(least)
                                 <= (Price(q, pool) + wallRate) * time(q)
    <3> HIDE DEF pool
    <3> QED
      BY <1>1, <2>1, MachineIs
  <2>3. name = IF n > 0 /\ timeout > 0 /\ Rated(pool) # {}
               THEN least.name ELSE largest.name
    <3> HIDE DEF fit
    <3> QED
      BY <1>3, <1>7
  <2> HIDE DEF least, largest, pool, wallRate, time, fit
  <2> SUFFICES \E p \in pool :
                /\ p.name = name
                /\ n > 0 /\ timeout > 0 =>
                    \A q \in pool, r \in Rated(pool) :
                        (\A x \in Rated(pool) : r.rate <= x.rate) =>
                            Price(p, pool) * time(p) - Price(q, pool) * time(q)
                                <= Averaged(pool) * r.rate
                                    * (time(q) - time(p))
    BY <1>7
  <2>4. CASE ~(n > 0 /\ timeout > 0)
    BY <2>2, <2>3, <2>4
  <2>5. CASE n > 0 /\ timeout > 0 /\ Rated(pool) # {}
    <3>1. ASSUME NEW q \in pool, NEW r \in Rated(pool),
                 \A x \in Rated(pool) : r.rate <= x.rate
          PROVE  Price(least, pool) * time(least) - Price(q, pool) * time(q)
                    <= Averaged(pool) * r.rate * (time(q) - time(least))
      <4>1. Averaged(pool) * r.rate = wallRate
        BY <2>2, <2>5, <3>1
      <4>2. /\ (Price(least, pool) + wallRate) * time(least)
                  <= (Price(q, pool) + wallRate) * time(q)
            /\ time(least) \in Int /\ time(q) \in Int
            /\ Price(least, pool) \in Int /\ Price(q, pool) \in Int
            /\ wallRate \in Int
        BY <2>2, <2>5
      <4>3. \A a, b, c, s, t \in Int :
               (a + c) * s <= (b + c) * t => a * s - b * t <= c * (t - s)
        <5> TAKE a, b, c, s, t \in Int
        <5>1. /\ (a + c) * s = a * s + c * s
              /\ (b + c) * t = b * t + c * t
              /\ c * (t - s) = c * t - c * s
              /\ a * s \in Int /\ c * s \in Int /\ b * t \in Int
              /\ c * t \in Int
          OBVIOUS
        <5> QED
          BY <5>1
      <4> QED
        BY <4>1, <4>2, <4>3
    <3> QED
      BY <2>2, <2>3, <2>5, <3>1
  <2>6. CASE n > 0 /\ timeout > 0 /\ Rated(pool) = {}
    BY <2>2, <2>3, <2>6
  <2> QED
    BY <2>4, <2>5, <2>6
<1> QED
  BY <1>6, <1>7

-----------------------------------------------------------------------------
(* The files of a job.                                                     *)

\* The part of a tree that is kept.
LEMMA OnlyIs ==
    ASSUME NEW tree, NEW S
    PROVE  /\ DOMAIN Only(tree, S) = DOMAIN tree \cap S
           /\ \A p \in DOMAIN tree \cap S : Only(tree, S)[p] = tree[p]
BY DEF Only

\* What a job compiles is what was uploaded, the stale algorithm gone.
LEMMA SourcesAreTheSame == SameSources
<1> SUFFICES ASSUME NEW baked \in Trees, NEW root \in Trees,
                    NEW c \in {p.challenge : p \in DOMAIN root} \ {Shared}
             PROVE  LET tree(warmOn) ==
                            JobTree(SelectImage("", warmOn, "plain", FALSE),
                                    baked, root, c)
                    IN  /\ Only(tree(TRUE), DOMAIN tree(FALSE)) = tree(FALSE)
                        /\ AlgorithmOf(c, tree(TRUE)) = AlgorithmOf(c, root)
  BY DEF SameSources
<1> DEFINE plain == CreateWorkspace(root, c)
           upload == CreateWarmWorkspace(root, c)
           warm == OverlaidOnWarm(baked, upload, c)
           image(on) == SelectImage("", on, "plain", FALSE)
<1>1. JobTree(image(TRUE), baked, root, c) = warm
  BY DEF JobTree, SelectImage
<1>2. JobTree(image(FALSE), baked, root, c) = plain
  BY DEF JobTree, SelectImage
<1>3. /\ DOMAIN plain = {p \in DOMAIN root : p.challenge \in {Shared, c}}
      /\ \A p \in DOMAIN plain : plain[p] = root[p]
      /\ plain = [p \in DOMAIN plain |-> root[p]]
  BY DEF CreateWorkspace, Only
<1>4. /\ DOMAIN upload = {p \in DOMAIN root : p.part # "algorithm"
                                                 \/ p.challenge = c}
      /\ \A p \in DOMAIN upload : upload[p] = root[p]
  <2> DEFINE S == {p \in DOMAIN root : p.part # "algorithm"}
                     \cup AlgorithmOf(c, root)
  <2>1. upload = Only(root, S)
    BY DEF CreateWarmWorkspace
  <2>2. DOMAIN root \cap S = {p \in DOMAIN root : p.part # "algorithm"
                                                     \/ p.challenge = c}
    BY DEF AlgorithmOf
  <2> HIDE DEF S, upload
  <2>3. /\ DOMAIN upload = DOMAIN root \cap S
        /\ \A p \in DOMAIN root \cap S : upload[p] = root[p]
    BY <2>1, OnlyIs
  <2>4. \A p \in DOMAIN upload : upload[p] = root[p]
    BY <2>3
  <2>5. DOMAIN upload = {p \in DOMAIN root : p.part # "algorithm"
                                                 \/ p.challenge = c}
    BY <2>2, <2>3
  <2> QED
    BY <2>4, <2>5
<1> HIDE DEF plain, upload, image
<1>5. /\ DOMAIN warm = DOMAIN upload
                          \cup (DOMAIN baked \ AlgorithmOf(c, baked))
      /\ \A p \in DOMAIN upload : warm[p] = upload[p]
  BY DEF OverlaidOnWarm
<1> HIDE DEF warm
<1>6. DOMAIN plain \subseteq DOMAIN upload
  BY <1>3, <1>4, TreesAssumption
<1>7. Only(warm, DOMAIN plain) = plain
  <2>1. DOMAIN warm \cap DOMAIN plain = DOMAIN plain
    BY <1>5, <1>6
  <2>2. \A p \in DOMAIN plain : warm[p] = root[p]
    BY <1>4, <1>5, <1>6
  <2>3. Only(warm, DOMAIN plain) = [p \in DOMAIN plain |-> warm[p]]
    BY <2>1 DEF Only
  <2> QED
    BY <1>3, <2>2, <2>3
<1>8. AlgorithmOf(c, warm) = AlgorithmOf(c, root)
  BY <1>4, <1>5 DEF AlgorithmOf
<1> QED
  BY <1>1, <1>2, <1>7, <1>8 DEF image

\* All that a plan consists of.
LEMMA AllPlansAreRight ==
    /\ EvenPlans /\ CheapestCounts
    /\ SensibleMachines /\ TypicalPrices /\ SameSources
BY AllPlansAreEven, CountsAreCheapest, MachinesAreSensible, PricesAreTypical,
   SourcesAreTheSame

\* Every plan is right: each instance in one slice that a count and a start
\* describe, no machine idle and loads that differ by one at most, the cheapest
\* number of machines, a machine worth its price, and the uploaded sources.
THEOREM PlansRight == FanoutSpec => []PlansAreRight
<1>1. PlansAreRight
  BY AllPlansAreRight DEF PlansAreRight
<1> QED
  BY <1>1, PTL

-----------------------------------------------------------------------------
(* The records of a benchmark, whoever made them.                          *)

\* As many images as there are members.
LEMMA ImageCounts ==
    ASSUME NEW S, IsFiniteSet(S), NEW f,
           \A x, y \in S : f[x] = f[y] => x = y
    PROVE  Cardinality({f[x] : x \in S}) = Cardinality(S)
<1> DEFINE T == {f[x] : x \in S}
           g == [x \in S |-> f[x]]
<1>1. g \in Bijection(S, T)
  <2>1. /\ g \in [S -> T]
        /\ \A x, y \in S : g[x] = g[y] => x = y
        /\ \A t \in T : \E x \in S : g[x] = t
    OBVIOUS
  <2> HIDE DEF g, T
  <2> QED
    BY <2>1 DEF Bijection, Injection, Surjection, IsInjective
<1> HIDE DEF g, T
<1>2. Cardinality(T) = Cardinality(S)
  BY <1>1, FS_Bijection DEF ExistsBijection
<1> QED
  BY <1>2 DEF T

\* What the records f gives of the instances X sum up to, told from the
\* instances: q is the quality of each.
Summary(X, f, q) ==
    LET bad == {x \in X : ~f[x].feasible}
        on(t) == {x \in X : x[1] = t}
    IN  [feasible |-> bad = {} /\ X # {},
         solved |-> Cardinality(X),
         infeasible |-> Cardinality(bad),
         tracks |-> [t \in {x[1] : x \in X} |->
                        [sum |-> SumOf(q, on(t)),
                         count |-> Cardinality(on(t))]]]

\* An aggregate does not depend on who made the records.
LEMMA AggregateIs ==
    ASSUME NEW X, IsFiniteSet(X), NEW f, NEW q,
           \A x \in X : /\ f[x].instance = x
                        /\ q[x] = Quality(f[x]) /\ q[x] \in Int
    PROVE  Aggregate({f[x] : x \in X}) = Summary(X, f, q)
<1> DEFINE R == {f[x] : x \in X}
           bad == {x \in X : ~f[x].feasible}
           on(t) == {x \in X : x[1] = t}
           badR == {r \in R : ~r.feasible}
           onR(t) == {r \in R : r.instance[1] = t}
           p == [r \in R |-> Quality(r)]
<1>1. \A x, y \in X : f[x] = f[y] => x = y
  OBVIOUS
<1>2. badR = {f[x] : x \in bad} /\ (badR = {} <=> bad = {})
      /\ (R = {} <=> X = {})
  OBVIOUS
<1>3. \A t : onR(t) = {f[x] : x \in on(t)}
  <2> TAKE t
  <2>1. ASSUME NEW r \in onR(t) PROVE r \in {f[x] : x \in on(t)}
    OBVIOUS
  <2>2. ASSUME NEW x \in on(t) PROVE f[x] \in onR(t)
    OBVIOUS
  <2> QED
    BY <2>1, <2>2
<1>4. {r.instance[1] : r \in R} = {x[1] : x \in X}
  <2>1. ASSUME NEW r \in R PROVE \E x \in X : r.instance[1] = x[1]
    OBVIOUS
  <2>2. ASSUME NEW x \in X
        PROVE  f[x] \in R /\ f[x].instance[1] = x[1]
    OBVIOUS
  <2> HIDE DEF R
  <2> QED
    BY <2>1, <2>2
<1>5. ASSUME NEW P \in SUBSET X
      PROVE  Cardinality({f[x] : x \in P}) = Cardinality(P)
  <2>1. IsFiniteSet(P)
    BY FS_Subset
  <2> QED
    BY <1>1, <2>1, ImageCounts
<1>6. ASSUME NEW t
      PROVE  /\ MapThenSumSet(Quality, onR(t)) = SumOf(q, on(t))
             /\ Cardinality(onR(t)) = Cardinality(on(t))
  <2>1. on(t) \in SUBSET X /\ IsFiniteSet(on(t))
    BY FS_Subset
  <2>2. \A x \in on(t) : f[x] \in R /\ p[f[x]] = q[x] /\ q[x] \in Int
    OBVIOUS
  <2>3. \A r \in onR(t) : p[r] = Quality(r)
    OBVIOUS
  <2>4. IsFiniteSet(onR(t))
    <3> HIDE DEF on, onR
    <3>1. IsFiniteSet({f[x] : x \in on(t)})
      BY <2>1, ImageIsFinite
    <3> QED
      BY <1>3, <3>1
  <2> HIDE DEF on, onR, p
  <2>5. MapThenSumSet(Quality, onR(t)) = SumOf(p, onR(t))
    BY <2>3, <2>4, MapIsSum
  <2>6. SumOf(q, on(t)) = SumOf(p, {f[x] : x \in on(t)})
    <3>1. \A x, y \in on(t) : f[x] = f[y] => x = y
      BY <1>1, <2>1
    <3> QED
      BY <2>1, <2>2, <3>1, SumOfImage
  <2>7. Cardinality(onR(t)) = Cardinality(on(t))
    BY <1>3, <1>5, <2>1
  <2> QED
    BY <1>3, <2>5, <2>6, <2>7
<1>7. Cardinality(R) = Cardinality(X) /\ Cardinality(badR) = Cardinality(bad)
  <2>1. Cardinality(R) = Cardinality(X)
    BY <1>5
  <2>2. Cardinality({f[x] : x \in bad}) = Cardinality(bad)
    BY <1>5
  <2> QED
    BY <1>2, <2>1, <2>2
<1>8. Aggregate(R) =
         [feasible |-> badR = {} /\ R # {},
          solved |-> Cardinality(R),
          infeasible |-> Cardinality(badR),
          tracks |-> [t \in {r.instance[1] : r \in R} |->
                         [sum |-> MapThenSumSet(Quality, onR(t)),
                          count |-> Cardinality(onR(t))]]]
  BY DEF Aggregate
<1> DEFINE tracksR == [t \in {r.instance[1] : r \in R} |->
                         [sum |-> MapThenSumSet(Quality, onR(t)),
                          count |-> Cardinality(onR(t))]]
           tracks == [t \in {x[1] : x \in X} |->
                         [sum |-> SumOf(q, on(t)),
                          count |-> Cardinality(on(t))]]
<1>9. tracksR = tracks
  <2> HIDE DEF on, onR, R
  <2> QED
    BY <1>4, <1>6
<1>10. (badR = {} /\ R # {}) = (bad = {} /\ X # {})
  BY <1>2
<1> HIDE DEF tracksR, tracks, badR, bad
<1>11. Aggregate(R) = [feasible |-> badR = {} /\ R # {},
                       solved |-> Cardinality(R),
                       infeasible |-> Cardinality(badR),
                       tracks |-> tracksR]
  BY <1>8 DEF tracksR, badR
<1>12. Aggregate(R) = [feasible |-> bad = {} /\ X # {},
                       solved |-> Cardinality(X),
                       infeasible |-> Cardinality(bad),
                       tracks |-> tracks]
  <2> HIDE DEF R
  <2> QED
    BY <1>7, <1>9, <1>10, <1>11
<1> QED
  BY <1>12 DEF tracks, bad, Summary

\* Two sets of records of the same instances, the same but for their makers.
LEMMA SameAggregate ==
    ASSUME NEW X, IsFiniteSet(X), NEW f, NEW g, InfeasibleQuality \in Int,
           \A x \in X : /\ f[x].instance = x /\ g[x].instance = x
                        /\ f[x].feasible = g[x].feasible
                        /\ f[x].score = g[x].score /\ f[x].score \in Int
    PROVE  Aggregate({f[x] : x \in X}) = Aggregate({g[x] : x \in X})
<1> DEFINE q == [x \in X |-> Quality(f[x])]
<1>1. \A x \in X : q[x] = Quality(f[x]) /\ q[x] = Quality(g[x])
                   /\ q[x] \in Int
  BY DEF Quality
<1> HIDE DEF q
<1>2. Aggregate({f[x] : x \in X}) = Summary(X, f, q)
  BY <1>1, AggregateIs
<1>3. Aggregate({g[x] : x \in X}) = Summary(X, g, q)
  BY <1>1, AggregateIs
<1>4. Summary(X, f, q) = Summary(X, g, q)
  <2>1. {x \in X : ~f[x].feasible} = {x \in X : ~g[x].feasible}
    OBVIOUS
  <2> QED
    BY <2>1 DEF Summary
<1> QED
  BY <1>2, <1>3, <1>4

-----------------------------------------------------------------------------
(* The plan a benchmark is run by, to its score.                           *)

\* A benchmark that runs, or ran to the end, is cut the way the plan says, on
\* some number of machines; one that has not begun is not cut.
Cut(a) ==
    /\ Total(Work[a]) > 0
    /\ \E m \in 1 .. Cap :
          LET windows == PlanShards(Work[a], m)
          IN  \A k \in 1 .. Cap :
                 plan[<<a, k>>] = IF k \in DOMAIN windows THEN windows[k]
                                  ELSE {}

Planned ==
    /\ \A a \in Agents :
          /\ bench[a] = "idle" => \A k \in 1 .. Cap : plan[<<a, k>>] = {}
          /\ bench[a] \in {"running", "scored"} => Cut(a)
          /\ bench[a] = "scored" =>
                \A s \in ShardsOf(a) : thread[s] = "done"
    /\ \A s \in Threads : thread[s] \in {"ok", "done"} => job[s] = "finished"

\* A step that begins and ends no benchmark, and moves no thread that is done.
LEMMA PlanStays ==
    ASSUME Planned, UNCHANGED <<bench, plan>>,
           \A s \in Threads : thread[s] = "done" => thread'[s] = "done",
           \A s \in Threads :
              thread'[s] \in {"ok", "done"} => job'[s] = "finished"
    PROVE  Planned'
<1>1. \A a \in Agents :
         /\ bench'[a] = "idle" => \A k \in 1 .. Cap : plan'[<<a, k>>] = {}
         /\ bench'[a] \in {"running", "scored"} => Cut(a)'
  BY DEF Planned, Cut
<1>2. ASSUME NEW a \in Agents, bench'[a] = "scored", NEW s \in ShardsOf(a)'
      PROVE  thread'[s] = "done"
  <2>1. s \in ShardsOf(a) /\ s \in Threads
    BY <1>2 DEF ShardsOf, ThreadsOf, Threads
  <2> QED
    BY <1>2, <2>1 DEF Planned
<1> QED
  BY <1>1, <1>2 DEF Planned

\* Every step of a shard is one of those.
LEMMA ShardPlanStays ==
    ASSUME Fanned, Planned, NEW s \in Threads, ShardStep(s) \/ DeployHangs(s)
    PROVE  Planned'
<1>1. /\ thread \in [Threads -> Places] /\ job \in [Threads -> Statuses]
  BY DEF Fanned, FanTypes
<1>2. \A r \in Threads : thread[r] \in {"ok", "done"} => job[r] = "finished"
  BY DEF Planned
\* The thread of s goes to a place, and its job to a status.
<1>3. ASSUME NEW place, NEW status,
             thread' = [thread EXCEPT ![s] = place],
             job' = [job EXCEPT ![s] = status],
             thread[s] # "done",
             place \in {"ok", "done"} => status = "finished",
             UNCHANGED <<bench, plan>>
      PROVE  Planned'
  <2>1. \A r \in Threads : \/ r = s /\ thread'[r] = place /\ job'[r] = status
                           \/ thread'[r] = thread[r] /\ job'[r] = job[r]
    BY <1>1, <1>3
  <2>2. \A r \in Threads : thread[r] = "done" => thread'[r] = "done"
    BY <1>1, <1>3
  <2>3. \A r \in Threads :
           thread'[r] \in {"ok", "done"} => job'[r] = "finished"
    BY <1>2, <1>3, <2>1
  <2> QED
    BY <1>3, <2>2, <2>3, PlanStays
<1>4. /\ job = [job EXCEPT ![s] = job[s]]
      /\ thread = [thread EXCEPT ![s] = thread[s]]
  BY <1>1
<1>5. CASE JoinLine(s)
  BY <1>2, <1>5, PlanStays DEF JoinLine
<1>6. CASE LeaveSlot(s)
  <2>1. /\ thread[s] \in {"ok", "error"}
        /\ \E place \in {"done", "failed"} :
              /\ place = "done" => thread[s] = "ok"
              /\ thread' = [thread EXCEPT ![s] = place]
        /\ UNCHANGED <<bench, plan, job>>
    BY <1>6 DEF LeaveSlot, Goes
  <2> QED
    BY <1>2, <1>3, <1>4, <2>1
<1>7. CASE ThrottledDeploy(s)
  <2>1. /\ thread[s] \in {"deploy", "redeploy"}
        /\ \E place \in {"error", thread[s]} :
              thread' = [thread EXCEPT ![s] = place]
        /\ UNCHANGED <<bench, plan, job>>
    BY <1>4, <1>7 DEF ThrottledDeploy, Deploying, Goes
  <2> QED
    BY <1>3, <1>4, <2>1
<1>8. CASE RefusedDeploy(s)
  BY <1>3, <1>4, <1>8 DEF RefusedDeploy, Deploying, Goes
<1>9. CASE StaleCli(s)
  <2>1. /\ thread[s] = "deploy"
        /\ \E place \in {"redeploy", "error"} :
              thread' = [thread EXCEPT ![s] = place]
        /\ UNCHANGED <<bench, plan, job>>
    BY <1>9 DEF StaleCli, Goes
  <2> QED
    BY <1>3, <1>4, <2>1
<1>10. CASE Deployed(s)
  <2>1. /\ thread[s] \in {"deploy", "redeploy"}
        /\ \E place \in {"poll", "error"}, status \in {"queued", "cancelled"} :
              /\ thread' = [thread EXCEPT ![s] = place]
              /\ job' = [job EXCEPT ![s] = status]
        /\ UNCHANGED <<bench, plan>>
    BY <1>10 DEF Deployed, Deploying, Goes, JobBecomes
  <2> QED
    BY <1>3, <2>1
<1>11. CASE Completed(s)
  <2>1. /\ thread[s] = "poll" /\ job[s] = "finished"
        /\ \E place \in {"ok", "error"} :
              thread' = [thread EXCEPT ![s] = place]
        /\ UNCHANGED <<bench, plan, job>>
    BY <1>11 DEF Completed, Goes
  <2> QED
    BY <1>3, <1>4, <2>1
<1>12. CASE JobFailed(s)
  BY <1>3, <1>4, <1>12 DEF JobFailed, Goes
<1>13. ASSUME thread[s] = "poll", Goes(s, "error"),
              Cancel(s) \/ UNCHANGED job, UNCHANGED <<bench, plan>>
       PROVE  Planned'
  <2>1. \E status : job' = [job EXCEPT ![s] = status]
    BY <1>4, <1>13 DEF Cancel, JobBecomes
  <2> QED
    BY <1>3, <1>13, <2>1 DEF Goes
<1>14. CASE GiveUpJob(s)
  BY <1>13, <1>14 DEF GiveUpJob
<1>15. CASE PollTimeout(s)
  BY <1>13, <1>15 DEF PollTimeout
<1>16. CASE DeployHangs(s)
  <2>1. /\ thread[s] \in {"deploy", "redeploy"}
        /\ thread' = [thread EXCEPT ![s] = "hung"]
        /\ \E status \in {job[s], "queued"} :
              job' = [job EXCEPT ![s] = status]
        /\ UNCHANGED <<bench, plan>>
    BY <1>4, <1>16 DEF DeployHangs, Deploying, Goes, JobBecomes
  <2> QED
    BY <1>3, <2>1
<1> QED
  BY <1>5, <1>6, <1>7, <1>8, <1>9, <1>10, <1>11, <1>12, <1>14, <1>15, <1>16
  DEF ShardStep

\* A benchmark is cut when it starts, and scored when every shard is done.
LEMMA BenchPlans ==
    ASSUME Fanned, Planned, NEW a \in Agents,
           StartBenchmark(a) \/ Merge(a) \/ AgentDies(a)
    PROVE  Planned'
<1>1. /\ bench \in [Agents -> Ends] /\ thread \in [Threads -> Places]
      /\ \A b \in Agents, k \in 1 .. Cap :
            /\ <<b, k>> \in Threads
            /\ bench[b] = "idle" => thread[<<b, k>>] = "none"
  BY DEF Fanned, FanTypes, Unrented, Threads
<1>2. \A s \in Threads : /\ s[1] \in Agents /\ s[2] \in 1 .. Cap
                         /\ s = <<s[1], s[2]>>
  BY DEF Threads
<1>3. UNCHANGED job
  BY DEF StartBenchmark, Merge, AgentDies
<1>4. ASSUME NEW b,
             bench' = [bench EXCEPT ![a] = b],
             b # "idle",
             b \in {"running", "scored"} => Cut(a)',
             b = "scored" => \A s \in ShardsOf(a)' : thread'[s] = "done",
             \A s \in Threads : s[1] # a => plan'[s] = plan[s]
                                            /\ thread'[s] = thread[s],
             \A s \in Threads : thread'[s] \in {"ok", "done"} =>
                                   thread[s] = thread'[s]
      PROVE  Planned'
  <2>1. /\ bench'[a] = b
        /\ \A c \in Agents : c # a => bench'[c] = bench[c]
    BY <1>1, <1>4
  <2>2. ASSUME NEW c \in Agents, c # a
        PROVE  /\ \A k \in 1 .. Cap : plan'[<<c, k>>] = plan[<<c, k>>]
               /\ \A k \in 1 .. Cap : thread'[<<c, k>>] = thread[<<c, k>>]
    BY <1>1, <1>4, <2>2
  <2>3. ASSUME NEW c \in Agents
        PROVE  /\ bench'[c] = "idle" =>
                     \A k \in 1 .. Cap : plan'[<<c, k>>] = {}
               /\ bench'[c] \in {"running", "scored"} => Cut(c)'
    <3>1. CASE c = a
      BY <1>4, <2>1, <3>1
    <3>2. CASE c # a
      BY <2>1, <2>2, <3>2 DEF Planned, Cut
    <3> QED
      BY <3>1, <3>2
  <2>4. ASSUME NEW c \in Agents, bench'[c] = "scored", NEW s \in ShardsOf(c)'
        PROVE  thread'[s] = "done"
    <3>1. CASE c = a
      BY <1>4, <2>1, <2>4, <3>1
    <3>2. CASE c # a
      <4>1. s \in Threads /\ s[1] = c /\ plan'[s] # {}
        BY <2>4 DEF ShardsOf, ThreadsOf, Threads
      <4>2. s \in ShardsOf(c)
        BY <1>4, <2>4, <3>2, <4>1 DEF ShardsOf, ThreadsOf, Threads
      <4> QED
        BY <1>4, <2>1, <2>4, <3>2, <4>1, <4>2 DEF Planned
    <3> QED
      BY <3>1, <3>2
  <2>5. \A s \in Threads :
           thread'[s] \in {"ok", "done"} => job'[s] = "finished"
    BY <1>3, <1>4 DEF Planned
  <2> QED
    BY <2>3, <2>4, <2>5 DEF Planned
<1>5. CASE StartBenchmark(a)
  <2> DEFINE most == Min({Cap, Total(Work[a])})
             windows(timeout, waves) ==
                PlanShards(Work[a], Worthwhile(timeout, waves, Fixed, most))
  <2>1. bench[a] = "idle" /\ \A s \in Threads : s[1] = a => plan[s] = {}
    BY <1>1, <1>2, <1>5 DEF StartBenchmark, Planned
  <2>2. \/ /\ bench' = [bench EXCEPT ![a] = "failed"]
           /\ UNCHANGED <<plan, thread>>
        \/ /\ Total(Work[a]) > 0
           /\ bench' = [bench EXCEPT ![a] = "running"]
           /\ \E timeout \in Timeouts, waves \in 1 .. Total(Work[a]) :
              LET shards == {a} \X DOMAIN windows(timeout, waves)
              IN  /\ plan' = [s \in Threads |->
                        IF s \in shards THEN windows(timeout, waves)[s[2]]
                        ELSE plan[s]]
                  /\ thread' = [s \in Threads |->
                        IF s \in shards THEN "line" ELSE thread[s]]
    BY <1>5 DEF StartBenchmark
  <2>3. CASE bench' = [bench EXCEPT ![a] = "failed"]
             /\ UNCHANGED <<plan, thread>>
    BY <1>4, <2>3
  <2>4. ASSUME Total(Work[a]) > 0, NEW timeout \in Timeouts,
               NEW waves \in 1 .. Total(Work[a]), NEW w,
               w = windows(timeout, waves),
               bench' = [bench EXCEPT ![a] = "running"],
               plan' = [s \in Threads |-> IF s \in {a} \X DOMAIN w
                                          THEN w[s[2]] ELSE plan[s]],
               thread' = [s \in Threads |-> IF s \in {a} \X DOMAIN w
                                            THEN "line" ELSE thread[s]]
        PROVE  Planned'
    <3>1. PICK m \in 1 .. Cap : w = PlanShards(Work[a], m)
      <4>1. Work[a] \in Seq(Nat) /\ Cap \in Nat \ {0}
            /\ timeout \in Nat /\ Fixed \in Nat
        BY FanoutAssumption
      <4>2. Total(Work[a]) \in Nat
        BY <4>1, PlacesAre
      <4>3. most \in 1 .. Cap
        <5>1. Cap \in Int /\ Total(Work[a]) \in Int
          BY <4>1, <4>2
        <5>2. most = IF Cap <= Total(Work[a]) THEN Cap ELSE Total(Work[a])
          BY <5>1, OfTwo
        <5> HIDE DEF most
        <5> QED
          BY <2>4, <4>1, <4>2, <5>2
      <4> HIDE DEF most
      <4>4. Worthwhile(timeout, waves, Fixed, most) \in 1 .. most
        <5>1. waves \in Nat \ {0} /\ most \in Nat \ {0}
          BY <4>1, <4>2, <4>3
        <5> QED
          BY <4>1, <5>1, WorthwhileFits
      <4>5. Worthwhile(timeout, waves, Fixed, most) \in 1 .. Cap
        BY <4>1, <4>3, <4>4
      <4> QED
        BY <2>4, <4>5
    <3> HIDE DEF windows
    <3>2. \A k \in 1 .. Cap :
             plan'[<<a, k>>] = IF k \in DOMAIN w THEN w[k] ELSE {}
      <4>1. ASSUME NEW k \in 1 .. Cap
            PROVE  plan'[<<a, k>>] = IF k \in DOMAIN w THEN w[k] ELSE {}
        <5>1. <<a, k>> \in Threads /\ plan[<<a, k>>] = {}
              /\ <<a, k>>[1] = a /\ <<a, k>>[2] = k
              /\ (<<a, k>> \in {a} \X DOMAIN w <=> k \in DOMAIN w)
          BY <1>1, <2>1
        <5> QED
          BY <2>4, <5>1
      <4> QED
        BY <4>1
    <3>3. Cut(a)'
      <4> DEFINE q == PlanShards(Work[a], m)
      <4>1. \A k \in 1 .. Cap :
               plan'[<<a, k>>] = IF k \in DOMAIN q THEN q[k] ELSE {}
        BY <3>1, <3>2
      <4>2. Total(Work[a]) > 0
        BY <2>4
      <4> QED
        BY <4>1, <4>2 DEF Cut
    <3>4. \A s \in Threads : s \in {a} \X DOMAIN w => s[1] = a
      OBVIOUS
    <3>5. \A s \in Threads : s[1] # a => plan'[s] = plan[s]
                                         /\ thread'[s] = thread[s]
      BY <2>4, <3>4
    <3>6. \A s \in Threads : thread'[s] \in {"ok", "done"} =>
                                thread[s] = thread'[s]
      BY <2>4
    <3> QED
      BY <1>4, <2>4, <3>3, <3>5, <3>6
  <2> HIDE DEF windows
  <2> QED
    BY <2>2, <2>3, <2>4
<1>6. CASE Merge(a)
  <2>1. /\ bench[a] = "running" /\ UNCHANGED <<plan, thread>>
        /\ \E b \in {"scored", "failed"} :
              /\ bench' = [bench EXCEPT ![a] = b]
              /\ b = "scored" => Succeeded(a)
    BY <1>6 DEF Merge
  <2>2. Cut(a)' /\ ShardsOf(a)' = ShardsOf(a)
    BY <2>1 DEF Planned, Cut, ShardsOf
  <2> QED
    BY <1>4, <2>1, <2>2 DEF Succeeded
<1>7. CASE AgentDies(a)
  <2>1. /\ UNCHANGED plan
        /\ bench' = [bench EXCEPT ![a] = "dead"]
        /\ thread' = [s \in Threads |-> IF s[1] = a THEN "none" ELSE thread[s]]
    BY <1>7 DEF AgentDies
  <2> QED
    BY <1>4, <2>1
<1> QED
  BY <1>5, <1>6, <1>7

\* Every benchmark is cut as planned, whatever its threads come to.
LEMMA PlannedHolds == FanoutSpec => []Planned
<1>1. FanoutInit => Planned
  <2> SUFFICES ASSUME FanoutInit PROVE Planned
    OBVIOUS
  <2>1. \A a \in Agents, k \in 1 .. Cap : <<a, k>> \in Threads
    BY DEF Threads
  <2> QED
    BY <2>1 DEF FanoutInit, Planned
<1>2. Fanned /\ Planned /\ [FanoutNext]_fanoutVars => Planned'
  <2> SUFFICES ASSUME Fanned, Planned, [FanoutNext]_fanoutVars
               PROVE  Planned'
    OBVIOUS
  <2>1. CASE UNCHANGED fanoutVars
    <3>1. UNCHANGED <<bench, plan, thread, job>>
      BY <2>1 DEF fanoutVars
    <3> QED
      BY <3>1, PlanStays DEF Planned
  <2>2. CASE EnterSlot
    <3>1. /\ line # <<>> /\ UNCHANGED <<bench, plan, job>>
          /\ thread' = [thread EXCEPT ![Head(line)] = "deploy"]
      BY <2>2 DEF EnterSlot, Pool!Admit, Goes
    <3>2. /\ line \in Seq(Threads) /\ thread \in [Threads -> Places]
          /\ \A i \in 1 .. Len(line) : thread[line[i]] = "line"
      BY DEF Fanned, FanTypes, Leased
    <3>3. Head(line) = line[1] /\ 1 \in 1 .. Len(line)
      BY <3>1, <3>2
    <3>4. thread[Head(line)] = "line"
      BY <3>2, <3>3
    <3>5. \A s \in Threads : \/ thread'[s] = "deploy" /\ s = Head(line)
                             \/ thread'[s] = thread[s]
      BY <3>1, <3>2
    <3>6. \A s \in Threads : thread[s] = "done" => thread'[s] = "done"
      BY <3>4, <3>5
    <3>7. \A s \in Threads :
             thread'[s] \in {"ok", "done"} => job'[s] = "finished"
      BY <3>1, <3>5 DEF Planned
    <3> QED
      BY <3>1, <3>6, <3>7, PlanStays
  <2>3. ASSUME NEW s \in Threads, JobMoves(s)
        PROVE  Planned'
    <3>1. /\ job[s] \in {"queued", "running"}
          /\ \E status : job' = [job EXCEPT ![s] = status]
          /\ UNCHANGED <<bench, plan, thread>>
      BY <2>3 DEF JobMoves, JobBecomes
    <3>2. job \in [Threads -> Statuses]
      BY DEF Fanned, FanTypes
    <3>3. \A r \in Threads : r # s => job'[r] = job[r]
      BY <3>1, <3>2
    <3>4. \A r \in Threads :
             thread'[r] \in {"ok", "done"} => job'[r] = "finished"
      BY <3>1, <3>3 DEF Planned
    <3> QED
      BY <3>1, <3>4, PlanStays
  <2>4. ASSUME NEW a \in Agents
        PROVE  ThreadsOf(a) \subseteq Threads
    BY DEF ThreadsOf, Threads
  <2> QED
    BY <2>1, <2>2, <2>3, <2>4, BenchPlans, ShardPlanStays
    DEF FanoutNext, AgentStep
<1> QED
  BY <1>1, <1>2, FannedHolds, PTL DEF FanoutSpec

\* The shard an instance is in.
LEMMA ShardOfEach ==
    ASSUME NEW n \in Seq(Nat), Total(n) > 0, NEW m \in Nat \ {0}
    PROVE  LET windows == PlanShards(n, m)
           IN  /\ DOMAIN windows \subseteq 1 .. m
               /\ \A k \in DOMAIN windows : windows[k] \subseteq Instances(n)
               /\ \A x \in Instances(n) :
                     \E k \in DOMAIN windows :
                        \A l \in DOMAIN windows : x \in windows[l] <=> l = k
<1> DEFINE windows == PlanShards(n, m)
           in(x) == {k \in DOMAIN windows : x \in windows[k]}
<1>1. \A x \in Instances(n) : Cardinality(in(x)) = 1
  BY PlansAreEven
<1>2. /\ DOMAIN windows \subseteq 1 .. m
      /\ \A k \in DOMAIN windows : windows[k] \subseteq Instances(n)
  <2>1. PICK c, sizes, b :
              /\ c \in Nat \ {0}
              /\ c <= m
              /\ Begins(b, sizes, c, Total(n))
              /\ \A k, l \in 1 .. c : sizes[k] <= sizes[l] + 1
              /\ windows = [k \in 1 .. c |-> Share(n, b[k], b[k + 1])]
    BY PlanIs
  <2> HIDE DEF windows
  <2> QED
    BY <2>1 DEF Share
<1> HIDE DEF windows
<1>3. ASSUME NEW x \in Instances(n)
      PROVE  \E k \in DOMAIN windows :
                \A l \in DOMAIN windows : x \in windows[l] <=> l = k
  <2>1. IsFiniteSet(in(x))
    <3>1. IsFiniteSet(1 .. m)
      BY FS_Interval
    <3> QED
      BY <1>2, <3>1, FS_Subset
  <2>2. \E k : in(x) = {k}
    <3> HIDE DEF in
    <3> QED
      BY <1>1, <2>1, FS_Singleton
  <2> QED
    BY <2>2
<1> QED
  BY <1>2, <1>3 DEF windows

\* The records of one shard's job are those of its window.
Records(id, window, run) == {RunInstance(id, x, run[x]) : x \in window}

\* That is what its script gives.
LEMMA JobRecords ==
    ASSUME NEW id, NEW window, window # {}, NEW run,
           Window(ShardJob(window).counts, ShardJob(window).starts) = window
    PROVE  JobScript(id, ShardJob(window), FALSE, run).results
              = Records(id, window, run)
<1> DEFINE j == ShardJob(window)
           output == JobScript(id, j, FALSE, run)
           records == HarnessMain(id, j.counts, j.starts, FALSE, run)
<1>1. ~NothingToRun(j.counts, j.starts)
  BY DEF NothingToRun
<1>2. records = Records(id, window, run)
  BY DEF HarnessMain, Records
<1>3. output = [ok |-> TRUE, results |-> records]
  BY <1>1 DEF JobScript
<1> HIDE DEF records, output
<1>4. output.results = Records(id, window, run)
  BY <1>2, <1>3
<1> QED
  BY <1>4 DEF output

\* The merged records of the windows are those of all the instances.
LEMMA ScoreOfCut ==
    ASSUME Planned, NEW a \in Agents, bench[a] = "scored",
           NEW run \in [Instances(Work[a]) -> Outcomes]
    PROVE  MergeShardBenchmarks(Benches(a, run)) =
              Aggregate(HarnessMain(a, Work[a], <<>>, FALSE, run))
<1> DEFINE n == Work[a]
           X == Instances(n)
<1>1. n \in Seq(Nat)
  BY FanoutAssumption
<1>2. PICK m \in 1 .. Cap :
         \A k \in 1 .. Cap : plan[<<a, k>>] =
            IF k \in DOMAIN PlanShards(n, m) THEN PlanShards(n, m)[k] ELSE {}
  BY DEF Planned, Cut
<1> DEFINE w == PlanShards(n, m)
           D == DOMAIN w
<1>3. Total(n) > 0 /\ m \in Nat \ {0} /\ Cap \in Nat /\ m <= Cap
  BY FanoutAssumption DEF Planned, Cut
<1>4. /\ D \subseteq 1 .. m
      /\ \A k \in D : w[k] \subseteq X
      /\ \A x \in X : \E k \in D : \A l \in D : x \in w[l] <=> l = k
  BY <1>1, <1>3, ShardOfEach
<1>5. \A k \in D :
         /\ w[k] # {}
         /\ Window(ShardJob(w[k]).counts, ShardJob(w[k]).starts) = w[k]
  BY <1>1, <1>3, PlansAreEven
<1>6. \A k \in 1 .. Cap : plan[<<a, k>>] = IF k \in D THEN w[k] ELSE {}
  BY <1>2
<1> HIDE DEF w, D
<1>7. {s \in ShardsOf(a) : thread[s] = "done" /\ job[s] = "finished"}
         = {<<a, k>> : k \in D}
  <2>1. \A s \in ShardsOf(a) : thread[s] = "done" /\ job[s] = "finished"
    BY DEF Planned, ShardsOf, ThreadsOf, Threads
  <2>2. ASSUME NEW s \in ShardsOf(a)
        PROVE  s \in {<<a, k>> : k \in D}
    <3>1. s[2] \in 1 .. Cap /\ s = <<a, s[2]>> /\ plan[s] # {}
      BY DEF ShardsOf, ThreadsOf
    <3> QED
      BY <1>6, <3>1
  <2>3. ASSUME NEW k \in D
        PROVE  <<a, k>> \in ShardsOf(a)
    <3>1. k \in 1 .. Cap
      BY <1>3, <1>4
    <3> QED
      BY <1>5, <1>6, <3>1 DEF ShardsOf, ThreadsOf
  <2> QED
    BY <2>1, <2>2, <2>3
<1> DEFINE shard(x) == CHOOSE k \in D : x \in w[k]
           f == [x \in X |-> RunInstance(<<a, shard(x)>>, x, run[x])]
           g == [x \in X |-> RunInstance(a, x, run[x])]
<1>8. \A x \in X : /\ shard(x) \in D /\ x \in w[shard(x)]
                   /\ \A k \in D : x \in w[k] => k = shard(x)
  BY <1>4
<1> HIDE DEF shard
<1>9. Benches(a, run) =
         {JobScript(s, ShardJob(plan[s]), FALSE, run).results
             : s \in {<<a, k>> : k \in D}}
  BY <1>7 DEF Benches
<1>10. ASSUME NEW k \in D
       PROVE  JobScript(<<a, k>>, ShardJob(plan[<<a, k>>]), FALSE, run).results
                 = {f[x] : x \in w[k]}
  <2>1. k \in 1 .. Cap
    BY <1>3, <1>4
  <2>2. plan[<<a, k>>] = w[k]
    BY <1>6, <2>1
  <2>3. JobScript(<<a, k>>, ShardJob(w[k]), FALSE, run).results
           = {RunInstance(<<a, k>>, x, run[x]) : x \in w[k]}
    <3> DEFINE v == w[k]
    <3>1. v # {} /\ Window(ShardJob(v).counts, ShardJob(v).starts) = v
      BY <1>5
    <3> HIDE DEF v
    <3>2. JobScript(<<a, k>>, ShardJob(v), FALSE, run).results
             = Records(<<a, k>>, v, run)
      BY <3>1, JobRecords
    <3> QED
      BY <3>2 DEF v, Records
  <2>4. \A x \in w[k] : f[x] = RunInstance(<<a, k>>, x, run[x])
    BY <1>4, <1>8
  <2> HIDE DEF f
  <2>5. {RunInstance(<<a, k>>, x, run[x]) : x \in w[k]} = {f[x] : x \in w[k]}
    BY <2>4
  <2> QED
    BY <2>2, <2>3, <2>5
<1>11. Benches(a, run) = {{f[x] : x \in w[k]} : k \in D}
  <2> HIDE DEF f
  <2>1. Benches(a, run) =
           {JobScript(<<a, k>>, ShardJob(plan[<<a, k>>]), FALSE, run).results
               : k \in D}
    BY <1>9
  <2> QED
    BY <1>10, <2>1
<1>12. UNION Benches(a, run) = {f[x] : x \in X}
  <2> HIDE DEF f, X
  <2>1. ASSUME NEW r \in UNION Benches(a, run)
        PROVE  r \in {f[x] : x \in X}
    <3>1. PICK k \in D : r \in {f[x] : x \in w[k]}
      BY <1>11
    <3> QED
      BY <1>4, <3>1
  <2>2. ASSUME NEW x \in X
        PROVE  f[x] \in UNION Benches(a, run)
    <3>1. f[x] \in {f[y] : y \in w[shard(x)]} /\ shard(x) \in D
      BY <1>8
    <3> QED
      BY <1>11, <3>1
  <2> QED
    BY <2>1, <2>2
<1>13. HarnessMain(a, n, <<>>, FALSE, run) = {g[x] : x \in X}
  BY DEF HarnessMain, Instances
<1>14. IsFiniteSet(X)
  <2>1. Total(n) \in Nat /\ \A x \in X : Place(n, x) \in 0 .. Total(n) - 1
    BY <1>1, PlacesAre
  <2>2. Share(n, 0, Total(n)) = X
    BY <2>1 DEF Share
  <2>3. IsFiniteSet(Share(n, 0, Total(n)))
    BY <1>1, <2>1, ShareCounts
  <2> QED
    BY <2>2, <2>3
<1>15. \A x \in X : /\ f[x].instance = x /\ g[x].instance = x
                    /\ f[x].feasible = g[x].feasible
                    /\ f[x].score = g[x].score /\ f[x].score \in Int
  <2> SUFFICES ASSUME NEW x \in X
               PROVE  /\ f[x].instance = x /\ g[x].instance = x
                      /\ f[x].feasible = g[x].feasible
                      /\ f[x].score = g[x].score /\ f[x].score \in Int
    OBVIOUS
  <2>1. run[x].score \in Int
    BY FanoutAssumption
  <2> QED
    BY <2>1 DEF RunInstance
<1> HIDE DEF f, g, X
<1>16. Aggregate({f[x] : x \in X}) = Aggregate({g[x] : x \in X})
  <2>1. InfeasibleQuality \in Int
    BY FanoutAssumption
  <2> QED
    BY <1>14, <1>15, <2>1, SameAggregate
<1> QED
  BY <1>12, <1>13, <1>16 DEF MergeShardBenchmarks

\* A score is the score of the benchmark that was not split: for any work, any
\* cap, any estimate of the solving time and any result of each instance, the
\* merged records of the shards sum up to those of one run of them all.
THEOREM ScoreWhole == FanoutSpec => []ScoreIsWhole
<1>1. Planned => ScoreIsWhole
  BY ScoreOfCut DEF ScoreIsWhole
<1> QED
  BY <1>1, PlannedHolds, PTL
=============================================================================
