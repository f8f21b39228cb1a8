------------------------------ MODULE SlotQueue ------------------------------
(***************************************************************************)
(* What the C3 slot pool promises (scripts/c3_pool.py, first paragraph of  *)
(* "Model"): `Size' slots shared by all benchmark shards of a fleet; when  *)
(* they are taken, shards wait in one line, and a freed slot goes to the   *)
(* longest waiter.  A process that dies takes its shards out of the line   *)
(* and out of their slots.                                                 *)
(***************************************************************************)
EXTENDS Naturals, Sequences, FiniteSets, SequencesExt, Ranks

CONSTANTS Clients, Size

VARIABLES line, inside

Init == line = <<>> /\ inside = {}

Arrive(c) ==
    /\ c \notin inside \cup ToSet(line)
    /\ line' = Append(line, c)
    /\ UNCHANGED inside

Admit ==
    /\ line # <<>>
    /\ Cardinality(inside) < Size
    /\ inside' = inside \cup {Head(line)}
    /\ line' = Tail(line)

\* Who stays keeps his turn.
Without(gone) ==
    LET staying == {i \in 1 .. Len(line) : line[i] \notin gone}
        place == InOrder(staying, [i \in staying |-> i])
    IN  [k \in 1 .. Cardinality(staying) |-> line[place[k]]]

Depart(gone) ==
    /\ gone # {}
    /\ inside' = inside \ gone
    /\ line' = Without(gone)

Next ==
    \/ \E c \in Clients : Arrive(c)
    \/ Admit
    \/ \E gone \in SUBSET Clients : Depart(gone)

Spec == Init /\ [][Next]_<<line, inside>>
=============================================================================
