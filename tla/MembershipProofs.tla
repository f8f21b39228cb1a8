-------------------------- MODULE MembershipProofs --------------------------
(***************************************************************************)
(* Proofs about Membership, for any requests, contributors, agents, names, *)
(* challenges and dashboards, and any number of requests made.             *)
(*                                                                         *)
(* A request changes its own record only, so every step is first reduced   *)
(* to what becomes of that record (Effects).  Each invariant is then kept  *)
(* by the few steps that touch the tables or caches it is about, and by    *)
(* the requests that hold on to something: Shaped has them hold what their *)
(* stage needs, Overtaken has a cached list of revocations complete unless *)
(* the refill was overtaken, and Barred has every answered revocation in   *)
(* the database, or overwritten.                                           *)
(***************************************************************************)
EXTENDS Membership, TLAPS

Kinds == Asking \cup {"none", "rename"}

Stages == {"idle", "lookup", "select", "store", "close", "fetch", "keep",
           "insert", "check", "update", "reserve", "list", "write", "drop",
           "send", "sent"}

\* What a request may have read.
ReadHeld == {None} \cup Rows \cup Versions \cup SUBSET Users
Held == ReadHeld \cup SUBSET Sockets

Request == [kind : Kinds, stage : Stages, who : Users \cup Agents \cup {None},
            what : Names \cup Challenges \cup {None}, row : Held,
            barred : BOOLEAN, late : BOOLEAN]

\* What TypeOK leaves open: which records the requests are, and that each is at
\* a stage of its kind.
Fits(r) ==
    /\ r.stage \in {"drop", "write"} => r.kind \in {"revoke", "update", "key"}
    /\ r.stage = "sent" => r.row \subseteq Sockets
    /\ r.barred => r.kind = "register"

Shaped ==
    /\ req \in [Requests -> Request]
    /\ \A s \in Requests : Fits(req[s])

\* A cached list of revocations lacks one that was answered only if the refill
\* was overtaken, or the revocation overwritten.
Overtaken ==
    config # None =>
        \A u \in answered \ lost : u \in config.revoked \/ late.config

\* A revocation that was committed is in the database, or was overwritten.
Barred ==
    /\ answered \subseteq revoked \cup lost
    /\ \A s \in Requests :
        /\ req[s].stage = "drop" /\ req[s].kind = "revoke" =>
              req[s].who \in revoked \cup lost
        /\ req[s].barred => req[s].who \in answered

IInv == /\ TypeOK /\ Shaped
        /\ CacheIsCurrent
        /\ Overtaken /\ Barred /\ RevokedStayOut
        /\ NamesReserved
        /\ AttentiveStay

-----------------------------------------------------------------------------
(* What becomes of a request.                                              *)

Only(s) == \A t \in Requests \ {s} : req'[t] = req[t]

\* s is as it was, but for its stage and what it has read.
Moved(s, stage, row) ==
    /\ Only(s) /\ req' \in [Requests -> Request]
    /\ req'[s].kind = req[s].kind /\ req'[s].who = req[s].who
    /\ req'[s].what = req[s].what /\ req'[s].barred = req[s].barred
    /\ req'[s].late = req[s].late
    /\ req'[s].stage = stage /\ req'[s].row = row

Over(s) == Only(s) /\ req' \in [Requests -> Request] /\ req'[s] = Idle

Begun(s, kind, stage, who, what, barred) ==
    /\ Only(s) /\ req' \in [Requests -> Request]
    /\ req'[s].kind = kind /\ req'[s].stage = stage /\ req'[s].who = who
    /\ req'[s].what = what /\ req'[s].row = None /\ req'[s].barred = barred
    /\ req'[s].late = FALSE

LEMMA Replaced ==
    ASSUME Shaped, NEW s \in Requests, NEW r \in Request,
           req' = [req EXCEPT ![s] = r]
    PROVE  Only(s) /\ req' \in [Requests -> Request] /\ req'[s] = r
  BY DEF Shaped, Only

LEMMA IdleIsRequest == Idle \in Request
  BY DEF Idle, Request, Kinds, Stages, Held, ReadHeld

LEMMA EndsAt ==
    ASSUME Shaped, NEW s \in Requests, Ends(s)
    PROVE  Over(s)
  BY Replaced, IdleIsRequest DEF Ends, Over

LEMMA KeepsAt ==
    ASSUME Shaped, NEW s \in Requests, NEW stage \in Stages, NEW row \in Held,
           Keeps(s, stage, row)
    PROVE  Moved(s, stage, row)
<1> DEFINE r == [req[s] EXCEPT !.stage = stage, !.row = row]
<1>1. req[s] \in Request
  BY DEF Shaped
<1>2. r \in Request /\ r.kind = req[s].kind /\ r.who = req[s].who
      /\ r.what = req[s].what /\ r.barred = req[s].barred
      /\ r.late = req[s].late /\ r.stage = stage /\ r.row = row
  BY <1>1 DEF Request
<1>3. req' = [req EXCEPT ![s] = r]
  BY <1>1 DEF Keeps, Shaped, Request
<1> QED
  BY <1>2, <1>3, Replaced DEF Moved

LEMMA GoesAt ==
    ASSUME Shaped, NEW s \in Requests, NEW stage \in Stages, Goes(s, stage)
    PROVE  Moved(s, stage, None)
<1>1. Keeps(s, stage, None)
  BY DEF Goes, Keeps
<1>2. None \in Held
  BY DEF Held, ReadHeld
<1> QED
  BY <1>1, <1>2, KeepsAt

LEMMA IdleFields ==
    /\ Idle.kind = "none" /\ Idle.stage = "idle" /\ Idle.who = None
    /\ Idle.what = None /\ Idle.row = None /\ Idle.barred = FALSE
    /\ Idle.late = FALSE
  BY DEF Idle

LEMMA RegisterBegins ==
    ASSUME Shaped, NEW s \in Requests, AskRegister(s)
    PROVE  \E u \in Users, n \in Vocabulary \cup {None}, b \in BOOLEAN :
              /\ b => u \in answered
              /\ Begun(s, "register", "lookup", u, n, b)
<1>1. PICK u \in Users, n \in Vocabulary \cup {None} :
        req' = [req EXCEPT ![s] = [Idle EXCEPT !.kind = "register",
                    !.stage = "lookup", !.who = u, !.what = n,
                    !.barred = u \in answered]]
  BY DEF AskRegister
<1>2. PICK b \in BOOLEAN : b = (u \in answered)
  <2> DEFINE barred == u \in answered
  <2>1. barred \in BOOLEAN
    OBVIOUS
  <2> QED
    BY <2>1
<1> DEFINE r == [Idle EXCEPT !.kind = "register", !.stage = "lookup",
                             !.who = u, !.what = n, !.barred = b]
<1>3. /\ r \in Request
      /\ r.kind = "register" /\ r.stage = "lookup" /\ r.who = u /\ r.what = n
      /\ r.barred = b /\ r.row = None /\ r.late = FALSE
  BY IdleIsRequest, IdleFields DEF Request, Kinds, Asking, Stages, Names
<1>4. req' = [req EXCEPT ![s] = r]
  BY <1>1, <1>2
<1>5. Begun(s, "register", "lookup", u, n, b)
  BY <1>3, <1>4, Replaced DEF Begun
<1> QED
  BY <1>2, <1>5

LEMMA RenameBegins ==
    ASSUME Shaped, NEW s \in Requests, AskRename(s)
    PROVE  \E a \in Registered, n \in Names :
              Begun(s, "rename", "check", a, n, FALSE)
<1>1. PICK a \in Registered, n \in Names :
        req' = [req EXCEPT ![s] = [Idle EXCEPT !.kind = "rename",
                    !.stage = "check", !.who = a, !.what = n]]
  BY DEF AskRename
<1> DEFINE r == [Idle EXCEPT !.kind = "rename", !.stage = "check",
                             !.who = a, !.what = n]
<1>2. /\ r \in Request
      /\ r.kind = "rename" /\ r.stage = "check" /\ r.who = a /\ r.what = n
      /\ r.barred = FALSE /\ r.row = None /\ r.late = FALSE
  BY IdleIsRequest, IdleFields DEF Request, Kinds, Stages, Registered
<1> QED
  BY <1>1, <1>2, Replaced DEF Begun

LEMMA AdminBegins ==
    ASSUME Shaped, NEW s \in Requests, AskAdmin(s)
    PROVE  \/ \E u \in Users : Begun(s, "revoke", "lookup", u, None, FALSE)
           \/ \E c \in Challenges, k \in {"update", "key"} :
                Begun(s, k, "lookup", None, c, FALSE)
<1>1. ASSUME NEW u \in Users,
             req' = [req EXCEPT ![s] = [Idle EXCEPT !.kind = "revoke",
                        !.stage = "lookup", !.who = u]]
      PROVE  Begun(s, "revoke", "lookup", u, None, FALSE)
  <2> DEFINE r == [Idle EXCEPT !.kind = "revoke", !.stage = "lookup", !.who = u]
  <2>1. /\ r \in Request
        /\ r.kind = "revoke" /\ r.stage = "lookup" /\ r.who = u /\ r.what = None
        /\ r.barred = FALSE /\ r.row = None /\ r.late = FALSE
    BY IdleIsRequest, IdleFields DEF Request, Kinds, Asking, Stages
  <2> QED
    BY <1>1, <2>1, Replaced DEF Begun
<1>2. ASSUME NEW c \in Challenges, NEW k \in {"update", "key"},
             req' = [req EXCEPT ![s] = [Idle EXCEPT !.kind = k,
                        !.stage = "lookup", !.what = c]]
      PROVE  Begun(s, k, "lookup", None, c, FALSE)
  <2> DEFINE r == [Idle EXCEPT !.kind = k, !.stage = "lookup", !.what = c]
  <2>1. /\ r \in Request
        /\ r.kind = k /\ r.stage = "lookup" /\ r.who = None /\ r.what = c
        /\ r.barred = FALSE /\ r.row = None /\ r.late = FALSE
    BY IdleIsRequest, IdleFields DEF Request, Kinds, Asking, Stages
  <2> QED
    BY <1>2, <2>1, Replaced DEF Begun
<1> QED
  BY <1>1, <1>2 DEF AskAdmin

\* An event to send, at once or after another look at the configuration, and a
\* read of it.
LEMMA OtherBegins ==
    ASSUME Shaped, NEW s \in Requests, NEW kind \in {"event", "read"},
           NEW stage \in {"send", "lookup"},
           req' = [req EXCEPT ![s] = [Idle EXCEPT !.kind = kind,
                                                  !.stage = stage]]
    PROVE  Begun(s, kind, stage, None, None, FALSE)
<1> DEFINE r == [Idle EXCEPT !.kind = kind, !.stage = stage]
<1>1. /\ r \in Request
      /\ r.kind = kind /\ r.stage = stage /\ r.who = None /\ r.what = None
      /\ r.barred = FALSE /\ r.row = None /\ r.late = FALSE
  BY IdleIsRequest, IdleFields DEF Request, Kinds, Asking, Stages
<1> QED
  BY <1>1, Replaced DEF Begun

\* The registration was let through by the configuration it was given.
Inserting(s, row) ==
    /\ req[s].kind = "register" /\ req[s].who \notin row.revoked
    /\ Only(s) /\ req' \in [Requests -> Request]
    /\ req'[s].kind = req[s].kind /\ req'[s].who = req[s].who
    /\ req'[s].what = req[s].what /\ req'[s].barred = req[s].barred
    /\ req'[s].stage = "insert" /\ req'[s].late = late.config

Fetching(s, row) ==
    /\ req[s].kind = "read"
    /\ Only(s) /\ req' \in [Requests -> Request]
    /\ req'[s].kind = req[s].kind /\ req'[s].barred = req[s].barred
    /\ req'[s].stage = "fetch" /\ req'[s].what = row.active

Proceeding(s, row) ==
    \/ Over(s)
    \/ Inserting(s, row)
    \/ req[s].kind = "revoke" /\ Moved(s, "list", None)
    \/ req[s].kind \in {"update", "key"} /\ Moved(s, "write", None)
    \/ req[s].kind = "event" /\ Moved(s, "send", None)
    \/ Fetching(s, row)

LEMMA Proceeds ==
    ASSUME TypeOK, Shaped, NEW s \in Requests, req[s].kind \in Asking,
           NEW row \in Rows, Proceed(s, row)
    PROVE  /\ Proceeding(s, row)
           /\ \/ UNCHANGED settled
              \/ settled = None /\ settled' = [c \in Challenges |-> None]
<1>1. CASE req[s].kind = "register"
  <2>1. UNCHANGED settled
    BY <1>1 DEF Proceed
  <2>2. CASE req[s].who \in row.revoked
    BY <1>1, <2>1, <2>2, EndsAt DEF Proceed, Proceeding
  <2>3. CASE req[s].who \notin row.revoked
    <3> DEFINE r == [req[s] EXCEPT !.stage = "insert", !.late = late.config]
    <3>1. req[s] \in Request /\ late.config \in BOOLEAN
      BY DEF Shaped, TypeOK
    <3>2. /\ r \in Request
          /\ r.kind = req[s].kind /\ r.who = req[s].who /\ r.what = req[s].what
          /\ r.barred = req[s].barred /\ r.stage = "insert"
          /\ r.late = late.config
      BY <3>1 DEF Request, Stages
    <3>3. req' = [req EXCEPT ![s].stage = "insert", ![s].late = late.config]
      BY <1>1, <2>3 DEF Proceed
    <3>4. req' = [req EXCEPT ![s] = r]
      BY <3>1, <3>3 DEF Shaped, Request
    <3> QED
      BY <1>1, <2>1, <2>3, <3>2, <3>4, Replaced DEF Inserting, Proceeding
  <2> QED
    BY <2>2, <2>3
<1>2. CASE req[s].kind = "revoke"
  BY <1>2, GoesAt DEF Proceed, Proceeding, Stages
<1>3. CASE req[s].kind \in {"update", "key"}
  BY <1>3, GoesAt DEF Proceed, Proceeding, Stages
<1>4. CASE req[s].kind = "event"
  BY <1>4, GoesAt DEF Proceed, Proceeding, Stages
<1>5. CASE req[s].kind = "read"
  <2>1. CASE settled # None /\ settled[row.active] # None
    BY <1>5, <2>1, EndsAt DEF Proceed, Proceeding
  <2>2. CASE ~(settled # None /\ settled[row.active] # None)
    <3> DEFINE r == [req[s] EXCEPT !.stage = "fetch", !.what = row.active]
    <3>1. req[s] \in Request /\ row.active \in Challenges
      BY DEF Shaped, Rows
    <3>2. /\ r \in Request
          /\ r.kind = req[s].kind /\ r.barred = req[s].barred
          /\ r.stage = "fetch" /\ r.what = row.active
      BY <3>1 DEF Request, Stages
    <3>3. /\ req' = [req EXCEPT ![s].stage = "fetch", ![s].what = row.active]
          /\ settled' = IF settled = None THEN [c \in Challenges |-> None]
                        ELSE settled
      BY <1>5, <2>2 DEF Proceed
    <3>4. req' = [req EXCEPT ![s] = r]
      BY <3>1, <3>3 DEF Shaped, Request
    <3> QED
      BY <1>5, <3>2, <3>3, <3>4, Replaced DEF Fetching, Proceeding
  <2> QED
    BY <2>1, <2>2
<1> QED
  BY <1>1, <1>2, <1>3, <1>4, <1>5 DEF Asking

\* What each step makes of the request that takes it.
LEMMA Effects ==
    ASSUME TypeOK, Shaped, NEW s \in Requests
    PROVE  /\ AskRegister(s) =>
                \E u \in Users, n \in Vocabulary \cup {None}, b \in BOOLEAN :
                  /\ b => u \in answered
                  /\ Begun(s, "register", "lookup", u, n, b)
           /\ AskRename(s) =>
                \E a \in Registered, n \in Names :
                  Begun(s, "rename", "check", a, n, FALSE)
           /\ AskAdmin(s) =>
                \/ \E u \in Users :
                   Begun(s, "revoke", "lookup", u, None, FALSE)
                \/ \E c \in Challenges, k \in {"update", "key"} :
                   Begun(s, k, "lookup", None, c, FALSE)
           /\ AskRead(s) =>
                Begun(s, "read", "lookup", None, None, FALSE)
           /\ Lookup(s) =>
                \/ config # None /\ Proceeding(s, config)
                \/ Moved(s, "select", None)
           /\ Select(s) => Moved(s, "store", Config)
           /\ Store(s) => Moved(s, "close", None)
           /\ Return(s) =>
                \/ Over(s)
                \/ config # None /\ Proceeding(s, config)
           /\ Fetch(s) => Moved(s, "keep", settings[req[s].what])
           /\ Keep(s) => Over(s)
           /\ Register(s) =>
                \/ Over(s)
                \/ Begun(s, "event", "send", None, None, FALSE)
           /\ RenameCheck(s) =>
                \/ Over(s)
                \/ Moved(s, "update", None)
           /\ Rename(s) =>
                \/ Over(s) /\ UNCHANGED agent
                \/ /\ Moved(s, "reserve", None)
                   /\ agent' = [agent EXCEPT ![req[s].who].name = req[s].what]
           /\ Reserve(s) =>
                Begun(s, "event", "send", None, None, FALSE)
           /\ RevokeReads(s) => Moved(s, "write", revoked)
           /\ RevokeWrites(s) => Moved(s, "drop", None)
           /\ KeyWrites(s) => Moved(s, "drop", None)
           /\ AdminEnds(s) => Over(s)
           /\ UpdateWrites(s) => Moved(s, "drop", None)
           /\ UpdateDrops(s) =>
                Begun(s, "event", "lookup", None, None, FALSE)
           /\ Send(s) =>
                \/ Over(s)
                \/ Moved(s, "sent", sockets)
           /\ Prune(s) => Over(s)
<1>1. ASSUME AskRegister(s)
      PROVE  \E u \in Users, n \in Vocabulary \cup {None}, b \in BOOLEAN :
             /\ b => u \in answered
             /\ Begun(s, "register", "lookup", u, n, b)
  BY <1>1, RegisterBegins
<1>2. ASSUME AskRename(s)
      PROVE  \E a \in Registered, n \in Names :
                  Begun(s, "rename", "check", a, n, FALSE)
  BY <1>2, RenameBegins
<1>3. ASSUME AskAdmin(s)
      PROVE  \/ \E u \in Users :
                   Begun(s, "revoke", "lookup", u, None, FALSE)
             \/ \E c \in Challenges, k \in {"update", "key"} :
                   Begun(s, k, "lookup", None, c, FALSE)
  BY <1>3, AdminBegins
<1>4. ASSUME AskRead(s)
      PROVE  Begun(s, "read", "lookup", None, None, FALSE)
  BY <1>4, OtherBegins DEF AskRead
<1>5. ASSUME Lookup(s)
      PROVE  \/ config # None /\ Proceeding(s, config)
             \/ Moved(s, "select", None)
  BY <1>5, Proceeds, GoesAt DEF Lookup, TypeOK, RequestOK, Stages
<1>6. ASSUME Select(s)
      PROVE  Moved(s, "store", Config)
  BY <1>6, KeepsAt DEF Select, Held, ReadHeld, Config, Rows, TypeOK, RequestOK, Stages
<1>7. ASSUME Store(s)
      PROVE  Moved(s, "close", None)
  BY <1>7, GoesAt DEF Store, Stages
<1>8. ASSUME Return(s)
      PROVE  \/ Over(s)
             \/ config # None /\ Proceeding(s, config)
  BY <1>8, Proceeds, EndsAt DEF Return, TypeOK, RequestOK
<1>9. ASSUME Fetch(s)
      PROVE  Moved(s, "keep", settings[req[s].what])
  BY <1>9, KeepsAt DEF Fetch, Held, ReadHeld, TypeOK, RequestOK, Stages
<1>10. ASSUME Keep(s)
      PROVE  Over(s)
  BY <1>10, EndsAt DEF Keep
<1>11. ASSUME Register(s)
      PROVE  \/ Over(s)
             \/ Begun(s, "event", "send", None, None, FALSE)
  BY <1>11, EndsAt, OtherBegins DEF Register
<1>12. ASSUME RenameCheck(s)
      PROVE  \/ Over(s)
             \/ Moved(s, "update", None)
  BY <1>12, EndsAt, GoesAt DEF RenameCheck, Stages
<1>13. ASSUME Rename(s)
      PROVE  \/ Over(s) /\ UNCHANGED agent
             \/ /\ Moved(s, "reserve", None)
                /\ agent' = [agent EXCEPT ![req[s].who].name = req[s].what]
  BY <1>13, EndsAt, GoesAt DEF Rename, Stages
<1>14. ASSUME Reserve(s)
      PROVE  Begun(s, "event", "send", None, None, FALSE)
  BY <1>14, OtherBegins DEF Reserve
<1>15. ASSUME RevokeReads(s)
      PROVE  Moved(s, "write", revoked)
  BY <1>15, KeepsAt DEF RevokeReads, Held, ReadHeld, TypeOK, RequestOK, Stages
<1>16. ASSUME RevokeWrites(s)
      PROVE  Moved(s, "drop", None)
  BY <1>16, GoesAt DEF RevokeWrites, Stages
<1>17. ASSUME KeyWrites(s)
      PROVE  Moved(s, "drop", None)
  BY <1>17, GoesAt DEF KeyWrites, Stages
<1>18. ASSUME AdminEnds(s)
      PROVE  Over(s)
  BY <1>18, EndsAt DEF AdminEnds
<1>19. ASSUME UpdateWrites(s)
      PROVE  Moved(s, "drop", None)
  BY <1>19, GoesAt DEF UpdateWrites, Stages
<1>20. ASSUME UpdateDrops(s)
      PROVE  Begun(s, "event", "lookup", None, None, FALSE)
  BY <1>20, OtherBegins DEF UpdateDrops
<1>21. ASSUME Send(s)
      PROVE  \/ Over(s)
             \/ Moved(s, "sent", sockets)
  <2>1. \A A, B : \A x \in B : x \in A \cup B
    OBVIOUS
  <2>2. sockets \in SUBSET Sockets
    BY DEF TypeOK
  <2>4. sockets \in Held
    BY <2>1, <2>2, Zenon DEF Held
  <2> QED
    BY <1>21, <2>4, EndsAt, KeepsAt DEF Send, Stages
<1>22. ASSUME Prune(s)
      PROVE  Over(s)
  BY <1>22, EndsAt DEF Prune
<1> QED
  BY <1>1, <1>2, <1>3, <1>4, <1>5, <1>6, <1>7, <1>8, <1>9, <1>10, <1>11, <1>12, <1>13, <1>14, <1>15, <1>16, <1>17, <1>18, <1>19, <1>20, <1>21, <1>22

Rowed == [user : Users, name : Names, token : BOOLEAN]

\* The three steps that write the table of agents.
LEMMA Registers ==
    ASSUME TypeOK, NEW s \in Requests, Register(s)
    PROVE  \/ UNCHANGED agent
           \/ \E a \in Agents \ Registered, m \in Names, r \in Rowed :
                /\ m \in used' /\ r.name = m
                /\ agent' = [agent EXCEPT ![a] = r]
<1>1. PICK a \in Agents \ Registered, n \in FirstName(req[s].what) :
        \E m \in IF n \in Taken THEN Generated(used \cup {n}) ELSE {n} :
            /\ used' = used \cup {n, m}
            /\ \/ UNCHANGED agent
               \/ agent' = [agent EXCEPT ![a] =
                            [user |-> req[s].who, name |-> m, token |-> TRUE]]
  BY DEF Register
<1>2. req[s].who \in Users /\ req[s].what \in Vocabulary \cup {None}
  BY DEF Register, TypeOK, RequestOK
<1>3. n \in Names /\ \A x : Generated(x) \subseteq Names
  BY <1>1, <1>2 DEF FirstName, Generated, Names
<1>4. PICK m \in Names :
            /\ used' = used \cup {n, m}
            /\ \/ UNCHANGED agent
               \/ agent' = [agent EXCEPT ![a] =
                            [user |-> req[s].who, name |-> m, token |-> TRUE]]
  BY <1>1, <1>3
<1> DEFINE r == [user |-> req[s].who, name |-> m, token |-> TRUE]
<1>5. r \in Rowed /\ r.name = m
  BY <1>2 DEF Rowed
<1> QED
  BY <1>4, <1>5

LEMMA Renames ==
    ASSUME TypeOK, NEW s \in Requests, req[s].stage = "update"
    PROVE  LET a == req[s].who
               r == [agent[a] EXCEPT !.name = req[s].what]
           IN  /\ a \in Registered /\ req[s].what \in Names
               /\ agent[a] \in Rowed
               /\ r \in Rowed /\ r.name = req[s].what
               /\ [agent EXCEPT ![a].name = req[s].what] = [agent EXCEPT ![a] = r]
<1> DEFINE a == req[s].who
<1>1. a \in Registered /\ req[s].what \in Names
  BY DEF TypeOK, RequestOK
<1>2. agent[a] \in Rowed
  BY <1>1 DEF TypeOK, Registered, Rowed
<1> QED
  BY <1>1, <1>2 DEF Rowed, TypeOK, Registered

LEMMA Revokes ==
    ASSUME TypeOK, NEW s \in Requests, RevokeWrites(s), NEW a \in Registered
    PROVE  agent'[a] \in Rowed /\ agent'[a].name = agent[a].name
<1>1. agent[a] \in Rowed /\ a \in Agents
  BY DEF TypeOK, Registered, Rowed
<1>2. agent'[a] \in {agent[a], [agent[a] EXCEPT !.token = FALSE]}
  BY <1>1 DEF RevokeWrites
<1> QED
  BY <1>1, <1>2 DEF Rowed

\* Agents are never taken off the table.
LEMMA AgentsStay ==
    ASSUME TypeOK, [Next]_vars
    PROVE  /\ agent' \in [Agents -> {None} \cup Rowed]
           /\ Registered \subseteq Registered'
<1> DEFINE Stay == /\ agent' \in [Agents -> {None} \cup Rowed]
                   /\ Registered \subseteq Registered'
<1>1. agent \in [Agents -> {None} \cup Rowed]
  BY DEF TypeOK, Rowed
<1>2. None \notin Rowed
  BY MembershipAssumption DEF Rowed, Names
<1>3. CASE UNCHANGED agent
  BY <1>1, <1>3 DEF Registered
<1>4. ASSUME NEW a \in Agents, NEW r \in Rowed, agent' = [agent EXCEPT ![a] = r]
      PROVE  Stay
  BY <1>1, <1>2, <1>4 DEF Registered
<1>5. ASSUME NEW s \in Requests, Register(s)
      PROVE  Stay
  BY <1>3, <1>4, <1>5, Registers
<1>6. ASSUME NEW s \in Requests, Rename(s)
      PROVE  Stay
  <2>1. CASE UNCHANGED agent
    BY <2>1, <1>3
  <2>2. CASE agent' = [agent EXCEPT ![req[s].who].name = req[s].what]
    BY <1>4, <1>6, <2>2, Renames DEF Rename, Registered
  <2> QED
    BY <1>6, <2>1, <2>2 DEF Rename
<1>7. ASSUME NEW s \in Requests, RevokeWrites(s)
      PROVE  Stay
  <2>1. \A a \in Agents : a \in Registered \/ agent[a] = None
    BY DEF Registered
  <2>2. agent' = [a \in Agents |-> agent'[a]]
    BY <1>7 DEF RevokeWrites
  <2>3. \A a \in Agents \ Registered : agent'[a] = None
    BY <1>7, <2>1 DEF RevokeWrites
  <2> QED
    BY <1>2, <1>7, <2>1, <2>2, <2>3, Revokes DEF Registered
<1> QED
  BY <1>3, <1>5, <1>6, <1>7
  DEF Next, vars, tables, AskRegister, AskRename, AskAdmin, AskRead, Lookup,
      Select, Store, Return, Fetch, Keep, RenameCheck, Reserve, RevokeReads,
      KeyWrites, AdminEnds, UpdateWrites, UpdateDrops, Send, Prune, Connect,
      Hang, Close, Restart

\* A step concerns one request; the others hold what they held.
LEMMA OneRequest ==
    ASSUME TypeOK, Shaped, NEW s \in Requests,
           Only(s), req' \in [Requests -> Request],
           Registered \subseteq Registered',
           RequestOK(req[s])', Fits(req[s])'
    PROVE  Shaped' /\ \A t \in Requests : RequestOK(req[t])'
<1>1. ASSUME NEW t \in Requests \ {s}
      PROVE  RequestOK(req[t])' /\ Fits(req[t])'
  <2>1. RequestOK(req[t]) /\ Fits(req[t]) /\ req'[t] = req[t]
    BY DEF TypeOK, Shaped, Only
  <2> QED
    BY <2>1 DEF RequestOK, Fits
<1> QED
  BY <1>1 DEF Shaped


\* What becomes of a request leaves it one.
LEMMA OverKept ==
    ASSUME TypeOK, Shaped, NEW s \in Requests, Over(s),
           Registered \subseteq Registered'
    PROVE  Shaped' /\ \A t \in Requests : RequestOK(req[t])'
<1>1. RequestOK(req[s])' /\ Fits(req[s])'
  BY IdleFields DEF Over, RequestOK, Fits, Asking
<1> QED
  BY <1>1, OneRequest DEF Over

LEMMA MovedKept ==
    ASSUME TypeOK, Shaped, NEW s \in Requests, NEW stage, NEW row,
           Moved(s, stage, row), Registered \subseteq Registered',
           stage \in {"lookup", "select", "store", "close"} =>
                req[s].kind \in Asking,
           stage = "store" => row \in Rows,
           stage = "insert" => req[s].kind = "register",
           stage = "list" => req[s].kind = "revoke",
           stage = "write" /\ req[s].kind = "revoke" => row \subseteq Users,
           stage \in {"check", "update", "reserve"} => req[s].kind = "rename",
           stage \in {"fetch", "keep"} => req[s].what \in Challenges,
           stage = "keep" => row \in Versions,
           stage \in {"drop", "write"} =>
                req[s].kind \in {"revoke", "update", "key"},
           stage = "sent" => row \subseteq Sockets
    PROVE  Shaped' /\ \A t \in Requests : RequestOK(req[t])'
<1>1. RequestOK(req[s]) /\ Fits(req[s])
  BY DEF TypeOK, Shaped
<1>2. RequestOK(req[s])'
  BY <1>1 DEF Moved, RequestOK
<1>3. Fits(req[s])'
  BY <1>1 DEF Moved, Fits
<1> QED
  BY <1>2, <1>3, OneRequest DEF Moved

\* A record just made.
Fresh(r) ==
    /\ \/ r.stage = "lookup" /\ r.kind \in Asking
       \/ r.stage = "send" /\ r.kind = "event"
       \/ r.stage = "check" /\ r.kind = "rename"
    /\ r.kind \in {"register", "revoke"} => r.who \in Users
    /\ r.kind = "register" => r.what \in Vocabulary \cup {None}
    /\ r.kind = "rename" => r.who \in Registered /\ r.what \in Names
    /\ r.kind \in {"update", "key"} => r.what \in Challenges
    /\ r.barred => r.kind = "register"

LEMMA FreshKept ==
    ASSUME TypeOK, Shaped, NEW s \in Requests,
           Only(s), req' \in [Requests -> Request],
           Registered \subseteq Registered', Fresh(req'[s])
    PROVE  Shaped' /\ \A t \in Requests : RequestOK(req[t])'
<1>1. req'[s] \in Request
  OBVIOUS
<1>2. RequestOK(req[s])'
  BY <1>1 DEF Fresh, RequestOK, Asking, Request
<1>3. Fits(req[s])'
  BY <1>1 DEF Fresh, Fits
<1> QED
  BY <1>2, <1>3, OneRequest

LEMMA ProceedingKept ==
    ASSUME TypeOK, Shaped, NEW s \in Requests, NEW row \in Rows,
           Proceeding(s, row), Registered \subseteq Registered'
    PROVE  Shaped' /\ \A t \in Requests : RequestOK(req[t])'
<1>1. RequestOK(req[s]) /\ Fits(req[s])
  BY DEF TypeOK, Shaped
<1>2. CASE Over(s)
  BY <1>2, OverKept
<1>3. CASE Inserting(s, row)
  <2>1. req'[s] \in Request
    BY <1>3 DEF Inserting
  <2>2. RequestOK(req[s])'
    BY <1>1, <1>3, <2>1 DEF Inserting, RequestOK, Request, Asking
  <2>3. Fits(req[s])'
    BY <1>1, <1>3 DEF Inserting, Fits
  <2> QED
    BY <1>3, <2>2, <2>3, OneRequest DEF Inserting
<1>4. CASE req[s].kind = "revoke" /\ Moved(s, "list", None)
  BY <1>4, MovedKept
<1>5. CASE req[s].kind \in {"update", "key"} /\ Moved(s, "write", None)
  BY <1>5, MovedKept
<1>6. CASE req[s].kind = "event" /\ Moved(s, "send", None)
  BY <1>6, MovedKept
<1>7. CASE Fetching(s, row)
  <2>1. req'[s] \in Request /\ row.active \in Challenges
    BY <1>7 DEF Fetching, Rows
  <2>2. RequestOK(req[s])'
    BY <1>1, <1>7, <2>1 DEF Fetching, RequestOK, Request, Asking
  <2>3. Fits(req[s])'
    BY <1>1, <1>7 DEF Fetching, Fits
  <2> QED
    BY <1>7, <2>2, <2>3, OneRequest DEF Fetching
<1> QED
  BY <1>2, <1>3, <1>4, <1>5, <1>6, <1>7 DEF Proceeding

LEMMA RequestsKept ==
    ASSUME TypeOK, Shaped, [Next]_vars
    PROVE  Shaped' /\ \A t \in Requests : RequestOK(req[t])'
<1> DEFINE Kept == Shaped' /\ \A t \in Requests : RequestOK(req[t])'
<1>1. Registered \subseteq Registered'
  BY AgentsStay
<1>2. CASE UNCHANGED req
  BY <1>1, <1>2 DEF TypeOK, Shaped, RequestOK, Fits
<1>3. ASSUME NEW s \in Requests, AskRegister(s)
      PROVE  Kept
  <2>1. PICK u \in Users, n \in Vocabulary \cup {None}, b \in BOOLEAN :
        /\ b => u \in answered
        /\ Begun(s, "register", "lookup", u, n, b)
    BY <1>3, Effects
  <2> QED
    BY <1>1, <2>1, FreshKept DEF Asking, Begun, Fresh
<1>4. ASSUME NEW s \in Requests, AskRename(s)
      PROVE  Kept
  BY <1>1, <1>4, Effects, FreshKept
  DEF Begun, Fresh
<1>5. ASSUME NEW s \in Requests, AskAdmin(s)
      PROVE  Kept
  <2>1. \/ \E u \in Users : Begun(s, "revoke", "lookup", u, None, FALSE)
       \/ \E c \in Challenges, k \in {"update", "key"} :
            Begun(s, k, "lookup", None, c, FALSE)
    BY <1>5, Effects
  <2> QED
    BY <1>1, <2>1, FreshKept DEF Asking, Begun, Fresh
<1>6. ASSUME NEW s \in Requests, AskRead(s)
      PROVE  Kept
  <2>1. Begun(s, "read", "lookup", None, None, FALSE)
    BY <1>6, Effects
  <2> QED
    BY <1>1, <2>1, FreshKept DEF Asking, Begun, Fresh
<1>7. ASSUME NEW s \in Requests, Lookup(s)
      PROVE  Kept
  BY <1>1, <1>7, Effects, ProceedingKept, MovedKept
  DEF Lookup, TypeOK, RequestOK
<1>8. ASSUME NEW s \in Requests, Select(s)
      PROVE  Kept
  <2>1. Moved(s, "store", Config)
    BY <1>8, Effects
  <2>2. Config \in Rows /\ req[s].kind \in Asking
    BY <1>8 DEF Select, TypeOK, RequestOK, Config, Rows
  <2> QED
    BY <1>1, <2>1, <2>2, MovedKept
<1>9. ASSUME NEW s \in Requests, Store(s)
      PROVE  Kept
  BY <1>1, <1>9, Effects, MovedKept
  DEF Store, TypeOK, RequestOK
<1>10. ASSUME NEW s \in Requests, Return(s)
      PROVE  Kept
  BY <1>1, <1>10, Effects, ProceedingKept, OverKept
  DEF TypeOK
<1>11. ASSUME NEW s \in Requests, Fetch(s)
      PROVE  Kept
  <2>1. Moved(s, "keep", settings[req[s].what])
    BY <1>11, Effects
  <2>2. /\ req[s].what \in Challenges
       /\ settings[req[s].what] \in Versions
    BY <1>11 DEF Fetch, TypeOK, RequestOK
  <2> QED
    BY <1>1, <2>1, <2>2, MovedKept
<1>12. ASSUME NEW s \in Requests, Keep(s)
      PROVE  Kept
  BY <1>1, <1>12, Effects, OverKept
<1>13. ASSUME NEW s \in Requests, Register(s)
      PROVE  Kept
  <2>1. Over(s) \/ Begun(s, "event", "send", None, None, FALSE)
    BY <1>13, Effects
  <2> QED
    BY <1>1, <2>1, OverKept, FreshKept DEF Asking, Begun, Fresh
<1>14. ASSUME NEW s \in Requests, RenameCheck(s)
      PROVE  Kept
  BY <1>1, <1>14, Effects, OverKept, MovedKept
  DEF RenameCheck, TypeOK, RequestOK
<1>15. ASSUME NEW s \in Requests, Rename(s)
      PROVE  Kept
  BY <1>1, <1>15, Effects, OverKept, MovedKept
  DEF Rename, TypeOK, RequestOK
<1>16. ASSUME NEW s \in Requests, Reserve(s)
      PROVE  Kept
  <2>1. Begun(s, "event", "send", None, None, FALSE)
    BY <1>16, Effects
  <2> QED
    BY <1>1, <2>1, FreshKept DEF Asking, Begun, Fresh
<1>17. ASSUME NEW s \in Requests, RevokeReads(s)
      PROVE  Kept
  BY <1>1, <1>17, Effects, MovedKept
  DEF RevokeReads, TypeOK, RequestOK
<1>18. ASSUME NEW s \in Requests, RevokeWrites(s)
      PROVE  Kept
  BY <1>1, <1>18, Effects, MovedKept
  DEF RevokeWrites
<1>19. ASSUME NEW s \in Requests, KeyWrites(s)
      PROVE  Kept
  BY <1>1, <1>19, Effects, MovedKept
  DEF KeyWrites
<1>20. ASSUME NEW s \in Requests, AdminEnds(s)
      PROVE  Kept
  BY <1>1, <1>20, Effects, OverKept
<1>21. ASSUME NEW s \in Requests, UpdateWrites(s)
      PROVE  Kept
  BY <1>1, <1>21, Effects, MovedKept
  DEF UpdateWrites
<1>22. ASSUME NEW s \in Requests, UpdateDrops(s)
      PROVE  Kept
  <2>1. Begun(s, "event", "lookup", None, None, FALSE)
    BY <1>22, Effects
  <2> QED
    BY <1>1, <2>1, FreshKept DEF Asking, Begun, Fresh
<1>23. ASSUME NEW s \in Requests, Send(s)
      PROVE  Kept
  BY <1>1, <1>23, Effects, OverKept, MovedKept
  DEF TypeOK
<1>24. ASSUME NEW s \in Requests, Prune(s)
      PROVE  Kept
  BY <1>1, <1>24, Effects, OverKept
<1>25. CASE Restart
  <2>1. req' = [s \in Requests |-> Idle]
    BY <1>25 DEF Restart
  <2>2. \A s \in Requests : RequestOK(req[s])' /\ Fits(req[s])'
    BY <2>1, IdleFields DEF RequestOK, Fits, Asking
  <2> QED
    BY <2>1, <2>2, IdleIsRequest DEF Shaped
<1> QED
  BY <1>2, <1>3, <1>4, <1>5, <1>6, <1>7, <1>8, <1>9, <1>10, <1>11, <1>12, <1>13, <1>14, <1>15, <1>16, <1>17, <1>18, <1>19, <1>20, <1>21, <1>22, <1>23, <1>24, <1>25
  DEF Next, vars, Connect, Hang, Close

\* The tables, caches and sockets keep their shape.
LEMMA TypesKept ==
    ASSUME TypeOK, Shaped, [Next]_vars
    PROVE  TypeOK'
<1> DEFINE Kept ==
        /\ active' \in Challenges /\ revoked' \subseteq Users
        /\ settings' \in [Challenges -> Versions]
        /\ config' \in {None} \cup Rows
        /\ settled' \in {None} \cup [Challenges -> {None} \cup Versions]
        /\ used' \subseteq Names
        /\ sockets' \subseteq Sockets
        /\ socket' \in [Sockets -> {"new", "live", "hung", "closed"}]
        /\ late' \in [config : BOOLEAN, settled : BOOLEAN]
        /\ answered' \subseteq Users /\ lost' \subseteq Users
<1>1. ASSUME UNCHANGED vars
      PROVE  Kept
  BY <1>1 DEF vars, tables, caches, streams, past, TypeOK
<1>2. ASSUME NEW s \in Requests, AskRegister(s)
      PROVE  Kept
  BY <1>2 DEF AskRegister, tables, caches, streams, past, TypeOK
<1>3. ASSUME NEW s \in Requests, AskRename(s)
      PROVE  Kept
  BY <1>3 DEF AskRename, tables, caches, streams, past, TypeOK
<1>4. ASSUME NEW s \in Requests, AskAdmin(s)
      PROVE  Kept
  BY <1>4 DEF AskAdmin, tables, caches, streams, past, TypeOK
<1>5. ASSUME NEW s \in Requests, AskRead(s)
      PROVE  Kept
  BY <1>5 DEF AskRead, tables, caches, streams, past, TypeOK
<1>6. ASSUME NEW s \in Requests, Lookup(s)
      PROVE  Kept
  <2>1. UNCHANGED settled \/ settled' = [c \in Challenges |-> None]
    BY <1>6, Proceeds DEF Lookup, TypeOK, RequestOK
  <2> QED
    BY <1>6, <2>1 DEF Lookup, tables, streams, past, TypeOK
<1>7. ASSUME NEW s \in Requests, Select(s)
      PROVE  Kept
  BY <1>7 DEF Select, tables, caches, streams, past, TypeOK
<1>8. ASSUME NEW s \in Requests, Store(s)
      PROVE  Kept
  <2>1. late' \in [config : BOOLEAN, settled : BOOLEAN]
    BY <1>8 DEF Store, TypeOK
  <2>2. config' \in Rows
    BY <1>8 DEF Store, TypeOK, RequestOK
  <2> QED
    BY <1>8, <2>1, <2>2 DEF Store, tables, streams, past, TypeOK
<1>9. ASSUME NEW s \in Requests, Return(s)
      PROVE  Kept
  <2>1. UNCHANGED settled \/ settled' = [c \in Challenges |-> None]
    BY <1>9, Proceeds DEF Return, TypeOK, RequestOK
  <2> QED
    BY <1>9, <2>1 DEF Return, tables, streams, past, TypeOK
<1>10. ASSUME NEW s \in Requests, Fetch(s)
      PROVE  Kept
  BY <1>10 DEF Fetch, tables, caches, streams, past, TypeOK
<1>11. ASSUME NEW s \in Requests, Keep(s)
      PROVE  Kept
  <2>1. late' \in [config : BOOLEAN, settled : BOOLEAN]
    BY <1>11 DEF Keep, TypeOK
  <2>2. settled' \in {None} \cup [Challenges -> {None} \cup Versions]
    BY <1>11 DEF Keep, TypeOK, RequestOK
  <2> QED
    BY <1>11, <2>1, <2>2 DEF Keep, tables, streams, past, TypeOK
<1>12. ASSUME NEW s \in Requests, Register(s)
      PROVE  Kept
  <2>1. used' \subseteq Names
    <3>1. req[s].what \in Vocabulary \cup {None}
      BY <1>12 DEF Register, TypeOK, RequestOK
    <3>2. /\ FirstName(req[s].what) \subseteq Names
          /\ \A S : Generated(S) \subseteq Names
      BY <3>1 DEF FirstName, Generated, Names
    <3>3. \E n, m \in Names : used' = used \cup {n, m}
      BY <1>12, <3>2 DEF Register
    <3> QED
      BY <3>3 DEF TypeOK
  <2> QED
    BY <1>12, <2>1 DEF Register, caches, streams, past, TypeOK
<1>13. ASSUME NEW s \in Requests, RenameCheck(s)
      PROVE  Kept
  BY <1>13 DEF RenameCheck, tables, caches, streams, past, TypeOK
<1>14. ASSUME NEW s \in Requests, Rename(s)
      PROVE  Kept
  BY <1>14 DEF Rename, tables, caches, streams, past, TypeOK
<1>15. ASSUME NEW s \in Requests, Reserve(s)
      PROVE  Kept
  BY <1>15 DEF Reserve, tables, caches, streams, past, TypeOK, RequestOK
<1>16. ASSUME NEW s \in Requests, RevokeReads(s)
      PROVE  Kept
  BY <1>16 DEF RevokeReads, tables, caches, streams, past, TypeOK
<1>17. ASSUME NEW s \in Requests, RevokeWrites(s)
      PROVE  Kept
  BY <1>17 DEF RevokeWrites, caches, streams, TypeOK, RequestOK
<1>18. ASSUME NEW s \in Requests, KeyWrites(s)
      PROVE  Kept
  BY <1>18 DEF KeyWrites, caches, streams, past, TypeOK, Shaped, RequestOK
<1>19. ASSUME NEW s \in Requests, AdminEnds(s)
      PROVE  Kept
  <2>1. late' \in [config : BOOLEAN, settled : BOOLEAN]
    BY <1>19 DEF AdminEnds, TypeOK
  <2>2. answered' \subseteq Users
    BY <1>19 DEF AdminEnds, TypeOK, RequestOK
  <2> QED
    BY <1>19, <2>1, <2>2 DEF AdminEnds, DropConfig, tables, streams, TypeOK
<1>20. ASSUME NEW s \in Requests, UpdateWrites(s)
      PROVE  Kept
  <2>1. req[s].what \in Challenges
    BY <1>20 DEF UpdateWrites, TypeOK, RequestOK
  <2>2. \A v \in Versions : 1 - v \in Versions
    BY DEF Versions
  <2> QED
    BY <1>20, <2>1, <2>2 DEF UpdateWrites, caches, streams, past, TypeOK
<1>21. ASSUME NEW s \in Requests, UpdateDrops(s)
      PROVE  Kept
  BY <1>21 DEF UpdateDrops, DropBoth, tables, streams, past, TypeOK
<1>22. ASSUME NEW s \in Requests, Send(s)
      PROVE  Kept
  BY <1>22 DEF Send, tables, caches, streams, past, TypeOK
<1>23. ASSUME NEW s \in Requests, Prune(s)
      PROVE  Kept
  BY <1>23 DEF Prune, Pruned, tables, caches, past, TypeOK
<1>24. ASSUME NEW w \in Sockets, Connect(w)
      PROVE  Kept
  BY <1>24 DEF Connect, tables, caches, past, TypeOK
<1>25. ASSUME NEW w \in Sockets, Hang(w)
      PROVE  Kept
  BY <1>25 DEF Hang, tables, caches, past, TypeOK
<1>26. ASSUME NEW w \in Sockets, Close(w)
      PROVE  Kept
  BY <1>26 DEF Close, tables, caches, past, TypeOK
<1>27. ASSUME Restart
      PROVE  Kept
  <2>1. Taken \subseteq Names
    BY DEF TypeOK, Taken, Registered
  <2> QED
    BY <1>27, <2>1 DEF Restart, tables, past, TypeOK
<1>28. Kept
  BY <1>1, <1>2, <1>3, <1>4, <1>5, <1>6, <1>7, <1>8, <1>9, <1>10, <1>11,
     <1>12, <1>13, <1>14, <1>15, <1>16, <1>17, <1>18, <1>19, <1>20, <1>21,
     <1>22, <1>23, <1>24, <1>25, <1>26, <1>27 DEF Next
<1> QED
  BY <1>28, RequestsKept, AgentsStay DEF TypeOK, Rowed

-----------------------------------------------------------------------------
(* The caches.                                                             *)

Serves(s) ==
    \/ AskRegister(s) \/ AskRename(s) \/ AskAdmin(s) \/ AskRead(s)
    \/ Lookup(s) \/ Select(s) \/ Store(s) \/ Return(s) \/ Fetch(s) \/ Keep(s)
    \/ Register(s) \/ RenameCheck(s) \/ Rename(s) \/ Reserve(s)
    \/ RevokeReads(s) \/ RevokeWrites(s) \/ KeyWrites(s) \/ AdminEnds(s)
    \/ UpdateWrites(s) \/ UpdateDrops(s)
    \/ Send(s) \/ Prune(s)

LEMMA Alone ==
    ASSUME TypeOK, Shaped, NEW s \in Requests, Serves(s)
    PROVE  Only(s)
  BY Effects
  DEF Serves, Over, Moved, Begun, Proceeding, Inserting, Fetching

\* Only its own request ends the time before an invalidation.
LEMMA DroppingStays ==
    ASSUME NEW s \in Requests, Only(s), NEW kinds,
           req[s].stage # "drop" \/ req[s].kind \notin kinds,
           Dropping(kinds)
    PROVE  Dropping(kinds)'
  BY DEF Only, Dropping

LEMMA CacheKept ==
    ASSUME TypeOK, Shaped, CacheIsCurrent, [Next]_vars
    PROVE  CacheIsCurrent'
<1>a. late.config \in BOOLEAN /\ late.settled \in BOOLEAN
  BY DEF TypeOK
<1>b. ASSUME NEW s \in Requests, Serves(s), req[s].stage # "drop",
             UNCHANGED <<tables, caches>>
      PROVE  CacheIsCurrent'
  <2>1. \A kinds : Dropping(kinds) => Dropping(kinds)'
    BY <1>b, Alone, DroppingStays
  <2> QED
    BY <1>b, <2>1 DEF CacheIsCurrent, Config, tables, caches
<1>c. ASSUME NEW s \in Requests, Serves(s), req[s].stage # "drop",
             UNCHANGED <<tables, config, late>>,
             UNCHANGED settled \/ settled' = [c \in Challenges |-> None]
      PROVE  CacheIsCurrent'
  <2>1. \A kinds : Dropping(kinds) => Dropping(kinds)'
    BY <1>c, Alone, DroppingStays
  <2> QED
    BY <1>c, <2>1 DEF CacheIsCurrent, Config, tables
<1>d. ASSUME UNCHANGED <<tables, caches, req>>
      PROVE  CacheIsCurrent'
  BY <1>d DEF CacheIsCurrent, Config, tables, caches, Dropping
<1>1. ASSUME UNCHANGED vars
      PROVE  CacheIsCurrent'
  BY <1>1, <1>d DEF vars
<1>2. ASSUME NEW s \in Requests, AskRegister(s)
      PROVE  CacheIsCurrent'
  <2>1. req[s].stage # "drop" /\ UNCHANGED <<tables, caches>>
    BY <1>2, IdleFields DEF AskRegister, MayAsk
  <2> QED
    BY <1>2, <2>1, <1>b DEF Serves
<1>3. ASSUME NEW s \in Requests, AskRename(s)
      PROVE  CacheIsCurrent'
  <2>1. req[s].stage # "drop" /\ UNCHANGED <<tables, caches>>
    BY <1>3, IdleFields DEF AskRename, MayAsk
  <2> QED
    BY <1>3, <2>1, <1>b DEF Serves
<1>4. ASSUME NEW s \in Requests, AskAdmin(s)
      PROVE  CacheIsCurrent'
  <2>1. req[s].stage # "drop" /\ UNCHANGED <<tables, caches>>
    BY <1>4, IdleFields DEF AskAdmin, MayAsk
  <2> QED
    BY <1>4, <2>1, <1>b DEF Serves
<1>5. ASSUME NEW s \in Requests, AskRead(s)
      PROVE  CacheIsCurrent'
  <2>1. req[s].stage # "drop" /\ UNCHANGED <<tables, caches>>
    BY <1>5, IdleFields DEF AskRead, MayAsk
  <2> QED
    BY <1>5, <2>1, <1>b DEF Serves
<1>6. ASSUME NEW s \in Requests, Lookup(s)
      PROVE  CacheIsCurrent'
  <2>1. UNCHANGED settled \/ settled' = [c \in Challenges |-> None]
    BY <1>6, Proceeds DEF Lookup, TypeOK, RequestOK
  <2> QED
    BY <1>6, <2>1, <1>c DEF Lookup, Serves
<1>7. ASSUME NEW s \in Requests, Select(s)
      PROVE  CacheIsCurrent'
  BY <1>7, <1>b DEF Select, Serves, tables, caches
<1>8. ASSUME NEW s \in Requests, Store(s)
      PROVE  CacheIsCurrent'
  <2>1. \A kinds : Dropping(kinds) => Dropping(kinds)'
    BY <1>8, Alone, DroppingStays DEF Store, Serves
  <2>2. late'.config = (config' # Config) /\ late'.settled = late.settled
    BY <1>8 DEF Store, TypeOK
  <2> QED
    BY <1>8, <2>1, <2>2 DEF Store, CacheIsCurrent, Config, tables
<1>9. ASSUME NEW s \in Requests, Return(s)
      PROVE  CacheIsCurrent'
  <2>1. UNCHANGED settled \/ settled' = [c \in Challenges |-> None]
    BY <1>9, Proceeds DEF Return, TypeOK, RequestOK
  <2> QED
    BY <1>9, <2>1, <1>c DEF Return, Serves
<1>10. ASSUME NEW s \in Requests, Fetch(s)
      PROVE  CacheIsCurrent'
  BY <1>10, <1>b DEF Fetch, Serves, tables, caches
<1>11. ASSUME NEW s \in Requests, Keep(s)
      PROVE  CacheIsCurrent'
  <2>1. \A kinds : Dropping(kinds) => Dropping(kinds)'
    BY <1>11, Alone, DroppingStays DEF Keep, Serves
  <2>2. CASE settled = None
    BY <1>11, <2>1, <2>2 DEF Keep, CacheIsCurrent, Config, tables
  <2>3. CASE settled # None
    <3>1. late'.config = late.config
      BY <1>11, <2>3 DEF Keep, TypeOK
    <3>2. late'.settled = (late.settled \/ req[s].row # settings[req[s].what])
      BY <1>11, <2>3 DEF Keep, TypeOK
    <3>3. \A c \in Challenges :
            settled'[c] = IF c = req[s].what THEN req[s].row ELSE settled[c]
      BY <1>11, <2>3 DEF Keep, TypeOK
    <3> QED
      BY <1>11, <2>1, <2>3, <3>1, <3>2, <3>3
      DEF Keep, CacheIsCurrent, Config, tables
  <2> QED
    BY <2>2, <2>3
<1>12. ASSUME NEW s \in Requests, Register(s)
      PROVE  CacheIsCurrent'
  <2>1. \A kinds : Dropping(kinds) => Dropping(kinds)'
    BY <1>12, Alone, DroppingStays DEF Register, Serves
  <2>2. UNCHANGED <<active, revoked, settings, caches>>
    BY <1>12 DEF Register
  <2> QED
    BY <2>1, <2>2 DEF CacheIsCurrent, Config, caches
<1>13. ASSUME NEW s \in Requests, RenameCheck(s)
      PROVE  CacheIsCurrent'
  BY <1>13, <1>b DEF RenameCheck, Serves, tables, caches
<1>14. ASSUME NEW s \in Requests, Rename(s)
      PROVE  CacheIsCurrent'
  <2>1. \A kinds : Dropping(kinds) => Dropping(kinds)'
    BY <1>14, Alone, DroppingStays DEF Rename, Serves
  <2>2. UNCHANGED <<active, revoked, settings, caches>>
    BY <1>14 DEF Rename
  <2> QED
    BY <2>1, <2>2 DEF CacheIsCurrent, Config, caches
<1>15. ASSUME NEW s \in Requests, Reserve(s)
      PROVE  CacheIsCurrent'
  BY <1>15, <1>b DEF Reserve, Serves, tables, caches
<1>16. ASSUME NEW s \in Requests, RevokeReads(s)
      PROVE  CacheIsCurrent'
  BY <1>16, <1>b DEF RevokeReads, Serves, tables, caches
<1>17. ASSUME NEW s \in Requests, RevokeWrites(s)
      PROVE  CacheIsCurrent'
  <2>1. req'[s].stage = "drop" /\ req'[s].kind = "revoke"
    BY <1>17, Effects DEF Moved, RevokeWrites
  <2>2. Dropping({"revoke", "key", "update"})'
    BY <2>1 DEF Dropping
  <2>3. Dropping({"update"}) => Dropping({"update"})'
    BY <1>17, Alone, DroppingStays DEF RevokeWrites, Serves
  <2> QED
    BY <1>17, <2>2, <2>3 DEF RevokeWrites, CacheIsCurrent, caches
<1>18. ASSUME NEW s \in Requests, KeyWrites(s)
      PROVE  CacheIsCurrent'
  <2>1. req'[s].stage = "drop" /\ req'[s].kind = "key"
    BY <1>18, Effects DEF Moved, KeyWrites
  <2>2. Dropping({"revoke", "key", "update"})'
    BY <2>1 DEF Dropping
  <2>3. Dropping({"update"}) => Dropping({"update"})'
    BY <1>18, Alone, DroppingStays DEF KeyWrites, Serves
  <2> QED
    BY <1>18, <2>2, <2>3 DEF KeyWrites, CacheIsCurrent, caches
<1>19. ASSUME NEW s \in Requests, AdminEnds(s)
      PROVE  CacheIsCurrent'
  <2>1. Dropping({"update"}) => Dropping({"update"})'
    BY <1>19, Alone, DroppingStays DEF AdminEnds, Serves
  <2>2. late'.settled = late.settled
    BY <1>19 DEF AdminEnds, TypeOK
  <2> QED
    BY <1>19, <2>1, <2>2 DEF AdminEnds, DropConfig, CacheIsCurrent, tables
<1>20. ASSUME NEW s \in Requests, UpdateWrites(s)
      PROVE  CacheIsCurrent'
  <2>1. req'[s].stage = "drop" /\ req'[s].kind = "update"
    BY <1>20, Effects DEF Moved, UpdateWrites
  <2>2. Dropping({"revoke", "key", "update"})'
    BY <2>1 DEF Dropping
  <2>3. Dropping({"update"})'
    BY <2>1 DEF Dropping
  <2> QED
    BY <1>20, <2>2, <2>3 DEF UpdateWrites, CacheIsCurrent, caches
<1>21. ASSUME NEW s \in Requests, UpdateDrops(s)
      PROVE  CacheIsCurrent'
  BY <1>21 DEF UpdateDrops, DropBoth, CacheIsCurrent
<1>22. ASSUME NEW s \in Requests, Send(s)
      PROVE  CacheIsCurrent'
  BY <1>22, <1>b DEF Send, Serves, tables, caches
<1>23. ASSUME NEW s \in Requests, Prune(s)
      PROVE  CacheIsCurrent'
  BY <1>23, <1>b DEF Prune, Serves, tables, caches
<1>24. ASSUME NEW w \in Sockets, Connect(w)
      PROVE  CacheIsCurrent'
  BY <1>24, <1>d DEF Connect
<1>25. ASSUME NEW w \in Sockets, Hang(w)
      PROVE  CacheIsCurrent'
  BY <1>25, <1>d DEF Hang
<1>26. ASSUME NEW w \in Sockets, Close(w)
      PROVE  CacheIsCurrent'
  BY <1>26, <1>d DEF Close
<1>27. ASSUME Restart
      PROVE  CacheIsCurrent'
  BY <1>27 DEF Restart, CacheIsCurrent
<1> QED
  BY <1>1, <1>2, <1>3, <1>4, <1>5, <1>6, <1>7, <1>8, <1>9, <1>10, <1>11,
     <1>12, <1>13, <1>14, <1>15, <1>16, <1>17, <1>18, <1>19, <1>20, <1>21,
     <1>22, <1>23, <1>24, <1>25, <1>26, <1>27 DEF Next

-----------------------------------------------------------------------------
(* Revocations.                                                            *)

\* What a request that is barred, or revokes, or registers, was before.
LEMMA Barring ==
    ASSUME TypeOK, Shaped, [Next]_vars, NEW s \in Requests, Serves(s),
           req'[s].barred
    PROVE  \/ req[s].barred /\ req'[s].who = req[s].who
           \/ req'[s].who \in answered
<1>1. Fits(req[s])'
  BY RequestsKept DEF Shaped
<1>2. ~Fetching(s, config)
  BY <1>1 DEF Fetching, Fits
<1>3. CASE AskRegister(s)
  BY <1>3, RegisterBegins DEF Begun
<1> QED
  BY <1>2, <1>3, Effects, IdleFields
  DEF Serves, Over, Moved, Begun, Proceeding, Inserting

LEMMA Revoking ==
    ASSUME TypeOK, Shaped, NEW s \in Requests, Serves(s),
           req'[s].stage = "drop", req'[s].kind = "revoke"
    PROVE  RevokeWrites(s) /\ req'[s].who = req[s].who
<1>1. ~KeyWrites(s) /\ ~UpdateWrites(s)
  BY Effects DEF KeyWrites, UpdateWrites, Moved
<1> QED
  BY <1>1, Effects, IdleFields
  DEF Serves, Over, Moved, Begun, Proceeding, Inserting, Fetching

LEMMA Admitting ==
    ASSUME TypeOK, Shaped, NEW s \in Requests, Serves(s),
           req'[s].stage = "insert"
    PROVE  config # None /\ Inserting(s, config)
  BY Effects, IdleFields
  DEF Serves, Over, Moved, Begun, Proceeding, Fetching

LEMMA Reserving ==
    ASSUME TypeOK, Shaped, NEW s \in Requests, Serves(s),
           req'[s].stage = "reserve"
    PROVE  /\ Rename(s) /\ req'[s].what = req[s].what
           /\ agent' = [agent EXCEPT ![req[s].who].name = req[s].what]
  BY Effects, IdleFields
  DEF Serves, Over, Moved, Begun, Proceeding, Inserting, Fetching

\* The steps that touch the list of revocations or what is cached of it.
LEMMA Listing ==
    ASSUME TypeOK, [Next]_vars
    PROVE  \/ /\ UNCHANGED <<config, revoked, answered, lost>>
              /\ late'.config = late.config
           \/ \E s \in Requests : Store(s) \/ RevokeWrites(s) \/ AdminEnds(s)
           \/ /\ UNCHANGED <<revoked, answered, lost>>
              /\ config' = None
<1>1. ASSUME NEW s \in Requests, Keep(s)
      PROVE  late'.config = late.config
  BY <1>1 DEF Keep, TypeOK
<1> QED
  BY <1>1
  DEF Next, vars, tables, caches, past, AskRegister, AskRename, AskAdmin,
      AskRead, Lookup, Select, Return, Fetch, Keep, Register, RenameCheck,
      Rename, Reserve, RevokeReads, KeyWrites, UpdateWrites, UpdateDrops,
      DropBoth, Send, Prune, Connect, Hang, Close, Restart

\* What was committed stays so, or is overwritten.
LEMMA PastGrows ==
    ASSUME TypeOK, [Next]_vars
    PROVE  /\ revoked \cup lost \subseteq (revoked \cup lost)'
           /\ lost \subseteq lost' /\ answered \subseteq answered'
<1>1. ASSUME NEW s \in Requests, Store(s)
      PROVE  UNCHANGED <<revoked, answered, lost>>
  BY <1>1 DEF Store, tables, past
<1>2. ASSUME NEW s \in Requests, RevokeWrites(s)
      PROVE  answered' = answered /\ lost' = lost \cup (revoked \ revoked')
  BY <1>2 DEF RevokeWrites
<1>3. ASSUME NEW s \in Requests, AdminEnds(s)
      PROVE  /\ UNCHANGED <<revoked, lost>>
             /\ answered \subseteq answered'
  BY <1>3 DEF AdminEnds, tables
<1> QED
  BY <1>1, <1>2, <1>3, Listing

\* The steps of requests, and those that leave them as they are or end them.
LEMMA Steps ==
    ASSUME [Next]_vars
    PROVE  \/ \E s \in Requests : Serves(s)
           \/ req' = req
           \/ Restart
  BY DEF Next, vars, Serves, Connect, Hang, Close

\* The revocation that is answered was committed; one that is committed writes
\* its own contributor, and what it overwrites is noted.
LEMMA BarredKept ==
    ASSUME TypeOK, Shaped, Barred, [Next]_vars
    PROVE  Barred'
<1>1. answered' \subseteq revoked' \cup lost'
  <2>1. CASE UNCHANGED answered
    BY <2>1, PastGrows DEF Barred
  <2>2. ASSUME NEW s \in Requests, Store(s) \/ RevokeWrites(s)
        PROVE  UNCHANGED answered
    BY <2>2 DEF Store, RevokeWrites, past
  <2>3. ASSUME NEW s \in Requests, AdminEnds(s)
        PROVE  answered' \subseteq revoked' \cup lost'
    <3>1. answered' \subseteq answered \cup {u \in {req[s].who} :
                                                req[s].kind = "revoke"}
      BY <2>3 DEF AdminEnds
    <3>2. req[s].kind = "revoke" => req[s].who \in revoked \cup lost
      BY <2>3 DEF AdminEnds, Barred
    <3> QED
      BY <3>1, <3>2, PastGrows DEF Barred
  <2> QED
    BY <2>1, <2>2, <2>3, Listing
<1> DEFINE BarredAt(t) ==
      /\ req[t].stage = "drop" /\ req[t].kind = "revoke" =>
              req[t].who \in revoked \cup lost
      /\ req[t].barred => req[t].who \in answered
<1>2. ASSUME NEW t \in Requests, req'[t] = req[t]
      PROVE  BarredAt(t)'
  BY <1>2, PastGrows DEF Barred
<1>3. ASSUME NEW s \in Requests, Serves(s)
      PROVE  BarredAt(s)'
  <2>1. ASSUME RevokeWrites(s)
        PROVE  req[s].who \in revoked'
    BY <2>1 DEF RevokeWrites
  <2>2. req'[s].stage = "drop" /\ req'[s].kind = "revoke" =>
            req'[s].who \in revoked'
    BY <1>3, <2>1, Revoking
  <2>3. req'[s].barred => req'[s].who \in answered'
    BY <1>3, Barring, PastGrows DEF Barred
  <2> QED
    BY <2>2, <2>3
<1>4. \A t \in Requests : BarredAt(t)'
  <2>1. CASE \E s \in Requests : Serves(s)
    BY <2>1, <1>2, <1>3, Alone DEF Only
  <2>2. CASE req' = req
    BY <2>2, <1>2
  <2>3. CASE Restart
    BY <2>3, IdleFields DEF Restart
  <2> QED
    BY <2>1, <2>2, <2>3, Steps
<1> QED
  BY <1>1, <1>4 DEF Barred

\* A refill that was not overtaken has every revocation the database has.
LEMMA OvertakenKept ==
    ASSUME TypeOK, Shaped, Barred, Overtaken, [Next]_vars
    PROVE  Overtaken'
<1>1. ASSUME NEW s \in Requests, Store(s)
      PROVE  Overtaken'
  <2>1. late'.config = (config' # Config)
    BY <1>1 DEF Store, TypeOK
  <2>2. UNCHANGED <<answered, lost>>
    BY <1>1 DEF Store, past
  <2>3. CASE config' = Config
    BY <2>2, <2>3 DEF Overtaken, Barred, Config
  <2>4. CASE config' # Config
    BY <2>1, <2>4 DEF Overtaken
  <2> QED
    BY <2>3, <2>4
<1>2. ASSUME NEW s \in Requests, RevokeWrites(s)
      PROVE  Overtaken'
  BY <1>2 DEF RevokeWrites, caches, Overtaken
<1>3. ASSUME NEW s \in Requests, AdminEnds(s)
      PROVE  Overtaken'
  BY <1>3 DEF AdminEnds, DropConfig, Overtaken
<1> QED
  BY <1>1, <1>2, <1>3, Listing DEF Overtaken

\* A registration is let through by the configuration that is cached: without
\* the contributor only if the refill was overtaken or the revocation lost.
LEMMA RevokedKept ==
    ASSUME TypeOK, Shaped, Barred, Overtaken, RevokedStayOut, [Next]_vars
    PROVE  RevokedStayOut'
<1> DEFINE OutAt(t) == req[t].stage = "insert" /\ req[t].barred =>
                           req[t].late \/ req[t].who \in lost
<1>1. ASSUME NEW t \in Requests, req'[t] = req[t]
      PROVE  OutAt(t)'
  BY <1>1, PastGrows DEF RevokedStayOut
<1>2. ASSUME NEW s \in Requests, Serves(s)
      PROVE  OutAt(s)'
  <2>1. SUFFICES ASSUME req'[s].stage = "insert", req'[s].barred
                 PROVE  req'[s].late \/ req'[s].who \in lost'
    OBVIOUS
  <2>2. config # None /\ Inserting(s, config)
    BY <1>2, <2>1, Admitting
  <2>3. req'[s].who \in answered /\ req'[s].who \notin config.revoked
    BY <2>1, <2>2 DEF Inserting, Barred
  <2>4. req'[s].late = late.config
    BY <2>2 DEF Inserting
  <2> QED
    BY <2>2, <2>3, <2>4, PastGrows DEF Overtaken
<1> QED
  <2>1. CASE \E s \in Requests : Serves(s)
    BY <2>1, <1>1, <1>2, Alone DEF Only, RevokedStayOut
  <2>2. CASE req' = req
    BY <2>2, <1>1 DEF RevokedStayOut
  <2>3. CASE Restart
    BY <2>3, IdleFields DEF Restart, RevokedStayOut
  <2> QED
    BY <2>1, <2>2, <2>3, Steps

-----------------------------------------------------------------------------
(* Names.                                                                  *)

\* The names of renames that are committed and not yet reserved.
Pending == {req[s].what : s \in {r \in Requests : req[r].stage = "reserve"}}

LEMMA NameTaken ==
    ASSUME TypeOK, NEW a \in Agents, NEW r \in Rowed,
           agent' = [agent EXCEPT ![a] = r]
    PROVE  Taken' \subseteq Taken \cup {r.name}
  BY DEF Taken, Registered, TypeOK

LEMMA PendingStays ==
    ASSUME TypeOK, Shaped, NEW s \in Requests, Serves(s),
           req[s].stage # "reserve"
    PROVE  Pending \subseteq Pending'
  BY Alone DEF Pending, Only

\* The steps that write the table of agents, or what names are reserved.
LEMMA Naming ==
    ASSUME TypeOK, [Next]_vars
    PROVE  \/ /\ UNCHANGED <<agent, used>>
              /\ \/ req' = req
                 \/ \E s \in Requests : Serves(s) /\ req[s].stage # "reserve"
           \/ \E s \in Requests : \/ Register(s) \/ Rename(s) \/ Reserve(s)
                                  \/ RevokeWrites(s)
           \/ Restart
<1> DEFINE Serving == \E s \in Requests : Serves(s) /\ req[s].stage # "reserve"
<1>1. ASSUME NEW s \in Requests,
             AskRegister(s) \/ AskRename(s) \/ AskAdmin(s) \/ AskRead(s)
      PROVE  UNCHANGED <<agent, used>> /\ Serving
  BY <1>1, IdleFields
  DEF AskRegister, AskRename, AskAdmin, AskRead, MayAsk, tables, Serves
<1> QED
  BY <1>1
  DEF Next, vars, tables, caches, Serves, Lookup, Select, Store, Return, Fetch,
      Keep, RenameCheck, RevokeReads, KeyWrites, AdminEnds, UpdateWrites,
      UpdateDrops, Send, Prune, Connect, Hang, Close

LEMMA NamesKept ==
    ASSUME TypeOK, Shaped, NamesReserved, [Next]_vars
    PROVE  NamesReserved'
<1>1. SUFFICES Taken' \subseteq used' \cup Pending'
  BY DEF NamesReserved, Pending
<1>2. Taken \subseteq used \cup Pending
  BY DEF NamesReserved, Pending
<1>3. CASE UNCHANGED <<agent, used>> /\ req' = req
  BY <1>2, <1>3 DEF Taken, Registered, Pending
<1>4. ASSUME NEW s \in Requests, Serves(s), req[s].stage # "reserve",
             UNCHANGED <<agent, used>>
      PROVE  Taken' \subseteq used' \cup Pending'
  BY <1>2, <1>4, PendingStays DEF Taken, Registered
<1>5. ASSUME NEW s \in Requests, Register(s)
      PROVE  Taken' \subseteq used' \cup Pending'
  <2>1. used \subseteq used' /\ Pending \subseteq Pending'
    BY <1>5, PendingStays DEF Register, Serves
  <2>2. CASE UNCHANGED agent
    BY <1>2, <2>1, <2>2 DEF Taken, Registered
  <2>3. CASE ~UNCHANGED agent
    <3>1. PICK a \in Agents \ Registered, m \in Names, r \in Rowed :
            /\ m \in used' /\ r.name = m
            /\ agent' = [agent EXCEPT ![a] = r]
      BY <1>5, <2>3, Registers
    <3> QED
      BY <1>2, <2>1, <3>1, NameTaken
  <2> QED
    BY <2>2, <2>3
<1>6. ASSUME NEW s \in Requests, Rename(s)
      PROVE  Taken' \subseteq used' \cup Pending'
  <2>1. used' = used /\ Pending \subseteq Pending'
    BY <1>6, PendingStays DEF Rename, Serves
  <2>2. CASE UNCHANGED agent
    BY <1>2, <2>1, <2>2 DEF Taken, Registered
  <2>3. CASE ~UNCHANGED agent
    <3> DEFINE a == req[s].who
               r == [agent[a] EXCEPT !.name = req[s].what]
    <3>1. Moved(s, "reserve", None)
      BY <1>6, <2>3, Effects
    <3>2. req[s].what \in Pending'
      BY <3>1 DEF Moved, Pending
    <3>3. /\ a \in Agents /\ r \in Rowed /\ r.name = req[s].what
          /\ agent' = [agent EXCEPT ![a] = r]
      BY <1>6, <2>3, Renames DEF Rename, Registered
    <3> QED
      BY <1>2, <2>1, <3>2, <3>3, NameTaken
  <2> QED
    BY <2>2, <2>3
<1>7. ASSUME NEW s \in Requests, Reserve(s)
      PROVE  Taken' \subseteq used' \cup Pending'
  <2>1. used' = used \cup {req[s].what} /\ UNCHANGED agent
    BY <1>7 DEF Reserve, tables
  <2>2. Pending \subseteq Pending' \cup {req[s].what}
    BY <1>7, Alone DEF Serves, Only, Pending
  <2> QED
    BY <1>2, <2>1, <2>2 DEF Taken, Registered
<1>8. ASSUME NEW s \in Requests, RevokeWrites(s)
      PROVE  Taken' \subseteq used' \cup Pending'
  <2>1. used' = used /\ Pending \subseteq Pending'
    BY <1>8, PendingStays DEF RevokeWrites, Serves
  <2>2. \A a \in Agents : a \in Registered' =>
            a \in Registered /\ agent'[a].name = agent[a].name
    BY <1>8, Revokes DEF RevokeWrites, Registered
  <2>3. Taken' \subseteq Taken
    BY <2>2 DEF Taken, Registered
  <2> QED
    BY <1>2, <2>1, <2>3
<1>9. CASE Restart
  BY <1>9 DEF Restart, tables, Taken, Registered
<1> QED
  BY <1>3, <1>4, <1>5, <1>6, <1>7, <1>8, <1>9, Naming

-----------------------------------------------------------------------------
(* The dashboards.                                                         *)

LEMMA AttentiveKept ==
    ASSUME TypeOK, AttentiveStay, [Next]_vars
    PROVE  AttentiveStay'
<1>1. CASE UNCHANGED <<sockets, socket>>
  BY <1>1 DEF AttentiveStay
<1>2. ASSUME NEW s \in Requests, Prune(s)
      PROVE  AttentiveStay'
  BY <1>2 DEF Prune, Pruned, AttentiveStay
<1>3. ASSUME NEW w \in Sockets, Connect(w) \/ Hang(w) \/ Close(w)
      PROVE  AttentiveStay'
  BY <1>3 DEF Connect, Hang, Close, AttentiveStay, TypeOK
<1>4. CASE Restart
  BY <1>4 DEF Restart, AttentiveStay
<1> QED
  BY <1>1, <1>2, <1>3, <1>4
  DEF Next, vars, streams, AskRegister, AskRename, AskAdmin, AskRead, Lookup,
      Select, Store, Return, Fetch, Keep, Register, RenameCheck, Rename,
      Reserve, RevokeReads, RevokeWrites, KeyWrites, AdminEnds, UpdateWrites,
      UpdateDrops, Send

-----------------------------------------------------------------------------
(* The theorems.                                                           *)

LEMMA Starts == Init => IInv
<1> SUFFICES ASSUME Init PROVE IInv
  OBVIOUS
<1>1. \A s \in Requests : req[s] = Idle
  BY DEF Init
<1>2. TypeOK
  <2>1. late \in [config : BOOLEAN, settled : BOOLEAN]
    BY DEF Init
  <2>2. settings \in [Challenges -> Versions]
    BY DEF Init, Versions
  <2>3. \A s \in Requests : RequestOK(req[s])
    BY <1>1, IdleFields DEF RequestOK, Asking
  <2> QED
    BY <2>1, <2>2, <2>3 DEF Init, TypeOK
<1>3. Shaped
  BY <1>1, IdleFields, IdleIsRequest DEF Init, Shaped, Fits
<1>4. CacheIsCurrent /\ Overtaken
  BY DEF Init, CacheIsCurrent, Overtaken
<1>5. Barred /\ RevokedStayOut
  BY <1>1, IdleFields DEF Init, Barred, RevokedStayOut
<1>6. NamesReserved /\ AttentiveStay
  BY DEF Init, NamesReserved, Taken, Registered, AttentiveStay
<1> QED
  BY <1>2, <1>3, <1>4, <1>5, <1>6 DEF IInv

LEMMA Invariant == Spec => []IInv
<1>1. IInv /\ [Next]_vars => IInv'
  BY RequestsKept, TypesKept, CacheKept, OvertakenKept, BarredKept,
     RevokedKept, NamesKept, AttentiveKept
  DEF IInv
<1> QED
  BY Starts, <1>1, PTL DEF Spec

\* Every request holds what its stage reads, and the tables, caches and sockets
\* are of their types, whatever overtakes whatever.
THEOREM Types == Spec => []TypeOK
  BY Invariant, PTL DEF IInv

\* The two configuration caches differ from the database only until the request
\* that changed it invalidates them, or after an overtaken refill.
THEOREM CachesFollow == Spec => []CacheIsCurrent
  BY Invariant, PTL DEF IInv

\* register_agent admits nobody whose revocation admin_revoke has answered,
\* but by an overtaken refill or a revocation another one overwrote.
THEOREM RevokedAreRefused == Spec => []RevokedStayOut
  BY Invariant, PTL DEF IInv

\* Every agent's name is among those generate_agent_name passes over, or is
\* about to be put there by the rename that committed it.
THEOREM NamesAreKnown == Spec => []NamesReserved
  BY Invariant, PTL DEF IInv

\* broadcast drops no dashboard that reads, one that connects while it sends
\* included.
THEOREM DashboardsStay == Spec => []AttentiveStay
  BY Invariant, PTL DEF IInv
=============================================================================
