----------------------------- MODULE Membership -----------------------------
(***************************************************************************)
(* Who takes part in a swarm, under what name, and which configuration and *)
(* events they are given: the requests of server.py that keep something in *)
(* the memory of the process beside the database.                          *)
(*                                                                         *)
(* A request is a coroutine: it keeps what it has read and may be overtaken*)
(* by others at every await.  In memory are the two configuration caches,  *)
(* the names that the generator may not give out again, and the dashboards'*)
(* sockets.  Wrong keys, their throttle, an agent's tier and the stored    *)
(* fleet plans are left out; the settings of a challenge are a version,    *)
(* and of the keys of the configuration only two are kept.                 *)
(***************************************************************************)
EXTENDS Naturals, FiniteSets

CONSTANTS
    Requests,     \* requests that may be under way at once
    Users,        \* contributors
    Agents,       \* identifiers of agents
    Vocabulary,   \* names the generator draws from
    Numbered,     \* its numbered names, for when the draws fail
    Challenges,
    Sockets,      \* dashboards' connections
    MaxAsked,     \* bound on the requests made
    None

ASSUME MembershipAssumption ==
    /\ None \notin Agents \cup Users \cup Challenges
    /\ None \notin Vocabulary \cup Numbered
    /\ None \notin [user : Users, name : Vocabulary \cup Numbered,
                   token : BOOLEAN]
    /\ Numbered # {} /\ Challenges # {} /\ Vocabulary \cap Numbered = {}

VARIABLES
    active,      \* config.active_challenge
    revoked,     \* config.revoked_contributors
    settings,    \* challenge_configs: the version of each challenge's row
    agent,       \* the agents table
    config,      \* _config_cache
    settled,     \* _challenge_config_cache
    used,        \* names._used_names
    sockets,     \* manager.connections
    socket,      \* how each socket does
    req,         \* the requests under way
    asked,       \* how many there have been
    late,        \* history: the cached configuration was read before a commit
                 \* and stored after the invalidation; likewise `settled'
    answered,    \* history: contributors whose revocation was answered
    lost         \* history: revocations an overlapping one overwrote

tables == <<active, revoked, settings, agent>>
caches == <<config, settled, late>>
streams == <<sockets, socket>>
past == <<answered, lost>>
vars == <<tables, caches, used, streams, req, asked, past>>

Names == Vocabulary \cup Numbered
Rows == [active : Challenges, revoked : SUBSET Users]
Versions == {0, 1}

\* The configuration the database holds.
Config == [active |-> active, revoked |-> revoked]

Idle == [kind |-> "none", stage |-> "idle", who |-> None, what |-> None,
         row |-> None, barred |-> FALSE, late |-> FALSE]

Registered == {a \in Agents : agent[a] # None}
Taken == {agent[a].name : a \in Registered}

Asking == {"register", "revoke", "update", "key", "read", "event"}

RequestOK(r) ==
    /\ r.kind \in Asking \cup {"none", "rename"}
    /\ r.barred \in BOOLEAN /\ r.late \in BOOLEAN
    /\ r.kind \in {"register", "revoke"} => r.who \in Users
    /\ r.kind = "register" => r.what \in Vocabulary \cup {None}
    /\ r.kind = "rename" => r.who \in Registered /\ r.what \in Names
    /\ r.kind \in {"update", "key"} => r.what \in Challenges
    /\ r.stage \in {"lookup", "select", "store", "close"} => r.kind \in Asking
    /\ r.stage = "store" => r.row \in Rows
    /\ r.stage = "insert" => r.kind = "register"
    /\ r.stage = "list" => r.kind = "revoke"
    /\ r.stage = "write" /\ r.kind = "revoke" => r.row \subseteq Users
    /\ r.stage \in {"check", "update", "reserve"} => r.kind = "rename"
    /\ r.stage \in {"fetch", "keep"} => r.what \in Challenges
    /\ r.stage = "keep" => r.row \in Versions

TypeOK ==
    /\ active \in Challenges /\ revoked \subseteq Users
    /\ settings \in [Challenges -> Versions]
    /\ agent \in [Agents -> {None} \cup
                    [user : Users, name : Names, token : BOOLEAN]]
    /\ config \in {None} \cup Rows
    /\ settled \in {None} \cup [Challenges -> {None} \cup Versions]
    /\ used \subseteq Names
    /\ sockets \subseteq Sockets
    /\ socket \in [Sockets -> {"new", "live", "hung", "closed"}]
    /\ \A s \in Requests : RequestOK(req[s])
    /\ late \in [config : BOOLEAN, settled : BOOLEAN]
    /\ answered \subseteq Users /\ lost \subseteq Users

Init ==
    /\ active \in Challenges /\ revoked = {}
    /\ settings = [c \in Challenges |-> 0]
    /\ agent = [a \in Agents |-> None]
    /\ config = None /\ settled = None
    /\ used = {}
    /\ sockets = {} /\ socket = [w \in Sockets |-> "new"]
    /\ req = [s \in Requests |-> Idle]
    /\ late = [config |-> FALSE, settled |-> FALSE]
    /\ asked = 0
    /\ answered = {} /\ lost = {}

MayAsk(s) == req[s] = Idle /\ asked < MaxAsked /\ asked' = asked + 1

Ends(s) == req' = [req EXCEPT ![s] = Idle]
Goes(s, stage) == req' = [req EXCEPT ![s].stage = stage, ![s].row = None]
Keeps(s, stage, row) ==
    req' = [req EXCEPT ![s].stage = stage, ![s].row = row]

-----------------------------------------------------------------------------
(* The caches.                                                             *)

\* What a request does once it has the configuration `row', before it next
\* lets another run.
Proceed(s, row) ==
    CASE req[s].kind = "register" ->
            /\ IF req[s].who \in row.revoked THEN Ends(s)
               ELSE req' = [req EXCEPT ![s].stage = "insert",
                                       ![s].late = late.config]
            /\ UNCHANGED settled
      [] req[s].kind = "revoke" -> Goes(s, "list") /\ UNCHANGED settled
      [] req[s].kind \in {"update", "key"} ->
            Goes(s, "write") /\ UNCHANGED settled
      [] req[s].kind = "event" -> Goes(s, "send") /\ UNCHANGED settled
      [] req[s].kind = "read" ->
            IF settled # None /\ settled[row.active] # None
            THEN Ends(s) /\ UNCHANGED settled
            ELSE /\ settled' = IF settled = None
                               THEN [c \in Challenges |-> None] ELSE settled
                 /\ req' = [req EXCEPT ![s].stage = "fetch",
                                       ![s].what = row.active]

\* get_config_cached: use what is cached, or go to the database for it.
Lookup(s) ==
    /\ req[s].stage = "lookup"
    /\ IF config # None THEN Proceed(s, config)
       ELSE Goes(s, "select") /\ UNCHANGED settled
    /\ UNCHANGED <<tables, config, late, used, streams, asked, past>>

Select(s) ==
    /\ req[s].stage = "select"
    /\ Keeps(s, "store", Config)
    /\ UNCHANGED <<tables, caches, used, streams, asked, past>>

\* The assignment to the global; the connection is still to be closed.
Store(s) ==
    /\ req[s].stage = "store"
    /\ config' = req[s].row
    /\ late' = [late EXCEPT !.config = req[s].row # Config]
    /\ Goes(s, "close")
    /\ UNCHANGED <<tables, settled, used, streams, asked, past>>

\* What is returned is the global, as it is by now: None ends in an error.
Return(s) ==
    /\ req[s].stage = "close"
    /\ IF config = None THEN Ends(s) /\ UNCHANGED settled
       ELSE Proceed(s, config)
    /\ UNCHANGED <<tables, config, late, used, streams, asked, past>>

\* get_challenge_config_cached, from its first await.
Fetch(s) ==
    /\ req[s].stage = "fetch"
    /\ Keeps(s, "keep", settings[req[s].what])
    /\ UNCHANGED <<tables, caches, used, streams, asked, past>>

\* The global is a newer dictionary by now, or None, and that is an error.
Keep(s) ==
    /\ req[s].stage = "keep"
    /\ IF settled = None THEN UNCHANGED <<settled, late>>
       ELSE /\ settled' = [settled EXCEPT ![req[s].what] = req[s].row]
            /\ late' = [late EXCEPT !.settled =
                            @ \/ req[s].row # settings[req[s].what]]
    /\ Ends(s)
    /\ UNCHANGED <<tables, config, used, streams, asked, past>>

NothingDropped == UNCHANGED <<config, settled>>

\* _config_cache = None, and in _invalidate_caches the other one too.
DropConfig == config' = None /\ UNCHANGED settled

DropBoth == config' = None /\ settled' = None

-----------------------------------------------------------------------------
(* Names.                                                                  *)

\* generate_agent_name: a word pair not used so far or, when a hundred draws
\* have failed, a numbered one that is not checked.
Generated(without) ==
    (Vocabulary \ without) \cup
        (IF Vocabulary \cap without # {} THEN Numbered ELSE {})

FirstName(wish) == IF wish # None /\ wish \notin Taken THEN {wish}
                    ELSE Generated(used)

AskRegister(s) ==
    /\ MayAsk(s)
    /\ \E u \in Users, n \in Vocabulary \cup {None} :
        req' = [req EXCEPT ![s] = [Idle EXCEPT !.kind = "register",
                    !.stage = "lookup", !.who = u, !.what = n,
                    !.barred = u \in answered]]
    /\ UNCHANGED <<tables, caches, used, streams, past>>

\* The transaction of register_agent.  A generated name that is taken makes it
\* draw once more; a second clash is an error.
Register(s) ==
    /\ req[s].stage = "insert"
    /\ \E a \in Agents \ Registered, n \in FirstName(req[s].what) :
        \E m \in IF n \in Taken THEN Generated(used \cup {n}) ELSE {n} :
            /\ used' = used \cup {n, m}
            /\ IF m \in Taken THEN UNCHANGED agent /\ Ends(s)
               ELSE /\ agent' = [agent EXCEPT ![a] =
                            [user |-> req[s].who, name |-> m, token |-> TRUE]]
                    /\ req' = [req EXCEPT ![s] = [Idle EXCEPT
                            !.kind = "event", !.stage = "send"]]
    /\ UNCHANGED <<active, revoked, settings, caches, streams, asked, past>>

AskRename(s) ==
    /\ MayAsk(s)
    /\ \E a \in Registered, n \in Names :
        /\ agent[a].token
        /\ req' = [req EXCEPT ![s] = [Idle EXCEPT !.kind = "rename",
                    !.stage = "check", !.who = a, !.what = n]]
    /\ UNCHANGED <<tables, caches, used, streams, past>>

RenameCheck(s) ==
    /\ req[s].stage = "check"
    /\ IF req[s].what \in Taken THEN Ends(s) ELSE Goes(s, "update")
    /\ UNCHANGED <<tables, caches, used, streams, asked, past>>

\* The name may be taken since: UNIQUE(name) makes that an error.
Rename(s) ==
    /\ req[s].stage = "update"
    /\ IF req[s].what \in Taken THEN UNCHANGED agent /\ Ends(s)
       ELSE /\ agent' = [agent EXCEPT ![req[s].who].name = req[s].what]
            /\ Goes(s, "reserve")
    /\ UNCHANGED <<active, revoked, settings, caches, used, streams, asked,
                   past>>

ReserveForgotten(s) ==
    /\ req[s].stage = "reserve"
    /\ req' = [req EXCEPT ![s] = [Idle EXCEPT !.kind = "event",
                                              !.stage = "send"]]
    /\ UNCHANGED <<tables, caches, used, streams, asked, past>>

\* reserve_name comes after the commit and the closing of the connection.
Reserve(s) ==
    /\ req[s].stage = "reserve"
    /\ used' = used \cup {req[s].what}
    /\ req' = [req EXCEPT ![s] = [Idle EXCEPT !.kind = "event",
                                              !.stage = "send"]]
    /\ UNCHANGED <<tables, caches, streams, asked, past>>

-----------------------------------------------------------------------------
(* The host's requests.                                                    *)

AskAdmin(s) ==
    /\ MayAsk(s)
    /\ \/ \E u \in Users : req' = [req EXCEPT ![s] = [Idle EXCEPT
                    !.kind = "revoke", !.stage = "lookup", !.who = u]]
       \/ \E c \in Challenges, k \in {"update", "key"} :
            req' = [req EXCEPT ![s] = [Idle EXCEPT
                        !.kind = k, !.stage = "lookup", !.what = c]]
    /\ UNCHANGED <<tables, caches, used, streams, past>>

\* admin_revoke reads the list before its transaction begins.
RevokeReads(s) ==
    /\ req[s].stage = "list"
    /\ Keeps(s, "write", revoked)
    /\ UNCHANGED <<tables, caches, used, streams, asked, past>>

RevokeWrites(s) ==
    /\ req[s].stage = "write" /\ req[s].kind = "revoke"
    /\ revoked' = req[s].row \cup {req[s].who}
    /\ agent' = [a \in Agents |->
                    IF a \in Registered /\ agent[a].user = req[s].who
                    THEN [agent[a] EXCEPT !.token = FALSE] ELSE agent[a]]
    /\ lost' = lost \cup (revoked \ revoked')
    /\ Goes(s, "drop")
    /\ UNCHANGED <<active, settings, caches, used, streams, asked, answered>>

\* admin_config, here for the one key that others follow.
KeyWrites(s) ==
    /\ req[s].stage = "write" /\ req[s].kind = "key"
    /\ active' = req[s].what
    /\ Goes(s, "drop")
    /\ UNCHANGED <<revoked, settings, agent, caches, used, streams, asked,
                   past>>

\* Both end by dropping the one cache.
AdminEnds(s) ==
    /\ req[s].stage = "drop" /\ req[s].kind \in {"revoke", "key"}
    /\ DropConfig
    /\ late' = [late EXCEPT !.config = FALSE]
    /\ answered' = answered \cup
            (IF req[s].kind = "revoke" THEN {req[s].who} ELSE {})
    /\ Ends(s)
    /\ UNCHANGED <<tables, used, streams, asked, lost>>

\* update_swarm_config: the active challenge, a challenge's settings or both.
UpdateWrites(s) ==
    /\ req[s].stage = "write" /\ req[s].kind = "update"
    /\ active' \in {active, req[s].what}
    /\ settings' \in {settings, [settings EXCEPT ![req[s].what] = 1 - @]}
    /\ Goes(s, "drop")
    /\ UNCHANGED <<revoked, agent, caches, used, streams, asked, past>>

\* The event it sends repeats the configuration, which it looks up again.
UpdateDrops(s) ==
    /\ req[s].stage = "drop" /\ req[s].kind = "update"
    /\ DropBoth
    /\ late' = [config |-> FALSE, settled |-> FALSE]
    /\ req' = [req EXCEPT ![s] = [Idle EXCEPT !.kind = "event",
                                              !.stage = "lookup"]]
    /\ UNCHANGED <<tables, used, streams, asked, past>>

\* Any request that follows the active challenge and needs its settings.
AskRead(s) ==
    /\ MayAsk(s)
    /\ req' = [req EXCEPT ![s] = [Idle EXCEPT !.kind = "read",
                                              !.stage = "lookup"]]
    /\ UNCHANGED <<tables, caches, used, streams, past>>

-----------------------------------------------------------------------------
(* The dashboards: ConnectionManager.                                      *)

Connect(w) ==
    /\ socket[w] = "new"
    /\ socket' = [socket EXCEPT ![w] = "live"]
    /\ sockets' = sockets \cup {w}
    /\ UNCHANGED <<tables, caches, used, req, asked, past>>

\* A paused tab or a stalled network: sends no longer end in time.
Hang(w) ==
    /\ socket[w] = "live"
    /\ socket' = [socket EXCEPT ![w] = "hung"]
    /\ UNCHANGED <<tables, caches, used, sockets, req, asked, past>>

Close(w) ==
    /\ socket[w] \in {"live", "hung"}
    /\ socket' = [socket EXCEPT ![w] = "closed"]
    /\ sockets' = sockets \ {w}
    /\ UNCHANGED <<tables, caches, used, req, asked, past>>

\* broadcast takes a copy of the list and sends to all in it.
Send(s) ==
    /\ req[s].stage = "send"
    /\ IF sockets = {} THEN Ends(s) ELSE Keeps(s, "sent", sockets)
    /\ UNCHANGED <<tables, caches, used, streams, asked, past>>

RebuiltFromCopy(targets, failed) == targets \ failed

\* disconnect, one by one, from the list as it is by now.
Pruned(targets, failed) == sockets \ failed

\* A send fails, or not, to a socket that is not live by now.
Prune(s) ==
    /\ req[s].stage = "sent"
    /\ \E failed \in SUBSET {w \in req[s].row : socket[w] # "live"} :
        sockets' = Pruned(req[s].row, failed)
    /\ Ends(s)
    /\ UNCHANGED <<tables, caches, used, socket, asked, past>>

-----------------------------------------------------------------------------

\* The process ends with its requests, caches and sockets; lifespan reads the
\* names back.
Restart ==
    /\ config' = None /\ settled' = None
    /\ late' = [config |-> FALSE, settled |-> FALSE]
    /\ used' = Taken
    /\ req' = [s \in Requests |-> Idle]
    /\ sockets' = {}
    /\ socket' = [w \in Sockets |->
                    IF socket[w] = "new" THEN "new" ELSE "closed"]
    /\ UNCHANGED <<tables, asked, past>>

Next ==
    \/ \E s \in Requests :
        \/ AskRegister(s) \/ AskRename(s) \/ AskAdmin(s) \/ AskRead(s)
        \/ Lookup(s) \/ Select(s) \/ Store(s) \/ Return(s)
        \/ Fetch(s) \/ Keep(s)
        \/ Register(s) \/ RenameCheck(s) \/ Rename(s) \/ Reserve(s)
        \/ RevokeReads(s) \/ RevokeWrites(s) \/ KeyWrites(s) \/ AdminEnds(s)
        \/ UpdateWrites(s) \/ UpdateDrops(s)
        \/ Send(s) \/ Prune(s)
    \/ \E w \in Sockets : Connect(w) \/ Hang(w) \/ Close(w)
    \/ Restart

Spec == Init /\ [][Next]_vars

-----------------------------------------------------------------------------
(* Correctness.                                                            *)

\* A request has committed and not yet dropped what it made stale.
Dropping(kinds) ==
    \E s \in Requests : req[s].stage = "drop" /\ req[s].kind \in kinds

\* A cached configuration differs from the database only while the request
\* that changed it has yet to drop the cache, or when a refill was overtaken.
CacheIsCurrent ==
    /\ config \notin {None, Config} =>
            late.config \/ Dropping({"revoke", "key", "update"})
    /\ settled # None =>
        \A c \in Challenges : settled[c] \notin {None, settings[c]} =>
            late.settled \/ Dropping({"update"})

\* A contributor whose revocation was answered registers no further agent,
\* unless that request was judged by an overtaken refill or the revocation was
\* overwritten by one that overlapped it.
RevokedStayOut ==
    \A s \in Requests :
        req[s].stage = "insert" /\ req[s].barred =>
            req[s].late \/ req[s].who \in lost

\* The generator never draws a word pair that an agent has, except the name of
\* a rename that is committed and not yet reserved.
NamesReserved ==
    Taken \subseteq used \cup {req[s].what : s \in
                                {r \in Requests : req[r].stage = "reserve"}}

\* A dashboard that reads in time stays subscribed, whichever broadcasts were
\* under way when it connected.
AttentiveStay == \A w \in Sockets : socket[w] = "live" => w \in sockets
=============================================================================
