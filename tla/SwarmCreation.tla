--------------------------- MODULE SwarmCreation ---------------------------
(***************************************************************************)
(* How a host brings a swarm up on Railway and keeps it (hostadmin/): the  *)
(* creation that `setup.py create' and the control UI share, interrupted   *)
(* anywhere and run again; the platform that attaches volumes late and     *)
(* replaces containers under it; and the invitations, revocations and      *)
(* switches the host issues meanwhile from swarm.admin.json.               *)
(*                                                                         *)
(* One swarm name, hence one project and one service of that name.  The    *)
(* admin key and the base password, always chosen together, are one        *)
(* number.  Of a deployed configuration the active challenge is kept, and  *)
(* whether the sub-configurations of the challenges are all there; of the  *)
(* seed pool, whether an authored and a mainnet seed are there.            *)
(***************************************************************************)
EXTENDS Naturals, FiniteSets

CONSTANTS
    Challenges,   \* what the swarm may run
    Users,        \* names the host may invite
    Default,      \* the active challenge of a database nobody configured
    Garbled,      \* the challenges with whose creation comes a blob of
                  \* sub-configurations the server cannot read back
    MaxCreates,   \* bound: creations started
    MaxRestarts,  \* bound: containers the platform replaces by itself
    MaxSwitches   \* bound: challenge switches

ASSUME BoundsAreNaturals ==
    /\ MaxCreates \in Nat
    /\ MaxRestarts \in Nat
    /\ MaxSwitches \in Nat
ASSUME DefaultIsNoChoice == Default \notin Challenges

VARIABLES
    project,    \* projects and services of the swarm's name on Railway
    variables,  \* the service's environment variables, or None
    volume,     \* "none", "attaching" or "attached"
    rollout,    \* the deployment on its way, or None
    serving,    \* the container the domain routes to, or None
    volumeDb,   \* swarm.db on the volume, or None
    diskDb,     \* swarm.db on the serving container's own disk, or None
    creation,   \* the running `create'
    admin,      \* swarm.admin.json, or None
    used,       \* counters of the bounds
    history     \* what was promised to whom

vars == <<project, variables, volume, rollout, serving, volumeDb, diskDb,
          creation, admin, used, history>>
railway == <<project, variables, volume>>
server == <<rollout, serving, volumeDb, diskDb>>

None == [none |-> TRUE]
Seeds == {"authored", "mainnet"}

Idle == [at |-> "idle", want |-> Default, resumed |-> FALSE, cred |-> 0,
         reads |-> 0, expected |-> {}, unread |-> {}, missing |-> {},
         moved |-> FALSE]
At(step) == creation.at = step
GoTo(step) == creation' = [creation EXCEPT !.at = step]

Init ==
    /\ project = [projects |-> 0, services |-> 0]
    /\ variables = None
    /\ volume = "none"
    /\ rollout = None
    /\ serving = None
    /\ volumeDb = None
    /\ diskDb = None
    /\ creation = Idle
    /\ admin = None
    /\ used = [creates |-> 0, creds |-> 0, restarts |-> 0, switches |-> 0]
    /\ history = [invites |-> {}, rotated |-> FALSE, confirmed |-> FALSE,
                  settled |-> FALSE, seeded |-> {}, rolling |-> FALSE,
                  asked |-> {}]

-----------------------------------------------------------------------------
\* The server's database.

(* init_db: a fresh database gets the defaults, over them and only then the *)
(* configuration of the environment; the credentials of the environment are *)
(* re-asserted on every boot.                                               *)
Defaults(env) == [active |-> Default, whole |-> FALSE, cred |-> env.cred,
                  seeds |-> {}, revoked |-> {}]

\* Variant: the environment's configuration is not applied.
IgnoreEnv(db, env) == db

(* The scalars first, then the blob of sub-configurations: an error there   *)
(* is printed and swallowed, and the environment is never applied again.    *)
ApplyEnv(db, env) == [db EXCEPT !.active = env.active,
                                !.whole = env.active \notin Garbled]
Fresh(env) == ApplyEnv(Defaults(env), env)

\* Variant: the environment configures the database on every boot.
BootReconfigured(db, env) ==
    IF db = None THEN Fresh(env)
                 ELSE [db EXCEPT !.cred = env.cred, !.active = env.active]

Boot(db, env) == IF db = None THEN Fresh(env)
                              ELSE [db EXCEPT !.cred = env.cred]

Answering == IF serving.mounted THEN volumeDb ELSE diskDb

(* A request the serving container carries out on its database.             *)
Store(db) == IF serving.mounted
               THEN volumeDb' = db /\ UNCHANGED diskDb
               ELSE diskDb' = db /\ UNCHANGED volumeDb

Accepts(cred) == serving /= None /\ Answering.cred = cred

-----------------------------------------------------------------------------
\* The platform.

(* The attach registers asynchronously; until then deployments miss it.     *)
VolumeAttaches ==
    /\ volume = "attaching"
    /\ volume' = "attached"
    /\ UNCHANGED <<project, variables, server, creation, admin, used, history>>

(* The new container boots and opens its database while the old one still   *)
(* answers.                                                                 *)
ContainerStarts ==
    /\ rollout /= None
    /\ ~rollout.up
    /\ rollout' = [rollout EXCEPT !.up = TRUE]
    /\ volumeDb' = IF rollout.mounted THEN Boot(volumeDb, rollout) ELSE volumeDb
    /\ UNCHANGED <<railway, serving, diskDb, creation, admin, used, history>>

(* Its health check passes: it takes the traffic, and what the old one kept *)
(* on its own disk is gone.                                                 *)
TrafficMoves ==
    /\ rollout /= None
    /\ rollout.up
    /\ serving' = rollout
    /\ rollout' = None
    /\ diskDb' = IF rollout.mounted THEN None ELSE Fresh(rollout)
    /\ UNCHANGED <<railway, volumeDb, creation, admin, used, history>>

(* The platform replaces the serving container by one of the same snapshot. *)
ContainerReplaced ==
    /\ serving /= None
    /\ used.restarts < MaxRestarts
    /\ used' = [used EXCEPT !.restarts = @ + 1]
    /\ IF serving.mounted THEN Store(Boot(volumeDb, serving))
                          ELSE Store(Fresh(serving))
    /\ UNCHANGED <<railway, rollout, serving, creation, admin, history>>

(* The configuration a deployment snapshots.                                *)
Snapshot == [mounted |-> volume = "attached", cred |-> variables.cred,
             active |-> variables.active, up |-> FALSE]

-----------------------------------------------------------------------------
\* Provisioning.

StartCreate(c) ==
    /\ At("idle")
    /\ used.creates < MaxCreates
    /\ used' = [used EXCEPT !.creates = @ + 1]
    /\ creation' = [Idle EXCEPT !.at = "find", !.want = c]
    /\ history' = [history EXCEPT !.confirmed = FALSE, !.asked = @ \cup {c}]
    /\ UNCHANGED <<railway, server, admin>>

Adopt == creation' = [creation EXCEPT
             !.at = IF project.services > 0 THEN "credentials" ELSE "service",
             !.resumed = TRUE]

(* _railway_find_project returns None as well when the listing fails.       *)
FindProject ==
    /\ At("find")
    /\ \/ project.projects > 0 /\ Adopt
       \/ GoTo("init")
    /\ UNCHANGED <<railway, server, admin, used, history>>

(* A call whose answer timed out may have landed.  Which of two projects or *)
(* services of one name later calls reach is Railway's choice: a creation   *)
(* that made a second one is not followed further.                          *)
InitProject ==
    /\ At("init")
    /\ \E landed \in {0, 1} :
          /\ project' = [project EXCEPT !.projects = @ + landed]
          /\ \/ project'.projects > 1 /\ GoTo("ambiguous")
             \/ project'.projects = 1 /\ landed = 1 /\ GoTo("service")
             \/ project'.projects <= 1 /\ GoTo("await")
    /\ UNCHANGED <<variables, volume, server, admin, used, history>>

(* A project the timed-out init landed after all is adopted.                *)
AwaitProject ==
    /\ At("await")
    /\ project.projects > 0
    /\ Adopt
    /\ UNCHANGED <<railway, server, admin, used, history>>

AddService ==
    /\ At("service")
    /\ \E landed \in {0, 1} :
          /\ project' = [project EXCEPT !.services = @ + landed]
          /\ \/ project'.services > 1 /\ GoTo("ambiguous")
             \/ project'.services = 1 /\ landed = 1 /\ GoTo("credentials")
             \/ project'.services <= 1 /\ GoTo("requery")
    /\ UNCHANGED <<variables, volume, server, admin, used, history>>

(* After a timed-out add: adopt what landed, or add again, also when the    *)
(* listing could not tell.                                                  *)
RequeryService ==
    /\ At("requery")
    /\ \/ project.services > 0 /\ GoTo("credentials")
       \/ GoTo("service")
    /\ UNCHANGED <<railway, server, admin, used, history>>

(* _resolve_swarm_credentials: an adopted swarm keeps what Railway holds,   *)
(* else what swarm.admin.json holds; only then new ones, with a warning.    *)
Keep(cred) ==
    /\ creation' = [creation EXCEPT !.at = "variables", !.cred = cred]
    /\ UNCHANGED <<used, history>>

Mint ==
    /\ used' = [used EXCEPT !.creds = @ + 1]
    /\ creation' = [creation EXCEPT !.at = "variables", !.cred = used.creds + 1]
    /\ history' = [history EXCEPT !.rotated = @ \/ creation.resumed]

\* Variant: an adopted swarm is given new credentials without a warning.
MintForAdopted ==
    /\ At("credentials")
    /\ used' = [used EXCEPT !.creds = @ + 1]
    /\ creation' = [creation EXCEPT !.at = "variables", !.cred = used.creds + 1]
    /\ UNCHANGED <<railway, server, admin, history>>

ResolveCredentials ==
    /\ At("credentials")
    /\ \/ ~creation.resumed /\ Mint
       \/ /\ creation.resumed
          /\ \/ variables /= None /\ Keep(variables.cred)
             \/ admin /= None /\ Keep(admin.cred)
             \/ admin = None /\ Mint
    /\ UNCHANGED <<railway, server, admin>>

SetVariables ==
    /\ At("variables")
    /\ variables' = [cred |-> creation.cred, active |-> creation.want]
    /\ GoTo("volume")
    /\ UNCHANGED <<project, volume, server, admin, used, history>>

(* The wait for the attach gives up after a minute, so it promises nothing. *)
AddVolume ==
    /\ At("volume")
    /\ volume' = IF volume = "none" THEN "attaching" ELSE volume
    /\ GoTo("up")
    /\ UNCHANGED <<project, variables, server, admin, used, history>>

Deploy(next) ==
    /\ rollout' = Snapshot
    /\ GoTo(next)
    /\ UNCHANGED <<railway, serving, volumeDb, diskDb, admin, used, history>>

Up == At("up") /\ Deploy("wait")

-----------------------------------------------------------------------------
\* Checking, configuring and seeding the deployed server.

(* Nothing answers within four minutes: the volume check is skipped.        *)
WaitForServer ==
    /\ At("wait")
    /\ \/ serving /= None /\ GoTo("check")
       \/ GoTo("push")
    /\ UNCHANGED <<railway, server, admin, used, history>>

\* Variant: an attached volume is taken for a written one.
VolumeThere ==
    /\ creation.at \in {"check", "recheck"}
    /\ volume /= "none"
    /\ GoTo("push")
    /\ history' = [history EXCEPT !.confirmed = TRUE]
    /\ UNCHANGED <<railway, server, admin, used>>

(* The volume's listing shows swarm.db: the green line.                     *)
DbOnVolume ==
    /\ creation.at \in {"check", "recheck"}
    /\ volumeDb /= None
    /\ GoTo("push")
    /\ history' = [history EXCEPT !.confirmed = TRUE]
    /\ UNCHANGED <<railway, server, admin, used>>

(* Unreadable listing, failed redeploy, or still missing: a warning only.   *)
DbUnconfirmed ==
    /\ creation.at \in {"check", "recheck"}
    /\ GoTo("push")
    /\ UNCHANGED <<railway, server, admin, used, history>>

Redeploy == At("check") /\ volumeDb = None /\ Deploy("recheck")

(* push_config_to_server: post, read back, twice in a row.                  *)
PostConfig ==
    /\ At("push")
    /\ Accepts(creation.cred)
    /\ Store([Answering EXCEPT !.active = creation.want, !.whole = TRUE])
    /\ GoTo("readback")
    /\ UNCHANGED <<railway, rollout, serving, admin, used, history>>

ConfigCallFails ==
    /\ creation.at \in {"push", "readback"}
    /\ creation' = [creation EXCEPT !.at = "push", !.reads = 0]
    /\ UNCHANGED <<railway, server, admin, used, history>>

(* The second match in a row verifies the configuration; whether it did so  *)
(* after the green line of the volume, outside a rollout, is remembered.    *)
ReadConfigBack ==
    /\ At("readback")
    /\ LET reads == IF Answering.active = creation.want /\ Answering.whole
                      THEN creation.reads + 1 ELSE 0
       IN /\ creation' = [creation EXCEPT
                 !.at = IF reads = 2 THEN "mainnet" ELSE "push",
                 !.reads = IF reads = 2 THEN 0 ELSE reads]
          /\ history' = [history EXCEPT !.settled =
                 @ \/ (reads = 2 /\ history.confirmed /\ rollout = None)]
    /\ UNCHANGED <<railway, server, admin, used>>

Finish == creation' = [Idle EXCEPT !.at = "write", !.want = creation.want,
                                   !.cred = creation.cred]

(* The deadline passed: seeding is skipped.                                 *)
GiveUpConfig ==
    /\ At("push")
    /\ Finish
    /\ UNCHANGED <<railway, server, admin, used, history>>

Deposit(s) == Store([Answering EXCEPT !.seeds = @ \cup {s}])

(* A deposit reported failed is not expected back, whether or not it landed;*)
(* a challenge without a fetchable algorithm is, although nothing was sent. *)
SeedMainnet ==
    /\ At("mainnet")
    /\ \E expected \in {Seeds, {"authored"}} :
          creation' = [creation EXCEPT !.at = "authored",
                                       !.expected = expected]
    /\ \/ Accepts(creation.cred) /\ Deposit("mainnet")
       \/ UNCHANGED <<volumeDb, diskDb>>
    /\ UNCHANGED <<railway, rollout, serving, admin, used, history>>

SeedAuthored ==
    /\ At("authored")
    /\ \/ Accepts(creation.cred) /\ Deposit("authored")
       \/ UNCHANGED <<volumeDb, diskDb>>
    /\ creation' = [creation EXCEPT !.at = "verify", !.moved = FALSE,
           !.unread = creation.expected, !.missing = creation.expected]
    /\ UNCHANGED <<railway, rollout, serving, admin, used, history>>

(* verify_seed_pool reads the pool in a request per challenge, which may    *)
(* meet different containers; a failed read counts its seeds missing.       *)
ReadPool(s) ==
    /\ At("verify")
    /\ s \in creation.unread
    /\ \E found \in {{}, {s}} :
          /\ found /= {} => Accepts(creation.cred) /\ s \in Answering.seeds
          /\ creation' = [creation EXCEPT !.unread = @ \ {s},
                                          !.missing = @ \ found,
                                          !.moved = @ \/ rollout /= None]
    /\ UNCHANGED <<railway, server, admin, used, history>>

(* Then it deposits again what it misses and holds the code of, until the   *)
(* deadline.  What it reports present after the green line of the volume is *)
(* remembered, and whether a rollout was under way at one of the reads.     *)
VerifySeeds ==
    /\ At("verify")
    /\ creation.unread = {}
    /\ \/ /\ creation.missing = {}
          /\ Finish
          /\ history' = [history EXCEPT
                 !.seeded = IF history.confirmed THEN creation.expected ELSE @,
                 !.rolling = IF history.confirmed THEN creation.moved ELSE @]
       \/ /\ "authored" \in creation.missing
          /\ GoTo("authored")
          /\ UNCHANGED history
       \/ Finish /\ UNCHANGED history
    /\ UNCHANGED <<railway, server, admin, used>>

(* write_swarm_admin keeps none of the fields the creation does not name.   *)
NewAdmin(issued) ==
    [cred |-> creation.cred, issued |-> issued, revoked |-> {}]

(* _scaffold_fleet_config invites the host, unless there is a fleet.config. *)
WriteLocalFiles ==
    /\ At("write")
    /\ \/ admin' = NewAdmin({}) /\ UNCHANGED history
       \/ \E host \in Users :
             /\ admin' = NewAdmin({host})
             /\ history' = [history EXCEPT
                    !.invites = @ \cup {[user |-> host, cred |-> creation.cred]}]
    /\ creation' = Idle
    /\ UNCHANGED <<railway, server, used>>

(* A rejected call, a failed build, Ctrl-C: the creation ends where it is.  *)
Abort ==
    /\ creation.at \notin {"idle", "ambiguous"}
    /\ creation' = Idle
    /\ UNCHANGED <<railway, server, admin, used, history>>

-----------------------------------------------------------------------------
\* The host's other commands.

Invite(u) ==
    /\ admin /= None
    /\ u \notin admin.revoked
    /\ admin' = [admin EXCEPT !.issued = @ \cup {u}]
    /\ history' = [history EXCEPT
           !.invites = @ \cup {[user |-> u, cred |-> admin.cred]}]
    /\ UNCHANGED <<railway, server, creation, used>>

(* The server first, then the file, which an interruption may leave behind. *)
Revoke(u) ==
    /\ admin /= None
    /\ Accepts(admin.cred)
    /\ Store([Answering EXCEPT !.revoked = @ \cup {u}])
    /\ \/ admin' = [admin EXCEPT !.revoked = @ \cup {u}]
       \/ UNCHANGED admin
    /\ UNCHANGED <<railway, rollout, serving, creation, used, history>>

SwitchChallenge(c) ==
    /\ admin /= None
    /\ Accepts(admin.cred)
    /\ used.switches < MaxSwitches
    /\ used' = [used EXCEPT !.switches = @ + 1]
    /\ Store([Answering EXCEPT !.active = c])
    /\ history' = [history EXCEPT !.asked = @ \cup {c}]
    /\ UNCHANGED <<railway, rollout, serving, creation, admin>>

(* The host goes on from another machine, without swarm.admin.json.         *)
LoseAdminFile ==
    /\ admin /= None
    /\ admin' = None
    /\ UNCHANGED <<railway, server, creation, used, history>>

Provision ==
    \/ \E c \in Challenges : StartCreate(c)
    \/ FindProject \/ InitProject \/ AwaitProject
    \/ AddService \/ RequeryService
    \/ ResolveCredentials \/ SetVariables \/ AddVolume \/ Up

Configure ==
    \/ WaitForServer \/ DbOnVolume \/ DbUnconfirmed \/ Redeploy
    \/ PostConfig \/ ConfigCallFails \/ ReadConfigBack \/ GiveUpConfig
    \/ SeedMainnet \/ SeedAuthored \/ VerifySeeds \/ WriteLocalFiles
    \/ \E s \in Seeds : ReadPool(s)

Platform ==
    VolumeAttaches \/ ContainerStarts \/ TrafficMoves \/ ContainerReplaced

Command ==
    \/ \E u \in Users : Invite(u) \/ Revoke(u)
    \/ \E c \in Challenges : SwitchChallenge(c)
    \/ LoseAdminFile

Next == Provision \/ Configure \/ Abort \/ Platform \/ Command

Spec == Init /\ [][Next]_vars

-----------------------------------------------------------------------------
\* Properties.

Steps == {"idle", "find", "init", "ambiguous", "await", "service", "requery",
          "credentials", "variables", "volume", "up", "wait", "check",
          "recheck", "push", "readback", "mainnet", "authored", "verify",
          "write"}

(* The types, with the credentials minted and the challenges asked for so   *)
(* far as the values the rest of the state may hold.                        *)
Live == 1 .. used.creds
Whole == {TRUE} \cup {c \notin Garbled : c \in history.asked}
Envs == [cred : Live, active : history.asked]
Deployments == [mounted : BOOLEAN, cred : Live, active : history.asked,
                up : BOOLEAN]
Dbs == [active : history.asked, whole : Whole, cred : Live,
        seeds : SUBSET Seeds, revoked : SUBSET Users]
Admins == [cred : Live, issued : SUBSET Users, revoked : SUBSET Users]
Creations == [at : Steps, want : Challenges \cup {Default},
              resumed : BOOLEAN, cred : 0 .. used.creds, reads : Nat,
              expected : SUBSET Seeds, unread : SUBSET Seeds,
              missing : SUBSET Seeds, moved : BOOLEAN]
Histories == [invites : SUBSET [user : Users, cred : Live],
              rotated : BOOLEAN, confirmed : BOOLEAN, settled : BOOLEAN,
              seeded : SUBSET Seeds, rolling : BOOLEAN,
              asked : SUBSET Challenges]

TypeOK ==
    /\ project \in [projects : Nat, services : Nat]
    /\ variables \in Envs \cup {None}
    /\ volume \in {"none", "attaching", "attached"}
    /\ rollout \in Deployments \cup {None}
    /\ serving \in Deployments \cup {None}
    /\ volumeDb \in Dbs \cup {None}
    /\ diskDb \in Dbs \cup {None}
    /\ creation \in Creations
    /\ admin \in Admins \cup {None}
    /\ used \in [creates : Nat, creds : Nat, restarts : Nat, switches : Nat]
    /\ history \in Histories

(* Whatever is interrupted, adopted and run again, also from a machine that *)
(* lost swarm.admin.json: as long as no creation warned that it rotated the *)
(* credentials, every invitation opens the server that answers.             *)
InvitesStayValid ==
    ~history.rotated /\ serving /= None =>
        \A i \in history.invites : Answering.cred = i.cred

(* Every server that answers runs what some creation or switch asked for,   *)
(* not the defaults, whatever became of the post; its sub-configurations    *)
(* are all there too, unless a blob could not be read back                  *)
(* (db._apply_env_swarm_config).  Even then they are on the volume for good *)
(* once push_config_to_server verified them after the volume's green line,  *)
(* outside a rollout: two matching reads mean what the creation prints.     *)
RunsWhatWasAsked ==
    /\ serving /= None =>
         /\ Answering.active \in history.asked
         /\ history.asked \cap Garbled = {} => Answering.whole
    /\ history.settled => volumeDb /= None /\ volumeDb.whole

(* A redeploy, a replaced container or a re-run creation before its post    *)
(* never reverts the challenge the host put in force on the volume: the     *)
(* environment configures a database once.                                  *)
OnlyTheHostSwitches ==
    [][ volumeDb /= None /\ volumeDb'.active /= volumeDb.active
          => PostConfig \/ \E c \in Challenges : SwitchChallenge(c) ]_vars

(* Seeds reported present after the green line of the volume, with no       *)
(* rollout under way at any of the reads, are in the database on the        *)
(* volume: the check of the volume means what it says, and no later         *)
(* container loses them.                                                    *)
SettledSeedsStay ==
    ~history.rolling /\ history.seeded /= {} =>
        /\ volumeDb /= None
        /\ history.seeded \subseteq volumeDb.seeds
=============================================================================
