------------------------ MODULE SwarmCreationProofs ------------------------
(***************************************************************************)
(* SwarmCreation's properties for any challenges, contributors, number of  *)
(* creations, interruptions and replaced containers.                       *)
(***************************************************************************)
EXTENDS SwarmCreation, TLAPS

Configuring == {"check", "recheck", "wait", "push", "readback", "mainnet",
                "authored", "verify", "write", "up", "volume"}

(* How far a creation has come, and what it has done by then.               *)
Paced ==
    /\ creation.at \in Configuring \cup {"variables"} => creation.cred \in Live
    /\ creation.at \in Configuring => variables /= None
    /\ creation.at /= "idle" => creation.want \in history.asked
    /\ creation.at \in {"service", "requery", "credentials"} =>
         /\ project.projects > 0
         /\ ~creation.resumed => used.creds = 0
    /\ project.projects = 0 => used.creds = 0

(* Credentials are minted once, unless a creation warned.                   *)
MintedOnce == ~history.rotated => used.creds <= 1

(* Which database a container works on; once there is one on the volume,    *)
(* nothing is deployed without the volume any more.                         *)
Housed ==
    /\ serving /= None /\ serving.mounted => volumeDb /= None
    /\ serving /= None /\ ~serving.mounted => diskDb /= None
    /\ rollout /= None /\ rollout.mounted => volume = "attached"
    /\ rollout /= None /\ rollout.mounted /\ rollout.up => volumeDb /= None
    /\ volumeDb /= None =>
         /\ volume = "attached"
         /\ rollout /= None => rollout.mounted
         /\ rollout = None => serving /= None /\ serving.mounted
    /\ history.confirmed => volumeDb /= None

(* The seeds a verification under way has found are on the volume.          *)
Found ==
    At("verify") =>
        /\ creation.unread \subseteq creation.missing
        /\ history.confirmed /\ ~creation.moved =>
             creation.expected \ creation.missing \subseteq volumeDb.seeds

(* What the green lines promise.                                            *)
Settled ==
    /\ SettledSeedsStay
    /\ history.settled => volumeDb /= None /\ volumeDb.whole
    /\ Found

IInv == TypeOK /\ Paced /\ MintedOnce /\ Housed /\ Settled

(* None is no record of the state.                                          *)
LEMMA Apart ==
    /\ None \notin Envs
    /\ None \notin Deployments
    /\ None \notin Dbs
    /\ None \notin Admins
BY DEF None, Envs, Deployments, Dbs, Admins

(* The types move only with the credentials and what was asked for.         *)
LEMMA SameTypes ==
    ASSUME used'.creds = used.creds, history'.asked = history.asked
    PROVE  /\ Live' = Live
           /\ Envs' = Envs
           /\ Deployments' = Deployments
           /\ Dbs' = Dbs
           /\ Admins' = Admins
           /\ Creations' = Creations
           /\ Histories' = Histories
BY DEF Live, Whole, Envs, Deployments, Dbs, Admins, Creations, Histories

(* The volume loses no seed and no sub-configuration.                       *)
VolumeKept ==
    volumeDb /= None =>
        /\ volumeDb' /= None
        /\ volumeDb.seeds \subseteq volumeDb'.seeds
        /\ volumeDb.whole => volumeDb'.whole

(* Then the promises stand that no step has added to.                       *)
LEMMA SettledKept ==
    ASSUME IInv, VolumeKept,
           history'.settled = history.settled,
           history'.seeded = history.seeded,
           history'.rolling = history.rolling,
           \/ creation'.at /= "verify"
           \/ creation' = creation /\ history'.confirmed = history.confirmed
    PROVE  Settled'
<1>1. SettledSeedsStay'
  BY DEF IInv, Settled, SettledSeedsStay, VolumeKept
<1>2. Found'
  BY DEF IInv, Housed, Settled, Found, At, VolumeKept
<1>3. history'.settled => volumeDb' /= None /\ volumeDb'.whole
  BY DEF IInv, Settled, VolumeKept
<1> QED BY <1>1, <1>2, <1>3 DEF Settled

(* While a container serves, it has a database.                             *)
LEMMA AnsweringIsDb == ASSUME IInv, serving /= None PROVE Answering \in Dbs
BY DEF IInv, TypeOK, Housed, Answering, Deployments

(* A request keeps both databases databases, and the volume whole.          *)
LEMMA Storing ==
    ASSUME IInv, serving /= None, NEW db \in Dbs, Store(db),
           Answering.seeds \subseteq db.seeds, Answering.whole => db.whole
    PROVE  /\ volumeDb' \in Dbs \cup {None}
           /\ diskDb' \in Dbs \cup {None}
           /\ VolumeKept
BY Apart DEF IInv, TypeOK, Store, Answering, VolumeKept

LEMMA Depositing ==
    ASSUME IInv, NEW s \in Seeds,
           \/ Accepts(creation.cred) /\ Deposit(s)
           \/ UNCHANGED <<volumeDb, diskDb>>
    PROVE  /\ volumeDb' \in Dbs \cup {None}
           /\ diskDb' \in Dbs \cup {None}
           /\ VolumeKept
<1>1. CASE Accepts(creation.cred) /\ Deposit(s)
  <2> DEFINE db == [Answering EXCEPT !.seeds = @ \cup {s}]
  <2>1. serving /= None /\ Answering \in Dbs
    BY <1>1, AnsweringIsDb DEF Accepts
  <2>2. /\ db \in Dbs
        /\ Answering.seeds \subseteq db.seeds
        /\ db.whole = Answering.whole
    BY <2>1 DEF Dbs
  <2>3. Store(db)
    BY <1>1 DEF Deposit
  <2> HIDE DEF db
  <2> QED BY <2>1, <2>2, <2>3, Storing
<1>2. CASE UNCHANGED <<volumeDb, diskDb>>
  BY <1>2 DEF IInv, TypeOK, VolumeKept
<1> QED BY <1>1, <1>2

(* A boot makes a database, and leaves the one it finds as it is but for    *)
(* the credentials.                                                         *)
LEMMA Booting ==
    ASSUME NEW env \in Deployments, NEW db \in Dbs \cup {None}
    PROVE  /\ Fresh(env) \in Dbs
           /\ Boot(db, env) \in Dbs
           /\ db /= None => /\ Boot(db, env).seeds = db.seeds
                           /\ Boot(db, env).whole = db.whole
<1>1. Fresh(env) \in Dbs
  <2>1. ASSUME NEW a \in history.asked, NEW w \in Whole
        PROVE  [Defaults(env) EXCEPT !.active = a, !.whole = w] \in Dbs
    BY DEF Defaults, Deployments, Dbs
  <2>2. (env.active \notin Garbled) \in Whole /\ env.active \in history.asked
    BY DEF Deployments, Whole
  <2> QED BY <2>1, <2>2 DEF Fresh, ApplyEnv
<1>2. CASE db = None
  BY <1>1, <1>2 DEF Boot
<1>3. CASE db /= None
  <2>1. Boot(db, env) = [db EXCEPT !.cred = env.cred]
    BY <1>3 DEF Boot
  <2>2. db \in Dbs /\ env.cred \in Live
    BY <1>3 DEF Deployments
  <2> QED BY <1>1, <2>1, <2>2 DEF Dbs
<1> QED BY <1>1, <1>2, <1>3

(* Steps of the creation that touch nothing but itself.                     *)
LEMMA OnlyCreation ==
    ASSUME IInv, UNCHANGED <<railway, server, admin, used, history>>,
           creation' \in Creations, Paced', Found'
    PROVE  IInv'
<1> USE DEF IInv, railway, server
<1>1. TypeOK'
  BY SameTypes DEF TypeOK
<1>2. MintedOnce' /\ Housed' /\ Settled'
  BY DEF MintedOnce, Housed, SettledSeedsStay, Settled
<1> QED BY <1>1, <1>2

(* Adopting a project goes on to the service or to the credentials.         *)
LEMMA Adopting ==
    ASSUME IInv, creation.at \in {"find", "await"}, Adopt,
           project.projects > 0,
           UNCHANGED <<railway, server, admin, used, history>>
    PROVE  IInv'
<1>1. creation' \in Creations
  <2>1. creation \in Creations
    BY DEF IInv, TypeOK, Creations
  <2>2. CASE project.services > 0
    <3>1. creation' = [creation EXCEPT !.at = "credentials", !.resumed = TRUE]
      BY <2>2 DEF Adopt
    <3> QED BY <2>1, <3>1 DEF Creations, Steps
  <2>3. CASE ~(project.services > 0)
    <3>1. creation' = [creation EXCEPT !.at = "service", !.resumed = TRUE]
      BY <2>3 DEF Adopt
    <3> QED BY <2>1, <3>1 DEF Creations, Steps
  <2> QED BY <2>2, <2>3
<1>2. Paced'
  <2>1. /\ creation'.at \in {"credentials", "service"}
        /\ creation'.resumed = TRUE
        /\ creation'.want = creation.want
    BY DEF IInv, TypeOK, Adopt
  <2> QED
    BY <2>1 DEF IInv, Paced, Configuring, railway
<1>3. Found'
  BY DEF IInv, TypeOK, Creations, Adopt, Found, At
<1> QED BY <1>1, <1>2, <1>3, OnlyCreation

(* Fresh credentials are minted with a warning whenever others may exist.   *)
LEMMA Minting ==
    ASSUME IInv, At("credentials"), Mint,
           UNCHANGED <<railway, server, admin>>
    PROVE  IInv'
<1> USE DEF railway, server, Mint, Creations, Histories, Whole
<1>1. /\ used.creds \in Nat
      /\ used'.creds = used.creds + 1
      /\ history'.rotated = (history.rotated \/ creation.resumed)
      /\ \A f \in {"invites", "confirmed", "settled", "seeded", "rolling",
                   "asked"} : history'[f] = history[f]
  BY DEF IInv, TypeOK
<1>2. Live \subseteq Live'
  BY <1>1 DEF Live
<1>3. TypeOK'
  <2>1. /\ Envs \subseteq Envs'
        /\ Deployments \subseteq Deployments'
        /\ Dbs \subseteq Dbs'
        /\ Admins \subseteq Admins'
    BY <1>1, <1>2 DEF Envs, Deployments, Dbs, Admins
  <2>2. creation' \in Creations'
    <3>1. creation \in Creations'
      BY <1>1 DEF IInv, TypeOK, Creations
    <3>2. creation' = [creation EXCEPT !.at = "variables",
                                       !.cred = used.creds + 1]
      OBVIOUS
    <3>3. used.creds + 1 \in 0 .. used'.creds
      BY <1>1
    <3> QED BY <3>1, <3>2, <3>3 DEF Creations, Steps
  <2>3. used' \in [creates : Nat, creds : Nat, restarts : Nat, switches : Nat]
    BY DEF IInv, TypeOK
  <2>4. history' \in Histories'
    <3>1. history \in Histories'
      <4>1. [user : Users, cred : Live] \subseteq [user : Users, cred : Live']
        BY <1>2
      <4> QED BY <4>1 DEF IInv, TypeOK
    <3>2. (history.rotated \/ creation.resumed) \in BOOLEAN
      OBVIOUS
    <3> QED BY <3>1, <3>2
  <2> QED BY <2>1, <2>2, <2>3, <2>4 DEF IInv, TypeOK, Creations
<1>4. Paced'
  <2>1. /\ creation'.at = "variables"
        /\ creation'.cred = used'.creds
        /\ creation'.want = creation.want
    BY <1>1 DEF IInv, TypeOK
  <2>2. creation'.cred \in Live'
    BY <1>1, <2>1 DEF Live
  <2>3. project.projects > 0
    BY DEF IInv, TypeOK, Paced, At
  <2> QED
    BY <1>1, <2>1, <2>2, <2>3 DEF IInv, TypeOK, Paced, Configuring, At
<1>5. MintedOnce'
  <2>1. CASE creation.resumed
    BY <1>1, <2>1 DEF MintedOnce
  <2>2. CASE ~creation.resumed
    BY <1>1, <2>2 DEF IInv, Paced, At, MintedOnce
  <2> QED BY <2>1, <2>2
<1>6. Housed'
  BY <1>1 DEF IInv, Housed
<1>7. Settled'
  <2>1. VolumeKept
    BY DEF VolumeKept
  <2>2. creation'.at /= "verify"
    BY DEF IInv, TypeOK
  <2> QED BY <1>1, <2>1, <2>2, SettledKept
<1> QED BY <1>3, <1>4, <1>5, <1>6, <1>7 DEF IInv

(* Steps of the creation that touch nothing but itself, listed.             *)
LEMMA CreationAlone ==
    ASSUME IInv,
           \/ FindProject \/ AwaitProject \/ RequeryService \/ WaitForServer
           \/ DbUnconfirmed \/ ConfigCallFails \/ GiveUpConfig \/ Abort
    PROVE  IInv'
<1> USE DEF At, GoTo
<1>0. creation \in Creations
  BY DEF IInv, TypeOK, Creations
<1>1. ASSUME NEW step \in Steps \ {"variables", "verify"},
             creation' = [creation EXCEPT !.at = step],
             UNCHANGED <<railway, server, admin, used, history>>,
             creation.at /= "idle",
             step \in Configuring => creation.at \in Configuring,
             step \in {"service", "requery", "credentials"} =>
                 creation.at \in {"service", "requery", "credentials"}
      PROVE  IInv'
  <2>1. creation' \in Creations
    BY <1>0, <1>1 DEF Creations
  <2>2. Paced'
    <3>1. /\ creation'.at = step
          /\ creation'.cred = creation.cred
          /\ creation'.want = creation.want
          /\ creation'.resumed = creation.resumed
      BY <1>0, <1>1 DEF Creations
    <3> QED BY <1>1, <3>1 DEF IInv, Paced, Live, railway, Configuring
  <2>3. Found'
    BY <1>0, <1>1 DEF Found, Creations
  <2> QED BY <1>1, <2>1, <2>2, <2>3, OnlyCreation
<1>2. CASE FindProject
  <2>1. CASE project.projects > 0 /\ Adopt
    BY <1>2, <2>1, Adopting DEF FindProject
  <2>2. CASE GoTo("init")
    BY <1>1, <1>2, <2>2 DEF FindProject, Steps, Configuring
  <2> QED BY <1>2, <2>1, <2>2 DEF FindProject
<1>3. CASE AwaitProject
  BY <1>3, Adopting DEF AwaitProject
<1>4. CASE RequeryService
  BY <1>1, <1>4 DEF RequeryService, Steps, Configuring
<1>5. CASE WaitForServer
  BY <1>1, <1>5 DEF WaitForServer, Steps, Configuring
<1>6. CASE DbUnconfirmed
  BY <1>1, <1>6 DEF DbUnconfirmed, Steps, Configuring
<1>7. ASSUME creation.at \in {"push", "readback"},
             creation' = [creation EXCEPT !.at = "push", !.reads = 0],
             UNCHANGED <<railway, server, admin, used, history>>
      PROVE  IInv'
  <2>1. creation' \in Creations
    BY <1>0, <1>7 DEF Creations, Steps
  <2>2. Paced'
    <3>1. /\ creation'.at \in Configuring
          /\ creation.at \in Configuring
          /\ creation'.at = "push"
          /\ creation'.cred = creation.cred
          /\ creation'.want = creation.want
      BY <1>0, <1>7 DEF Creations, Configuring
    <3> QED BY <1>7, <3>1 DEF IInv, Paced, Live, railway
  <2>3. Found'
    BY <1>0, <1>7 DEF Found, Creations
  <2> QED BY <1>7, <2>1, <2>2, <2>3, OnlyCreation
<1>8. CASE ConfigCallFails
  BY <1>7, <1>8 DEF ConfigCallFails
<1>10. CASE GiveUpConfig
  <2>1. creation' \in Creations
    BY <1>0, <1>10 DEF GiveUpConfig, Finish, Idle, Creations, Steps
  <2>2. Paced' /\ Found'
    BY <1>0, <1>10
    DEF GiveUpConfig, Finish, Idle, Creations, Paced, Found, IInv, Live,
        Configuring, railway
  <2> QED BY <1>10, <2>1, <2>2, OnlyCreation DEF GiveUpConfig
<1>11. CASE Abort
  <2>1. creation' \in Creations
    BY <1>11 DEF Abort, Idle, Creations, Steps, IInv, TypeOK
  <2>2. Paced' /\ Found'
    BY <1>11 DEF Abort, Idle, Paced, Found, IInv, Configuring, railway
  <2> QED BY <1>11, <2>1, <2>2, OnlyCreation DEF Abort
<1> QED BY <1>2, <1>3, <1>4, <1>5, <1>6, <1>8, <1>10, <1>11

(* No provisioning call, landed, timed out or repeated, breaks IInv.        *)
THEOREM ProvisionStep == IInv /\ Provision => IInv'
<1> SUFFICES ASSUME IInv, Provision PROVE IInv'
  OBVIOUS
<1> USE Apart DEF railway, server, At, GoTo
<1>1. ASSUME NEW c \in Challenges, StartCreate(c) PROVE IInv'
  <2>1. /\ used'.creds = used.creds
        /\ history'.asked = history.asked \cup {c}
        /\ history'.invites = history.invites
        /\ history'.rotated = history.rotated
        /\ history'.settled = history.settled
        /\ history'.seeded = history.seeded
        /\ history'.rolling = history.rolling
        /\ history'.confirmed = FALSE
    BY <1>1 DEF IInv, TypeOK, Histories, StartCreate
  <2>2. TypeOK'
    <3>1. /\ Live' = Live
          /\ Envs \subseteq Envs'
          /\ Deployments \subseteq Deployments'
          /\ Dbs \subseteq Dbs'
          /\ Admins' = Admins
      <4>1. Live' = Live /\ Whole \subseteq Whole'
        BY <2>1 DEF Live, Whole
      <4> QED BY <2>1, <4>1 DEF Envs, Deployments, Dbs, Admins
    <3>2. creation' \in Creations'
      <4>1. creation' = [at |-> "find", want |-> c, resumed |-> FALSE,
                         cred |-> 0, reads |-> 0, expected |-> {}, unread |-> {},
                         missing |-> {}, moved |-> FALSE]
        BY <1>1 DEF StartCreate, Idle
      <4>2. 0 \in 0 .. used'.creds
        BY <2>1 DEF IInv, TypeOK
      <4> QED BY <4>1, <4>2 DEF Creations, Steps
    <3>3. used' \in [creates : Nat, creds : Nat, restarts : Nat,
                    switches : Nat]
      BY <1>1 DEF IInv, TypeOK, StartCreate
    <3>4. history' \in Histories'
      <4>1. history' = [history EXCEPT !.confirmed = FALSE,
                                       !.asked = @ \cup {c}]
        BY <1>1 DEF StartCreate
      <4>2. history.asked \cup {c} \in SUBSET Challenges
        BY <1>1 DEF IInv, TypeOK, Histories
      <4>3. Live' = Live
        BY <2>1 DEF Live
      <4> QED BY <4>1, <4>2, <4>3 DEF IInv, TypeOK, Histories
    <3> QED
      BY <1>1, <3>1, <3>2, <3>3, <3>4 DEF IInv, TypeOK, StartCreate
  <2>3. Paced'
    <3>1. creation'.at = "find" /\ creation'.want = c
      BY <1>1 DEF StartCreate, Idle
    <3> QED BY <1>1, <2>1, <3>1 DEF IInv, Paced, StartCreate, Configuring
  <2>4. MintedOnce'
    BY <2>1 DEF IInv, MintedOnce
  <2>5. Housed'
    BY <1>1, <2>1 DEF IInv, Housed, StartCreate
  <2>6. Settled'
    <3>1. VolumeKept
      BY <1>1 DEF VolumeKept, StartCreate
    <3>2. creation'.at /= "verify"
      BY <1>1 DEF StartCreate, Idle
    <3> QED BY <2>1, <3>1, <3>2, SettledKept
  <2> QED BY <2>2, <2>3, <2>4, <2>5, <2>6 DEF IInv
<1>2. CASE InitProject
  <2>1. TypeOK'
    <3>1. used'.creds = used.creds /\ history'.asked = history.asked
      BY <1>2 DEF IInv, TypeOK, Histories, InitProject
    <3>2. project' \in [projects : Nat, services : Nat]
      BY <1>2 DEF IInv, TypeOK, InitProject
    <3>3. creation' \in Creations
      BY <1>2 DEF IInv, TypeOK, Creations, Steps, InitProject
    <3> QED BY <1>2, <3>1, <3>2, <3>3, SameTypes DEF IInv, TypeOK, InitProject
  <2>2. Paced'
    BY <1>2 DEF IInv, TypeOK, Creations, Paced, Live, Configuring, InitProject
  <2>3. MintedOnce'
    BY <1>2 DEF IInv, TypeOK, Histories, MintedOnce, InitProject
  <2>4. Housed'
    BY <1>2 DEF IInv, TypeOK, Creations, Paced, Housed, Envs, Deployments, Dbs, None,
           Configuring, InitProject
  <2>5. Settled'
    <3>1. VolumeKept
      BY <1>2 DEF IInv, TypeOK, Housed, VolumeKept, Dbs, None, InitProject
    <3>2. creation'.at /= "verify"
      BY <1>2 DEF IInv, TypeOK, Creations, InitProject
    <3>3. /\ history'.settled = history.settled
          /\ history'.seeded = history.seeded
          /\ history'.rolling = history.rolling
      BY <1>2 DEF IInv, TypeOK, Histories, InitProject
    <3> QED BY <3>1, <3>2, <3>3, SettledKept
  <2> QED BY <2>1, <2>2, <2>3, <2>4, <2>5 DEF IInv
<1>3. CASE AddService
  <2>1. TypeOK'
    <3>1. used'.creds = used.creds /\ history'.asked = history.asked
      BY <1>3 DEF IInv, TypeOK, Histories, AddService
    <3>2. project' \in [projects : Nat, services : Nat]
      BY <1>3 DEF IInv, TypeOK, AddService
    <3>3. creation' \in Creations
      BY <1>3 DEF IInv, TypeOK, Creations, Steps, AddService
    <3> QED BY <1>3, <3>1, <3>2, <3>3, SameTypes DEF IInv, TypeOK, AddService
  <2>2. Paced'
    BY <1>3 DEF IInv, TypeOK, Creations, Paced, Live, Configuring, AddService
  <2>3. MintedOnce'
    BY <1>3 DEF IInv, TypeOK, Histories, MintedOnce, AddService
  <2>4. Housed'
    BY <1>3 DEF IInv, TypeOK, Creations, Paced, Housed, Envs, Deployments, Dbs, None,
           Configuring, AddService
  <2>5. Settled'
    <3>1. VolumeKept
      BY <1>3 DEF IInv, TypeOK, Housed, VolumeKept, Dbs, None, AddService
    <3>2. creation'.at /= "verify"
      BY <1>3 DEF IInv, TypeOK, Creations, AddService
    <3>3. /\ history'.settled = history.settled
          /\ history'.seeded = history.seeded
          /\ history'.rolling = history.rolling
      BY <1>3 DEF IInv, TypeOK, Histories, AddService
    <3> QED BY <3>1, <3>2, <3>3, SettledKept
  <2> QED BY <2>1, <2>2, <2>3, <2>4, <2>5 DEF IInv
<1>4. CASE SetVariables
  <2>1. TypeOK'
    <3>1. used'.creds = used.creds /\ history'.asked = history.asked
      BY <1>4 DEF IInv, TypeOK, Histories, SetVariables
    <3>2. variables' \in Envs \cup {None}
      BY <1>4 DEF IInv, TypeOK, Envs, Paced, Configuring, Live, SetVariables
    <3>3. creation' \in Creations
      BY <1>4 DEF IInv, TypeOK, Creations, Steps, SetVariables
    <3> QED BY <1>4, <3>1, <3>2, <3>3, SameTypes DEF IInv, TypeOK, SetVariables
  <2>2. Paced'
    BY <1>4 DEF IInv, TypeOK, Creations, Paced, Live, Configuring, SetVariables, None
  <2>3. MintedOnce'
    BY <1>4 DEF IInv, TypeOK, Histories, MintedOnce, SetVariables, None
  <2>4. Housed'
    BY <1>4 DEF IInv, TypeOK, Creations, Paced, Housed, Envs, Deployments, Dbs, None,
           Configuring, SetVariables, None
  <2>5. Settled'
    <3>1. VolumeKept
      BY <1>4 DEF IInv, TypeOK, Housed, VolumeKept, Dbs, None, SetVariables
    <3>2. creation'.at /= "verify"
      BY <1>4 DEF IInv, TypeOK, Creations, SetVariables
    <3>3. /\ history'.settled = history.settled
          /\ history'.seeded = history.seeded
          /\ history'.rolling = history.rolling
      BY <1>4 DEF IInv, TypeOK, Histories, SetVariables
    <3> QED BY <3>1, <3>2, <3>3, SettledKept
  <2> QED BY <2>1, <2>2, <2>3, <2>4, <2>5 DEF IInv
<1>5. CASE AddVolume
  <2>1. TypeOK'
    <3>1. used'.creds = used.creds /\ history'.asked = history.asked
      BY <1>5 DEF IInv, TypeOK, Histories, AddVolume
    <3>2. volume' \in {"none", "attaching", "attached"}
      BY <1>5 DEF IInv, TypeOK, AddVolume
    <3>3. creation' \in Creations
      BY <1>5 DEF IInv, TypeOK, Creations, Steps, AddVolume
    <3> QED BY <1>5, <3>1, <3>2, <3>3, SameTypes DEF IInv, TypeOK, AddVolume
  <2>2. Paced'
    BY <1>5 DEF IInv, TypeOK, Creations, Paced, Live, Configuring, AddVolume
  <2>3. MintedOnce'
    BY <1>5 DEF IInv, TypeOK, Histories, MintedOnce, AddVolume
  <2>4. Housed'
    BY <1>5 DEF IInv, TypeOK, Creations, Paced, Housed, Envs, Deployments, Dbs, None,
           Configuring, AddVolume
  <2>5. Settled'
    <3>1. VolumeKept
      BY <1>5 DEF IInv, TypeOK, Housed, VolumeKept, Dbs, None, AddVolume
    <3>2. creation'.at /= "verify"
      BY <1>5 DEF IInv, TypeOK, Creations, AddVolume
    <3>3. /\ history'.settled = history.settled
          /\ history'.seeded = history.seeded
          /\ history'.rolling = history.rolling
      BY <1>5 DEF IInv, TypeOK, Histories, AddVolume
    <3> QED BY <3>1, <3>2, <3>3, SettledKept
  <2> QED BY <2>1, <2>2, <2>3, <2>4, <2>5 DEF IInv
<1>6. CASE Up
  <2>1. TypeOK'
    <3>1. used'.creds = used.creds /\ history'.asked = history.asked
      BY <1>6 DEF IInv, TypeOK, Histories, Up, Deploy, Snapshot
    <3>2. rollout' \in Deployments \cup {None}
      BY <1>6 DEF IInv, TypeOK, Deployments, Envs, Paced, Configuring, Live,
          Up, Deploy, Snapshot
    <3>3. creation' \in Creations
      BY <1>6 DEF IInv, TypeOK, Creations, Steps, Up, Deploy, Snapshot
    <3> QED BY <1>6, <3>1, <3>2, <3>3, SameTypes DEF IInv, TypeOK, Up, Deploy
  <2>2. Paced'
    BY <1>6 DEF IInv, TypeOK, Creations, Paced, Live, Configuring, Up, Deploy, Snapshot
  <2>3. MintedOnce'
    BY <1>6 DEF IInv, TypeOK, Histories, MintedOnce, Up, Deploy, Snapshot
  <2>4. Housed'
    BY <1>6 DEF IInv, TypeOK, Creations, Paced, Housed, Envs, Deployments, Dbs, None,
           Configuring, Up, Deploy, Snapshot
  <2>5. Settled'
    <3>1. VolumeKept
      BY <1>6 DEF IInv, TypeOK, Housed, VolumeKept, Dbs, None, Up, Deploy,
          Snapshot
    <3>2. creation'.at /= "verify"
      BY <1>6 DEF IInv, TypeOK, Creations, Up, Deploy, Snapshot
    <3>3. /\ history'.settled = history.settled
          /\ history'.seeded = history.seeded
          /\ history'.rolling = history.rolling
      BY <1>6 DEF IInv, TypeOK, Histories, Up, Deploy, Snapshot
    <3> QED BY <3>1, <3>2, <3>3, SettledKept
  <2> QED BY <2>1, <2>2, <2>3, <2>4, <2>5 DEF IInv
<1>7. CASE ResolveCredentials
  <2>1. CASE Mint
    BY <1>7, <2>1, Minting DEF ResolveCredentials
  <2>2. ASSUME NEW cred \in Live, Keep(cred),
               At("credentials"), UNCHANGED <<railway, server, admin>>
        PROVE  IInv'
    <3>1. /\ creation \in Creations
          /\ cred \in 0 .. used.creds
          /\ creation' = [creation EXCEPT !.at = "variables", !.cred = cred]
      BY <2>2 DEF IInv, TypeOK, Creations, Keep, Live
    <3>2. creation' \in Creations
      BY <3>1 DEF Creations, Steps
    <3>3. Paced'
      <4>1. /\ creation'.at = "variables"
            /\ creation'.cred = cred
            /\ creation'.want = creation.want
        BY <3>1 DEF Creations
      <4> QED BY <2>2, <4>1 DEF IInv, Paced, Keep, Live, Configuring
    <3>4. Found'
      BY <3>1 DEF Found, Creations
    <3> QED BY <2>2, <3>2, <3>3, <3>4, OnlyCreation DEF Keep
  <2>3. CASE variables /= None /\ Keep(variables.cred)
    <3>1. variables.cred \in Live
      BY <2>3 DEF IInv, TypeOK, Envs
    <3> QED BY <1>7, <2>2, <2>3, <3>1 DEF ResolveCredentials
  <2>4. CASE admin /= None /\ Keep(admin.cred)
    <3>1. admin.cred \in Live
      BY <2>4 DEF IInv, TypeOK, Admins
    <3> QED BY <1>7, <2>2, <2>4, <3>1 DEF ResolveCredentials
  <2> QED BY <1>7, <2>1, <2>3, <2>4 DEF ResolveCredentials
<1> QED BY <1>1, <1>2, <1>3, <1>4, <1>5, <1>6, <1>7, CreationAlone
       DEF Provision

(* Nor does configuring, verifying and seeding, on whatever container.      *)
THEOREM ConfigureStep == IInv /\ (Configure \/ Abort) => IInv'
<1> SUFFICES ASSUME IInv, Configure \/ Abort PROVE IInv'
  OBVIOUS
<1> USE Apart DEF railway, server, At, GoTo
<1>1. CASE DbOnVolume
  <2>1. TypeOK'
    <3>1. used'.creds = used.creds /\ history'.asked = history.asked
      BY <1>1 DEF IInv, TypeOK, Histories, DbOnVolume
    <3>2. creation' \in Creations
      BY <1>1 DEF IInv, TypeOK, Creations, Steps, DbOnVolume
    <3>3. history' \in Histories
      BY <1>1 DEF IInv, TypeOK, Histories, Creations, Admins, Paced,
          Configuring, DbOnVolume
    <3> QED BY <1>1, <3>1, <3>2, <3>3, SameTypes DEF IInv, TypeOK, DbOnVolume
  <2>2. Paced'
    BY <1>1 DEF IInv, TypeOK, Creations, Paced, Live, Configuring, DbOnVolume
  <2>3. MintedOnce'
    BY <1>1 DEF IInv, TypeOK, Histories, MintedOnce, DbOnVolume
  <2>4. Housed'
    BY <1>1 DEF IInv, TypeOK, Creations, Paced, Housed, Envs, Deployments, Dbs, None,
           Configuring, DbOnVolume
  <2>5. Settled'
    <3>1. VolumeKept
      BY <1>1 DEF IInv, TypeOK, Housed, VolumeKept, Dbs, None, DbOnVolume
    <3>2. creation'.at /= "verify"
      BY <1>1 DEF IInv, TypeOK, Creations, DbOnVolume
    <3>3. /\ history'.settled = history.settled
          /\ history'.seeded = history.seeded
          /\ history'.rolling = history.rolling
      BY <1>1 DEF IInv, TypeOK, Histories, DbOnVolume
    <3> QED BY <3>1, <3>2, <3>3, SettledKept
  <2> QED BY <2>1, <2>2, <2>3, <2>4, <2>5 DEF IInv
<1>2. CASE Redeploy
  <2>1. TypeOK'
    <3>1. used'.creds = used.creds /\ history'.asked = history.asked
      BY <1>2 DEF IInv, TypeOK, Histories, Redeploy, Deploy, Snapshot
    <3>2. rollout' \in Deployments \cup {None}
      BY <1>2 DEF IInv, TypeOK, Deployments, Envs, Paced, Configuring, Live,
          Redeploy, Deploy, Snapshot
    <3>3. creation' \in Creations
      BY <1>2 DEF IInv, TypeOK, Creations, Steps, Redeploy, Deploy, Snapshot
    <3> QED BY <1>2, <3>1, <3>2, <3>3, SameTypes DEF IInv, TypeOK, Redeploy,
        Deploy
  <2>2. Paced'
    BY <1>2 DEF IInv, TypeOK, Creations, Paced, Live, Configuring, Redeploy, Deploy,
           Snapshot
  <2>3. MintedOnce'
    BY <1>2 DEF IInv, TypeOK, Histories, MintedOnce, Redeploy, Deploy, Snapshot
  <2>4. Housed'
    BY <1>2 DEF IInv, TypeOK, Creations, Paced, Housed, Envs, Deployments, Dbs, None,
           Configuring, Redeploy, Deploy, Snapshot
  <2>5. Settled'
    <3>1. VolumeKept
      BY <1>2 DEF IInv, TypeOK, Housed, VolumeKept, Dbs, None, Redeploy,
          Deploy, Snapshot
    <3>2. creation'.at /= "verify"
      BY <1>2 DEF IInv, TypeOK, Creations, Redeploy, Deploy, Snapshot
    <3>3. /\ history'.settled = history.settled
          /\ history'.seeded = history.seeded
          /\ history'.rolling = history.rolling
      BY <1>2 DEF IInv, TypeOK, Histories, Redeploy, Deploy, Snapshot
    <3> QED BY <3>1, <3>2, <3>3, SettledKept
  <2> QED BY <2>1, <2>2, <2>3, <2>4, <2>5 DEF IInv
<1>3. CASE PostConfig
  <2>1. TypeOK'
    <3>1. used'.creds = used.creds /\ history'.asked = history.asked
      BY <1>3 DEF IInv, TypeOK, Histories, PostConfig, Accepts, Answering,
          Store
    <3>2. volumeDb' \in Dbs \cup {None} /\ diskDb' \in Dbs \cup {None}
      BY <1>3 DEF IInv, TypeOK, Housed, Paced, Dbs, Deployments, Whole, Live,
          PostConfig, Accepts, Answering, Store
    <3>3. creation' \in Creations
      BY <1>3 DEF IInv, TypeOK, Creations, Steps, PostConfig, Accepts,
          Answering, Store
    <3> QED BY <1>3, <3>1, <3>2, <3>3, SameTypes DEF IInv, TypeOK, PostConfig
  <2>2. Paced'
    BY <1>3 DEF IInv, TypeOK, Creations, Paced, Live, Configuring, PostConfig, Accepts,
           Answering, Store
  <2>3. MintedOnce'
    BY <1>3 DEF IInv, TypeOK, Histories, MintedOnce, PostConfig, Accepts, Answering,
           Store
  <2>4. Housed'
    BY <1>3 DEF IInv, TypeOK, Creations, Paced, Housed, Envs, Deployments, Dbs, None,
           Configuring, PostConfig, Accepts, Answering, Store
  <2>5. Settled'
    <3>1. VolumeKept
      BY <1>3 DEF IInv, TypeOK, Housed, VolumeKept, Dbs, None, PostConfig,
          Accepts, Answering, Store
    <3>2. creation'.at /= "verify"
      BY <1>3 DEF IInv, TypeOK, Creations, PostConfig, Accepts, Answering,
          Store
    <3>3. /\ history'.settled = history.settled
          /\ history'.seeded = history.seeded
          /\ history'.rolling = history.rolling
      BY <1>3 DEF IInv, TypeOK, Histories, PostConfig, Accepts, Answering,
          Store
    <3> QED BY <3>1, <3>2, <3>3, SettledKept
  <2> QED BY <2>1, <2>2, <2>3, <2>4, <2>5 DEF IInv
<1>4. CASE SeedMainnet
  <2>1. TypeOK'
    <3>1. creation' \in Creations
      <4>1. PICK expected \in {Seeds, {"authored"}} :
                creation' = [creation EXCEPT !.at = "authored",
                                             !.expected = expected]
        BY <1>4 DEF SeedMainnet
      <4>2. expected \in SUBSET Seeds
        BY DEF Seeds
      <4>3. creation \in Creations
        BY DEF IInv, TypeOK, Creations
      <4> QED BY <4>1, <4>2, <4>3 DEF Creations, Steps
    <3>2. volumeDb' \in Dbs \cup {None} /\ diskDb' \in Dbs \cup {None}
      BY <1>4, Depositing DEF SeedMainnet, Seeds
    <3> QED
      BY <1>4, <3>1, <3>2, SameTypes DEF IInv, TypeOK, SeedMainnet
  <2>2. Paced'
    <3>1. /\ creation'.at = "authored"
          /\ creation'.cred = creation.cred
          /\ creation'.want = creation.want
      BY <1>4 DEF IInv, TypeOK, Creations, SeedMainnet
    <3> QED BY <1>4, <3>1 DEF IInv, Paced, Live, Configuring, SeedMainnet
  <2>3. MintedOnce'
    BY <1>4 DEF IInv, TypeOK, MintedOnce, SeedMainnet, Deposit, Accepts,
           Answering, Store, Seeds
  <2>4. Housed'
    BY <1>4 DEF IInv, TypeOK, Paced, Housed, Envs, Deployments, Dbs, None,
           Configuring, SeedMainnet, Deposit, Accepts, Answering, Store,
           Seeds
  <2>5. Settled'
    <3>1. VolumeKept
      BY <1>4, Depositing DEF SeedMainnet, Seeds
    <3>2. creation'.at /= "verify"
      BY <1>4 DEF IInv, TypeOK, Creations, SeedMainnet
    <3> QED BY <1>4, <3>1, <3>2, SettledKept DEF SeedMainnet
  <2> QED BY <2>1, <2>2, <2>3, <2>4, <2>5 DEF IInv
<1>5. CASE SeedAuthored
  <2>1. TypeOK'
    <3>1. used'.creds = used.creds /\ history'.asked = history.asked
      BY <1>5 DEF IInv, TypeOK, Histories, SeedAuthored, Deposit, Accepts,
          Answering, Store, Seeds
    <3>2. volumeDb' \in Dbs \cup {None} /\ diskDb' \in Dbs \cup {None}
      BY <1>5, Depositing DEF SeedAuthored, Seeds
    <3>3. creation' \in Creations
      BY <1>5 DEF IInv, TypeOK, Creations, Steps, SeedAuthored
    <3> QED BY <1>5, <3>1, <3>2, <3>3, SameTypes DEF IInv, TypeOK, SeedAuthored
  <2>2. Paced'
    BY <1>5 DEF IInv, TypeOK, Creations, Paced, Live, Configuring, SeedAuthored,
           Deposit, Accepts, Answering, Store, Seeds
  <2>3. MintedOnce'
    BY <1>5 DEF IInv, TypeOK, Histories, MintedOnce, SeedAuthored, Deposit, Accepts,
           Answering, Store, Seeds
  <2>4. Housed'
    BY <1>5 DEF IInv, TypeOK, Creations, Paced, Housed, Envs, Deployments, Dbs, None,
           Configuring, SeedAuthored, Deposit, Accepts, Answering, Store,
           Seeds
  <2>5. Settled'
    <3>1. VolumeKept
      BY <1>5, Depositing DEF SeedAuthored, Seeds
    <3>2. Found'
      <4>1. /\ creation'.expected = creation.expected
            /\ creation'.unread = creation.expected
            /\ creation'.missing = creation.expected
        BY <1>5 DEF IInv, TypeOK, Creations, SeedAuthored
      <4> QED BY <4>1 DEF Found
    <3>3. SettledSeedsStay'
      BY <1>5, <3>1
      DEF IInv, Settled, SettledSeedsStay, VolumeKept, SeedAuthored
    <3> QED BY <1>5, <3>1, <3>2, <3>3 DEF IInv, Settled, VolumeKept, SeedAuthored
  <2> QED BY <2>1, <2>2, <2>3, <2>4, <2>5 DEF IInv
<1>6. CASE VerifySeeds
  <2>1. TypeOK'
    <3>1. creation' \in Creations
      <4>1. CASE Finish
        BY <4>1 DEF IInv, TypeOK, Finish, Idle, Creations, Steps, Seeds
      <4>2. CASE GoTo("authored")
        BY <4>2 DEF IInv, TypeOK, Creations, Steps
      <4> QED BY <1>6, <4>1, <4>2 DEF VerifySeeds
    <3>2. /\ history'.seeded \in SUBSET Seeds
          /\ history'.rolling \in BOOLEAN
          /\ history' = [history EXCEPT !.seeded = history'.seeded,
                                        !.rolling = history'.rolling]
      <4>1. CASE UNCHANGED history
        BY <4>1 DEF IInv, TypeOK, Histories
      <4>2. CASE ~UNCHANGED history
        <5>1. history' = [history EXCEPT
                 !.seeded = IF history.confirmed THEN creation.expected ELSE @,
                 !.rolling = IF history.confirmed THEN creation.moved ELSE @]
          BY <1>6, <4>2 DEF VerifySeeds
        <5>2. CASE history.confirmed
          BY <5>1, <5>2 DEF IInv, TypeOK, Creations, Histories
        <5>3. CASE ~history.confirmed
          BY <5>1, <5>3 DEF IInv, TypeOK, Creations, Histories
        <5> QED BY <5>2, <5>3
      <4> QED BY <4>1, <4>2
    <3>3. history' \in Histories
      BY <3>2 DEF IInv, TypeOK, Histories
    <3>4. UNCHANGED <<used, history.asked>>
      BY <1>6, <3>2 DEF IInv, TypeOK, Histories, VerifySeeds
    <3> QED
      BY <1>6, <3>1, <3>3, <3>4, SameTypes DEF IInv, TypeOK, VerifySeeds
  <2>2. Paced'
    <3>1. /\ creation'.at \in {"write", "authored"}
          /\ creation'.cred = creation.cred
          /\ creation'.want = creation.want
      BY <1>6 DEF IInv, TypeOK, Creations, VerifySeeds, Finish, Idle
    <3>2. history'.asked = history.asked
      BY <1>6 DEF IInv, TypeOK, Histories, VerifySeeds
    <3> QED BY <1>6, <3>1, <3>2 DEF IInv, Paced, Live, Configuring, VerifySeeds
  <2>3. MintedOnce'
    BY <1>6 DEF IInv, TypeOK, Histories, MintedOnce, VerifySeeds
  <2>4. Housed'
    BY <1>6 DEF IInv, TypeOK, Histories, Housed, VerifySeeds
  <2>5. Settled'
    <3>1. VolumeKept
      BY <1>6 DEF VolumeKept, VerifySeeds
    <3>2. creation'.at /= "verify"
      BY <1>6 DEF IInv, TypeOK, Creations, VerifySeeds, Finish, Idle
    <3>3. CASE UNCHANGED history
      BY <3>1, <3>2, <3>3, SettledKept
    <3>4. CASE history' = [history EXCEPT
                 !.seeded = IF history.confirmed THEN creation.expected ELSE @,
                 !.rolling = IF history.confirmed THEN creation.moved ELSE @]
      <4>1. CASE ~history.confirmed
        <5>1. /\ history'.settled = history.settled
              /\ history'.seeded = history.seeded
              /\ history'.rolling = history.rolling
          BY <3>4, <4>1 DEF IInv, TypeOK, Histories
        <5> QED BY <3>1, <3>2, <5>1, SettledKept
      <4>2. CASE history.confirmed /\ creation.missing = {}
        <5>1. /\ history'.settled = history.settled
              /\ history'.seeded = creation.expected
              /\ history'.rolling = creation.moved
          BY <3>4, <4>2 DEF IInv, TypeOK, Histories
        <5>2. volumeDb /= None
          BY <4>2 DEF IInv, Housed
        <5>3. ~creation.moved => creation.expected \subseteq volumeDb.seeds
          BY <1>6, <4>2 DEF IInv, Settled, Found, VerifySeeds
        <5>4. SettledSeedsStay'
          BY <1>6, <5>1, <5>2, <5>3 DEF SettledSeedsStay, VerifySeeds
        <5>5. Found'
          BY <3>2 DEF Found
        <5> QED BY <1>6, <5>1, <5>4, <5>5 DEF IInv, Settled, VerifySeeds
      <4>3. CASE creation.missing /= {}
        BY <1>6, <3>3, <4>3 DEF VerifySeeds
      <4> QED BY <4>1, <4>2, <4>3
    <3> QED BY <1>6, <3>3, <3>4 DEF VerifySeeds
  <2> QED BY <2>1, <2>2, <2>3, <2>4, <2>5 DEF IInv
<1>7. CASE WriteLocalFiles
  <2>1. TypeOK'
    <3>1. used'.creds = used.creds /\ history'.asked = history.asked
      BY <1>7 DEF IInv, TypeOK, Histories, WriteLocalFiles, NewAdmin, Idle
    <3>2. admin' \in Admins \cup {None}
      BY <1>7 DEF IInv, TypeOK, Admins, Creations, Paced, Configuring, Live,
          WriteLocalFiles, NewAdmin, Idle
    <3>3. creation' \in Creations
      BY <1>7 DEF IInv, TypeOK, Creations, Steps, WriteLocalFiles, NewAdmin,
          Idle
    <3>4. history' \in Histories
      BY <1>7 DEF IInv, TypeOK, Histories, Creations, Admins, Paced,
          Configuring, WriteLocalFiles, NewAdmin, Idle
    <3> QED BY <1>7, <3>1, <3>2, <3>3, <3>4, SameTypes DEF IInv, TypeOK,
        WriteLocalFiles
  <2>2. Paced'
    BY <1>7 DEF IInv, TypeOK, Creations, Paced, Live, Configuring, WriteLocalFiles,
           NewAdmin, Idle
  <2>3. MintedOnce'
    BY <1>7 DEF IInv, TypeOK, Histories, MintedOnce, WriteLocalFiles, NewAdmin, Idle
  <2>4. Housed'
    BY <1>7 DEF IInv, TypeOK, Histories, Housed, WriteLocalFiles
  <2>5. Settled'
    <3>1. VolumeKept
      BY <1>7 DEF IInv, TypeOK, Housed, VolumeKept, Dbs, None, WriteLocalFiles,
          NewAdmin, Idle
    <3>2. creation'.at /= "verify"
      BY <1>7 DEF IInv, TypeOK, Creations, WriteLocalFiles, NewAdmin, Idle
    <3>3. /\ history'.settled = history.settled
          /\ history'.seeded = history.seeded
          /\ history'.rolling = history.rolling
      BY <1>7 DEF IInv, TypeOK, Histories, WriteLocalFiles, NewAdmin, Idle
    <3> QED BY <3>1, <3>2, <3>3, SettledKept
  <2> QED BY <2>1, <2>2, <2>3, <2>4, <2>5 DEF IInv
<1>8. CASE ReadConfigBack
  <2> DEFINE reads == IF Answering.active = creation.want /\ Answering.whole
                        THEN creation.reads + 1 ELSE 0
             done == reads = 2
  <2>1. /\ creation' = [creation EXCEPT
              !.at = IF done THEN "mainnet" ELSE "push",
              !.reads = IF done THEN 0 ELSE reads]
        /\ history' = [history EXCEPT !.settled =
              @ \/ (done /\ history.confirmed /\ rollout = None)]
        /\ creation.at = "readback"
    BY <1>8 DEF ReadConfigBack
  <2>2. /\ creation'.at \in {"mainnet", "push"}
        /\ creation' \in Creations
        /\ creation'.cred = creation.cred
        /\ creation'.want = creation.want
        /\ creation'.resumed = creation.resumed
    <3>1. reads \in Nat
      BY DEF IInv, TypeOK, Creations
    <3> HIDE DEF reads
    <3> QED BY <2>1, <3>1 DEF IInv, TypeOK, Creations, Steps
  <2>3. /\ history' \in Histories
        /\ \A f \in {"invites", "rotated", "confirmed", "seeded", "rolling",
                     "asked"} : history'[f] = history[f]
        /\ history'.settled =>
             \/ history.settled
             \/ done /\ history.confirmed /\ rollout = None
    BY <2>1 DEF IInv, TypeOK, Histories
  <2>4. TypeOK'
    BY <1>8, <2>2, <2>3, SameTypes DEF IInv, TypeOK, ReadConfigBack
  <2>5. Paced'
    BY <1>8, <2>1, <2>2, <2>3
    DEF IInv, Paced, Live, Configuring, ReadConfigBack
  <2>6. MintedOnce' /\ Housed'
    BY <1>8, <2>3 DEF IInv, MintedOnce, Housed, ReadConfigBack
  <2>7. Settled'
    <3>1. SettledSeedsStay' /\ Found'
      BY <1>8, <2>2, <2>3
      DEF IInv, Settled, SettledSeedsStay, Found, ReadConfigBack
    <3>2. done /\ history.confirmed /\ rollout = None =>
            volumeDb /= None /\ volumeDb.whole
      BY DEF IInv, Housed, Answering
    <3> QED BY <1>8, <2>3, <3>1, <3>2 DEF IInv, Settled, ReadConfigBack
  <2> QED BY <2>4, <2>5, <2>6, <2>7 DEF IInv
<1>9. ASSUME NEW s \in Seeds, ReadPool(s) PROVE IInv'
  <2>1. PICK found \in {{}, {s}} :
           /\ found /= {} => Accepts(creation.cred) /\ s \in Answering.seeds
           /\ creation' = [creation EXCEPT !.unread = @ \ {s},
                                           !.missing = @ \ found,
                                           !.moved = @ \/ rollout /= None]
    BY <1>9 DEF ReadPool
  <2>2. /\ creation' \in Creations
        /\ creation'.at = "verify"
        /\ creation'.cred = creation.cred
        /\ creation'.want = creation.want
        /\ creation'.expected = creation.expected
        /\ creation'.unread = creation.unread \ {s}
        /\ creation'.missing = creation.missing \ found
        /\ ~creation'.moved => ~creation.moved /\ rollout = None
    BY <1>9, <2>1 DEF IInv, TypeOK, Creations, ReadPool
  <2>3. Paced'
    BY <1>9, <2>2 DEF IInv, Paced, Live, Configuring, ReadPool
  <2>4. Found'
    <3>1. /\ creation.unread \subseteq creation.missing
          /\ history.confirmed /\ ~creation.moved =>
               creation.expected \ creation.missing \subseteq volumeDb.seeds
      BY <1>9 DEF IInv, Settled, Found, ReadPool
    <3>2. found \subseteq {s}
      BY <2>1
    <3>3. creation'.unread \subseteq creation'.missing
      BY <2>2, <3>1, <3>2
    <3>4. ASSUME history.confirmed, ~creation.moved, rollout = None
          PROVE  creation.expected \ (creation.missing \ found)
                   \subseteq volumeDb.seeds
      <4>1. Answering = volumeDb
        BY <3>4 DEF IInv, Housed, Answering
      <4>2. found \subseteq volumeDb.seeds
        BY <2>1, <4>1
      <4> QED BY <3>1, <3>4, <4>2
    <3> QED BY <1>9, <2>2, <3>3, <3>4 DEF Found, ReadPool
  <2> QED BY <1>9, <2>2, <2>3, <2>4, OnlyCreation DEF ReadPool
<1> QED BY <1>1, <1>2, <1>3, <1>4, <1>5, <1>6, <1>7, <1>8, <1>9,
       CreationAlone DEF Configure

(* Nor does a late attach, a boot, a cut-over or a replaced container.      *)
THEOREM PlatformStep == IInv /\ Platform => IInv'
<1> SUFFICES ASSUME IInv, Platform PROVE IInv'
  OBVIOUS
<1> USE Apart DEF railway, server
<1>1. CASE VolumeAttaches
  <2>1. TypeOK'
    <3>1. used'.creds = used.creds /\ history'.asked = history.asked
      BY <1>1 DEF IInv, TypeOK, Histories, VolumeAttaches
    <3>2. volume' \in {"none", "attaching", "attached"}
      BY <1>1 DEF IInv, TypeOK, VolumeAttaches
    <3> QED BY <1>1, <3>1, <3>2, SameTypes DEF IInv, TypeOK, VolumeAttaches
  <2>2. Paced'
    BY <1>1 DEF IInv, TypeOK, Creations, Paced, Live, Configuring, VolumeAttaches
  <2>3. MintedOnce'
    BY <1>1 DEF IInv, TypeOK, Histories, MintedOnce, VolumeAttaches
  <2>4. Housed'
    BY <1>1 DEF IInv, TypeOK, Creations, Paced, Housed, Envs, Deployments, Dbs, None,
           Configuring, VolumeAttaches
  <2>5. Settled'
    <3>1. VolumeKept
      BY <1>1 DEF IInv, TypeOK, Housed, VolumeKept, Dbs, None, VolumeAttaches
    <3>2. creation' = creation /\ history'.confirmed = history.confirmed
      BY <1>1 DEF IInv, TypeOK, Histories, VolumeAttaches
    <3>3. /\ history'.settled = history.settled
          /\ history'.seeded = history.seeded
          /\ history'.rolling = history.rolling
      BY <1>1 DEF IInv, TypeOK, Histories, VolumeAttaches
    <3> QED BY <3>1, <3>2, <3>3, SettledKept
  <2> QED BY <2>1, <2>2, <2>3, <2>4, <2>5 DEF IInv
<1>2. CASE ContainerStarts
  <2>1. TypeOK'
    <3>1. rollout \in Deployments
      BY <1>2 DEF IInv, TypeOK, ContainerStarts
    <3>2. Boot(volumeDb, rollout) \in Dbs
      BY <3>1, Booting DEF IInv, TypeOK
    <3>3. rollout' \in Deployments
      BY <1>2, <3>1 DEF ContainerStarts, Deployments
    <3>4. volumeDb' \in Dbs \cup {None}
      BY <1>2, <3>2 DEF ContainerStarts, IInv, TypeOK
    <3> QED
      BY <1>2, <3>3, <3>4, SameTypes DEF IInv, TypeOK, ContainerStarts
  <2>2. Paced'
    BY <1>2 DEF IInv, TypeOK, Paced, Live, Configuring, ContainerStarts,
           Boot, Fresh, Defaults, ApplyEnv
  <2>3. MintedOnce'
    BY <1>2 DEF IInv, TypeOK, MintedOnce, ContainerStarts, Boot, Fresh,
           Defaults, ApplyEnv
  <2>4. Housed'
    BY <1>2 DEF IInv, TypeOK, Paced, Housed, Envs, Deployments, Dbs, None,
           Configuring, ContainerStarts, Boot, Fresh, Defaults, ApplyEnv
  <2>5. Settled'
    <3>1. VolumeKept
      <4>1. rollout \in Deployments /\ volumeDb \in Dbs \cup {None}
        BY <1>2 DEF IInv, TypeOK, ContainerStarts
      <4>2. Boot(volumeDb, rollout) \in Dbs
        BY <4>1, Booting
      <4> QED BY <1>2, <4>1, <4>2, Booting DEF VolumeKept, ContainerStarts
    <3> QED BY <1>2, <3>1, SettledKept DEF ContainerStarts
  <2> QED BY <2>1, <2>2, <2>3, <2>4, <2>5 DEF IInv
<1>3. CASE TrafficMoves
  <2>1. TypeOK'
    <3>1. used'.creds = used.creds /\ history'.asked = history.asked
      BY <1>3 DEF IInv, TypeOK, Histories, TrafficMoves, Boot, Fresh,
          Defaults, ApplyEnv
    <3>2. rollout' \in Deployments \cup {None}
      BY <1>3 DEF IInv, TypeOK, Deployments, Envs, Paced, Configuring, Live,
          TrafficMoves, Boot, Fresh, Defaults, ApplyEnv
    <3>3. serving' \in Deployments \cup {None}
      BY <1>3 DEF IInv, TypeOK, Deployments, TrafficMoves, Boot, Fresh,
          Defaults, ApplyEnv
    <3>4. volumeDb' \in Dbs \cup {None} /\ diskDb' \in Dbs \cup {None}
      <4>1. rollout \in Deployments
        BY <1>3 DEF IInv, TypeOK, TrafficMoves
      <4>2. Fresh(rollout) \in Dbs
        BY <4>1, Booting
      <4> QED BY <1>3, <4>2 DEF IInv, TypeOK, TrafficMoves
    <3> QED BY <1>3, <3>1, <3>2, <3>3, <3>4, SameTypes DEF IInv, TypeOK,
        TrafficMoves
  <2>2. Paced'
    BY <1>3 DEF IInv, TypeOK, Creations, Paced, Live, Configuring, TrafficMoves, Boot,
           Fresh, Defaults, ApplyEnv
  <2>3. MintedOnce'
    BY <1>3 DEF IInv, TypeOK, Histories, MintedOnce, TrafficMoves, Boot, Fresh,
           Defaults, ApplyEnv
  <2>4. Housed'
    BY <1>3 DEF IInv, TypeOK, Creations, Paced, Housed, Envs, Deployments, Dbs, None,
           Configuring, TrafficMoves, Boot, Fresh, Defaults, ApplyEnv
  <2>5. Settled'
    <3>1. VolumeKept
      BY <1>3 DEF IInv, TypeOK, Housed, VolumeKept, Dbs, None, TrafficMoves,
          Boot, Fresh, Defaults, ApplyEnv
    <3>2. creation' = creation /\ history'.confirmed = history.confirmed
      BY <1>3 DEF IInv, TypeOK, Histories, TrafficMoves, Boot, Fresh, Defaults,
          ApplyEnv
    <3>3. /\ history'.settled = history.settled
          /\ history'.seeded = history.seeded
          /\ history'.rolling = history.rolling
      BY <1>3 DEF IInv, TypeOK, Histories, TrafficMoves, Boot, Fresh, Defaults,
          ApplyEnv
    <3> QED BY <3>1, <3>2, <3>3, SettledKept
  <2> QED BY <2>1, <2>2, <2>3, <2>4, <2>5 DEF IInv
<1>4. CASE ContainerReplaced
  <2>1. TypeOK'
    <3>1. used'.creds = used.creds /\ history'.asked = history.asked
      BY <1>4 DEF IInv, TypeOK, Histories, ContainerReplaced, Boot, Fresh,
          Defaults, ApplyEnv, Store
    <3>2. volumeDb' \in Dbs \cup {None} /\ diskDb' \in Dbs \cup {None}
      <4>1. /\ serving \in Deployments
            /\ volumeDb \in Dbs \cup {None} /\ diskDb \in Dbs \cup {None}
        BY <1>4 DEF IInv, TypeOK, ContainerReplaced
      <4>2. Boot(volumeDb, serving) \in Dbs /\ Fresh(serving) \in Dbs
        BY <4>1, Booting
      <4> QED BY <1>4, <4>1, <4>2 DEF ContainerReplaced, Store
    <3>3. used' \in [creates : Nat, creds : Nat, restarts : Nat, switches : Nat]
      BY <1>4 DEF IInv, TypeOK, ContainerReplaced, Boot, Fresh, Defaults,
          ApplyEnv, Store
    <3> QED BY <1>4, <3>1, <3>2, <3>3, SameTypes DEF IInv, TypeOK,
        ContainerReplaced
  <2>2. Paced'
    BY <1>4 DEF IInv, TypeOK, Creations, Paced, Live, Configuring, ContainerReplaced,
           Boot, Fresh, Defaults, ApplyEnv, Store
  <2>3. MintedOnce'
    BY <1>4 DEF IInv, TypeOK, Histories, MintedOnce, ContainerReplaced, Boot, Fresh,
           Defaults, ApplyEnv, Store
  <2>4. Housed'
    BY <1>4 DEF IInv, TypeOK, Creations, Paced, Housed, Envs, Deployments, Dbs, None,
           Configuring, ContainerReplaced, Boot, Fresh, Defaults, ApplyEnv,
           Store
  <2>5. Settled'
    <3>1. VolumeKept
      <4>1. serving \in Deployments /\ volumeDb \in Dbs \cup {None}
        BY <1>4 DEF IInv, TypeOK, ContainerReplaced
      <4>2. Boot(volumeDb, serving) \in Dbs
        BY <4>1, Booting
      <4> QED BY <1>4, <4>1, <4>2, Booting DEF VolumeKept, ContainerReplaced, Store
    <3>2. creation' = creation /\ history'.confirmed = history.confirmed
      BY <1>4 DEF IInv, TypeOK, Histories, ContainerReplaced, Boot, Fresh,
          Defaults, ApplyEnv, Store
    <3>3. /\ history'.settled = history.settled
          /\ history'.seeded = history.seeded
          /\ history'.rolling = history.rolling
      BY <1>4 DEF IInv, TypeOK, Histories, ContainerReplaced, Boot, Fresh,
          Defaults, ApplyEnv, Store
    <3> QED BY <3>1, <3>2, <3>3, SettledKept
  <2> QED BY <2>1, <2>2, <2>3, <2>4, <2>5 DEF IInv
<1> QED BY <1>1, <1>2, <1>3, <1>4 DEF Platform

(* Nor does an invitation, a revocation, a switch or a lost file.           *)
THEOREM CommandStep == IInv /\ Command => IInv'
<1> SUFFICES ASSUME IInv, Command PROVE IInv'
  OBVIOUS
<1> USE Apart DEF railway, server
<1>1. ASSUME NEW u \in Users, Invite(u) PROVE IInv'
  <2>1. TypeOK'
    <3>1. used'.creds = used.creds /\ history'.asked = history.asked
      BY <1>1 DEF IInv, TypeOK, Histories, Invite
    <3>2. admin' \in Admins \cup {None}
      BY <1>1 DEF IInv, TypeOK, Admins, Creations, Paced, Configuring, Live,
          Invite
    <3>3. history' \in Histories
      BY <1>1 DEF IInv, TypeOK, Histories, Creations, Admins, Paced,
          Configuring, Invite
    <3> QED BY <1>1, <3>1, <3>2, <3>3, SameTypes DEF IInv, TypeOK, Invite
  <2>2. Paced'
    BY <1>1 DEF IInv, TypeOK, Creations, Paced, Live, Configuring, Invite
  <2>3. MintedOnce'
    BY <1>1 DEF IInv, TypeOK, Histories, MintedOnce, Invite
  <2>4. Housed'
    BY <1>1 DEF IInv, TypeOK, Creations, Paced, Housed, Envs, Deployments, Dbs, None,
           Configuring, Invite
  <2>5. Settled'
    <3>1. VolumeKept
      BY <1>1 DEF IInv, TypeOK, Housed, VolumeKept, Dbs, None, Invite
    <3>2. creation' = creation /\ history'.confirmed = history.confirmed
      BY <1>1 DEF IInv, TypeOK, Histories, Invite
    <3>3. /\ history'.settled = history.settled
          /\ history'.seeded = history.seeded
          /\ history'.rolling = history.rolling
      BY <1>1 DEF IInv, TypeOK, Histories, Invite
    <3> QED BY <3>1, <3>2, <3>3, SettledKept
  <2> QED BY <2>1, <2>2, <2>3, <2>4, <2>5 DEF IInv
<1>2. ASSUME NEW u \in Users, Revoke(u) PROVE IInv'
  <2>1. TypeOK'
    <3>1. used'.creds = used.creds /\ history'.asked = history.asked
      BY <1>2 DEF IInv, TypeOK, Histories, Revoke, Accepts, Answering, Store
    <3>2. volumeDb' \in Dbs \cup {None} /\ diskDb' \in Dbs \cup {None}
      <4>1. serving /= None /\ Answering \in Dbs
        BY <1>2, AnsweringIsDb DEF Revoke, Accepts
      <4>2. [Answering EXCEPT !.revoked = @ \cup {u}] \in Dbs
        BY <4>1 DEF Dbs
      <4> QED BY <1>2, <4>2 DEF IInv, TypeOK, Revoke, Store
    <3>3. admin' \in Admins \cup {None}
      BY <1>2 DEF IInv, TypeOK, Admins, Creations, Paced, Configuring, Live,
          Revoke, Accepts, Answering, Store
    <3> QED BY <1>2, <3>1, <3>2, <3>3, SameTypes DEF IInv, TypeOK, Revoke
  <2>2. Paced'
    BY <1>2 DEF IInv, TypeOK, Creations, Paced, Live, Configuring, Revoke, Accepts,
           Answering, Store
  <2>3. MintedOnce'
    BY <1>2 DEF IInv, TypeOK, Histories, MintedOnce, Revoke, Accepts, Answering, Store
  <2>4. Housed'
    BY <1>2 DEF IInv, TypeOK, Creations, Paced, Housed, Envs, Deployments, Dbs, None,
           Configuring, Revoke, Accepts, Answering, Store
  <2>5. Settled'
    <3>1. VolumeKept
      BY <1>2 DEF IInv, TypeOK, Housed, VolumeKept, Dbs, None, Revoke, Accepts,
          Answering, Store
    <3>2. creation' = creation /\ history'.confirmed = history.confirmed
      BY <1>2 DEF IInv, TypeOK, Histories, Revoke, Accepts, Answering, Store
    <3>3. /\ history'.settled = history.settled
          /\ history'.seeded = history.seeded
          /\ history'.rolling = history.rolling
      BY <1>2 DEF IInv, TypeOK, Histories, Revoke, Accepts, Answering, Store
    <3> QED BY <3>1, <3>2, <3>3, SettledKept
  <2> QED BY <2>1, <2>2, <2>3, <2>4, <2>5 DEF IInv
<1>3. ASSUME NEW c \in Challenges, SwitchChallenge(c) PROVE IInv'
  <2> DEFINE db == [Answering EXCEPT !.active = c]
  <2>1. /\ used'.creds = used.creds
        /\ used' \in [creates : Nat, creds : Nat, restarts : Nat,
                     switches : Nat]
        /\ history'.asked = history.asked \cup {c}
        /\ \A f \in {"invites", "rotated", "confirmed", "settled", "seeded",
                     "rolling"} : history'[f] = history[f]
    BY <1>3 DEF IInv, TypeOK, Histories, SwitchChallenge
  <2>2. serving /= None /\ Answering \in Dbs /\ Store(db)
    BY <1>3, AnsweringIsDb DEF SwitchChallenge, Accepts
  <2>3. TypeOK'
    <3>1. Live' = Live /\ Whole \subseteq Whole'
      BY <2>1 DEF Live, Whole
    <3>2. /\ Envs \subseteq Envs'
          /\ Deployments \subseteq Deployments'
          /\ Dbs \subseteq Dbs'
          /\ Admins' = Admins
          /\ Creations' = Creations
      BY <2>1, <3>1 DEF Envs, Deployments, Dbs, Admins, Creations
    <3>3. db \in Dbs'
      BY <2>1, <2>2, <3>1 DEF Dbs
    <3>4. volumeDb' \in Dbs' \cup {None} /\ diskDb' \in Dbs' \cup {None}
      BY <2>2, <3>2, <3>3 DEF IInv, TypeOK, Store
    <3>5. history' \in Histories'
      BY <1>3, <3>1 DEF IInv, TypeOK, Histories, SwitchChallenge
    <3> QED
      BY <1>3, <2>1, <3>2, <3>4, <3>5 DEF IInv, TypeOK, SwitchChallenge
  <2>4. VolumeKept
    <3>1. db \in Dbs' /\ db.seeds = Answering.seeds /\ db.whole = Answering.whole
      BY <2>1, <2>2 DEF Dbs, Live, Whole
    <3>2. db /= None
      BY <2>2 DEF Dbs, None
    <3> HIDE DEF db
    <3> QED BY <2>2, <3>1, <3>2 DEF VolumeKept, Store, Answering
  <2>5. Paced'
    BY <1>3, <2>1 DEF IInv, Paced, Live, Configuring, SwitchChallenge
  <2>6. MintedOnce'
    BY <2>1 DEF IInv, MintedOnce
  <2>7. Housed'
    <3>1. db /= None
      BY <2>2 DEF Dbs, None
    <3> HIDE DEF db
    <3> QED
      BY <1>3, <2>1, <2>2, <2>4, <3>1
      DEF IInv, Housed, VolumeKept, Store, SwitchChallenge
  <2>8. Settled'
    BY <1>3, <2>1, <2>4, SettledKept DEF SwitchChallenge
  <2> QED BY <2>3, <2>5, <2>6, <2>7, <2>8 DEF IInv
<1>4. CASE LoseAdminFile
  <2>1. TypeOK'
    <3>1. used'.creds = used.creds /\ history'.asked = history.asked
      BY <1>4 DEF IInv, TypeOK, Histories, LoseAdminFile
    <3>2. admin' \in Admins \cup {None}
      BY <1>4 DEF IInv, TypeOK, Admins, Creations, Paced, Configuring, Live,
          LoseAdminFile
    <3> QED BY <1>4, <3>1, <3>2, SameTypes DEF IInv, TypeOK, LoseAdminFile
  <2>2. Paced'
    BY <1>4 DEF IInv, TypeOK, Creations, Paced, Live, Configuring, LoseAdminFile
  <2>3. MintedOnce'
    BY <1>4 DEF IInv, TypeOK, Histories, MintedOnce, LoseAdminFile
  <2>4. Housed'
    BY <1>4 DEF IInv, TypeOK, Creations, Paced, Housed, Envs, Deployments, Dbs, None,
           Configuring, LoseAdminFile
  <2>5. Settled'
    <3>1. VolumeKept
      BY <1>4 DEF IInv, TypeOK, Housed, VolumeKept, Dbs, None, LoseAdminFile
    <3>2. creation' = creation /\ history'.confirmed = history.confirmed
      BY <1>4 DEF IInv, TypeOK, Histories, LoseAdminFile
    <3>3. /\ history'.settled = history.settled
          /\ history'.seeded = history.seeded
          /\ history'.rolling = history.rolling
      BY <1>4 DEF IInv, TypeOK, Histories, LoseAdminFile
    <3> QED BY <3>1, <3>2, <3>3, SettledKept
  <2> QED BY <2>1, <2>2, <2>3, <2>4, <2>5 DEF IInv
<1> QED BY <1>1, <1>2, <1>3, <1>4 DEF Command

-----------------------------------------------------------------------------
\* The results.

(* IInv holds in every state.                                               *)
THEOREM SwarmHolds == Spec => []IInv
<1>1. Init => IInv
  BY DEF Init, IInv, TypeOK, Creations, Histories, Paced, MintedOnce, Housed,
         Settled, Found, At, SettledSeedsStay,
         Idle, Steps, Configuring, Seeds, Live
<1>2. IInv /\ [Next]_vars => IInv'
  <2> SUFFICES ASSUME IInv, [Next]_vars PROVE IInv'
    OBVIOUS
  <2>1. CASE Next
    BY <2>1, ProvisionStep, ConfigureStep, PlatformStep, CommandStep DEF Next
  <2>2. CASE UNCHANGED vars
    <3>1. UNCHANGED <<railway, server, admin, used, history>>
      BY <2>2 DEF vars, railway, server
    <3>2. creation' \in Creations
      BY <2>2 DEF vars, IInv, TypeOK
    <3>3. Paced' /\ Found'
      BY <2>2 DEF vars, IInv, Paced, Live, Settled, Found, At
    <3> QED BY <3>1, <3>2, <3>3, OnlyCreation
  <2> QED BY <2>1, <2>2
<1> QED BY <1>1, <1>2, PTL DEF Spec

(* However often a creation is interrupted and run again, every invitation  *)
(* opens the server that answers, unless a creation warned that it rotated  *)
(* the credentials.                                                         *)
THEOREM InvitesHold == Spec => []InvitesStayValid
<1>1. IInv => InvitesStayValid
  <2> SUFFICES ASSUME IInv, ~history.rotated, serving /= None,
                      NEW i \in history.invites
               PROVE  Answering.cred = i.cred
    BY DEF InvitesStayValid
  <2>1. Answering.cred \in Live
    BY AnsweringIsDb DEF Dbs
  <2>2. i.cred \in Live
    BY DEF IInv, TypeOK, Histories
  <2>3. used.creds \in Nat /\ used.creds <= 1
    BY DEF IInv, TypeOK, MintedOnce
  <2> QED BY <2>1, <2>2, <2>3 DEF Live
<1> QED BY <1>1, SwarmHolds, PTL

(* Every server that answers runs what the host asked for at some time,     *)
(* whole unless a blob of sub-configurations was garbled; a configuration   *)
(* verified on the volume outside a rollout stays whole.                    *)
THEOREM ConfiguredAtBoot == Spec => []RunsWhatWasAsked
<1>1. IInv => RunsWhatWasAsked
  <2> SUFFICES ASSUME IInv PROVE RunsWhatWasAsked
    OBVIOUS
  <2>1. ASSUME serving /= None
        PROVE  /\ Answering.active \in history.asked
               /\ history.asked \cap Garbled = {} => Answering.whole
    BY <2>1, AnsweringIsDb DEF Dbs, Whole
  <2> QED BY <2>1 DEF RunsWhatWasAsked, IInv, Settled
<1> QED BY <1>1, SwarmHolds, PTL

(* Seeds verified after the volume's check and outside a rollout stay.      *)
THEOREM SeedsSettled == Spec => []SettledSeedsStay
<1>1. IInv => SettledSeedsStay
  BY DEF IInv, Settled
<1> QED BY <1>1, SwarmHolds, PTL

(* A request that leaves the challenge alone leaves it alone on the volume. *)
LEMMA StoreKeeps ==
    ASSUME IInv, serving /= None, NEW db, db.active = Answering.active,
           Store(db)
    PROVE  volumeDb'.active = volumeDb.active
BY DEF Store, Answering

(* Only a post of the host changes the challenge on the volume: no boot,    *)
(* redeploy or re-run creation reverts a switch.                            *)
THEOREM SwitchesLast == Spec => OnlyTheHostSwitches
<1> DEFINE Posted == PostConfig \/ \E c \in Challenges : SwitchChallenge(c)
           Kept == volumeDb /= None => volumeDb'.active = volumeDb.active
<1>1. ASSUME IInv, Next PROVE Kept \/ Posted
  <2> USE DEF railway, server
  <2>1. CASE Provision
    BY <2>1 DEF Provision, StartCreate, FindProject, InitProject,
           AwaitProject, AddService, RequeryService, ResolveCredentials,
           SetVariables, AddVolume, Up, Deploy
  <2>2. CASE Abort
    BY <2>2 DEF Abort
  <2>3. CASE Configure
    <3>0. ASSUME NEW s, Accepts(creation.cred), Deposit(s) PROVE Kept
      <4>1. Answering \in Dbs /\ serving /= None
        BY <3>0, AnsweringIsDb, <1>1 DEF Accepts
      <4>2. [Answering EXCEPT !.seeds = @ \cup {s}].active = Answering.active
        BY <4>1 DEF Dbs
      <4> QED BY <1>1, <3>0, <4>1, <4>2, StoreKeeps DEF Deposit
    <3>1. CASE SeedMainnet \/ SeedAuthored
      BY <3>0, <3>1 DEF SeedMainnet, SeedAuthored
    <3>2. CASE ~(SeedMainnet \/ SeedAuthored)
      BY <2>3, <3>2 DEF Configure, WaitForServer, DbOnVolume, DbUnconfirmed,
             Redeploy, Deploy, ConfigCallFails, ReadConfigBack, GiveUpConfig,
             VerifySeeds, ReadPool, WriteLocalFiles
    <3> QED BY <3>1, <3>2
  <2>4. CASE Platform
    <3>1. ASSUME NEW env, volumeDb /= None
          PROVE  Boot(volumeDb, env).active = volumeDb.active
      <4>1. volumeDb \in Dbs
        BY <1>1, <3>1 DEF IInv, TypeOK
      <4> QED BY <3>1, <4>1 DEF Boot, Dbs
    <3>2. CASE VolumeAttaches \/ TrafficMoves
      BY <3>2 DEF VolumeAttaches, TrafficMoves
    <3>3. CASE ContainerStarts
      BY <3>1, <3>3 DEF ContainerStarts
    <3>4. CASE ContainerReplaced
      BY <3>1, <3>4 DEF ContainerReplaced, Store
    <3> QED BY <2>4, <3>2, <3>3, <3>4 DEF Platform
  <2>5. CASE Command
    <3>1. ASSUME NEW u \in Users, Invite(u) PROVE Kept
      BY <3>1 DEF Invite
    <3>2. ASSUME NEW u \in Users, Revoke(u) PROVE Kept
      <4>1. Answering \in Dbs /\ serving /= None
        BY <3>2, AnsweringIsDb, <1>1 DEF Revoke, Accepts
      <4>2. [Answering EXCEPT !.revoked = @ \cup {u}].active
              = Answering.active
        BY <4>1 DEF Dbs
      <4> QED BY <1>1, <3>2, <4>1, <4>2, StoreKeeps DEF Revoke
    <3>3. CASE LoseAdminFile
      BY <3>3 DEF LoseAdminFile
    <3> QED BY <2>5, <3>1, <3>2, <3>3 DEF Command
  <2> QED BY <1>1, <2>1, <2>2, <2>3, <2>4, <2>5 DEF Next
<1>2. IInv /\ [Next]_vars =>
        [ volumeDb /= None /\ volumeDb'.active /= volumeDb.active
            => Posted ]_vars
  BY <1>1 DEF vars
<1> QED BY <1>2, SwarmHolds, PTL DEF Spec, OnlyTheHostSwitches
=============================================================================
