----------------------------- MODULE Deployment -----------------------------
(***************************************************************************)
(* The deployment of the system: scripts/deploy.sh on the centre, which    *)
(* starts MySQL, Redis, the API and perhaps a judge as containers of one   *)
(* compose project, and scripts/deploy-remote-judge.sh on another machine. *)
(* The operator edits .env, pulls newer sources and deploys again; scripts *)
(* are cut off, containers die, MySQL goes away for a while.               *)
(*                                                                         *)
(* A source is the number of its migrations. Of .env the passwords of the  *)
(* database and of Redis and two switches are kept; the other credentials  *)
(* are the operator's own. A password is "default" or "own". Building, the *)
(* web server and the storage are left out.                                *)
(***************************************************************************)
EXTENDS Integers, FiniteSetsExt

CONSTANTS
  MaxSource,   \* bound: number of migrations of the newest source
  MaxEdits,    \* bound: edits of .env
  MaxDeploys, MaxRemotes,  \* bounds: calls of the two scripts
  MaxFaults    \* bound: cut-offs, deaths, outages

ASSUME DeploymentAssumption ==
  MaxSource \in Nat /\ MaxEdits \in Nat /\ MaxDeploys \in Nat /\ MaxRemotes \in Nat
  /\ MaxFaults \in Nat

VARIABLES
  env,       \* .env of the centre
  source,    \* the source on the centre
  schema,    \* migrations applied to the database, kept in a volume
  admin,     \* the account of the administrator is there
  redis,     \* the container: password it was created with, "none" before
  box,       \* the containers "api", "judge", "remote"
  script,    \* deploy.sh
  count,     \* edits, deploys and faults so far
  lost,      \* ghost: the queue was lost, and no recovery pass has begun since
  excused    \* ghost: by a cut-off deploy or the death of Redis

deploymentVars == <<env, source, schema, admin, redis, box, script, count, lost, excused>>

Boxes == {"api", "judge", "remote"}
Passwords == {"default", "own"}
EnvFile == [redis : Passwords, db : Passwords, auto : BOOLEAN, enforce : BOOLEAN]

(* .env.example                                                            *)
Example == [redis |-> "default", db |-> "default", auto |-> TRUE, enforce |-> FALSE]

Absent == [state |-> "absent", env |-> Example, source |-> 0]
Idle == [pc |-> "idle", judge |-> FALSE]

DeploymentInit ==
  /\ env = Example /\ source = 1 /\ schema = 0 /\ admin = FALSE
  /\ redis = "none" /\ box = [b \in Boxes |-> Absent] /\ script = Idle
  /\ count = [edits |-> 0, deploys |-> 0, remotes |-> 0, faults |-> 0]
  /\ lost = FALSE /\ excused = FALSE

Counted(what, bound) == count[what] < bound /\ count' = [count EXCEPT ![what] = @ + 1]

(* One line is changed.                                                    *)
Edit(new) ==
  /\ Cardinality({f \in DOMAIN env : env[f] # new[f]}) = 1
  /\ script = Idle /\ Counted("edits", MaxEdits)
  /\ env' = new
  /\ UNCHANGED <<source, schema, admin, redis, box, script, lost, excused>>

Pull ==
  /\ script = Idle /\ source < MaxSource
  /\ source' = source + 1
  /\ UNCHANGED <<env, schema, admin, redis, box, script, count, lost, excused>>

-----------------------------------------------------------------------------
(* deploy.sh: what is to be deployed, then one command after the other.    *)

At(pc) == script.pc = pc
Goto(pc) == script' = [script EXCEPT !.pc = pc]

Deploy(judge) ==
  /\ script = Idle /\ Counted("deploys", MaxDeploys)
  /\ script' = [pc |-> "redis", judge |-> judge]
  /\ UNCHANGED <<env, source, schema, admin, redis, box, lost, excused>>

(* The project gives the containers the password of the database, whatever *)
(* .env has, and that of Redis from .env.                                  *)
Resolved == [env EXCEPT !.db = "default"]

(* compose up recreates what is not as it should be now, and starts what   *)
(* has exited. What Redis has not saved by then goes with its container.   *)
UpRedis ==
  /\ At("redis") /\ Goto("api")
  /\ redis' = env.redis
  /\ lost' \in {lost, lost \/ redis \notin {"none", env.redis}}
  /\ UNCHANGED <<env, source, schema, admin, box, count, excused>>

Up(b) ==
  box' = [box EXCEPT ![b] =
    IF @.state \in {"starting", "up"} /\ @.env = Resolved /\ @.source = source THEN @
    ELSE [state |-> "starting", env |-> Resolved, source |-> source]]

UpApi ==
  /\ At("api") /\ Goto(IF script.judge THEN "judge" ELSE "migrate")
  /\ Up("api")
  /\ UNCHANGED <<env, source, schema, admin, redis, count, lost, excused>>

(* Without the judge, one that an earlier deploy has started stays.        *)
UpJudge ==
  /\ At("judge") /\ Goto("migrate")
  /\ Up("judge")
  /\ UNCHANGED <<env, source, schema, admin, redis, count, lost, excused>>

(* prisma migrate deploy applies what has not been applied.                *)
Migrated(version) == Max({schema, version})

(* From the host, with the password of .env, which is not that of the user *)
(* if it has been changed; the script ends then.                           *)
HostMigrates ==
  /\ At("migrate")
  /\ IF env.db = "default"
     THEN Goto("seed") /\ schema' = Migrated(source)
     ELSE script' = Idle /\ UNCHANGED schema
  /\ UNCHANGED <<env, source, admin, redis, box, count, lost, excused>>

(* A seed that fails is warned of, as is an API that is not there.         *)
Seed ==
  /\ At("seed") /\ script' = Idle
  /\ admin' \in {admin, TRUE}
  /\ UNCHANGED <<env, source, schema, redis, box, count, lost, excused>>

-----------------------------------------------------------------------------
(* deploy-remote-judge.sh, from a source that may be newer or older than   *)
(* that of the centre. The password of Redis is typed in right, that of    *)
(* the database perhaps not.                                               *)

RemoteMigrating(db) ==          \* mutant: DB_AUTO_MIGRATE is left at its default
  [redis |-> env.redis, db |-> db, auto |-> TRUE, enforce |-> FALSE]

RemoteEnv(db) == [redis |-> env.redis, db |-> db, auto |-> FALSE, enforce |-> FALSE]

DeployRemote(db, version) ==
  /\ Counted("remotes", MaxRemotes)
  /\ box' = [box EXCEPT !["remote"] =
               [state |-> "starting", env |-> RemoteEnv(db), source |-> version]]
  /\ UNCHANGED <<env, source, schema, admin, redis, script, lost, excused>>

-----------------------------------------------------------------------------
(* The start of a container.                                               *)

Become(b, state) == box' = [box EXCEPT ![b].state = state]

(* checkDefaultCredentials: only warns, unless told to refuse.             *)
Refuses(b) ==
  b = "api" /\ box[b].env.enforce /\ "default" \in {box[b].env.redis, box[b].env.db}

(* syncDatabaseSchema comes before anything is listened to; without the    *)
(* migration, or with one that failed (another holds the lock), nothing    *)
(* of the process is left.                                                 *)
Start(b) ==
  /\ box[b].state = "starting"
  /\ IF Refuses(b) THEN Become(b, "exited") /\ UNCHANGED schema
     ELSE \/ ~box[b].env.auto /\ Become(b, "synced") /\ UNCHANGED schema
          \/ box[b].env.auto /\ Become(b, "exited") /\ UNCHANGED schema
          \/ /\ box[b].env.auto /\ box[b].env.db = "default"
             /\ Become(b, "synced") /\ schema' = Migrated(box[b].source)
  /\ UNCHANGED <<env, source, admin, redis, script, count, lost, excused>>

Reaches(b) == box[b].env.redis = redis

\* Mutant: the API listens without a recovery pass.
ListenAtOnce ==
  /\ box["api"].state = "synced" /\ Become("api", "up")
  /\ UNCHANGED <<env, source, schema, admin, redis, script, count, lost, excused>>

(* The recovery pass begins before the API listens.                        *)
ListenApi ==
  /\ box["api"].state = "synced" /\ Become("api", "up")
  /\ IF Reaches("api") THEN lost' = FALSE /\ excused' = FALSE
                       ELSE UNCHANGED <<lost, excused>>
  /\ UNCHANGED <<env, source, schema, admin, redis, script, count>>

(* A judge whose first heartbeat cannot be written ends: nobody catches it.*)
ListenJudge(b) ==
  /\ b # "api" /\ box[b].state = "synced"
  /\ Become(b, IF box[b].env.db = "default" THEN "up" ELSE "exited")
  /\ UNCHANGED <<env, source, schema, admin, redis, script, count, lost, excused>>

(* The containers of the project are not restarted, the remote one is.     *)
Restarted ==
  /\ box["remote"].state = "exited"
  /\ Become("remote", "starting")
  /\ UNCHANGED <<env, source, schema, admin, redis, script, count, lost, excused>>

-----------------------------------------------------------------------------
(* Faults. *)

Fault == Counted("faults", MaxFaults)

CutOff ==
  /\ script # Idle /\ Fault
  /\ script' = Idle
  /\ excused' = (excused \/ At("api"))
  /\ UNCHANGED <<env, source, schema, admin, redis, box, lost>>

Dies(b) ==
  /\ box[b].state \in {"starting", "synced", "up"} /\ Fault
  /\ Become(b, "exited")
  /\ UNCHANGED <<env, source, schema, admin, redis, script, lost, excused>>

(* The next heartbeat of every judge fails; the API goes on.               *)
DatabaseAway ==
  /\ Fault
  /\ box' = [b \in Boxes |-> IF b # "api" /\ box[b].state = "up"
                             THEN [box[b] EXCEPT !.state = "exited"] ELSE box[b]]
  /\ UNCHANGED <<env, source, schema, admin, redis, script, lost, excused>>

(* What Redis had not saved is gone.                                       *)
RedisDies ==
  /\ redis # "none" /\ Fault
  /\ lost' = TRUE /\ excused' = TRUE
  /\ UNCHANGED <<env, source, schema, admin, redis, box, script>>

DeploymentNext ==
  \/ Pull \/ \E new \in EnvFile : Edit(new)
  \/ \E judge \in BOOLEAN : Deploy(judge)
  \/ UpRedis \/ UpApi \/ UpJudge \/ HostMigrates \/ Seed
  \/ \E db \in Passwords, version \in 1..MaxSource : DeployRemote(db, version)
  \/ \E b \in Boxes : Start(b) \/ ListenJudge(b) \/ Dies(b)
  \/ ListenApi \/ Restarted \/ CutOff \/ DatabaseAway \/ RedisDies

DeploymentSpec == DeploymentInit /\ [][DeploymentNext]_deploymentVars

-----------------------------------------------------------------------------
(* The type of every variable. *)
DeploymentTypeOK ==
  /\ env \in EnvFile /\ source \in 1..MaxSource /\ schema \in 0..MaxSource
  /\ redis \in Passwords \union {"none"} /\ {admin, lost, excused} \subseteq BOOLEAN
  /\ box \in [Boxes -> [state : {"absent", "starting", "synced", "up", "exited"},
                        env : EnvFile, source : 0..MaxSource]]

(* An API that reaches Redis has begun its recovery pass after the queue   *)
(* was lost: Redis is recreated only when its password changes, and the API*)
(* then too, after it. A deploy that is cut off between the two and taken  *)
(* back, and the death of Redis, are the exceptions.                       *)
QueueLossRecovered ==
  lost /\ box["api"].state = "up" /\ Reaches("api") => excused

(* The tables of an API or a judge that is up are there, if it migrates at *)
(* its start, and they are never newer than the source of the centre,      *)
(* whatever a remote judge was built from: only the centre migrates.       *)
SchemaOfTheCentre ==
  /\ schema <= source
  /\ \A b \in Boxes : box[b].state = "up" /\ box[b].env.auto => box[b].source <= schema
=============================================================================
