----------------------------- MODULE DataLayer -----------------------------
(***************************************************************************)
(* The Runner's DataLayerService and its Provisioner, for the Indexers of  *)
(* one account.  They share a database, a role and a Hasura source; each   *)
(* has a schema with its tables, and cron jobs that rotate its logs.  What *)
(* exists in Postgres, pg_cron and Hasura is a set of parts.  A task is a  *)
(* sequence of statements, each awaited: it needs some parts, is refused   *)
(* when it would create one that exists, and adds or removes some.  Which  *)
(* statements are left out depends on a snapshot the task took before.     *)
(***************************************************************************)
EXTENDS Naturals, Sequences, FiniteSets

CONSTANTS
  Indexers,       \* the Indexers of the account
  Account,        \* owner of what they share
  ForeignKeys,    \* do the schemas have foreign keys?
  MaxRetries,     \* RetryConfig.maxRetries
  MaxTasks,       \* tasks that are started
  MaxOverlaps,    \* tasks that are started while others run
  MaxRemovals,    \* deprovisioning tasks among them
  MaxFaults       \* lost requests, lost answers, restarts of the Runner

ASSUME DataLayerAssumption ==
  /\ Account \notin Indexers
  /\ ForeignKeys \in BOOLEAN
  /\ {MaxRetries, MaxTasks, MaxOverlaps, MaxRemovals, MaxFaults} \subseteq Nat
  /\ MaxRetries > 0

VARIABLES
  has,       \* the parts that exist, <<owner, part>>
  tasks,     \* AsyncTasks, where their promises stand, whom they ran beside
  faults

vars == <<has, tasks, faults>>

Tasks == 1 .. MaxTasks
SharedParts == {"database", "user", "source", "cron"}
Tracked == {"systemTracked", "tablesTracked"}
Metadata ==
  Tracked \cup {"systemPermitted", "tablesPermitted", "related"}
Tables == {"metadata", "logs", "tables"}
Jobs == {"createJob", "deleteJob"}
OwnParts == {"schema"} \cup Tables \cup Metadata \cup Jobs
Parts ==
  ({Account} \X SharedParts) \cup (Indexers \X OwnParts)

Shared(parts) == {Account} \X parts
Of(i, parts) == {i} \X parts
Sql == Shared({"database", "source"})

-----------------------------------------------------------------------------
(***************************************************************************)
(* The statements: Creates is refused if a part exists already, Ensures is *)
(* not.                                                                    *)
(***************************************************************************)
Creates(needs, parts) ==
  [needs |-> needs, absent |-> parts, adds |-> parts, removes |-> {}]
Ensures(needs, parts) ==
  [needs |-> needs, absent |-> {}, adds |-> parts, removes |-> {}]
Removes(needs, parts) ==
  [needs |-> needs, absent |-> {}, adds |-> {}, removes |-> parts]

CreateDatabase == Creates({}, Shared({"database"}))
CreateUser == Creates({}, Shared({"user"}))
RestrictUser == Ensures(Shared({"database", "user"}), {})
AddDatasource == Creates(Shared({"database", "user"}), Shared({"source"}))
CreateSchema(i) == Creates(Sql, Of(i, {"schema"}))
CreateMetadataTable(i) == Ensures(Sql \cup Of(i, {"schema"}), Of(i, {"metadata"}))
SetProvisioningStatus(i) == Ensures(Sql \cup Of(i, {"metadata"}), {})
RunLogsSql(i) == Creates(Sql \cup Of(i, {"schema"}), Of(i, {"logs"}))
GrantCronAccess == Ensures(Shared({"user"}), Shared({"cron"}))
Schedule(i, job) == Ensures(Shared({"source", "cron"}), Of(i, {job}))
TrackSystemTables(i) ==
  Creates(Sql \cup Of(i, {"metadata", "logs"}), Of(i, {"systemTracked"}))
PermitSystemTables(i) ==
  Creates(Of(i, {"systemTracked"}), Of(i, {"systemPermitted"}))
RunIndexerSql(i) == Creates(Sql \cup Of(i, {"schema"}), Of(i, {"tables"}))
TrackTables(i) == Creates(Sql \cup Of(i, {"tables"}), Of(i, {"tablesTracked"}))
TrackForeignKeys(i) ==
  IF ForeignKeys
  THEN Creates(Sql \cup Of(i, {"tablesTracked"}), Of(i, {"related"}))
  ELSE Ensures(Sql, {})
PermitTables(i) ==
  Creates(Of(i, {"tablesTracked"}), Of(i, {"tablesPermitted"}))

(* Slip: not dropped through Hasura, whose metadata stays. *)
DropSchemaOnly(i) == Removes(Sql, Of(i, {"schema"} \cup Tables))
DropSchema(i) == Removes(Sql, Of(i, {"schema"} \cup Tables \cup Metadata))
Unschedule(i, job) == Removes(Shared({"source"}) \cup Of(i, {job}), Of(i, {job}))
DropDatasource ==
  Removes(Shared({"source"}), Shared({"source"}) \cup Indexers \X Metadata)
DropDatabase ==
  Removes({}, Shared({"database"}) \cup Indexers \X ({"schema"} \cup Tables))
RevokeCron == Removes(Shared({"user"}), Shared({"cron"}))
DropRole == Removes({}, Shared({"user"}))

(* Every await of provisionUserApi and of deprovision, in order. *)
Provisioning ==
  <<"export", "listTables", "database", "user", "restrict", "source",
    "schema", "metadata", "status", "logs", "cron", "createJob",
    "deleteJob", "trackSystem", "permitSystem", "script", "export",
    "listTables", "track", "relate", "permit">>
Deprovisioning ==
  <<"dropSchema", "unscheduleCreate", "unscheduleDelete", "listSchemas",
    "dropSource", "dropDatabase", "revokeCron", "dropRole">>
Plan(kind) == IF kind = "provision" THEN Provisioning ELSE Deprovisioning

Reads == {"export", "listTables", "listSchemas"}
Retried == {"permitSystem", "relate", "permit"}

Statement(i) ==
  [database |-> CreateDatabase, user |-> CreateUser,
   restrict |-> RestrictUser, source |-> AddDatasource,
   schema |-> CreateSchema(i), metadata |-> CreateMetadataTable(i),
   status |-> SetProvisioningStatus(i), logs |-> RunLogsSql(i),
   cron |-> GrantCronAccess, createJob |-> Schedule(i, "createJob"),
   deleteJob |-> Schedule(i, "deleteJob"),
   trackSystem |-> TrackSystemTables(i),
   permitSystem |-> PermitSystemTables(i), script |-> RunIndexerSql(i),
   track |-> TrackTables(i), relate |-> TrackForeignKeys(i),
   permit |-> PermitTables(i), dropSchema |-> DropSchema(i),
   unscheduleCreate |-> Unschedule(i, "createJob"),
   unscheduleDelete |-> Unschedule(i, "deleteJob"),
   dropSource |-> DropDatasource, dropDatabase |-> DropDatabase,
   revokeCron |-> RevokeCron, dropRole |-> DropRole]

(***************************************************************************)
(* What the snapshot makes a task leave out.  doesSchemaExist looks for a  *)
(* tracked table; the user's tables are those not tracked at the reload.   *)
(***************************************************************************)
(* Slip: the datasource is added outside of the condition. *)
SkipsUserDb(step, seen) ==
  /\ step \in {"database", "user", "restrict"}
  /\ <<Account, "source">> \in seen

SkipsShared(step, seen) ==
  /\ step \in {"database", "user", "restrict", "source"}
  /\ <<Account, "source">> \in seen

(* Slip: only the datasource is kept for the other schemas. *)
KeepsSource(step, seen) ==
  /\ step = "dropSource"
  /\ \E other \in Indexers : <<other, "schema">> \in seen

KeepsShared(step, seen) ==
  /\ step \in {"dropSource", "dropDatabase", "revokeCron", "dropRole"}
  /\ \E other \in Indexers : <<other, "schema">> \in seen

SkipsOwn(i, step, seen) ==
  LET sees(part) == <<i, part>> \in seen
      noUserTables == ~sees("tables") \/ sees("tablesTracked")
  IN \/ step = "schema" /\ \E part \in Tracked : sees(part)
     \/ step = "metadata" /\ sees("metadata")
     \/ step \in {"logs", "cron", "createJob", "deleteJob"} /\ sees("logs")
     \/ step = "trackSystem" /\ sees("systemTracked")
     \/ step = "permitSystem" /\ sees("systemPermitted")
     \/ step = "script" /\ sees("tables")
     \/ step = "track" /\ noUserTables
     \/ step = "permit" /\ (noUserTables \/ sees("tablesPermitted"))

Skips(i, step, seen) ==
  SkipsShared(step, seen) \/ KeepsShared(step, seen) \/ SkipsOwn(i, step, seen)

-----------------------------------------------------------------------------
Unstarted ==
  [kind |-> "provision", indexer |-> Account, at |-> 0, seen |-> {},
   tries |-> 0, state |-> "none", beside |-> {}]

Pending(t) == tasks[t].state = "pending"
StepOf(t) == Plan(tasks[t].kind)[tasks[t].at]
Started(t) == tasks[t].state # "none"
Serves(t, i) == Started(t) /\ tasks[t].indexer = i
Removals == {t \in Tasks : tasks[t].kind = "deprovision"}
Overlapping == {t \in Tasks : tasks[t].beside # {}}

(* No later task undoes what this one has done. *)
Stands(t) ==
  \A u \in Tasks :
    u > t /\ Serves(u, tasks[t].indexer) => tasks[u].kind = tasks[t].kind

(* The task before it, of its Indexer, did the opposite. *)
Undoes(t) ==
  \E u \in Tasks :
    /\ u < t /\ Serves(u, tasks[t].indexer) /\ tasks[u].kind # tasks[t].kind
    /\ \A v \in Tasks : u < v /\ v < t => ~Serves(v, tasks[t].indexer)

(* Where a task goes when its step is done, having seen what it has. *)
Advanced(task, seen) ==
  LET rest == {n \in (task.at + 1) .. Len(Plan(task.kind)) :
                 ~Skips(task.indexer, Plan(task.kind)[n], seen)}
  IN IF rest = {}
     THEN [task EXCEPT !.seen = {}, !.state = "complete"]
     ELSE [task EXCEPT !.seen = seen, !.tries = 0,
                       !.at = CHOOSE n \in rest : \A m \in rest : n <= m]

(* exponentialRetry, or the promise is rejected. *)
Failed(task) ==
  IF Plan(task.kind)[task.at] \in Retried /\ task.tries + 1 < MaxRetries
  THEN [task EXCEPT !.tries = @ + 1]
  ELSE [task EXCEPT !.seen = {}, !.state = "failed"]

Effect(statement) == (has \ statement.removes) \cup statement.adds
Accepted(statement) ==
  statement.needs \subseteq has /\ statement.absent \cap has = {}

(* StartProvisioningTask and StartDeprovisioningTask.  Neither asks what   *)
(* was there before.                                                       *)
Start(t, i, kind) ==
  LET running == {u \in Tasks : Pending(u)} IN
  /\ ~Started(t)
  /\ \A u \in Tasks : u < t => Started(u)
  /\ running # {} => Cardinality(Overlapping) < MaxOverlaps
  /\ kind = "deprovision" => Cardinality(Removals) < MaxRemovals
  /\ tasks' = [tasks EXCEPT ![t] =
                 [Unstarted EXCEPT !.kind = kind, !.indexer = i, !.at = 1,
                                   !.state = "pending", !.beside = running]]
  /\ UNCHANGED has

(* loadProvisioningState, reload: first Hasura's metadata, then the tables *)
(* of the source; listUserOwnedSchemas.                                    *)
Read(t) ==
  LET i == tasks[t].indexer
      seen == tasks[t].seen
      own == Of(i, Tables)
      metadata == Shared({"source"}) \cup Of(i, Metadata)
  IN /\ Pending(t) /\ StepOf(t) \in Reads
     /\ tasks' =
          [tasks EXCEPT ![t] =
             CASE StepOf(t) = "export" ->
                    Advanced(@, (seen \ metadata) \cup (has \cap metadata))
               [] StepOf(t) = "listTables" ->
                    IF Shared({"source"}) \subseteq has /\ ~(Sql \subseteq has)
                    THEN Failed(@)
                    ELSE Advanced(@, (seen \ own) \cup
                           (IF Sql \subseteq has THEN has \cap own ELSE {}))
               [] StepOf(t) = "listSchemas" ->
                    IF Sql \subseteq has
                    THEN Advanced(@, has \cap Indexers \X {"schema"})
                    ELSE Failed(@)]
     /\ UNCHANGED <<has, faults>>

Execute(t) ==
  LET statement == Statement(tasks[t].indexer)[StepOf(t)] IN
  /\ Pending(t) /\ StepOf(t) \notin Reads
  /\ IF Accepted(statement)
     THEN /\ has' = Effect(statement)
          /\ tasks' = [tasks EXCEPT ![t] = Advanced(@, @.seen)]
     ELSE /\ tasks' = [tasks EXCEPT ![t] = Failed(@)]
          /\ UNCHANGED has
  /\ UNCHANGED faults

(* The request or its answer is lost. *)
Breaks(t) ==
  /\ Pending(t)
  /\ faults < MaxFaults /\ faults' = faults + 1
  /\ tasks' = [tasks EXCEPT ![t] = Failed(@)]
  /\ \/ UNCHANGED has
     \/ /\ StepOf(t) \notin Reads
        /\ LET statement == Statement(tasks[t].indexer)[StepOf(t)] IN
           Accepted(statement) /\ has' = Effect(statement)

(* The Runner restarts: its tasks are gone, and not found later. *)
RunnerRestarts ==
  /\ faults < MaxFaults /\ faults' = faults + 1
  /\ \E t \in Tasks : Pending(t)
  /\ tasks' = [t \in Tasks |->
                 IF Pending(t)
                 THEN [tasks[t] EXCEPT !.seen = {}, !.state = "notFound"]
                 ELSE tasks[t]]
  /\ UNCHANGED has

Init ==
  /\ has = {}
  /\ tasks = [t \in Tasks |-> Unstarted]
  /\ faults = 0

(* What the Runner does on its own. *)
Service ==
  \/ \E t \in Tasks : Read(t) \/ Execute(t) \/ Breaks(t)
  \/ RunnerRestarts

-----------------------------------------------------------------------------
Kinds == {"provision", "deprovision"}
TaskStates == {"none", "pending", "complete", "failed", "notFound"}
TaskType ==
  [kind : Kinds, indexer : Indexers \cup {Account}, at : Nat,
   seen : SUBSET Parts, tries : 0 .. MaxRetries - 1, state : TaskStates,
   beside : SUBSET Tasks]

TypeOK ==
  /\ has \subseteq Parts
  /\ tasks \in [Tasks -> TaskType]
  /\ \A t \in Tasks : tasks[t].at <= Len(Plan(tasks[t].kind))
  /\ faults \in 0 .. MaxFaults

Provisioned(i) ==
  /\ Shared(SharedParts) \subseteq has
  /\ Of(i, OwnParts \ {"related"}) \subseteq has
  /\ ForeignKeys => <<i, "related">> \in has

Completed(t, kind) ==
  tasks[t].state = "complete" /\ tasks[t].kind = kind /\ Stands(t)

(* Tasks of different Indexers may provision beside each other, but no two *)
(* of one Indexer, and nothing runs beside a deprovisioning.               *)
OnlyProvisionBeside ==
  \A t \in Tasks : \A u \in tasks[t].beside :
    /\ tasks[u].indexer # tasks[t].indexer
    /\ {t, u} \cap Removals = {}

(* COMPLETE is what lets the Coordinator run the Indexer: everything it    *)
(* will use is there, and stays until the Indexer itself is deprovisioned, *)
(* whatever tasks it and the other Indexers of the account run.            *)
CompleteIsProvisioned ==
  faults = 0 /\ OnlyProvisionBeside =>
    \A t \in Tasks :
      Completed(t, "provision") => Provisioned(tasks[t].indexer)

(* "All user tables already have permissions" (provisioner.ts:438), when   *)
(* the step that adds them is left out: the last task is complete, and the *)
(* Indexer's role can use its tables.                                      *)
SaysPermitted ==
  \A t \in Tasks :
    Completed(t, "provision") => <<tasks[t].indexer, "tablesPermitted">> \in has

(* "Skips all provisioning if all provisioning tasks already done": it may *)
(* follow anything.  With nothing failing from outside, and no two tasks   *)
(* at once, only a deprovisioning fails that follows no provisioning: it   *)
(* is not idempotent (cron.unschedule wants the job, dropSchema the source)*)
NothingRefused ==
  faults = 0 /\ Overlapping = {} =>
    \A t \in Tasks :
      tasks[t].state = "failed" => tasks[t].kind = "deprovision" /\ ~Undoes(t)

(* What holds of tasks and parts in every state: retries are counted, and  *)
(* what runs alone is refused for one reason only.                         *)
ProvisioningInv == TypeOK /\ NothingRefused

(* A complete deprovisioning leaves nothing of the Indexer until it is     *)
(* provisioned again, and when all that were provisioned are deprovisioned *)
(* nothing of the account is left, if the tasks ran one after another,     *)
(* whatever failed, before or since.                                       *)
DeprovisionedIsGone ==
  Overlapping = {} =>
  /\ \A t \in Tasks : Completed(t, "deprovision") =>
       Of(tasks[t].indexer, OwnParts) \cap has = {}
  /\ (\A t \in Tasks : Started(t) /\ tasks[t].kind = "provision" =>
        \E u \in Tasks : /\ tasks[u].indexer = tasks[t].indexer
                        /\ Completed(u, "deprovision"))
       => Shared(SharedParts) \cap has = {}
=============================================================================
