-------------------------- MODULE IndexerLifecycle --------------------------
(***************************************************************************)
(* The Coordinator's control of one Indexer: the loop of main() that       *)
(* spawns a lifecycle manager, the manager itself (LifecycleManager), the  *)
(* record it keeps in Redis (IndexerStateManager) and the Enable/Disable   *)
(* RPCs that write the same record (IndexerManagerService).  Managers of   *)
(* different Indexers share no state, so one Indexer is the whole story.   *)
(*                                                                         *)
(* Every await of the code separates two steps: a remote call is a step,   *)
(* its result is used by later ones, and anything may happen in between.   *)
(* The ten-minute sleep before a restart is time spent at "restart" or     *)
(* "restartExecutor".  The Block Streamer and the Runner appear as one     *)
(* slot each; BlockStream and ExecutorWorker show what they hide.          *)
(***************************************************************************)
EXTENDS Naturals

CONSTANTS
  MaxVersion,  \* how often the Indexer is registered (bounds the contract)
  MaxFaults,   \* failed or lost calls, crashes, restarts, bad health reports
  Operators,   \* each issues at most one Enable or Disable request
  Rules        \* the kinds of filter the owner may register

ASSUME LifecycleAssumption ==
  /\ MaxVersion \in Nat
  /\ MaxFaults \in Nat
  /\ Rules \subseteq {"Action", "Event"} /\ Rules # {}

VARIABLES
  registry,   \* the contract's entry; version 0: not registered yet
  saved,      \* the record under the Indexer's state key in Redis
  member,     \* is that key in the indexer_states set?
  stream,     \* the Block Streamer's entry; version 0: none
  executor,   \* the Runner's entry; version 0: none
  queue,      \* the versions whose streams left blocks in the Redis stream
  main,       \* where main() stands
  listing,    \* was the Indexer in the registry main() fetched last?
  task,       \* the Indexer's entry in lifecycle_tasks
  pc,         \* where the manager stands
  config,     \* the manager's copy of registry
  state,      \* the manager's copy of saved
  rpc,        \* the requests of Operators
  faults

vars == <<registry, saved, member, stream, executor, queue, main, listing,
          task, pc, config, state, rpc, faults>>
coordinator == <<main, listing, task, pc, config, state, rpc>>
manager == <<task, pc, config, state>>
remote == <<stream, executor, queue>>

Versions == 1 .. MaxVersion
OldStates == {"Stopping", "Stopped"}
States == {"Initializing", "Running", "Suspending", "Suspended",
           "Repairing", "Deleting"}

Configs == [version : 0 .. MaxVersion, continue : BOOLEAN, rule : Rules,
            deleted : BOOLEAN]
Records == [lifecycle : States, enabled : BOOLEAN, synced : 0 .. MaxVersion]
SavedRecords == [lifecycle : States \cup OldStates, enabled : BOOLEAN,
                 synced : 0 .. MaxVersion]
Slots == [version : 0 .. MaxVersion, healthy : BOOLEAN]
Requests == [pc : {"idle", "set", "add", "done"}, state : Records]

Absent == [version |-> 0, healthy |-> FALSE]
Started(v) == [version |-> v, healthy |-> TRUE]
DefaultState == [lifecycle |-> "Initializing", enabled |-> TRUE, synced |-> 0]

ManagerSteps ==
  {"sleep", "get", "handle", "streamStatus", "reconfigure", "clear",
   "restart", "start", "executorStatus", "restartExecutor", "startExecutor",
   "suspendStream", "suspendExecutor", "deleteStream", "deleteExecutor",
   "set", "add"}

(***************************************************************************)
(* A remote call succeeds, fails without effect, or takes effect while its *)
(* answer is lost.  The caller sees the last two as the same error.        *)
(***************************************************************************)
Outcomes == {"ok", "failed", "lost"}
Takes(o, effect, before) == IF o = "failed" THEN before ELSE effect
(* The commands sent to Redis: the record, its key's membership in the set *)
(* indexer_states, and the Redis stream.                                   *)
Get == saved
Set(record, o) == saved' = Takes(o, record, saved)
SAdd(o) == member' = Takes(o, TRUE, member)
Del(o) == queue' = Takes(o, {}, queue)
ListIndexerStates == IF member THEN {Get} ELSE {}

(* Only a record of the present format is parsed. *)
Parses(record) == record.lifecycle \notin OldStates

Fault == faults < MaxFaults /\ faults' = faults + 1
Charge(o) == IF o = "ok" THEN UNCHANGED faults ELSE Fault

Unregistered == [version |-> 0, continue |-> FALSE,
                 rule |-> CHOOSE r \in Rules : TRUE, deleted |-> FALSE]

(* handle_transitions returns: its copies go out of scope. *)
EndIteration ==
  /\ pc' = "sleep"
  /\ config' = Unregistered
  /\ state' = DefaultState

At(step) == task = "running" /\ pc = step
Goto(step) == pc' = step /\ UNCHANGED <<task, config>>

(* Return from handle_transitions' dispatch: the record is written next. *)
Decide(lifecycle) ==
  /\ Goto("set")
  /\ state' = [state EXCEPT !.lifecycle = lifecycle]
Retry == Goto("set") /\ UNCHANGED state
Proceed(step) == Goto(step) /\ UNCHANGED state
ThenOrRetry(o, step) == IF o = "ok" THEN Proceed(step) ELSE Retry

-----------------------------------------------------------------------------
(***************************************************************************)
(* The prelude of handle_transitions.                                      *)
(***************************************************************************)
FetchConfig ==
  /\ At("sleep")
  /\ config' = registry
  /\ pc' = "get"
  /\ UNCHANGED <<registry, saved, member, remote, main, listing, task, state,
                 rpc, faults>>

(* A GET that fails, or a record of the old format, ends the iteration. *)
GetState ==
  /\ At("get")
  /\ UNCHANGED <<registry, saved, member, remote, main, listing, task, rpc>>
  /\ \/ /\ Parses(Get)
        /\ state' = Get
        /\ pc' = "handle"
        /\ UNCHANGED <<config, faults>>
     \/ Fault /\ EndIteration

Handling(lifecycle) ==
  /\ At("handle")
  /\ state.lifecycle = lifecycle
  /\ UNCHANGED <<registry, saved, member, remote, main, listing, rpc>>

HandleInitializing ==
  /\ Handling("Initializing")
  /\ \/ config.deleted /\ Decide("Deleting") /\ UNCHANGED faults
     \/ ~config.deleted /\ Decide("Running") /\ UNCHANGED faults
     \/ ~config.deleted /\ Decide("Repairing") /\ Fault

HandleRunning ==
  /\ Handling("Running")
  /\ UNCHANGED faults
  /\ \/ config.deleted /\ Decide("Deleting")
     \/ ~config.deleted /\ ~state.enabled /\ Decide("Suspending")
     \/ ~config.deleted /\ state.enabled /\ Proceed("streamStatus")

HandleSuspending ==
  /\ Handling("Suspending")
  /\ UNCHANGED faults
  /\ \/ config.deleted /\ Decide("Deleting")
     \/ ~config.deleted /\ Proceed("suspendStream")

(* Slip: an enabled Indexer is not woken up. *)
HandleSuspendedForever ==
  /\ Handling("Suspended")
  /\ UNCHANGED faults
  /\ IF config.deleted THEN Decide("Deleting") ELSE Decide("Suspended")

HandleSuspended ==
  /\ Handling("Suspended")
  /\ UNCHANGED faults
  /\ \/ config.deleted /\ Decide("Deleting")
     \/ ~config.deleted /\ state.enabled /\ Decide("Running")
     \/ ~config.deleted /\ ~state.enabled /\ Decide("Suspended")

HandleRepairing ==
  /\ Handling("Repairing")
  /\ UNCHANGED faults
  /\ IF config.deleted THEN Decide("Deleting") ELSE Decide("Repairing")

(* Slip: only the executor is stopped. *)
HandleDeletingExecutorOnly ==
  /\ Handling("Deleting")
  /\ UNCHANGED faults
  /\ Proceed("deleteExecutor")

HandleDeleting ==
  /\ Handling("Deleting")
  /\ UNCHANGED faults
  /\ Proceed("deleteStream")

-----------------------------------------------------------------------------
(***************************************************************************)
(* handle_running: synchronise the block stream, then the executor.        *)
(***************************************************************************)
(* Slip: the version of a running stream is never compared. *)
StreamStatusIgnoringVersion ==
  IF stream.version # 0
  THEN IF stream.healthy THEN "Active" ELSE "Unhealthy"
  ELSE IF state.synced = 0 THEN "NotStarted" ELSE "Inactive"

StreamStatus ==
  IF stream.version # 0
  THEN IF stream.version # config.version THEN "Outdated"
       ELSE IF stream.healthy THEN "Active" ELSE "Unhealthy"
  ELSE IF state.synced = 0 THEN "NotStarted"
       ELSE IF state.synced # config.version THEN "Outdated" ELSE "Inactive"

(* The stream is as wanted: the version is noted and the executor is next. *)
Synced ==
  /\ Goto("executorStatus")
  /\ state' = [state EXCEPT !.synced = config.version]

CheckStream ==
  /\ At("streamStatus")
  /\ UNCHANGED <<registry, saved, member, remote, main, listing, rpc>>
  /\ \/ Fault /\ Retry
     \/ UNCHANGED faults /\ StreamStatus = "Active" /\ Synced
     \/ UNCHANGED faults /\ StreamStatus = "Outdated" /\ Proceed("reconfigure")
     \/ UNCHANGED faults /\ StreamStatus = "Unhealthy" /\ Proceed("restart")
     \/ /\ UNCHANGED faults
        /\ StreamStatus \in {"Inactive", "NotStarted"}
        /\ Proceed("start")

StopStream(step, o) ==
  /\ At(step)
  /\ Charge(o)
  /\ stream' = Takes(o, Absent, stream)
  /\ UNCHANGED <<registry, saved, member, executor, queue, main, listing, rpc>>

(* Slips: start although the stop failed; start without clearing. *)
ReconfigureIgnoringErrors(o) ==
  /\ StopStream("reconfigure", o)
  /\ Proceed(IF config.continue THEN "start" ELSE "clear")

ReconfigureKeepingQueue(o) ==
  /\ StopStream("reconfigure", o)
  /\ ThenOrRetry(o, "start")

Reconfigure(o) ==
  /\ StopStream("reconfigure", o)
  /\ ThenOrRetry(o, IF config.continue THEN "start" ELSE "clear")

ClearBlockStream(o) ==
  /\ At("clear")
  /\ Charge(o)
  /\ Del(o)
  /\ ThenOrRetry(o, "start")
  /\ UNCHANGED <<registry, saved, member, stream, executor, main, listing, rpc>>

RestartStream(o) ==
  /\ StopStream("restart", o)
  /\ ThenOrRetry(o, "start")

(* An Event rule is logged as unsupported and reported as success. *)
StartStream(o) ==
  /\ At("start")
  /\ Charge(o)
  /\ stream' = IF config.rule = "Event" THEN stream
               ELSE Takes(o, Started(config.version), stream)
  /\ IF o = "ok" THEN Synced ELSE Retry
  /\ UNCHANGED <<registry, saved, member, executor, queue, main, listing, rpc>>

CheckExecutor ==
  /\ At("executorStatus")
  /\ UNCHANGED <<registry, saved, member, remote, main, listing, rpc>>
  /\ \/ Fault /\ Retry
     \/ /\ UNCHANGED faults
        /\ executor.version = 0
        /\ Proceed("startExecutor")
     \/ /\ UNCHANGED faults
        /\ executor.version # 0
        /\ executor # Started(config.version)
        /\ Proceed("restartExecutor")
     \/ /\ UNCHANGED faults
        /\ executor.version # 0
        /\ executor = Started(config.version)
        /\ Retry

StopExecutor(step, o) ==
  /\ At(step)
  /\ Charge(o)
  /\ executor' = Takes(o, Absent, executor)
  /\ UNCHANGED <<registry, saved, member, stream, queue, main, listing, rpc>>

RestartExecutor(o) ==
  /\ StopExecutor("restartExecutor", o)
  /\ ThenOrRetry(o, "startExecutor")

StartExecutor(o) ==
  /\ At("startExecutor")
  /\ Charge(o)
  /\ executor' = Takes(o, Started(config.version), executor)
  /\ Retry
  /\ UNCHANGED <<registry, saved, member, stream, queue, main, listing, rpc>>

-----------------------------------------------------------------------------
(***************************************************************************)
(* handle_suspending retries until both are stopped; handle_deleting tries *)
(* once, only warns, and the manager exits without writing "Deleted".      *)
(***************************************************************************)
(* Slip: a failed stop is only warned about, as in handle_deleting. *)
SuspendStreamOnlyWarning(o) ==
  /\ StopStream("suspendStream", o)
  /\ Proceed("suspendExecutor")

SuspendStream(o) ==
  /\ StopStream("suspendStream", o)
  /\ ThenOrRetry(o, "suspendExecutor")

SuspendExecutor(o) ==
  /\ StopExecutor("suspendExecutor", o)
  /\ IF o = "ok" THEN Decide("Suspended") ELSE Retry

DeleteStream(o) ==
  /\ StopStream("deleteStream", o)
  /\ Proceed("deleteExecutor")

DeleteExecutor(o) ==
  /\ StopExecutor("deleteExecutor", o)
  /\ task' = "finished"
  /\ EndIteration

(***************************************************************************)
(* The write loop of handle_transitions: SET, then SADD; an error of       *)
(* either, answered or not, writes the whole record again.                 *)
(***************************************************************************)
SetState(o) ==
  /\ At("set")
  /\ Charge(o)
  /\ Set(state, o)
  /\ ThenOrRetry(o, "add")
  /\ UNCHANGED <<registry, member, remote, main, listing, rpc>>

AddMember(o) ==
  /\ At("add")
  /\ Charge(o)
  /\ SAdd(o)
  /\ IF o = "ok" THEN EndIteration /\ UNCHANGED task ELSE Retry
  /\ UNCHANGED <<registry, saved, remote, main, listing, rpc>>

Manager ==
  \/ FetchConfig \/ GetState
  \/ HandleInitializing \/ HandleRunning \/ HandleSuspending
  \/ HandleSuspended \/ HandleRepairing \/ HandleDeleting
  \/ CheckStream \/ CheckExecutor
  \/ \E o \in Outcomes :
       \/ Reconfigure(o) \/ ClearBlockStream(o) \/ RestartStream(o)
       \/ StartStream(o) \/ RestartExecutor(o) \/ StartExecutor(o)
       \/ SuspendStream(o) \/ SuspendExecutor(o)
       \/ DeleteStream(o) \/ DeleteExecutor(o)
       \/ SetState(o) \/ AddMember(o)

-----------------------------------------------------------------------------
(***************************************************************************)
(* main(): migrate the record, then forever fetch the registry, spawn a    *)
(* manager for an Indexer without one, and forget a finished manager.      *)
(***************************************************************************)
(* Slip: one of the two old states is forgotten. *)
MigratedStoppingOnly(s) == IF s = "Stopping" THEN "Suspending" ELSE s

Migrated(s) ==
  CASE s = "Stopping" -> "Suspending"
    [] s = "Stopped" -> "Suspended"
    [] OTHER -> s

Migrate ==
  /\ main = "boot"
  /\ main' = "fetch"
  /\ \/ \E old \in ListIndexerStates :
             Set([old EXCEPT !.lifecycle = Migrated(old.lifecycle)], "ok")
     \/ ListIndexerStates = {} /\ UNCHANGED saved
  /\ UNCHANGED <<registry, member, remote, listing, manager, rpc, faults>>

FetchRegistry ==
  /\ main = "fetch"
  /\ main' = "spawn"
  /\ listing' = (registry.version # 0 /\ ~registry.deleted)
  /\ UNCHANGED <<registry, saved, member, remote, manager, rpc, faults>>

SpawnOrForget ==
  /\ main = "spawn"
  /\ main' = "fetch"
  /\ task' = CASE task = "none" /\ listing -> "running"
               [] task = "finished" -> "none"
               [] OTHER -> task
  /\ UNCHANGED <<registry, saved, member, remote, listing, pc, config, state,
                 rpc, faults>>

Main == Migrate \/ FetchRegistry \/ SpawnOrForget

(***************************************************************************)
(* The RPC server, up before the migration: fetch the config, read the     *)
(* record, change one field, write all of it back.                         *)
(***************************************************************************)
RpcGet(op, enabled) ==
  /\ rpc[op].pc = "idle"
  /\ registry.version # 0
  /\ Parses(Get)
  /\ rpc' = [rpc EXCEPT ![op] =
               [pc |-> "set", state |-> [Get EXCEPT !.enabled = enabled]]]
  /\ UNCHANGED <<registry, saved, member, remote, main, listing, manager,
                 faults>>

RpcSet(op, o) ==
  /\ rpc[op].pc = "set"
  /\ Charge(o)
  /\ Set(rpc[op].state, o)
  /\ rpc' = [rpc EXCEPT ![op].pc = IF o = "ok" THEN "add" ELSE "done"]
  /\ UNCHANGED <<registry, member, remote, main, listing, manager>>

RpcAdd(op, o) ==
  /\ rpc[op].pc = "add"
  /\ Charge(o)
  /\ SAdd(o)
  /\ rpc' = [rpc EXCEPT ![op].pc = "done"]
  /\ UNCHANGED <<registry, saved, remote, main, listing, manager>>

Rpc ==
  \E op \in Operators :
    \/ \E enabled \in BOOLEAN : RpcGet(op, enabled)
    \/ \E o \in Outcomes : RpcSet(op, o) \/ RpcAdd(op, o)

CoordinatorCrash ==
  /\ Fault
  /\ main' = "boot"
  /\ task' = "none"
  /\ rpc' = [op \in Operators |->
               IF rpc[op].pc \in {"set", "add"}
               THEN [rpc[op] EXCEPT !.pc = "done"] ELSE rpc[op]]
  /\ EndIteration
  /\ UNCHANGED <<registry, saved, member, remote, listing>>

-----------------------------------------------------------------------------
(***************************************************************************)
(* The environment: the contract, and what the Block Streamer, the Runner  *)
(* and their queue do on their own.                                        *)
(***************************************************************************)
Register(continue, rule) ==
  /\ registry.version < MaxVersion
  /\ registry' = [version |-> registry.version + 1, continue |-> continue,
                  rule |-> rule, deleted |-> FALSE]
  /\ UNCHANGED <<saved, member, remote, coordinator, faults>>

RemoveIndexer ==
  /\ registry.version # 0
  /\ ~registry.deleted
  /\ registry' = [registry EXCEPT !.deleted = TRUE]
  /\ UNCHANGED <<saved, member, remote, coordinator, faults>>

Publish ==
  /\ stream.version # 0
  /\ queue' = queue \cup {stream.version}
  /\ UNCHANGED <<registry, saved, member, stream, executor, coordinator, faults>>

Consume ==
  /\ executor.version # 0
  /\ \E v \in queue : queue' = queue \ {v}
  /\ UNCHANGED <<registry, saved, member, stream, executor, coordinator, faults>>

(* Lost with its process, or reported stale, STALLED or without health. *)
StreamFault ==
  /\ stream.version # 0
  /\ Fault
  /\ stream' \in {Absent, [stream EXCEPT !.healthy = FALSE]}
  /\ UNCHANGED <<registry, saved, member, executor, queue, coordinator>>

ExecutorFault ==
  /\ executor.version # 0
  /\ Fault
  /\ executor' \in {Absent, [executor EXCEPT !.healthy = FALSE]}
  /\ UNCHANGED <<registry, saved, member, stream, queue, coordinator>>

(* The stream's monitor, or a late message of a worker, reports again. *)
HealthReturns ==
  /\ \/ stream.version # 0 /\ ~stream.healthy
        /\ stream' = [stream EXCEPT !.healthy = TRUE] /\ UNCHANGED executor
     \/ executor.version # 0 /\ ~executor.healthy
        /\ executor' = [executor EXCEPT !.healthy = TRUE] /\ UNCHANGED stream
  /\ UNCHANGED <<registry, saved, member, queue, coordinator, faults>>

Environment ==
  \/ \E continue \in BOOLEAN, rule \in Rules : Register(continue, rule)
  \/ RemoveIndexer \/ Publish \/ Consume
  \/ StreamFault \/ ExecutorFault \/ HealthReturns

-----------------------------------------------------------------------------
(* Either nothing is known of the Indexer, or an earlier release left a    *)
(* record of the old format, half-way through stopping or done with it.    *)
FreshInit ==
  /\ registry = Unregistered
  /\ saved = DefaultState
  /\ member = FALSE
  /\ stream = Absent /\ executor = Absent

UpgradeInit ==
  /\ MaxVersion > 0
  /\ registry = [Unregistered EXCEPT !.version = 1]
  /\ saved \in [lifecycle : OldStates, enabled : BOOLEAN, synced : {1}]
  /\ member = TRUE
  /\ stream \in IF saved.lifecycle = "Stopped" THEN {Absent}
                ELSE {Absent, Started(1)}
  /\ executor = stream

Init ==
  /\ FreshInit \/ UpgradeInit
  /\ queue = {}
  /\ main = "boot" /\ listing = FALSE
  /\ task = "none" /\ pc = "sleep"
  /\ config = Unregistered /\ state = DefaultState
  /\ rpc = [op \in Operators |-> [pc |-> "idle", state |-> DefaultState]]
  /\ faults = 0

Next ==
  \/ Manager \/ Main \/ Rpc \/ CoordinatorCrash \/ Environment

Spec == Init /\ [][Next]_vars

(* Tokio keeps polling the manager and main(); nothing else is promised. *)
FairSpec == Spec /\ WF_vars(Manager) /\ WF_vars(Main)

-----------------------------------------------------------------------------
TypeOK ==
  /\ registry \in Configs
  /\ saved \in SavedRecords
  /\ member \in BOOLEAN
  /\ stream \in Slots /\ executor \in Slots
  /\ queue \subseteq Versions
  /\ main \in {"boot", "fetch", "spawn"} /\ listing \in BOOLEAN
  /\ task \in {"none", "running", "finished"}
  /\ pc \in ManagerSteps /\ config \in Configs /\ state \in Records
  /\ rpc \in [Operators -> Requests]
  /\ faults \in 0 .. MaxFaults

(* A version is noted as synced only once no older stream is left: this is *)
(* what lets a later resume() trust synced_at, through lost answers,       *)
(* crashes between two steps and stale writes of an RPC.                   *)
SyncedIsCurrent ==
  stream.version # 0 => saved.synced <= stream.version

(* The manager never asks for a stream or an executor while one exists, so *)
(* start never answers AlreadyExists, although status and start are calls  *)
(* apart with up to ten minutes and any number of faults between them.     *)
NeverStartsTwice ==
  /\ At("start") => stream = Absent
  /\ At("startExecutor") => executor = Absent

(* No manager ever meets a record of the old format, which get_state       *)
(* cannot parse, although the RPC server writes before the migration.      *)
MigratedBeforeManaged ==
  task = "running" => Parses(saved)

(* handle_suspending decides on Suspended only with both parts stopped,    *)
(* however often a stop failed or a process restarted before.              *)
SuspendsAfterStopping ==
  [][state.lifecycle = "Suspending" /\ state'.lifecycle = "Suspended"
       /\ pc' = "set"
     => stream' = Absent /\ executor' = Absent]_vars

(* LifecycleState::Suspended: "Block Stream and Executors are not running".*)
SuspendedIsQuiet ==
  saved.lifecycle = "Suspended"
    ~> saved.lifecycle # "Suspended" \/ (stream = Absent /\ executor = Absent)

Undisturbed == faults = 0 /\ \A op \in Operators : rpc[op].pc = "idle"

(* LifecycleState::Deleted: "all resources are cleaned up, lifecycle       *)
(* manager will exit".  One failed stop is enough to break it:             *)
(* handle_deleting only warns.                                             *)
DeletedIsCleanedUp ==
  Undisturbed /\ task = "finished" => stream = Absent /\ executor = Absent

(* The docs of "Start from latest" and "from block height": queued blocks  *)
(* are cleared at the update, so a superseding stream never shares the     *)
(* queue with blocks of an older one.  After a lost answer and a restart   *)
(* of the Block Streamer it may: the version counts as never started.      *)
SupersedeClearsQueue ==
  Undisturbed /\ stream.version # 0
    /\ stream.version = registry.version /\ ~registry.continue
    => queue \subseteq {stream.version}

(* Once the registry and the faults are quiet, an enabled Indexer runs its *)
(* latest version in both parts, a disabled one is Suspended, and its      *)
(* record is in the set the migration reads.  Repairing and Deleting are   *)
(* the exits this leaves out.                                              *)
Wanted == registry.version # 0 /\ ~registry.deleted
Settled ==
  Wanted /\ saved.lifecycle \notin {"Repairing", "Deleting"} =>
    /\ member
    /\ IF saved.enabled
       THEN /\ registry.rule = "Action" => stream.version = registry.version
            /\ executor.version = registry.version
       ELSE saved.lifecycle = "Suspended"
Settles == <>[]Settled

(* IndexerManager.Disable: "Disable an Indexer, preventing it from         *)
(* running"; every request was answered, and this one was the only one.    *)
DisableStops ==
  \A op \in Operators :
    rpc[op].pc = "done" /\ ~rpc[op].state.enabled
      ~> stream = Absent /\ executor = Absent

(* README of the Coordinator: it continuously reads the latest registry    *)
(* and starts the relevant block streams, here without any fault or RPC.   *)
RegisteredRuns ==
  <>[](Wanted /\ registry.rule = "Action" => stream.version = registry.version)

(* README, Known Issues: provisioning errors "should self resolve after a  *)
(* few seconds".                                                           *)
RepairingHeals ==
  saved.lifecycle = "Repairing" ~> saved.lifecycle # "Repairing"
=============================================================================
