---------------------- MODULE IndexerLifecycleProofs ----------------------
(***************************************************************************)
(* Proofs about IndexerLifecycle for every number of versions, faults and  *)
(* requests.  Inv is inductive; it adds to the checked invariants how far  *)
(* every copy of synced_at may lag behind the manager's copy of the config *)
(* and the registry.                                                       *)
(***************************************************************************)
EXTENDS IndexerLifecycle, TLAPS

(* No copy of the record, written or about to be written, is ahead of v. *)
SyncedUpTo(v) ==
  /\ saved.synced <= v
  /\ state.synced <= v
  /\ \A op \in Operators : rpc[op].state.synced <= v

(* Where the manager may stand, and what a slot without a version holds. *)
Control ==
  /\ pc # "sleep" => task = "running"
  /\ task = "running" => main # "boot" /\ registry.version # 0
  /\ listing => registry.version # 0
  /\ pc # "sleep" => config.version # 0
  /\ saved.lifecycle \in OldStates => main = "boot" /\ member
  /\ stream.version = 0 => stream = Absent
  /\ executor.version = 0 => executor = Absent
  /\ pc \in {"clear", "start", "suspendExecutor"} => stream = Absent
  /\ pc = "startExecutor" => executor = Absent

Order ==
  /\ config.version <= registry.version
  /\ stream.version <= registry.version
  /\ SyncedUpTo(registry.version)
  /\ pc # "sleep" => SyncedUpTo(config.version)
  /\ stream.version # 0 => SyncedUpTo(stream.version)

Inv == TypeOK /\ Control /\ Order

-----------------------------------------------------------------------------
(* The constant records of the model, and the fields of every config and  *)
(* slot, have their types.                                                 *)
LEMMA Constants ==
  /\ Unregistered \in Configs
  /\ DefaultState \in Records
  /\ Absent \in Slots
  /\ \A v \in 0 .. MaxVersion : Started(v) \in Slots
  /\ \A c \in Configs : c.version \in 0 .. MaxVersion /\ c.rule \in Rules
                        /\ c.continue \in BOOLEAN /\ c.deleted \in BOOLEAN
  /\ \A s \in Slots : s.version \in 0 .. MaxVersion /\ s.healthy \in BOOLEAN
  BY LifecycleAssumption
  DEF Unregistered, DefaultState, Absent, Started, Configs, Records, Slots,
      States

(* The same for a manager's record, a request and the record in Redis.     *)
LEMMA Copies ==
  /\ \A s \in Records : /\ s.synced \in 0 .. MaxVersion
                       /\ s.enabled \in BOOLEAN /\ s.lifecycle \in States
  /\ \A r \in Requests : /\ r.state \in Records
                        /\ r.pc \in {"idle", "set", "add", "done"}
  /\ \A s \in Records, p \in {"idle", "set", "add", "done"} :
       [pc |-> p, state |-> s] \in Requests
  /\ Records \subseteq SavedRecords
  /\ \A s \in SavedRecords : s.synced \in 0 .. MaxVersion
  BY DEF Records, SavedRecords, Requests

(* Changing one field of a record leaves it a record of its kind.          *)
LEMMA Updates ==
  /\ \A s \in Records, l \in States : [s EXCEPT !.lifecycle = l] \in Records
  /\ \A s \in Records, v \in 0 .. MaxVersion :
       [s EXCEPT !.synced = v] \in Records
  /\ \A s \in Records, b \in BOOLEAN : [s EXCEPT !.enabled = b] \in Records
  /\ \A r \in Requests, p \in {"set", "add", "done"} :
       [r EXCEPT !.pc = p] \in Requests
  /\ \A s \in Slots, b \in BOOLEAN : [s EXCEPT !.healthy = b] \in Slots
  /\ \A c \in Configs, b \in BOOLEAN : [c EXCEPT !.deleted = b] \in Configs
  /\ \A s \in SavedRecords, l \in States \cup OldStates :
       [s EXCEPT !.lifecycle = l] \in SavedRecords
  BY DEF Records, Requests, Slots, Configs, SavedRecords

(* What the changed record holds in the fields the order is about.         *)
LEMMA Fields ==
  /\ Absent.version = 0 /\ Unregistered.version = 0 /\ DefaultState.synced = 0
  /\ DefaultState.lifecycle \notin OldStates
  /\ \A v : Started(v).version = v
  /\ \A s \in Slots, b \in BOOLEAN :
       [s EXCEPT !.healthy = b].version = s.version
  /\ \A s \in SavedRecords : \A l :
       [s EXCEPT !.lifecycle = l].synced = s.synced
  /\ \A s \in Records : \A l : [s EXCEPT !.lifecycle = l].synced = s.synced
  /\ \A s \in Records : \A v : [s EXCEPT !.synced = v].synced = v
  /\ \A s \in Records : \A b : [s EXCEPT !.enabled = b].synced = s.synced
  /\ \A s \in Records : s.lifecycle \notin OldStates
  BY DEF Absent, Unregistered, DefaultState, Started, Slots, SavedRecords,
         Records, States, OldStates

(* migrate() rewrites the record if its key is in the set. *)
LEMMA Migrates ==
  ASSUME Migrate
  PROVE  saved' = IF member
                  THEN [saved EXCEPT !.lifecycle = Migrated(saved.lifecycle)]
                  ELSE saved
  BY DEF Migrate, ListIndexerStates, Get, Set, Takes

(* get_state can parse every record that is not of the old format.         *)
LEMMA Readable ==
  ASSUME saved \in SavedRecords, saved.lifecycle \notin OldStates
  PROVE  saved \in Records
  <1>1. saved.lifecycle \in States
    BY DEF SavedRecords
  <1>2. saved = [lifecycle |-> saved.lifecycle, enabled |-> saved.enabled,
                 synced |-> saved.synced]
    BY DEF SavedRecords
  <1>3. saved.enabled \in BOOLEAN /\ saved.synced \in 0 .. MaxVersion
    BY DEF SavedRecords
  <1> QED BY <1>1, <1>2, <1>3 DEF Records

(* No step exceeds the bound on faults.                                    *)
LEMMA Budget ==
  ASSUME faults \in 0 .. MaxFaults,
         Fault \/ UNCHANGED faults \/ \E o \in Outcomes : Charge(o)
  PROVE  faults' \in 0 .. MaxFaults
  BY LifecycleAssumption DEF Fault, Charge

(* Inv holds of a fresh Indexer and of one left by an earlier release.     *)
LEMMA InvInit == Init => Inv
  <1> SUFFICES ASSUME Init PROVE Inv
    OBVIOUS
  <1>1. /\ registry \in Configs /\ stream \in Slots /\ executor \in Slots
        /\ member \in BOOLEAN
        /\ saved \in SavedRecords
    <2>1. CASE FreshInit
      <3>1. saved \in Records
        BY <2>1, Constants DEF FreshInit
      <3> QED BY <2>1, <3>1, Constants, Copies DEF FreshInit
    <2>2. CASE UpgradeInit
      <3>1. 1 \in 0 .. MaxVersion
        BY <2>2, LifecycleAssumption DEF UpgradeInit
      <3>2. registry \in Configs
        BY <2>2, <3>1, Constants DEF UpgradeInit, Configs
      <3>3. stream \in Slots
        BY <2>2, <3>1, Constants DEF UpgradeInit
      <3> QED BY <2>2, <3>1, <3>2, <3>3 DEF UpgradeInit, SavedRecords
    <2> QED BY <2>1, <2>2 DEF Init
  <1>2. rpc \in [Operators -> Requests]
    BY Constants, Copies DEF Init
  <1>3. /\ queue \subseteq Versions /\ pc \in ManagerSteps
        /\ config \in Configs /\ state \in Records /\ faults \in 0 .. MaxFaults
    BY Constants, LifecycleAssumption DEF Init, ManagerSteps
  <1>4. TypeOK
    BY <1>1, <1>2, <1>3 DEF TypeOK, Init
  <1>5. Control
    <2>1. CASE FreshInit
      BY <2>1 DEF Init, FreshInit, Control, DefaultState, OldStates
    <2>2. CASE UpgradeInit
      BY <2>2 DEF Init, UpgradeInit, Control, Started, Absent
    <2> QED BY <2>1, <2>2 DEF Init
  <1>6. Order
    <2>1. state.synced = 0 /\ config.version = 0
          /\ \A op \in Operators : rpc[op].state.synced = 0
      BY DEF Init, DefaultState, Unregistered
    <2>2. CASE FreshInit
      BY <2>1, <2>2 DEF Init, FreshInit, Order, SyncedUpTo, DefaultState,
         Unregistered, Absent
    <2>3. CASE UpgradeInit
      <3>1. registry.version = 1 /\ saved.synced = 1 /\ stream.version \in {0, 1}
        BY <2>3 DEF UpgradeInit, Unregistered, Absent, Started
      <3> QED BY <2>1, <3>1 DEF Init, Order, SyncedUpTo
    <2> QED BY <2>2, <2>3 DEF Init
  <1> QED BY <1>4, <1>5, <1>6 DEF Inv

-----------------------------------------------------------------------------
(* Every step of a manager preserves the types.                            *)
LEMMA TypeManager == TypeOK /\ Manager => TypeOK'
  <1> SUFFICES ASSUME TypeOK, Manager PROVE TypeOK'
    OBVIOUS
  <1> USE Constants, Copies, Updates
  <1> USE DEF TypeOK, Takes, At, Goto, Decide, Retry, Proceed, ThenOrRetry,
        EndIteration, Synced, manager, remote, coordinator, ManagerSteps, States
  <1>1. CASE FetchConfig
    BY <1>1, Budget DEF FetchConfig
  <1>2. CASE GetState
    <2>1. CASE state' = saved /\ pc' = "handle"
      BY <1>2, <2>1, Readable, Budget DEF GetState, Parses, Get
    <2>2. CASE Fault /\ EndIteration
      BY <1>2, <2>2, Budget DEF GetState, Parses, Get
    <2> QED BY <1>2, <2>1, <2>2 DEF GetState, Parses, Get
  <1>3. CASE HandleInitializing
    BY <1>3, Budget DEF HandleInitializing, Handling
  <1>4. CASE HandleRunning
    BY <1>4, Budget DEF HandleRunning, Handling
  <1>5. CASE HandleSuspending
    BY <1>5, Budget DEF HandleSuspending, Handling
  <1>6. CASE HandleSuspended
    BY <1>6, Budget DEF HandleSuspended, Handling
  <1>7. CASE HandleRepairing
    BY <1>7, Budget DEF HandleRepairing, Handling
  <1>8. CASE HandleDeleting
    BY <1>8, Budget DEF HandleDeleting, Handling
  <1>9. CASE CheckStream
    BY <1>9, Budget DEF CheckStream
  <1>10. CASE CheckExecutor
    BY <1>10, Budget DEF CheckExecutor
  <1>11. ASSUME NEW o \in Outcomes, Reconfigure(o) PROVE TypeOK'
    BY <1>11, Budget DEF Reconfigure, StopStream, StopExecutor
  <1>12. ASSUME NEW o \in Outcomes, ClearBlockStream(o) PROVE TypeOK'
    BY <1>12, Budget DEF ClearBlockStream, Del, StopStream, StopExecutor
  <1>13. ASSUME NEW o \in Outcomes, RestartStream(o) PROVE TypeOK'
    BY <1>13, Budget DEF RestartStream, StopStream, StopExecutor
  <1>14. ASSUME NEW o \in Outcomes, StartStream(o) PROVE TypeOK'
    BY <1>14, Budget DEF StartStream, StopStream, StopExecutor
  <1>15. ASSUME NEW o \in Outcomes, RestartExecutor(o) PROVE TypeOK'
    BY <1>15, Budget DEF RestartExecutor, StopStream, StopExecutor
  <1>16. ASSUME NEW o \in Outcomes, StartExecutor(o) PROVE TypeOK'
    BY <1>16, Budget DEF StartExecutor, StopStream, StopExecutor
  <1>17. ASSUME NEW o \in Outcomes, SuspendStream(o) PROVE TypeOK'
    BY <1>17, Budget DEF SuspendStream, StopStream, StopExecutor
  <1>18. ASSUME NEW o \in Outcomes, SuspendExecutor(o) PROVE TypeOK'
    BY <1>18, Budget DEF SuspendExecutor, StopStream, StopExecutor
  <1>19. ASSUME NEW o \in Outcomes, DeleteStream(o) PROVE TypeOK'
    BY <1>19, Budget DEF DeleteStream, StopStream, StopExecutor
  <1>20. ASSUME NEW o \in Outcomes, DeleteExecutor(o) PROVE TypeOK'
    BY <1>20, Budget DEF DeleteExecutor, StopStream, StopExecutor
  <1>21. ASSUME NEW o \in Outcomes, SetState(o) PROVE TypeOK'
    BY <1>21, Budget DEF SetState, Set, StopStream, StopExecutor
  <1>22. ASSUME NEW o \in Outcomes, AddMember(o) PROVE TypeOK'
    BY <1>22, Budget DEF AddMember, SAdd, StopStream, StopExecutor
  <1> QED
    BY <1>1, <1>2, <1>3, <1>4, <1>5, <1>6, <1>7, <1>8, <1>9, <1>10, <1>11,
       <1>12, <1>13, <1>14, <1>15, <1>16, <1>17, <1>18, <1>19, <1>20, <1>21,
       <1>22
    DEF Manager

(* So does every step of main(), the RPC server and the environment.       *)
LEMMA TypeOthers ==
  TypeOK /\ (Main \/ Rpc \/ CoordinatorCrash \/ Environment) => TypeOK'
  <1> SUFFICES ASSUME TypeOK, Main \/ Rpc \/ CoordinatorCrash \/ Environment
               PROVE  TypeOK'
    OBVIOUS
  <1> USE Constants, Copies, Updates
  <1> USE DEF TypeOK, Takes, EndIteration, manager, remote, coordinator,
        ManagerSteps
  <1>1. CASE Migrate
    <2>1. Migrated(saved.lifecycle) \in States \cup OldStates
      BY DEF Migrated, States, OldStates, SavedRecords
    <2> QED BY <1>1, <2>1, Migrates DEF Migrate
  <1>2. CASE FetchRegistry
    BY <1>2, Budget DEF FetchRegistry
  <1>3. CASE SpawnOrForget
    BY <1>3, Budget DEF SpawnOrForget
  <1>4. CASE CoordinatorCrash
    BY <1>4, Budget DEF CoordinatorCrash
  <1>5. CASE RemoveIndexer
    BY <1>5, Budget DEF RemoveIndexer
  <1>6. CASE Publish
    BY <1>6, Budget DEF Publish, Versions
  <1>7. CASE Consume
    BY <1>7, Budget DEF Consume
  <1>8. CASE StreamFault
    BY <1>8, Budget DEF StreamFault
  <1>9. CASE ExecutorFault
    BY <1>9, Budget DEF ExecutorFault
  <1>10. CASE HealthReturns
    BY <1>10, Budget DEF HealthReturns
  <1>11. ASSUME NEW c \in BOOLEAN, NEW r \in Rules, Register(c, r) PROVE TypeOK'
    BY <1>11, LifecycleAssumption DEF Register, Configs
  <1>12. ASSUME NEW op \in Operators, NEW b \in BOOLEAN, RpcGet(op, b)
        PROVE  TypeOK'
    <2>1. [saved EXCEPT !.enabled = b] \in Records
      BY <1>12, Readable DEF RpcGet, Parses, Get
    <2> QED BY <1>12, <2>1 DEF RpcGet, Parses, Get
  <1>13. ASSUME NEW op \in Operators, NEW o \in Outcomes, RpcSet(op, o)
        PROVE  TypeOK'
    BY <1>13, Budget DEF RpcSet, Set
  <1>14. ASSUME NEW op \in Operators, NEW o \in Outcomes, RpcAdd(op, o)
        PROVE  TypeOK'
    BY <1>14, Budget DEF RpcAdd, SAdd
  <1> QED
    BY <1>1, <1>2, <1>3, <1>4, <1>5, <1>6, <1>7, <1>8, <1>9, <1>10, <1>11,
       <1>12, <1>13, <1>14
    DEF Main, Rpc, Environment

(* What a step of the manager that only decides, retries or proceeds does. *)
LEMMA Decided ==
  ASSUME TypeOK,
         Retry \/ (\E l : Decide(l)) \/ (\E step : Proceed(step))
         \/ (\E o, step : ThenOrRetry(o, step))
  PROVE  task' = task /\ config' = config /\ state'.synced = state.synced
  <1> USE Fields DEF TypeOK, Retry, Decide, Proceed, Goto
  <1>1. CASE Retry
    BY <1>1
  <1>2. ASSUME NEW l, Decide(l)
        PROVE  task' = task /\ config' = config /\ state'.synced = state.synced
    BY <1>2
  <1>3. ASSUME NEW step, Proceed(step)
        PROVE  task' = task /\ config' = config /\ state'.synced = state.synced
    BY <1>3
  <1>4. ASSUME NEW o, NEW step, ThenOrRetry(o, step)
        PROVE  Retry \/ Proceed(step)
    BY <1>4 DEF ThenOrRetry
  <1> QED BY <1>1, <1>2, <1>3, <1>4

(* The versions that Order compares are numbers.                           *)
LEMMA Numbers ==
  ASSUME TypeOK
  PROVE  /\ registry.version \in Nat /\ config.version \in Nat
         /\ stream.version \in Nat
         /\ saved.synced \in Nat /\ state.synced \in Nat
         /\ \A op \in Operators : rpc[op].state.synced \in Nat
  BY Constants, Copies, LifecycleAssumption DEF TypeOK

(* Order survives a step that changes none of the versions it compares,    *)
(* or stops the stream, within an iteration.                               *)
LEMMA OrderKept ==
  ASSUME Inv, pc # "sleep",
         registry' = registry, config' = config,
         stream'.version \in {0, stream.version},
         saved'.synced = saved.synced, state'.synced = state.synced,
         rpc' = rpc
  PROVE  Order'
  <1>1. /\ SyncedUpTo(registry.version)' /\ SyncedUpTo(config.version)'
        /\ stream.version # 0 => SyncedUpTo(stream.version)
    BY DEF Inv, Order, SyncedUpTo
  <1>2. stream'.version # 0 => SyncedUpTo(stream.version)'
    BY <1>1 DEF SyncedUpTo
  <1>3. stream'.version <= registry'.version /\ config'.version <= registry'.version
    BY Numbers DEF Inv, Order
  <1> QED BY <1>1, <1>2, <1>3 DEF Order

(* ... or that is not the manager's at all. *)
LEMMA OrderUntouched ==
  ASSUME Inv, pc' = pc, registry' = registry, config' = config,
         saved' = saved, state' = state, rpc' = rpc,
         stream'.version \in {0, stream.version}
  PROVE  Order'
  <1>1. /\ SyncedUpTo(registry.version)'
        /\ pc' # "sleep" => SyncedUpTo(config.version)'
        /\ stream.version # 0 => SyncedUpTo(stream.version)
    BY DEF Inv, Order, SyncedUpTo
  <1>2. stream'.version # 0 => SyncedUpTo(stream.version)'
    BY <1>1 DEF SyncedUpTo
  <1>3. stream'.version <= registry'.version /\ config'.version <= registry'.version
    BY Numbers DEF Inv, Order
  <1> QED BY <1>1, <1>2, <1>3 DEF Order

(* No dispatch of handle_transitions disturbs the order of versions.       *)
LEMMA HandlingKeepsOrder ==
  ASSUME Inv, NEW h, Handling(h),
         Retry \/ (\E l : Decide(l)) \/ (\E step : Proceed(step))
  PROVE  Order'
  <1>1. task' = task /\ config' = config /\ state'.synced = state.synced
    BY Decided DEF Inv
  <1> QED BY <1>1, OrderKept DEF Handling, At, remote

-----------------------------------------------------------------------------
(* Every step preserves Control.                                           *)
LEMMA ControlStep == Inv /\ Next => Control'
  <1> SUFFICES ASSUME Inv, Next PROVE Control'
    OBVIOUS
  <1> USE DEF Inv, Control, TypeOK, At, Goto, Decide, Retry, Proceed,
        ThenOrRetry, EndIteration, Synced, Takes, manager, remote, coordinator
  <1>1. CASE FetchConfig
    BY <1>1, Fields, Copies, Readable DEF FetchConfig
  <1>2. CASE GetState
    BY <1>2, Fields, Copies, Readable DEF GetState, Parses, Get
  <1>3. CASE HandleInitializing
    BY <1>3, Fields, Copies, Readable DEF HandleInitializing, Handling
  <1>4. CASE HandleRunning
    BY <1>4, Fields, Copies, Readable DEF HandleRunning, Handling
  <1>5. CASE HandleSuspending
    BY <1>5, Fields, Copies, Readable DEF HandleSuspending, Handling
  <1>6. CASE HandleSuspended
    BY <1>6, Fields, Copies, Readable DEF HandleSuspended, Handling
  <1>7. CASE HandleRepairing
    BY <1>7, Fields, Copies, Readable DEF HandleRepairing, Handling
  <1>8. CASE HandleDeleting
    BY <1>8, Fields, Copies, Readable DEF HandleDeleting, Handling
  <1>9. CASE CheckStream
    BY <1>9, Fields, Copies, Readable DEF CheckStream, StreamStatus
  <1>10. CASE CheckExecutor
    BY <1>10, Fields, Copies, Readable DEF CheckExecutor
  <1>11. ASSUME NEW o \in Outcomes, Reconfigure(o)
        PROVE  Control'
    BY <1>11, Fields, Copies DEF Reconfigure, StopStream
  <1>12. ASSUME NEW o \in Outcomes, ClearBlockStream(o)
        PROVE  Control'
    BY <1>12, Fields, Copies DEF ClearBlockStream, Del
  <1>13. ASSUME NEW o \in Outcomes, RestartStream(o)
        PROVE  Control'
    BY <1>13, Fields, Copies DEF RestartStream, StopStream
  <1>14. ASSUME NEW o \in Outcomes, StartStream(o)
        PROVE  Control'
    BY <1>14, Fields, Copies DEF StartStream
  <1>15. ASSUME NEW o \in Outcomes, RestartExecutor(o)
        PROVE  Control'
    BY <1>15, Fields, Copies DEF RestartExecutor, StopExecutor
  <1>16. ASSUME NEW o \in Outcomes, StartExecutor(o)
        PROVE  Control'
    BY <1>16, Fields, Copies DEF StartExecutor
  <1>17. ASSUME NEW o \in Outcomes, SuspendStream(o)
        PROVE  Control'
    BY <1>17, Fields, Copies DEF SuspendStream, StopStream
  <1>18. ASSUME NEW o \in Outcomes, SuspendExecutor(o)
        PROVE  Control'
    BY <1>18, Fields, Copies DEF SuspendExecutor, StopExecutor
  <1>19. ASSUME NEW o \in Outcomes, DeleteStream(o)
        PROVE  Control'
    BY <1>19, Fields, Copies DEF DeleteStream, StopStream
  <1>20. ASSUME NEW o \in Outcomes, DeleteExecutor(o)
        PROVE  Control'
    BY <1>20, Fields, Copies DEF DeleteExecutor, StopExecutor
  <1>21. ASSUME NEW o \in Outcomes, SetState(o)
        PROVE  Control'
    BY <1>21, Fields, Copies DEF SetState, Set
  <1>22. ASSUME NEW o \in Outcomes, AddMember(o)
        PROVE  Control'
    BY <1>22, Fields, Copies DEF AddMember, SAdd
  <1>23. CASE Migrate
    <2>1. saved'.lifecycle \notin OldStates
      BY <1>23, Migrates DEF Migrated, OldStates, States, SavedRecords
    <2> QED BY <1>23, <2>1 DEF Migrate
  <1>24. CASE FetchRegistry
    BY <1>24, Fields, Copies DEF FetchRegistry
  <1>25. CASE SpawnOrForget
    BY <1>25, Fields, Copies DEF SpawnOrForget
  <1>26. ASSUME NEW op \in Operators, NEW b \in BOOLEAN, RpcGet(op, b)
        PROVE  Control'
    BY <1>26, Fields, Copies DEF RpcGet, Parses, Get
  <1>27. ASSUME NEW op \in Operators, NEW o \in Outcomes, RpcSet(op, o)
        PROVE  Control'
    BY <1>27, Fields, Copies DEF RpcSet, Set
  <1>28. ASSUME NEW op \in Operators, NEW o \in Outcomes, RpcAdd(op, o)
        PROVE  Control'
    BY <1>28, Fields, Copies DEF RpcAdd, SAdd
  <1>29. CASE CoordinatorCrash
    BY <1>29, Fields, Copies DEF CoordinatorCrash
  <1>30. ASSUME NEW c \in BOOLEAN, NEW r \in Rules, Register(c, r)
        PROVE  Control'
    BY <1>30, Fields, Copies, Numbers DEF Register
  <1>31. CASE RemoveIndexer
    BY <1>31, Fields, Copies DEF RemoveIndexer
  <1>32. CASE Publish
    BY <1>32, Fields, Copies DEF Publish
  <1>33. CASE Consume
    BY <1>33, Fields, Copies DEF Consume
  <1>34. CASE StreamFault
    BY <1>34, Fields, Copies DEF StreamFault
  <1>35. CASE ExecutorFault
    BY <1>35, Fields, Copies DEF ExecutorFault
  <1>36. CASE HealthReturns
    BY <1>36, Fields, Copies DEF HealthReturns
  <1> QED
    BY <1>1, <1>2, <1>3, <1>4, <1>5, <1>6, <1>7, <1>8, <1>9, <1>10, <1>11,
       <1>12, <1>13, <1>14, <1>15, <1>16, <1>17, <1>18, <1>19, <1>20,
       <1>21, <1>22, <1>23, <1>24, <1>25, <1>26, <1>27, <1>28, <1>29,
       <1>30, <1>31, <1>32, <1>33, <1>34, <1>35, <1>36
    DEF Next, Manager, Main, Rpc, Environment

(* Every step preserves the order of versions: a stale record is written   *)
(* back, but nothing it holds is ahead of the stream that runs.            *)
LEMMA OrderStep == Inv /\ Next => Order'
  <1> SUFFICES ASSUME Inv, Next PROVE Order'
    OBVIOUS
  <1> USE DEF Inv, TypeOK
  <1>1. CASE HandleInitializing
    BY <1>1, HandlingKeepsOrder DEF HandleInitializing
  <1>2. CASE HandleRunning
    BY <1>2, HandlingKeepsOrder DEF HandleRunning
  <1>3. CASE HandleSuspending
    BY <1>3, HandlingKeepsOrder DEF HandleSuspending
  <1>4. CASE HandleSuspended
    BY <1>4, HandlingKeepsOrder DEF HandleSuspended
  <1>5. CASE HandleRepairing
    BY <1>5, HandlingKeepsOrder DEF HandleRepairing
  <1>6. CASE HandleDeleting
    BY <1>6, HandlingKeepsOrder DEF HandleDeleting
  <1>7. CASE CheckStream
    <2>1. CASE Retry \/ \E step : Proceed(step)
      BY <1>7, <2>1, OrderKept, Decided DEF CheckStream, At, remote
    <2>2. CASE StreamStatus = "Active" /\ Synced
      <3>1. stream.version = config.version /\ stream.version # 0
        BY <2>2 DEF StreamStatus
      <3>2. /\ config' = config /\ registry' = registry /\ saved' = saved
            /\ rpc' = rpc /\ stream' = stream
            /\ state'.synced = config.version
        BY <1>7, <2>2, Fields DEF CheckStream, Synced, Goto, remote
      <3>3. SyncedUpTo(config.version)' /\ SyncedUpTo(registry.version)'
        BY <3>1, <3>2, Numbers DEF Order, SyncedUpTo
      <3> QED BY <3>1, <3>2, <3>3 DEF Order
    <2> QED BY <1>7, <2>1, <2>2 DEF CheckStream
  <1>8. CASE CheckExecutor
    BY <1>8, OrderKept, Decided DEF CheckExecutor, remote, At
  <1>9. ASSUME NEW o \in Outcomes, Reconfigure(o)
        PROVE  Order'
    BY <1>9, OrderKept, Decided, Fields
    DEF Reconfigure, StopStream, At, Takes
  <1>10. ASSUME NEW o \in Outcomes, ClearBlockStream(o)
        PROVE  Order'
    BY <1>10, OrderKept, Decided, Fields
    DEF ClearBlockStream, Del, At, Takes
  <1>11. ASSUME NEW o \in Outcomes, RestartStream(o)
        PROVE  Order'
    BY <1>11, OrderKept, Decided, Fields
    DEF RestartStream, StopStream, At, Takes
  <1>12. ASSUME NEW o \in Outcomes, StartStream(o)
        PROVE  Order'
    <2>1. /\ config' = config /\ registry' = registry /\ saved' = saved
          /\ rpc' = rpc /\ pc # "sleep" /\ stream = Absent
          /\ stream' = stream \/ stream' = Started(config.version)
      BY <1>12 DEF StartStream, Synced, Retry, Goto, Control, At, Takes
    <2>2. state'.synced \in {state.synced, config.version}
      <3>1. CASE o = "ok"
        <4>1. state \in Records /\ state' = [state EXCEPT !.synced = config.version]
          BY <1>12, <3>1 DEF StartStream, Synced
        <4> QED BY <4>1, Fields
      <3>2. CASE o # "ok"
        BY <1>12, <3>2 DEF StartStream, Retry
      <3> QED BY <3>1, <3>2
    <2>3. SyncedUpTo(config.version)' /\ SyncedUpTo(registry.version)'
      BY <2>1, <2>2, Numbers DEF Order, SyncedUpTo
    <2>4. stream'.version # 0 => stream'.version = config.version
      BY <2>1, Fields
    <2> QED BY <2>1, <2>3, <2>4, Numbers, Fields DEF Order, SyncedUpTo
  <1>13. ASSUME NEW o \in Outcomes, RestartExecutor(o)
        PROVE  Order'
    BY <1>13, OrderKept, Decided, Fields
    DEF RestartExecutor, StopExecutor, At, Takes
  <1>14. ASSUME NEW o \in Outcomes, StartExecutor(o)
        PROVE  Order'
    BY <1>14, OrderKept, Decided, Fields
    DEF StartExecutor, At, Takes
  <1>15. ASSUME NEW o \in Outcomes, SuspendStream(o)
        PROVE  Order'
    BY <1>15, OrderKept, Decided, Fields
    DEF SuspendStream, StopStream, At, Takes
  <1>16. ASSUME NEW o \in Outcomes, SuspendExecutor(o)
        PROVE  Order'
    BY <1>16, OrderKept, Decided, Fields
    DEF SuspendExecutor, StopExecutor, At, Takes
  <1>17. ASSUME NEW o \in Outcomes, DeleteStream(o)
        PROVE  Order'
    BY <1>17, OrderKept, Decided, Fields
    DEF DeleteStream, StopStream, At, Takes
  <1>18. CASE Publish
    BY <1>18, OrderUntouched DEF Publish, coordinator
  <1>19. CASE Consume
    BY <1>19, OrderUntouched DEF Consume, coordinator
  <1>20. CASE StreamFault
    BY <1>20, OrderUntouched, Fields DEF StreamFault, coordinator
  <1>21. CASE ExecutorFault
    BY <1>21, OrderUntouched DEF ExecutorFault, coordinator
  <1>22. CASE HealthReturns
    BY <1>22, OrderUntouched, Fields DEF HealthReturns, coordinator
  <1> USE DEF Control, Order, SyncedUpTo, At, Goto, Decide, Retry, Proceed,
        ThenOrRetry, EndIteration, Synced, Takes, manager, remote, coordinator
  <1>23. CASE FetchConfig
    BY <1>23, Fields, Numbers, Readable DEF FetchConfig
  <1>24. CASE GetState
    BY <1>24, Fields, Numbers, Readable DEF GetState, Parses, Get
  <1>25. ASSUME NEW o \in Outcomes, DeleteExecutor(o)
        PROVE  Order'
    BY <1>25, Fields, Numbers DEF DeleteExecutor, StopExecutor
  <1>26. ASSUME NEW o \in Outcomes, SetState(o)
        PROVE  Order'
    BY <1>26, Fields, Numbers DEF SetState, Set
  <1>27. ASSUME NEW o \in Outcomes, AddMember(o)
        PROVE  Order'
    BY <1>27, Fields, Numbers DEF AddMember, SAdd
  <1>28. CASE Migrate
    BY <1>28, Fields, Numbers, Migrates
    DEF Migrate, Migrated, States, SavedRecords
  <1>29. CASE FetchRegistry
    BY <1>29, Fields, Numbers DEF FetchRegistry
  <1>30. CASE SpawnOrForget
    BY <1>30, Fields, Numbers DEF SpawnOrForget
  <1>31. ASSUME NEW op \in Operators, NEW b \in BOOLEAN, RpcGet(op, b)
        PROVE  Order'
    BY <1>31, Fields, Numbers DEF RpcGet, Parses, Get
  <1>32. ASSUME NEW op \in Operators, NEW o \in Outcomes, RpcSet(op, o)
        PROVE  Order'
    BY <1>32, Fields, Numbers DEF RpcSet, Set
  <1>33. ASSUME NEW op \in Operators, NEW o \in Outcomes, RpcAdd(op, o)
        PROVE  Order'
    BY <1>33, Fields, Numbers DEF RpcAdd, SAdd
  <1>34. CASE CoordinatorCrash
    BY <1>34, Fields, Numbers DEF CoordinatorCrash
  <1>35. ASSUME NEW c \in BOOLEAN, NEW r \in Rules, Register(c, r)
        PROVE  Order'
    BY <1>35, Fields, Numbers DEF Register
  <1>36. CASE RemoveIndexer
    BY <1>36, Fields, Numbers DEF RemoveIndexer
  <1> QED
    BY <1>1, <1>2, <1>3, <1>4, <1>5, <1>6, <1>7, <1>8, <1>9, <1>10, <1>11,
       <1>12, <1>13, <1>14, <1>15, <1>16, <1>17, <1>18, <1>19, <1>20,
       <1>21, <1>22, <1>23, <1>24, <1>25, <1>26, <1>27, <1>28, <1>29,
       <1>30, <1>31, <1>32, <1>33, <1>34, <1>35, <1>36
    DEF Next, Manager, Main, Rpc, Environment

(* Order and Control also survive a step that changes nothing, so Inv is   *)
(* inductive.                                                              *)
LEMMA InvNext == Inv /\ [Next]_vars => Inv'
  <1> SUFFICES ASSUME Inv, [Next]_vars PROVE Inv'
    OBVIOUS
  <1>1. CASE Next
    <2>1. TypeOK'
      BY <1>1, TypeManager, TypeOthers DEF Inv, Next
    <2> QED BY <1>1, <2>1, ControlStep, OrderStep DEF Inv
  <1>2. CASE UNCHANGED vars
    BY <1>2 DEF vars, remote, manager, coordinator, Inv, TypeOK, Control,
       Order, SyncedUpTo, At
  <1> QED BY <1>1, <1>2

(* Inv holds in every reachable state.                                     *)
THEOREM InvHolds == Spec => []Inv
  <1> QED BY InvInit, InvNext, PTL DEF Spec

(* Every variable keeps its type: no handler, RPC, fault or crash writes a *)
(* record, a slot or a request of another shape.                           *)
THEOREM TypeCorrect == Spec => []TypeOK
  <1>1. Inv => TypeOK
    BY DEF Inv
  <1> QED BY <1>1, InvHolds, PTL

(* synced_at never runs ahead of the version of the stream that exists,    *)
(* for any number of versions, faults and concurrent Enable/Disable        *)
(* requests: no stale write of an RPC or of a manager breaks it.           *)
THEOREM SyncedCorrect == Spec => []SyncedIsCurrent
  <1>1. Inv => SyncedIsCurrent
    BY DEF Inv, Order, SyncedUpTo, SyncedIsCurrent
  <1> QED BY <1>1, InvHolds, PTL

(* When the manager is about to start a stream or an executor none exists. *)
THEOREM StartsOnce == Spec => []NeverStartsTwice
  <1>1. Inv => NeverStartsTwice
    BY DEF Inv, Control, NeverStartsTwice, At
  <1> QED BY <1>1, InvHolds, PTL

(* While a manager runs the record is never of the old format.             *)
THEOREM MigrationFirst == Spec => []MigratedBeforeManaged
  <1>1. Inv => MigratedBeforeManaged
    BY DEF Inv, Control, MigratedBeforeManaged, Parses
  <1> QED BY <1>1, InvHolds, PTL

(* The only step of a manager that turns Suspending into Suspended is the  *)
(* one that stopped the executor, taken after the stream was stopped.      *)
LEMMA SuspendStep ==
  ASSUME Inv, [Next]_vars,
         state.lifecycle = "Suspending", state'.lifecycle = "Suspended",
         pc' = "set"
  PROVE  stream' = Absent /\ executor' = Absent
  <1> DEFINE Goal == stream' = Absent /\ executor' = Absent
  <1>1. state \in Records /\ state' # state
    BY DEF Inv, TypeOK
  <1>2. ~Retry /\ \A step : ~Proceed(step)
    BY <1>1 DEF Retry, Proceed
  <1>3. \A o, step : ~ThenOrRetry(o, step)
    BY <1>2 DEF ThenOrRetry
  <1>4. ASSUME NEW l, Decide(l) PROVE l = "Suspended"
    BY <1>1, <1>4 DEF Decide, Records
  <1>5. ~Synced /\ ~EndIteration
    BY DEF Synced, Goto, EndIteration
  <1>6. Manager
    BY <1>1 DEF Next, Main, Rpc, Environment, Migrate, FetchRegistry,
       SpawnOrForget, RpcGet, RpcSet, RpcAdd, CoordinatorCrash, EndIteration,
       Register, RemoveIndexer, Publish, Consume, StreamFault, ExecutorFault,
       HealthReturns, coordinator, manager, vars
  <1>7. ~FetchConfig /\ ~GetState
    BY <1>1, <1>5 DEF FetchConfig, GetState, Parses, Get
  <1>8. /\ ~HandleInitializing /\ ~HandleRunning /\ ~HandleSuspending
        /\ ~HandleSuspended /\ ~HandleRepairing /\ ~HandleDeleting
    BY <1>2, <1>4 DEF HandleInitializing, HandleRunning, HandleSuspending,
       HandleSuspended, HandleRepairing, HandleDeleting, Handling
  <1>9. ~CheckStream /\ ~CheckExecutor
    BY <1>2, <1>5 DEF CheckStream, CheckExecutor
  <1>10. PICK o \in Outcomes : SuspendExecutor(o)
    BY <1>2, <1>3, <1>5, <1>6, <1>7, <1>8, <1>9
    DEF Manager, Reconfigure, ClearBlockStream, Del, RestartStream, StartStream,
        RestartExecutor, StartExecutor, SuspendStream, DeleteStream,
        DeleteExecutor, SetState, AddMember
  <1>11. o = "ok" /\ stream' = stream /\ executor' = Absent
    BY <1>2, <1>10 DEF SuspendExecutor, StopExecutor, Takes
  <1>12. stream = Absent
    BY <1>10 DEF SuspendExecutor, StopExecutor, At, Inv, Control
  <1> QED BY <1>11, <1>12

(* handle_suspending decides on Suspended only when both parts are gone,   *)
(* for any number of failed stops, restarts and requests before.           *)
THEOREM SuspensionCorrect == Spec => SuspendsAfterStopping
  <1>1. Inv /\ [Next]_vars =>
          [state.lifecycle = "Suspending" /\ state'.lifecycle = "Suspended"
             /\ pc' = "set"
           => stream' = Absent /\ executor' = Absent]_vars
    BY SuspendStep
  <1> QED BY <1>1, InvHolds, PTL DEF Spec, SuspendsAfterStopping

-----------------------------------------------------------------------------
(***************************************************************************)
(* Without faults and requests.  Current is what the record says of the    *)
(* synced version, in Redis between two iterations and in the manager's    *)
(* copy within one.  CleanFor(c): the stream that runs, or ran last, for a *)
(* version that does not continue has the queue for itself.                *)
(***************************************************************************)
Current == IF pc \in {"sleep", "get"} THEN saved.synced ELSE state.synced
CleanFor(c) ==
  c.version # 0 /\ c.version \in {Current, stream.version} /\ ~c.continue =>
    queue \subseteq {c.version}

Calm ==
  /\ pc # "sleep" => stream.version <= config.version
  /\ pc # "sleep" /\ config.version = registry.version =>
       config.continue = registry.continue
  /\ Current = 0 => queue = {} /\ stream = Absent
  /\ CleanFor(registry) /\ (pc # "sleep" => CleanFor(config))
  /\ pc \in {"start", "restart"} /\ ~config.continue =>
       queue \subseteq {config.version}
  /\ pc = "restart" => stream.version \in {0, config.version}
  /\ pc \in {"handle", "deleteStream", "deleteExecutor", "add"} =>
       saved.synced = state.synced
  /\ pc = "deleteExecutor" => stream = Absent
  /\ task = "finished" => stream = Absent /\ executor = Absent

CalmInv == Inv /\ (Undisturbed => Calm)

(* Faults are counted and requests do not return to their start.           *)
LEMMA QuietStep ==
  ASSUME Inv, Next, Undisturbed'
  PROVE  /\ Undisturbed /\ ~Fault /\ ~Rpc
         /\ \A o \in Outcomes : Charge(o) => o = "ok"
  <1>1. faults \in Nat /\ faults' = 0
    BY LifecycleAssumption DEF Inv, TypeOK, Undisturbed
  <1>2. ~Fault
    BY <1>1 DEF Fault
  <1>3. \A o \in Outcomes : Charge(o) => o = "ok" /\ UNCHANGED faults
    BY <1>2 DEF Charge
  <1>4. ~Rpc
    <2>1. ASSUME NEW op \in Operators, NEW b \in BOOLEAN, RpcGet(op, b)
          PROVE  FALSE
      BY <2>1 DEF RpcGet, Undisturbed, Inv, TypeOK
    <2>2. ASSUME NEW op \in Operators, NEW o \in Outcomes,
                 RpcSet(op, o) \/ RpcAdd(op, o)
          PROVE  FALSE
      <3>1. rpc[op] \in Requests /\ rpc'[op].pc = "idle"
        BY DEF Inv, TypeOK, Undisturbed
      <3> QED BY <2>2, <3>1 DEF RpcSet, RpcAdd, Inv, TypeOK, Requests
    <2> QED BY <2>1, <2>2 DEF Rpc
  <1>5. UNCHANGED <<faults, rpc>>
    BY <1>2, <1>3, <1>4
    DEF Next, Main, Environment, Migrate, FetchRegistry, SpawnOrForget,
        CoordinatorCrash, Register, RemoveIndexer, Publish, Consume,
        StreamFault, ExecutorFault, HealthReturns, coordinator, Manager,
        FetchConfig, GetState, HandleInitializing, HandleRunning,
        HandleSuspending, HandleSuspended, HandleRepairing, HandleDeleting,
        Handling, CheckStream, CheckExecutor, Reconfigure, ClearBlockStream,
        RestartStream, StartStream, RestartExecutor, StartExecutor,
        SuspendStream, SuspendExecutor, DeleteStream, DeleteExecutor,
        SetState, AddMember, StopStream, StopExecutor
  <1> QED BY <1>2, <1>3, <1>4, <1>5 DEF Undisturbed

(* A step within an iteration that only stops, clears or goes on.          *)
LEMMA CalmWithin ==
  ASSUME Inv, Calm, pc \notin {"sleep", "get"}, task = "running",
         UNCHANGED <<registry, saved, config, task>>, state'.synced = state.synced,
         stream' \in {stream, Absent}, queue' \subseteq queue,
         pc' \notin {"sleep", "get", "handle", "add"},
         pc' \in {"start", "restart"} /\ ~config.continue =>
           queue' \subseteq {config.version},
         pc' = "restart" => stream.version = config.version,
         pc' = "deleteStream" => pc = "handle",
         pc' = "deleteExecutor" => pc = "deleteStream" /\ stream' = Absent
  PROVE  Calm'
  <1>1. Current' = Current
    BY DEF Current
  <1>2. stream'.version \in {0, stream.version} /\ (stream = Absent => stream' = Absent)
    BY Fields
  <1>3. CleanFor(registry)' /\ CleanFor(config)'
    BY <1>1, <1>2 DEF Calm, CleanFor
  <1>4. stream'.version <= config'.version
    BY <1>2, Numbers DEF Calm, Inv
  <1>5. pc' = "deleteExecutor" => saved'.synced = state'.synced
    BY DEF Calm
  <1>6. Current' = 0 => queue' = {} /\ stream' = Absent
    BY <1>1, <1>2 DEF Calm
  <1>7. pc' = "deleteStream" => saved'.synced = state'.synced
    BY DEF Calm
  <1>8. pc' = "restart" => stream'.version \in {0, config'.version}
    BY <1>2
  <1> QED BY <1>1, <1>3, <1>4, <1>5, <1>6, <1>7, <1>8 DEF Calm

(* A step that notes the version it has just found, or started.            *)
LEMMA CalmSynced ==
  ASSUME Inv, Calm, pc \notin {"sleep", "get"}, task = "running",
         UNCHANGED <<registry, saved, queue>>, Synced,
         stream' = stream \/ (stream = Absent /\ stream' = Started(config.version)),
         ~config.continue => queue \subseteq {config.version}
  PROVE  Calm'
  <1>1. /\ pc' = "executorStatus" /\ UNCHANGED <<task, config>>
        /\ state'.synced = config.version
    BY Fields DEF Synced, Goto, Inv, TypeOK
  <1>2. Current' = config.version /\ config.version # 0
    BY <1>1 DEF Current, Inv, Control
  <1>3. stream'.version \in {stream.version, config.version}
    BY Fields
  <1>4. stream'.version <= config'.version
    BY <1>1, <1>3, Numbers DEF Calm, Inv
  <1>5. config.version = registry.version => config.continue = registry.continue
    BY DEF Calm
  <1>6. CleanFor(config)'
    BY <1>1, <1>2 DEF CleanFor
  <1>7. CleanFor(registry)'
    <2>1. CASE config.version = registry.version
      BY <1>5, <2>1 DEF CleanFor
    <2>2. CASE config.version # registry.version
      <3>1. registry.version \in {Current', stream'.version} =>
              registry.version = stream.version
        BY <1>2, <1>3, <2>2
      <3> QED BY <3>1 DEF CleanFor, Calm
    <2> QED BY <2>1, <2>2
  <1> QED BY <1>1, <1>2, <1>4, <1>5, <1>6, <1>7 DEF Calm

(* The manager keeps Calm.                                                 *)
LEMMA CalmManager ==
  ASSUME Inv, Calm, Manager, ~Fault,
         \A o \in Outcomes : Charge(o) => o = "ok"
  PROVE  Calm'
  <1> USE DEF At, remote
  <1>1. CASE FetchConfig
    <2>1. /\ pc = "sleep" /\ pc' = "get" /\ config' = registry /\ task = "running"
          /\ UNCHANGED <<registry, saved, stream, executor, queue, task, state>>
      BY <1>1 DEF FetchConfig
    <2>2. Current' = Current
      BY <2>1 DEF Current
    <2>3. CleanFor(registry)' /\ CleanFor(config)'
      BY <2>1, <2>2 DEF Calm, CleanFor
    <2>4. stream'.version <= config'.version
      BY <2>1 DEF Inv, Order
    <2> QED BY <2>1, <2>2, <2>3, <2>4 DEF Calm
  <1>2. CASE GetState
    <2>1. /\ pc = "get" /\ pc' = "handle" /\ state' = saved /\ task = "running"
          /\ UNCHANGED <<registry, saved, stream, executor, queue, task, config>>
      BY <1>2 DEF GetState, Get
    <2>2. Current' = Current
      BY <2>1 DEF Current
    <2>3. CleanFor(registry)' /\ CleanFor(config)'
      BY <2>1, <2>2 DEF Calm, CleanFor
    <2> QED BY <2>1, <2>2, <2>3 DEF Calm
  <1>3. CASE HandleInitializing \/ HandleRunning \/ HandleSuspending
             \/ HandleSuspended \/ HandleRepairing \/ HandleDeleting
    <2>1. /\ pc = "handle" /\ task = "running"
          /\ UNCHANGED <<registry, saved, stream, queue>>
      BY <1>3 DEF HandleInitializing, HandleRunning, HandleSuspending,
         HandleSuspended, HandleRepairing, HandleDeleting, Handling
    <2>2. (\E l : Decide(l)) \/ (\E step : Proceed(step))
      BY <1>3 DEF HandleInitializing, HandleRunning, HandleSuspending,
         HandleSuspended, HandleRepairing, HandleDeleting
    <2>3. task' = task /\ config' = config /\ state'.synced = state.synced
      BY <2>2, Decided DEF Inv
    <2>4. pc' \in {"set", "streamStatus", "suspendStream", "deleteStream"}
      BY <1>3 DEF HandleInitializing, HandleRunning, HandleSuspending,
         HandleSuspended, HandleRepairing, HandleDeleting, Decide, Proceed, Goto
    <2> QED BY <2>1, <2>3, <2>4, CalmWithin
  <1>4. CASE CheckStream
    <2>1. /\ pc = "streamStatus" /\ task = "running"
          /\ UNCHANGED <<registry, saved, stream, queue>>
      BY <1>4 DEF CheckStream
    <2>2. CASE StreamStatus = "Active" /\ Synced
      <3>1. stream.version = config.version /\ config.version # 0
        BY <2>2 DEF StreamStatus
      <3>2. ~config.continue => queue \subseteq {config.version}
        BY <2>1, <3>1 DEF Calm, CleanFor
      <3> QED BY <2>1, <2>2, <3>2, CalmSynced
    <2>3. CASE StreamStatus = "Outdated" /\ Proceed("reconfigure")
      <3>1. task' = task /\ config' = config /\ state'.synced = state.synced
        BY <2>3, Decided DEF Inv
      <3>2. pc' = "reconfigure"
        BY <2>3 DEF Proceed, Goto
      <3> QED BY <2>1, <3>1, <3>2, CalmWithin
    <2>4. CASE StreamStatus = "Unhealthy" /\ Proceed("restart")
      <3>1. task' = task /\ config' = config /\ state'.synced = state.synced
        BY <2>4, Decided DEF Inv
      <3>2. pc' = "restart"
        BY <2>4 DEF Proceed, Goto
      <3>3. stream.version = config.version /\ config.version # 0
        BY <2>4 DEF StreamStatus
      <3>4. ~config.continue => queue \subseteq {config.version}
        BY <2>1, <3>3 DEF Calm, CleanFor
      <3> QED BY <2>1, <3>1, <3>2, <3>3, <3>4, CalmWithin
    <2>5. CASE StreamStatus \in {"Inactive", "NotStarted"} /\ Proceed("start")
      <3>1. task' = task /\ config' = config /\ state'.synced = state.synced
        BY <2>5, Decided DEF Inv
      <3>2. pc' = "start"
        BY <2>5 DEF Proceed, Goto
      <3>3. state.synced \in {0, config.version} /\ Current = state.synced
        BY <2>1, <2>5 DEF StreamStatus, Current
      <3>4. config.version # 0
        BY <2>1 DEF Inv, Control
      <3>5. ~config.continue => queue \subseteq {config.version}
        BY <2>1, <3>3, <3>4 DEF Calm, CleanFor
      <3> QED BY <2>1, <3>1, <3>2, <3>5, CalmWithin
    <2> QED BY <1>4, <2>2, <2>3, <2>4, <2>5 DEF CheckStream
  <1>5. ASSUME NEW o \in Outcomes,
               \/ Reconfigure(o) \/ RestartStream(o)
               \/ SuspendStream(o) \/ DeleteStream(o)
        PROVE  Calm'
    <2>1. o = "ok"
      BY <1>5 DEF Reconfigure, RestartStream, SuspendStream, DeleteStream, StopStream
    <2>2. /\ task = "running" /\ stream' = Absent
          /\ pc \in {"reconfigure", "restart", "suspendStream", "deleteStream"}
          /\ UNCHANGED <<registry, saved, queue>>
      BY <1>5, <2>1 DEF Reconfigure, RestartStream, SuspendStream, DeleteStream,
         StopStream, Takes
    <2>3. \E step : Proceed(step)
      BY <1>5, <2>1 DEF Reconfigure, RestartStream, SuspendStream, DeleteStream,
         ThenOrRetry
    <2>4. task' = task /\ config' = config /\ state'.synced = state.synced
      BY <2>3, Decided DEF Inv
    <2>5. \/ pc = "reconfigure" /\ pc' = IF config.continue THEN "start" ELSE "clear"
          \/ pc = "restart" /\ pc' = "start"
          \/ pc = "suspendStream" /\ pc' = "suspendExecutor"
          \/ pc = "deleteStream" /\ pc' = "deleteExecutor"
      BY <1>5, <2>1 DEF Reconfigure, RestartStream, SuspendStream, DeleteStream,
         StopStream, ThenOrRetry, Proceed, Goto
    <2>6. pc' \in {"start", "restart"} /\ ~config.continue =>
            queue' \subseteq {config.version}
      BY <2>2, <2>5 DEF Calm
    <2> QED BY <2>2, <2>4, <2>5, <2>6, CalmWithin
  <1>6. ASSUME NEW o \in Outcomes, ClearBlockStream(o) PROVE Calm'
    <2>1. o = "ok"
      BY <1>6 DEF ClearBlockStream
    <2>2. /\ pc = "clear" /\ task = "running" /\ queue' = {} /\ Proceed("start")
          /\ UNCHANGED <<registry, saved, stream>>
      BY <1>6, <2>1 DEF ClearBlockStream, Del, Takes, ThenOrRetry
    <2>3. task' = task /\ config' = config /\ state'.synced = state.synced
      BY <2>2, Decided DEF Inv
    <2>4. pc' = "start"
      BY <2>2 DEF Proceed, Goto
    <2> QED BY <2>2, <2>3, <2>4, CalmWithin
  <1>7. ASSUME NEW o \in Outcomes, StartStream(o) PROVE Calm'
    <2>1. o = "ok"
      BY <1>7 DEF StartStream
    <2>2. /\ pc = "start" /\ task = "running" /\ Synced
          /\ UNCHANGED <<registry, saved, queue>>
          /\ stream' = stream \/ stream' = Started(config.version)
      BY <1>7, <2>1 DEF StartStream, Takes
    <2>3. stream = Absent
      BY <2>2 DEF Inv, Control
    <2>4. ~config.continue => queue \subseteq {config.version}
      BY <2>2 DEF Calm
    <2> QED BY <2>2, <2>3, <2>4, CalmSynced
  <1>8. CASE CheckExecutor \/ \E o \in Outcomes :
               RestartExecutor(o) \/ StartExecutor(o) \/ SuspendExecutor(o)
    <2>1. /\ task = "running" /\ UNCHANGED <<registry, saved, stream, queue>>
          /\ pc \in {"executorStatus", "restartExecutor", "startExecutor",
                     "suspendExecutor"}
      BY <1>8 DEF CheckExecutor, RestartExecutor, StartExecutor, SuspendExecutor,
         StopExecutor
    <2>2. \/ Retry \/ Proceed("startExecutor") \/ Proceed("restartExecutor")
          \/ Decide("Suspended")
      BY <1>8 DEF CheckExecutor, RestartExecutor, StartExecutor, SuspendExecutor,
         ThenOrRetry
    <2>3. task' = task /\ config' = config /\ state'.synced = state.synced
      BY <2>2, Decided DEF Inv
    <2>4. pc' \in {"set", "startExecutor", "restartExecutor"}
      BY <2>2 DEF Retry, Proceed, Decide, Goto
    <2> QED BY <2>1, <2>3, <2>4, CalmWithin
  <1>9. ASSUME NEW o \in Outcomes, DeleteExecutor(o) PROVE Calm'
    <2>1. o = "ok"
      BY <1>9 DEF DeleteExecutor, StopExecutor
    <2>2. /\ pc = "deleteExecutor" /\ pc' = "sleep" /\ task' = "finished"
          /\ executor' = Absent /\ UNCHANGED <<registry, saved, stream, queue>>
      BY <1>9, <2>1 DEF DeleteExecutor, StopExecutor, Takes, EndIteration
    <2>3. stream = Absent /\ Current' = Current
      BY <2>2 DEF Calm, Current
    <2>4. CleanFor(registry)'
      BY <2>2, <2>3 DEF Calm, CleanFor
    <2> QED BY <2>2, <2>3, <2>4 DEF Calm
  <1>10. ASSUME NEW o \in Outcomes, SetState(o) PROVE Calm'
    <2>1. o = "ok"
      BY <1>10 DEF SetState
    <2>2. /\ pc = "set" /\ pc' = "add" /\ saved' = state /\ task = "running"
          /\ UNCHANGED <<registry, stream, queue, task, config, state>>
      BY <1>10, <2>1 DEF SetState, Set, Takes, ThenOrRetry, Proceed, Goto
    <2>3. Current' = Current
      BY <2>2 DEF Current
    <2>4. CleanFor(registry)' /\ CleanFor(config)'
      BY <2>2, <2>3 DEF Calm, CleanFor
    <2> QED BY <2>2, <2>3, <2>4 DEF Calm
  <1>11. ASSUME NEW o \in Outcomes, AddMember(o) PROVE Calm'
    <2>1. o = "ok"
      BY <1>11 DEF AddMember
    <2>2. /\ pc = "add" /\ pc' = "sleep" /\ task = "running"
          /\ UNCHANGED <<registry, saved, stream, queue, task>>
      BY <1>11, <2>1 DEF AddMember, EndIteration
    <2>3. Current' = Current
      BY <2>2 DEF Calm, Current
    <2>4. CleanFor(registry)'
      BY <2>2, <2>3 DEF Calm, CleanFor
    <2> QED BY <2>2, <2>3, <2>4 DEF Calm
  <1> QED
    BY <1>1, <1>2, <1>3, <1>4, <1>5, <1>6, <1>7, <1>8, <1>9, <1>10, <1>11
    DEF Manager

(* So do main(), the contract and the stream, which publishes only what    *)
(* its own version stands for.                                             *)
LEMMA CalmOthers ==
  ASSUME Inv, Calm, Main \/ Environment, ~Fault
  PROVE  Calm'
  <1>1. CASE Main
    <2>1. /\ UNCHANGED <<registry, pc, config, state, stream, executor, queue>>
          /\ task' = "finished" => task = "finished"
      BY <1>1 DEF Main, Migrate, FetchRegistry, SpawnOrForget, manager, remote
    <2>2. saved'.synced = saved.synced
      <3>1. CASE Migrate
        <4>1. \/ saved' = saved
              \/ saved' = [saved EXCEPT !.lifecycle = Migrated(saved.lifecycle)]
          BY <3>1, Migrates
        <4>2. saved \in SavedRecords
          BY DEF Inv, TypeOK
        <4>3. ASSUME NEW l PROVE [saved EXCEPT !.lifecycle = l].synced = saved.synced
          BY <4>2 DEF SavedRecords
        <4> QED BY <4>1, <4>3
      <3>2. CASE FetchRegistry \/ SpawnOrForget
        BY <3>2 DEF FetchRegistry, SpawnOrForget
      <3> QED BY <1>1, <3>1, <3>2 DEF Main
    <2>3. Current' = Current
      BY <2>1, <2>2 DEF Current
    <2>4. CleanFor(registry)' /\ (pc' # "sleep" => CleanFor(config)')
      BY <2>1, <2>3 DEF Calm, CleanFor
    <2> QED BY <2>1, <2>2, <2>3, <2>4 DEF Calm
  <1>2. ASSUME NEW c \in BOOLEAN, NEW r \in Rules, Register(c, r) PROVE Calm'
    <2>1. /\ registry'.version = registry.version + 1
          /\ UNCHANGED <<saved, stream, executor, queue, task, pc, config, state>>
      BY <1>2 DEF Register, remote, coordinator
    <2>2. Current' = Current /\ Current \in Nat /\ Current <= registry.version
      BY <2>1, Numbers DEF Current, Inv, Order, SyncedUpTo
    <2>3. stream.version <= registry.version /\ config.version <= registry.version
      BY DEF Inv, Order
    <2>4. registry'.version \notin {Current', stream'.version, config'.version}
      BY <2>1, <2>2, <2>3, Numbers DEF Inv
    <2>5. CleanFor(registry)' /\ (pc' # "sleep" => CleanFor(config)')
      BY <2>1, <2>2, <2>4 DEF Calm, CleanFor
    <2> QED BY <2>1, <2>2, <2>4, <2>5 DEF Calm
  <1>3. CASE RemoveIndexer
    <2>1. /\ registry'.version = registry.version
          /\ registry'.continue = registry.continue
          /\ UNCHANGED <<saved, stream, executor, queue, task, pc, config, state>>
      BY <1>3 DEF RemoveIndexer, remote, coordinator, Inv, TypeOK, Configs
    <2>2. Current' = Current
      BY <2>1 DEF Current
    <2>3. CleanFor(registry)' /\ (pc' # "sleep" => CleanFor(config)')
      BY <2>1, <2>2 DEF Calm, CleanFor
    <2> QED BY <2>1, <2>2, <2>3 DEF Calm
  <1>4. CASE Publish
    <2>1. /\ stream.version # 0 /\ queue' = queue \cup {stream.version}
          /\ UNCHANGED <<registry, saved, stream, executor, task, pc, config, state>>
      BY <1>4 DEF Publish, coordinator
    <2>2. stream # Absent /\ Current' = Current
      BY <2>1, Fields DEF Current
    <2>3. Current <= stream.version /\ Current \in Nat
      BY <2>1, Numbers DEF Current, Inv, Order, SyncedUpTo
    <2>4. stream.version <= registry.version
      BY DEF Inv, Order
    <2>5. CleanFor(registry)'
      <3>1. registry.version \in {Current, stream.version} =>
              stream.version = registry.version
        BY <2>3, <2>4, Numbers DEF Inv
      <3> QED BY <2>1, <2>2, <3>1 DEF Calm, CleanFor
    <2>6. pc # "sleep" => CleanFor(config)'
      <3>1. pc # "sleep" /\ config.version \in {Current, stream.version} =>
              stream.version = config.version
        BY <2>3, Numbers DEF Inv, Calm
      <3> QED BY <2>1, <2>2, <3>1 DEF Calm, CleanFor
    <2>7. pc # "start" /\ (pc = "restart" => stream.version = config.version)
      BY <2>1, <2>2 DEF Calm, Inv, Control
    <2> QED BY <2>1, <2>2, <2>5, <2>6, <2>7 DEF Calm
  <1>5. CASE Consume
    <2>1. /\ queue' \subseteq queue
          /\ UNCHANGED <<registry, saved, stream, executor, task, pc, config, state>>
      BY <1>5 DEF Consume, coordinator
    <2>2. Current' = Current
      BY <2>1 DEF Current
    <2>3. CleanFor(registry)' /\ (pc' # "sleep" => CleanFor(config)')
      BY <2>1, <2>2 DEF Calm, CleanFor
    <2> QED BY <2>1, <2>2, <2>3 DEF Calm
  <1>6. CASE HealthReturns
    <2>1. /\ UNCHANGED <<registry, saved, queue, task, pc, config, state>>
          /\ \/ stream # Absent /\ executor' = executor
                /\ stream' = [stream EXCEPT !.healthy = TRUE]
             \/ executor # Absent /\ stream' = stream
      BY <1>6, Fields DEF HealthReturns, coordinator
    <2>2. /\ Current' = Current /\ stream'.version = stream.version
          /\ stream = Absent => stream' = stream
      BY <2>1, Fields DEF Current, Inv, TypeOK
    <2>3. task # "finished"
      BY <2>1 DEF Calm
    <2>4. CleanFor(registry)' /\ (pc' # "sleep" => CleanFor(config)')
      BY <2>1, <2>2 DEF Calm, CleanFor
    <2> QED BY <2>1, <2>2, <2>3, <2>4 DEF Calm
  <1> QED
    BY <1>1, <1>2, <1>3, <1>4, <1>5, <1>6
    DEF Environment, StreamFault, ExecutorFault

LEMMA CalmInit == Init => CalmInv
  <1> SUFFICES ASSUME Init PROVE Calm
    BY InvInit DEF CalmInv
  <1>1. queue = {} /\ pc = "sleep" /\ task = "none" /\ Current = saved.synced
    BY DEF Init, Current
  <1>2. CASE FreshInit
    BY <1>1, <1>2 DEF FreshInit, Calm, CleanFor
  <1>3. CASE UpgradeInit
    <2>1. saved.synced = 1
      BY <1>3 DEF UpgradeInit
    <2> QED BY <1>1, <2>1 DEF Calm, CleanFor
  <1> QED BY <1>2, <1>3 DEF Init

LEMMA CalmNext == CalmInv /\ [Next]_vars => CalmInv'
  <1> SUFFICES ASSUME CalmInv, [Next]_vars, Undisturbed' PROVE Calm'
    BY InvNext DEF CalmInv
  <1>1. CASE Next
    <2>1. /\ Undisturbed /\ ~Fault /\ ~Rpc
          /\ \A o \in Outcomes : Charge(o) => o = "ok"
      BY <1>1, QuietStep DEF CalmInv
    <2>2. Manager \/ Main \/ Environment
      BY <1>1, <2>1 DEF Next, CoordinatorCrash
    <2> QED BY <2>1, <2>2, CalmManager, CalmOthers DEF CalmInv
  <1>2. CASE UNCHANGED vars
    <2>1. UNCHANGED <<registry, saved, stream, executor, queue, task, pc, config,
                      state, faults, rpc>>
      BY <1>2 DEF vars
    <2>2. Undisturbed /\ Current' = Current
      BY <2>1 DEF Undisturbed, Current
    <2>3. CleanFor(registry)' /\ (pc' # "sleep" => CleanFor(config)')
      BY <2>1, <2>2 DEF CalmInv, Calm, CleanFor
    <2> QED BY <2>1, <2>2, <2>3 DEF CalmInv, Calm
  <1> QED BY <1>1, <1>2

(* While no call fails and no request interferes: for any number of        *)
(* versions registered at any moment, a stream of the latest one that does *)
(* not continue shares the queue with no block of an older one.            *)
THEOREM SupersedeCorrect == Spec => []SupersedeClearsQueue
  <1>1. CalmInv => SupersedeClearsQueue
    BY DEF CalmInv, Calm, CleanFor, SupersedeClearsQueue
  <1> QED BY <1>1, CalmInit, CalmNext, PTL DEF Spec

(* ... and a manager that has exited has left neither stream nor executor. *)
THEOREM DeletionCorrect == Spec => []DeletedIsCleanedUp
  <1>1. CalmInv => DeletedIsCleanedUp
    BY DEF CalmInv, Calm, DeletedIsCleanedUp
  <1> QED BY <1>1, CalmInit, CalmNext, PTL DEF Spec
=============================================================================
