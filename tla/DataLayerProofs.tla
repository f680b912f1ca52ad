-------------------------- MODULE DataLayerProofs --------------------------
(***************************************************************************)
(* Proofs about the data layer and the Coordinator's handler of it, for    *)
(* any Indexers of an account, tasks, overlaps, removals and faults.       *)
(***************************************************************************)
EXTENDS DataLayerHandler, WellFoundedInduction, TLAPS

There(owner, part) == <<owner, part>> \in has
Sees(t, part) == <<tasks[t].indexer, part>> \in tasks[t].seen

(* Tasks are started one after the other, and know who ran at the time. *)
Bookkeeping ==
  /\ \A t \in Tasks :
       /\ ~Started(t) => tasks[t] = Unstarted
       /\ Started(t) => tasks[t].indexer \in Indexers /\ tasks[t].at > 0
       /\ \A u \in tasks[t].beside : u < t /\ Started(u)
  /\ \A t, u \in Tasks :
       u < t /\ Started(t) =>
         Started(u) /\ (Pending(u) => u \in tasks[t].beside)

-----------------------------------------------------------------------------
(***************************************************************************)
(* Plans and statements.                                                   *)
(***************************************************************************)
LEMMA ProvisioningSteps ==
  /\ Len(Provisioning) = 21
  /\ Provisioning[1] = "export" /\ Provisioning[2] = "listTables"
  /\ Provisioning[3] = "database" /\ Provisioning[4] = "user"
  /\ Provisioning[5] = "restrict" /\ Provisioning[6] = "source"
  /\ Provisioning[7] = "schema" /\ Provisioning[8] = "metadata"
  /\ Provisioning[9] = "status" /\ Provisioning[10] = "logs"
  /\ Provisioning[11] = "cron" /\ Provisioning[12] = "createJob"
  /\ Provisioning[13] = "deleteJob" /\ Provisioning[14] = "trackSystem"
  /\ Provisioning[15] = "permitSystem" /\ Provisioning[16] = "script"
  /\ Provisioning[17] = "export" /\ Provisioning[18] = "listTables"
  /\ Provisioning[19] = "track" /\ Provisioning[20] = "relate"
  /\ Provisioning[21] = "permit"
  BY DEF Provisioning

LEMMA DeprovisioningSteps ==
  /\ Len(Deprovisioning) = 8
  /\ Deprovisioning[1] = "dropSchema"
  /\ Deprovisioning[2] = "unscheduleCreate"
  /\ Deprovisioning[3] = "unscheduleDelete"
  /\ Deprovisioning[4] = "listSchemas"
  /\ Deprovisioning[5] = "dropSource"
  /\ Deprovisioning[6] = "dropDatabase"
  /\ Deprovisioning[7] = "revokeCron"
  /\ Deprovisioning[8] = "dropRole"
  BY DEF Deprovisioning

LEMMA PlanFacts ==
  /\ Plan("provision") = Provisioning /\ Plan("deprovision") = Deprovisioning
  /\ \A kind \in Kinds : Len(Plan(kind)) \in Nat /\ Len(Plan(kind)) >= 8
<1>1. Plan("provision") = Provisioning /\ Plan("deprovision") = Deprovisioning
  BY DEF Plan
<1>2. Len(Provisioning) = 21 /\ Len(Deprovisioning) = 8
  BY ProvisioningSteps, DeprovisioningSteps
<1>3. \A kind \in Kinds : Len(Plan(kind)) = 21 \/ Len(Plan(kind)) = 8
  BY <1>1, <1>2 DEF Kinds
<1>4. \A kind \in Kinds : Len(Plan(kind)) \in Nat /\ Len(Plan(kind)) >= 8
  <2> TAKE kind \in Kinds
  <2>1. CASE Len(Plan(kind)) = 21
    BY <2>1
  <2>2. CASE Len(Plan(kind)) = 8
    BY <2>2
  <2> QED BY <1>3, <2>1, <2>2
<1> QED BY <1>1, <1>4

(* The least of a set of positions. *)
LEMMA Least ==
  ASSUME NEW T \in SUBSET Nat, T # {}
  PROVE  \E n \in T : \A m \in T : n <= m
<1> DEFINE R == {pair \in Nat \X Nat : pair[1] < pair[2]}
<1>1. IsWellFoundedOn(R, Nat)
  BY NatLessThanWellFounded DEF OpToRel
<1> HIDE DEF R
<1>2. PICK n \in T : \A m \in T : ~(<<m, n>> \in R)
  BY <1>1, WFMin
<1>3. \A m \in T : ~(m < n)
  <2> SUFFICES ASSUME NEW m \in T, m < n PROVE FALSE
    OBVIOUS
  <2>1. <<m, n>> \in Nat \X Nat /\ <<m, n>>[1] < <<m, n>>[2]
    OBVIOUS
  <2>2. <<m, n>> \in R
    BY <2>1 DEF R
  <2> QED BY <1>2, <2>2
<1> QED BY <1>3

(* A task that goes on ends, or is at the next step that it does not skip. *)
LEMMA AdvancedFacts ==
  ASSUME NEW task \in TaskType, NEW seen \in SUBSET Parts
  PROVE  LET next == Advanced(task, seen)
             plan == Plan(task.kind)
             skipped(m) == Skips(task.indexer, plan[m], seen)
         IN /\ next \in TaskType
            /\ next.kind = task.kind /\ next.indexer = task.indexer
            /\ next.beside = task.beside
            /\ \/ /\ next.state = "complete" /\ next.at = task.at
                  /\ next.seen = {} /\ next.tries = task.tries
                  /\ \A m \in task.at + 1 .. Len(plan) : skipped(m)
               \/ /\ next.state = task.state
                  /\ next.at \in task.at + 1 .. Len(plan)
                  /\ next.seen = seen /\ next.tries = 0
                  /\ ~skipped(next.at)
                  /\ \A m \in task.at + 1 .. next.at - 1 : skipped(m)
<1> DEFINE plan == Plan(task.kind)
           skipped(m) == Skips(task.indexer, plan[m], seen)
           rest == {n \in (task.at + 1) .. Len(plan) : ~skipped(n)}
           next == Advanced(task, seen)
           first == CHOOSE n \in rest : \A m \in rest : n <= m
<1>1. task.at \in Nat /\ Len(plan) \in Nat
  BY PlanFacts DEF TaskType
<1>2. CASE rest = {}
  <2>1. next = [task EXCEPT !.seen = {}, !.state = "complete"]
    BY <1>2 DEF Advanced
  <2>2. \A m \in task.at + 1 .. Len(plan) : skipped(m)
    BY <1>2
  <2> HIDE DEF next, skipped, plan
  <2>3. next \in TaskType /\ next.kind = task.kind
        /\ next.indexer = task.indexer /\ next.beside = task.beside
        /\ next.state = "complete" /\ next.at = task.at
        /\ next.seen = {} /\ next.tries = task.tries
    BY <2>1 DEF TaskType, TaskStates
  <2> QED BY <2>2, <2>3 DEF next, skipped, plan
<1>3. CASE rest # {}
  <2>1. next = [task EXCEPT !.seen = seen, !.tries = 0, !.at = first]
    BY <1>3 DEF Advanced
  <2>2. first \in rest /\ \A m \in rest : first <= m
    <3>1. rest \in SUBSET Nat
      BY <1>1
    <3> HIDE DEF rest
    <3> QED BY <1>3, <3>1, Least
  <2> HIDE DEF first
  <2>3. first \in task.at + 1 .. Len(plan) /\ ~skipped(first) /\ first \in Nat
    BY <1>1, <2>2
  <2>4. \A m \in task.at + 1 .. first - 1 : skipped(m)
    <3> TAKE m \in task.at + 1 .. first - 1
    <3>1. m \in (task.at + 1) .. Len(plan) /\ ~(first <= m)
      BY <1>1, <2>3
    <3> QED BY <2>2, <3>1
  <2> HIDE DEF next, skipped, plan, rest
  <2>5. next \in TaskType /\ next.kind = task.kind
        /\ next.indexer = task.indexer /\ next.beside = task.beside
        /\ next.state = task.state /\ next.at = first
        /\ next.seen = seen /\ next.tries = 0
    <3>1. 0 \in 0 .. MaxRetries - 1
      BY DataLayerAssumption
    <3> QED BY <2>1, <2>3, <3>1 DEF TaskType
  <2> QED BY <2>3, <2>4, <2>5 DEF next, skipped, plan
<1> QED BY <1>2, <1>3

(* A task that fails tries the step again, or has failed. *)
LEMMA FailedFacts ==
  ASSUME NEW task \in TaskType
  PROVE  LET next == Failed(task)
         IN /\ next \in TaskType
            /\ next.kind = task.kind /\ next.indexer = task.indexer
            /\ next.beside = task.beside /\ next.at = task.at
            /\ \/ next.state = task.state /\ next.seen = task.seen
                  /\ Plan(task.kind)[task.at] \in Retried
               \/ next.state = "failed" /\ next.seen = {}
<1>1. MaxRetries \in Nat /\ task.tries \in 0 .. MaxRetries - 1
  BY DataLayerAssumption DEF TaskType
<1>2. CASE Plan(task.kind)[task.at] \in Retried /\ task.tries + 1 < MaxRetries
  <2>1. Failed(task) = [task EXCEPT !.tries = @ + 1]
    BY <1>2 DEF Failed
  <2>2. task.tries + 1 \in 0 .. MaxRetries - 1
    BY <1>1, <1>2
  <2> QED BY <1>2, <2>1, <2>2 DEF TaskType
<1>3. CASE ~(Plan(task.kind)[task.at] \in Retried /\ task.tries + 1 < MaxRetries)
  <2>1. Failed(task) = [task EXCEPT !.seen = {}, !.state = "failed"]
    BY <1>3 DEF Failed
  <2> QED BY <2>1 DEF TaskType, TaskStates
<1> QED BY <1>2, <1>3

(* What step n of a provisioning of i needs and adds. *)
Needs(i, n, owner, part) ==
  \/ /\ owner = Account
     /\ \/ n \in {5, 6} /\ part \in {"database", "user"}
        \/ n \in {7, 8, 9, 10, 14, 16, 19, 20} /\ part \in {"database", "source"}
        \/ n = 11 /\ part = "user"
        \/ n \in {12, 13} /\ part \in {"source", "cron"}
  \/ /\ owner = i
     /\ \/ n \in {8, 10, 16} /\ part = "schema"
        \/ n = 9 /\ part = "metadata"
        \/ n = 14 /\ part \in {"metadata", "logs"}
        \/ n = 15 /\ part = "systemTracked"
        \/ n = 19 /\ part = "tables"
        \/ n = 20 /\ ForeignKeys /\ part = "tablesTracked"
        \/ n = 21 /\ part = "tablesTracked"

Adds(i, n, owner, part) ==
  \/ /\ owner = Account
     /\ \/ n = 3 /\ part = "database"
        \/ n = 4 /\ part = "user"
        \/ n = 6 /\ part = "source"
        \/ n = 11 /\ part = "cron"
  \/ /\ owner = i
     /\ \/ n = 7 /\ part = "schema"
        \/ n = 8 /\ part = "metadata"
        \/ n = 10 /\ part = "logs"
        \/ n = 12 /\ part = "createJob"
        \/ n = 13 /\ part = "deleteJob"
        \/ n = 14 /\ part = "systemTracked"
        \/ n = 15 /\ part = "systemPermitted"
        \/ n = 16 /\ part = "tables"
        \/ n = 19 /\ part = "tablesTracked"
        \/ n = 20 /\ ForeignKeys /\ part = "related"
        \/ n = 21 /\ part = "tablesPermitted"

(* What step n of a deprovisioning of i needs and removes. *)
Requires(i, n, owner, part) ==
  \/ /\ owner = Account
     /\ \/ n = 1 /\ part \in {"database", "source"}
        \/ n \in {2, 3, 5} /\ part = "source"
        \/ n = 7 /\ part = "user"
  \/ owner = i /\ n = 2 /\ part = "createJob"
  \/ owner = i /\ n = 3 /\ part = "deleteJob"

Drops(i, n, owner, part) ==
  \/ /\ owner = i
     /\ \/ n = 1 /\ part \in {"schema"} \cup Tables \cup Metadata
        \/ n = 2 /\ part = "createJob"
        \/ n = 3 /\ part = "deleteJob"
  \/ /\ owner = Account
     /\ \/ n = 5 /\ part = "source"
        \/ n = 6 /\ part = "database"
        \/ n = 7 /\ part = "cron"
        \/ n = 8 /\ part = "user"
  \/ /\ owner \in Indexers
     /\ \/ n = 5 /\ part \in Metadata
        \/ n = 6 /\ part \in {"schema"} \cup Tables

ProvisionReads == {1, 2, 17, 18}

LEMMA StatementOf ==
  ASSUME NEW i
  PROVE  /\ Statement(i)["database"] = CreateDatabase
         /\ Statement(i)["user"] = CreateUser
         /\ Statement(i)["restrict"] = RestrictUser
         /\ Statement(i)["source"] = AddDatasource
         /\ Statement(i)["schema"] = CreateSchema(i)
         /\ Statement(i)["metadata"] = CreateMetadataTable(i)
         /\ Statement(i)["status"] = SetProvisioningStatus(i)
         /\ Statement(i)["logs"] = RunLogsSql(i)
         /\ Statement(i)["cron"] = GrantCronAccess
         /\ Statement(i)["createJob"] = Schedule(i, "createJob")
         /\ Statement(i)["deleteJob"] = Schedule(i, "deleteJob")
         /\ Statement(i)["trackSystem"] = TrackSystemTables(i)
         /\ Statement(i)["permitSystem"] = PermitSystemTables(i)
         /\ Statement(i)["script"] = RunIndexerSql(i)
         /\ Statement(i)["track"] = TrackTables(i)
         /\ Statement(i)["relate"] = TrackForeignKeys(i)
         /\ Statement(i)["permit"] = PermitTables(i)
         /\ Statement(i)["dropSchema"] = DropSchema(i)
         /\ Statement(i)["unscheduleCreate"] = Unschedule(i, "createJob")
         /\ Statement(i)["unscheduleDelete"] = Unschedule(i, "deleteJob")
         /\ Statement(i)["dropSource"] = DropDatasource
         /\ Statement(i)["dropDatabase"] = DropDatabase
         /\ Statement(i)["revokeCron"] = RevokeCron
         /\ Statement(i)["dropRole"] = DropRole
  BY DEF Statement

LEMMA ProvisionStatement ==
  ASSUME NEW i \in Indexers, NEW n \in (1 .. 21) \ ProvisionReads
  PROVE  LET statement == Statement(i)[Provisioning[n]]
         IN /\ statement.removes = {}
            /\ statement.needs \in SUBSET Parts
            /\ statement.absent \in SUBSET Parts
            /\ statement.adds \in SUBSET Parts
            /\ \A owner, part :
                 /\ <<owner, part>> \in statement.needs
                      <=> Needs(i, n, owner, part)
                 /\ <<owner, part>> \in statement.adds
                      <=> Adds(i, n, owner, part)
                 /\ <<owner, part>> \in statement.absent
                      <=> Adds(i, n, owner, part) /\ n \notin {8, 11, 12, 13}
<1> DEFINE statement == Statement(i)[Provisioning[n]]
           Typed(st) ==
             /\ st.removes = {}
             /\ st.needs \in SUBSET Parts
             /\ st.absent \in SUBSET Parts
             /\ st.adds \in SUBSET Parts
           Is(st) ==
             \A owner, part :
                  /\ <<owner, part>> \in st.needs <=> Needs(i, n, owner, part)
                  /\ <<owner, part>> \in st.adds <=> Adds(i, n, owner, part)
                  /\ <<owner, part>> \in st.absent
                       <=> Adds(i, n, owner, part) /\ n \notin {8, 11, 12, 13}
<1>0. Account # i
  BY DataLayerAssumption
<1>1. CASE n = 3
  <2>1. statement = CreateDatabase
    BY <1>1, ProvisioningSteps, StatementOf
  <2>2. Typed(CreateDatabase)
    BY DEF CreateDatabase, Creates, Ensures, Shared, Of, Sql, Parts, SharedParts,
           OwnParts, Metadata, Tracked, Tables, Jobs
  <2>3. Is(CreateDatabase)
    BY <1>1, <1>0
       DEF CreateDatabase, Creates, Ensures, Shared, Of, Sql, Needs, Adds
  <2> QED BY <2>1, <2>2, <2>3
<1>2. CASE n = 4
  <2>1. statement = CreateUser
    BY <1>2, ProvisioningSteps, StatementOf
  <2>2. Typed(CreateUser)
    BY DEF CreateUser, Creates, Ensures, Shared, Of, Sql, Parts, SharedParts,
           OwnParts, Metadata, Tracked, Tables, Jobs
  <2>3. Is(CreateUser)
    BY <1>2, <1>0
       DEF CreateUser, Creates, Ensures, Shared, Of, Sql, Needs, Adds
  <2> QED BY <2>1, <2>2, <2>3
<1>3. CASE n = 5
  <2>1. statement = RestrictUser
    BY <1>3, ProvisioningSteps, StatementOf
  <2>2. Typed(RestrictUser)
    BY DEF RestrictUser, Creates, Ensures, Shared, Of, Sql, Parts, SharedParts,
           OwnParts, Metadata, Tracked, Tables, Jobs
  <2>3. Is(RestrictUser)
    BY <1>3, <1>0
       DEF RestrictUser, Creates, Ensures, Shared, Of, Sql, Needs, Adds
  <2> QED BY <2>1, <2>2, <2>3
<1>4. CASE n = 6
  <2>1. statement = AddDatasource
    BY <1>4, ProvisioningSteps, StatementOf
  <2>2. Typed(AddDatasource)
    BY DEF AddDatasource, Creates, Ensures, Shared, Of, Sql, Parts, SharedParts,
           OwnParts, Metadata, Tracked, Tables, Jobs
  <2>3. Is(AddDatasource)
    BY <1>4, <1>0
       DEF AddDatasource, Creates, Ensures, Shared, Of, Sql, Needs, Adds
  <2> QED BY <2>1, <2>2, <2>3
<1>5. CASE n = 7
  <2>1. statement = CreateSchema(i)
    BY <1>5, ProvisioningSteps, StatementOf
  <2>2. Typed(CreateSchema(i))
    BY DEF CreateSchema, Creates, Ensures, Shared, Of, Sql, Parts, SharedParts,
           OwnParts, Metadata, Tracked, Tables, Jobs
  <2>3. Is(CreateSchema(i))
    BY <1>5, <1>0
       DEF CreateSchema, Creates, Ensures, Shared, Of, Sql, Needs, Adds
  <2> QED BY <2>1, <2>2, <2>3
<1>6. CASE n = 8
  <2>1. statement = CreateMetadataTable(i)
    BY <1>6, ProvisioningSteps, StatementOf
  <2>2. Typed(CreateMetadataTable(i))
    BY DEF CreateMetadataTable, Creates, Ensures, Shared, Of, Sql, Parts, SharedParts,
           OwnParts, Metadata, Tracked, Tables, Jobs
  <2>3. Is(CreateMetadataTable(i))
    BY <1>6, <1>0
       DEF CreateMetadataTable, Creates, Ensures, Shared, Of, Sql, Needs, Adds
  <2> QED BY <2>1, <2>2, <2>3
<1>7. CASE n = 9
  <2>1. statement = SetProvisioningStatus(i)
    BY <1>7, ProvisioningSteps, StatementOf
  <2>2. Typed(SetProvisioningStatus(i))
    BY DEF SetProvisioningStatus, Creates, Ensures, Shared, Of, Sql, Parts, SharedParts,
           OwnParts, Metadata, Tracked, Tables, Jobs
  <2>3. Is(SetProvisioningStatus(i))
    BY <1>7, <1>0
       DEF SetProvisioningStatus, Creates, Ensures, Shared, Of, Sql, Needs, Adds
  <2> QED BY <2>1, <2>2, <2>3
<1>8. CASE n = 10
  <2>1. statement = RunLogsSql(i)
    BY <1>8, ProvisioningSteps, StatementOf
  <2>2. Typed(RunLogsSql(i))
    BY DEF RunLogsSql, Creates, Ensures, Shared, Of, Sql, Parts, SharedParts,
           OwnParts, Metadata, Tracked, Tables, Jobs
  <2>3. Is(RunLogsSql(i))
    BY <1>8, <1>0
       DEF RunLogsSql, Creates, Ensures, Shared, Of, Sql, Needs, Adds
  <2> QED BY <2>1, <2>2, <2>3
<1>9. CASE n = 11
  <2>1. statement = GrantCronAccess
    BY <1>9, ProvisioningSteps, StatementOf
  <2>2. Typed(GrantCronAccess)
    BY DEF GrantCronAccess, Creates, Ensures, Shared, Of, Sql, Parts, SharedParts,
           OwnParts, Metadata, Tracked, Tables, Jobs
  <2>3. Is(GrantCronAccess)
    BY <1>9, <1>0
       DEF GrantCronAccess, Creates, Ensures, Shared, Of, Sql, Needs, Adds
  <2> QED BY <2>1, <2>2, <2>3
<1>10. CASE n = 12
  <2>1. statement = Schedule(i, "createJob")
    BY <1>10, ProvisioningSteps, StatementOf
  <2>2. Typed(Schedule(i, "createJob"))
    BY DEF Schedule, Creates, Ensures, Shared, Of, Sql, Parts, SharedParts,
           OwnParts, Metadata, Tracked, Tables, Jobs
  <2>3. Is(Schedule(i, "createJob"))
    BY <1>10, <1>0
       DEF Schedule, Creates, Ensures, Shared, Of, Sql, Needs, Adds
  <2> QED BY <2>1, <2>2, <2>3
<1>11. CASE n = 13
  <2>1. statement = Schedule(i, "deleteJob")
    BY <1>11, ProvisioningSteps, StatementOf
  <2>2. Typed(Schedule(i, "deleteJob"))
    BY DEF Schedule, Creates, Ensures, Shared, Of, Sql, Parts, SharedParts,
           OwnParts, Metadata, Tracked, Tables, Jobs
  <2>3. Is(Schedule(i, "deleteJob"))
    BY <1>11, <1>0
       DEF Schedule, Creates, Ensures, Shared, Of, Sql, Needs, Adds
  <2> QED BY <2>1, <2>2, <2>3
<1>12. CASE n = 14
  <2>1. statement = TrackSystemTables(i)
    BY <1>12, ProvisioningSteps, StatementOf
  <2>2. Typed(TrackSystemTables(i))
    BY DEF TrackSystemTables, Creates, Ensures, Shared, Of, Sql, Parts, SharedParts,
           OwnParts, Metadata, Tracked, Tables, Jobs
  <2>3. Is(TrackSystemTables(i))
    BY <1>12, <1>0
       DEF TrackSystemTables, Creates, Ensures, Shared, Of, Sql, Needs, Adds
  <2> QED BY <2>1, <2>2, <2>3
<1>13. CASE n = 15
  <2>1. statement = PermitSystemTables(i)
    BY <1>13, ProvisioningSteps, StatementOf
  <2>2. Typed(PermitSystemTables(i))
    BY DEF PermitSystemTables, Creates, Ensures, Shared, Of, Sql, Parts, SharedParts,
           OwnParts, Metadata, Tracked, Tables, Jobs
  <2>3. Is(PermitSystemTables(i))
    BY <1>13, <1>0
       DEF PermitSystemTables, Creates, Ensures, Shared, Of, Sql, Needs, Adds
  <2> QED BY <2>1, <2>2, <2>3
<1>14. CASE n = 16
  <2>1. statement = RunIndexerSql(i)
    BY <1>14, ProvisioningSteps, StatementOf
  <2>2. Typed(RunIndexerSql(i))
    BY DEF RunIndexerSql, Creates, Ensures, Shared, Of, Sql, Parts, SharedParts,
           OwnParts, Metadata, Tracked, Tables, Jobs
  <2>3. Is(RunIndexerSql(i))
    BY <1>14, <1>0
       DEF RunIndexerSql, Creates, Ensures, Shared, Of, Sql, Needs, Adds
  <2> QED BY <2>1, <2>2, <2>3
<1>15. CASE n = 19
  <2>1. statement = TrackTables(i)
    BY <1>15, ProvisioningSteps, StatementOf
  <2>2. Typed(TrackTables(i))
    BY DEF TrackTables, Creates, Ensures, Shared, Of, Sql, Parts, SharedParts,
           OwnParts, Metadata, Tracked, Tables, Jobs
  <2>3. Is(TrackTables(i))
    BY <1>15, <1>0
       DEF TrackTables, Creates, Ensures, Shared, Of, Sql, Needs, Adds
  <2> QED BY <2>1, <2>2, <2>3
<1>16. CASE n = 20
  <2>1. statement = TrackForeignKeys(i)
    BY <1>16, ProvisioningSteps, StatementOf
  <2>2. Typed(TrackForeignKeys(i))
    BY DEF TrackForeignKeys, Creates, Ensures, Shared, Of, Sql, Parts, SharedParts,
           OwnParts, Metadata, Tracked, Tables, Jobs
  <2>3. Is(TrackForeignKeys(i))
    BY <1>16, <1>0
       DEF TrackForeignKeys, Creates, Ensures, Shared, Of, Sql, Needs, Adds
  <2> QED BY <2>1, <2>2, <2>3
<1>17. CASE n = 21
  <2>1. statement = PermitTables(i)
    BY <1>17, ProvisioningSteps, StatementOf
  <2>2. Typed(PermitTables(i))
    BY DEF PermitTables, Creates, Ensures, Shared, Of, Sql, Parts, SharedParts,
           OwnParts, Metadata, Tracked, Tables, Jobs
  <2>3. Is(PermitTables(i))
    BY <1>17, <1>0
       DEF PermitTables, Creates, Ensures, Shared, Of, Sql, Needs, Adds
  <2> QED BY <2>1, <2>2, <2>3
<1> QED
  BY <1>1, <1>2, <1>3, <1>4, <1>5, <1>6, <1>7, <1>8, <1>9, <1>10, <1>11,
     <1>12, <1>13, <1>14, <1>15, <1>16, <1>17 DEF ProvisionReads

LEMMA DeprovisionStatement ==
  ASSUME NEW i \in Indexers, NEW n \in (1 .. 8) \ {4}
  PROVE  LET statement == Statement(i)[Deprovisioning[n]]
         IN /\ statement.adds = {} /\ statement.absent = {}
            /\ statement.needs \in SUBSET Parts
            /\ statement.removes \in SUBSET Parts
            /\ \A owner, part :
                 /\ <<owner, part>> \in statement.needs
                      <=> Requires(i, n, owner, part)
                 /\ <<owner, part>> \in statement.removes
                      <=> Drops(i, n, owner, part)
<1> DEFINE statement == Statement(i)[Deprovisioning[n]]
           Typed(st) ==
             /\ st.adds = {} /\ st.absent = {}
             /\ st.needs \in SUBSET Parts
             /\ st.removes \in SUBSET Parts
           Is(st) ==
             \A owner, part :
                  /\ <<owner, part>> \in st.needs <=> Requires(i, n, owner, part)
                  /\ <<owner, part>> \in st.removes <=> Drops(i, n, owner, part)
<1>0. Account # i /\ Account \notin Indexers
  BY DataLayerAssumption
<1>1. CASE n = 1
  <2>1. statement = DropSchema(i)
    BY <1>1, DeprovisioningSteps, StatementOf
  <2>2. Typed(DropSchema(i))
    BY DEF DropSchema, Removes, Shared, Of, Sql, Parts, SharedParts, OwnParts,
           Metadata, Tracked, Tables, Jobs
  <2>3. Is(DropSchema(i))
    BY <1>1, <1>0
       DEF DropSchema, Removes, Shared, Of, Sql, Requires, Drops
  <2> QED BY <2>1, <2>2, <2>3
<1>2. CASE n = 2
  <2>1. statement = Unschedule(i, "createJob")
    BY <1>2, DeprovisioningSteps, StatementOf
  <2>2. Typed(Unschedule(i, "createJob"))
    BY DEF Unschedule, Removes, Shared, Of, Sql, Parts, SharedParts, OwnParts,
           Metadata, Tracked, Tables, Jobs
  <2>3. Is(Unschedule(i, "createJob"))
    BY <1>2, <1>0
       DEF Unschedule, Removes, Shared, Of, Sql, Requires, Drops
  <2> QED BY <2>1, <2>2, <2>3
<1>3. CASE n = 3
  <2>1. statement = Unschedule(i, "deleteJob")
    BY <1>3, DeprovisioningSteps, StatementOf
  <2>2. Typed(Unschedule(i, "deleteJob"))
    BY DEF Unschedule, Removes, Shared, Of, Sql, Parts, SharedParts, OwnParts,
           Metadata, Tracked, Tables, Jobs
  <2>3. Is(Unschedule(i, "deleteJob"))
    BY <1>3, <1>0
       DEF Unschedule, Removes, Shared, Of, Sql, Requires, Drops
  <2> QED BY <2>1, <2>2, <2>3
<1>4. CASE n = 5
  <2>1. statement = DropDatasource
    BY <1>4, DeprovisioningSteps, StatementOf
  <2>2. Typed(DropDatasource)
    BY DEF DropDatasource, Removes, Shared, Of, Sql, Parts, SharedParts, OwnParts,
           Metadata, Tracked, Tables, Jobs
  <2>3. Is(DropDatasource)
    BY <1>4, <1>0
       DEF DropDatasource, Removes, Shared, Of, Sql, Requires, Drops
  <2> QED BY <2>1, <2>2, <2>3
<1>5. CASE n = 6
  <2>1. statement = DropDatabase
    BY <1>5, DeprovisioningSteps, StatementOf
  <2>2. Typed(DropDatabase)
    BY DEF DropDatabase, Removes, Shared, Of, Sql, Parts, SharedParts, OwnParts,
           Metadata, Tracked, Tables, Jobs
  <2>3. Is(DropDatabase)
    BY <1>5, <1>0
       DEF DropDatabase, Removes, Shared, Of, Sql, Requires, Drops
  <2> QED BY <2>1, <2>2, <2>3
<1>6. CASE n = 7
  <2>1. statement = RevokeCron
    BY <1>6, DeprovisioningSteps, StatementOf
  <2>2. Typed(RevokeCron)
    BY DEF RevokeCron, Removes, Shared, Of, Sql, Parts, SharedParts, OwnParts,
           Metadata, Tracked, Tables, Jobs
  <2>3. Is(RevokeCron)
    BY <1>6, <1>0
       DEF RevokeCron, Removes, Shared, Of, Sql, Requires, Drops
  <2> QED BY <2>1, <2>2, <2>3
<1>7. CASE n = 8
  <2>1. statement = DropRole
    BY <1>7, DeprovisioningSteps, StatementOf
  <2>2. Typed(DropRole)
    BY DEF DropRole, Removes, Shared, Of, Sql, Parts, SharedParts, OwnParts,
           Metadata, Tracked, Tables, Jobs
  <2>3. Is(DropRole)
    BY <1>7, <1>0
       DEF DropRole, Removes, Shared, Of, Sql, Requires, Drops
  <2> QED BY <2>1, <2>2, <2>3
<1> QED
  BY <1>1, <1>2, <1>3, <1>4, <1>5, <1>6, <1>7

-----------------------------------------------------------------------------
(***************************************************************************)
(* Steps of the tasks in terms of the parts that are there.                *)
(***************************************************************************)
LEMMA ProvisionSkips ==
  ASSUME NEW i \in Indexers, NEW n \in 1 .. 21, NEW seen
  PROVE  Skips(i, Provisioning[n], seen) <=>
           LET sees(part) == <<i, part>> \in seen
               noUserTables == ~sees("tables") \/ sees("tablesTracked")
           IN \/ n \in {3, 4, 5, 6} /\ <<Account, "source">> \in seen
              \/ n = 7 /\ (sees("systemTracked") \/ sees("tablesTracked"))
              \/ n = 8 /\ sees("metadata")
              \/ n \in {10, 11, 12, 13} /\ sees("logs")
              \/ n = 14 /\ sees("systemTracked")
              \/ n = 15 /\ sees("systemPermitted")
              \/ n = 16 /\ sees("tables")
              \/ n = 19 /\ noUserTables
              \/ n = 21 /\ (noUserTables \/ sees("tablesPermitted"))
  BY ProvisioningSteps DEF Skips, SkipsShared, KeepsShared, SkipsOwn, Tracked

LEMMA DeprovisionSkips ==
  ASSUME NEW i \in Indexers, NEW n \in 1 .. 8, NEW seen
  PROVE  Skips(i, Deprovisioning[n], seen) <=>
           n > 4 /\ \E other \in Indexers : <<other, "schema">> \in seen
  BY DeprovisioningSteps DEF Skips, SkipsShared, KeepsShared, SkipsOwn

(* Where a pending task stands. *)
LEMMA PendingFacts ==
  ASSUME TypeOK, Bookkeeping, NEW t \in Tasks, Pending(t)
  PROVE  /\ tasks[t] \in TaskType /\ tasks[t].indexer \in Indexers
         /\ tasks[t].seen \in SUBSET Parts /\ tasks[t].kind \in Kinds
         /\ tasks[t].at \in 1 .. Len(Plan(tasks[t].kind))
         /\ tasks[t].kind = "provision" =>
              /\ tasks[t].at \in 1 .. 21
              /\ StepOf(t) = Provisioning[tasks[t].at]
              /\ StepOf(t) \in Reads <=> tasks[t].at \in ProvisionReads
         /\ tasks[t].kind # "provision" =>
              /\ tasks[t].kind = "deprovision"
              /\ tasks[t].at \in 1 .. 8
              /\ StepOf(t) = Deprovisioning[tasks[t].at]
              /\ StepOf(t) \in Reads <=> tasks[t].at = 4
<1>1. /\ tasks[t] \in TaskType /\ tasks[t].indexer \in Indexers
      /\ tasks[t].at \in Nat /\ tasks[t].at > 0
      /\ tasks[t].at <= Len(Plan(tasks[t].kind))
  <2>1. tasks[t] \in TaskType /\ tasks[t].at <= Len(Plan(tasks[t].kind))
    BY DEF TypeOK
  <2>2. tasks[t].indexer \in Indexers /\ tasks[t].at > 0
    BY DEF Bookkeeping, Pending, Started
  <2> QED BY <2>1, <2>2 DEF TaskType
<1>2. tasks[t].seen \in SUBSET Parts /\ tasks[t].kind \in Kinds
  BY <1>1 DEF TaskType
<1>3. tasks[t].at \in 1 .. Len(Plan(tasks[t].kind))
  BY <1>1, <1>2, PlanFacts
<1>4. CASE tasks[t].kind = "provision"
  <2>1. tasks[t].at \in 1 .. 21 /\ StepOf(t) = Provisioning[tasks[t].at]
    BY <1>3, <1>4, PlanFacts, ProvisioningSteps DEF StepOf
  <2>2. Provisioning[tasks[t].at] \in Reads <=> tasks[t].at \in ProvisionReads
    BY <2>1, ProvisioningSteps DEF Reads, ProvisionReads
  <2> QED BY <1>1, <1>2, <1>3, <1>4, <2>1, <2>2
<1>5. CASE tasks[t].kind # "provision"
  <2>1. tasks[t].kind = "deprovision"
    BY <1>2, <1>5 DEF Kinds
  <2>2. tasks[t].at \in 1 .. 8 /\ StepOf(t) = Deprovisioning[tasks[t].at]
    BY <1>3, <2>1, PlanFacts, DeprovisioningSteps DEF StepOf
  <2>3. Deprovisioning[tasks[t].at] \in Reads <=> tasks[t].at = 4
    BY <2>2, DeprovisioningSteps DEF Reads
  <2> QED BY <1>1, <1>2, <1>3, <1>5, <2>1, <2>2, <2>3
<1> QED BY <1>4, <1>5

(* A statement that is accepted had what it needs, and took effect. *)
LEMMA EffectFacts ==
  ASSUME TypeOK, Bookkeeping, NEW t \in Tasks, Pending(t),
         StepOf(t) \notin Reads,
         Accepted(Statement(tasks[t].indexer)[StepOf(t)]),
         has' = Effect(Statement(tasks[t].indexer)[StepOf(t)])
  PROVE  LET i == tasks[t].indexer
             n == tasks[t].at
         IN /\ has' \subseteq Parts
            /\ tasks[t].kind = "provision" =>
                 \A owner, part :
                   /\ There(owner, part)'
                        <=> There(owner, part) \/ Adds(i, n, owner, part)
                   /\ Needs(i, n, owner, part) => There(owner, part)
                   /\ Adds(i, n, owner, part) /\ There(owner, part)
                        => n \in {8, 11, 12, 13}
            /\ tasks[t].kind # "provision" =>
                 \A owner, part :
                   /\ There(owner, part)'
                        <=> There(owner, part) /\ ~Drops(i, n, owner, part)
                   /\ Requires(i, n, owner, part) => There(owner, part)
<1> DEFINE i == tasks[t].indexer
           n == tasks[t].at
           statement == Statement(i)[StepOf(t)]
<1>1. has \subseteq Parts /\ i \in Indexers
  BY PendingFacts DEF TypeOK
<1>2. /\ has' = (has \ statement.removes) \cup statement.adds
      /\ statement.needs \subseteq has /\ statement.absent \cap has = {}
  BY DEF Effect, Accepted
<1>3. CASE tasks[t].kind = "provision"
  <2>1. n \in (1 .. 21) \ ProvisionReads /\ statement = Statement(i)[Provisioning[n]]
    BY <1>3, PendingFacts
  <2>2. /\ statement.removes = {} /\ statement.adds \in SUBSET Parts
        /\ \A owner, part :
             /\ <<owner, part>> \in statement.needs
                  <=> Needs(i, n, owner, part)
             /\ <<owner, part>> \in statement.adds
                  <=> Adds(i, n, owner, part)
             /\ <<owner, part>> \in statement.absent
                  <=> Adds(i, n, owner, part) /\ n \notin {8, 11, 12, 13}
    <3> HIDE DEF i, n, statement
    <3>1. /\ Statement(i)[Provisioning[n]].removes = {}
          /\ Statement(i)[Provisioning[n]].needs \in SUBSET Parts
          /\ Statement(i)[Provisioning[n]].absent \in SUBSET Parts
          /\ Statement(i)[Provisioning[n]].adds \in SUBSET Parts
      BY <1>1, <2>1, ProvisionStatement
    <3>2. \A owner, part :
            /\ <<owner, part>> \in Statement(i)[Provisioning[n]].needs
                 <=> Needs(i, n, owner, part)
            /\ <<owner, part>> \in Statement(i)[Provisioning[n]].adds
                 <=> Adds(i, n, owner, part)
            /\ <<owner, part>> \in Statement(i)[Provisioning[n]].absent
                 <=> Adds(i, n, owner, part) /\ n \notin {8, 11, 12, 13}
      BY <1>1, <2>1, ProvisionStatement
    <3> QED BY <2>1, <3>1, <3>2
  <2> HIDE DEF statement
  <2> QED BY <1>1, <1>2, <1>3, <2>2 DEF There
<1>4. CASE tasks[t].kind # "provision"
  <2>1. n \in (1 .. 8) \ {4} /\ statement = Statement(i)[Deprovisioning[n]]
    BY <1>4, PendingFacts
  <2>2. /\ statement.adds = {}
        /\ \A owner, part :
             /\ <<owner, part>> \in statement.needs
                  <=> Requires(i, n, owner, part)
             /\ <<owner, part>> \in statement.removes
                  <=> Drops(i, n, owner, part)
    BY <1>1, <2>1, DeprovisionStatement
  <2> HIDE DEF statement
  <2> QED BY <1>1, <1>2, <1>4, <2>2 DEF There
<1> QED BY <1>3, <1>4

(* Conversely, one that has what it needs is accepted. *)
LEMMA AcceptedFacts ==
  ASSUME TypeOK, Bookkeeping, NEW t \in Tasks, Pending(t),
         StepOf(t) \notin Reads,
         LET i == tasks[t].indexer
             n == tasks[t].at
         IN \A owner, part :
              IF tasks[t].kind = "provision"
              THEN /\ Needs(i, n, owner, part) => There(owner, part)
                   /\ Adds(i, n, owner, part) /\ There(owner, part)
                        => n \in {8, 11, 12, 13}
              ELSE Requires(i, n, owner, part) => There(owner, part)
  PROVE  Accepted(Statement(tasks[t].indexer)[StepOf(t)])
<1> DEFINE i == tasks[t].indexer
           n == tasks[t].at
           statement == Statement(i)[StepOf(t)]
<1>1. i \in Indexers
  BY PendingFacts
<1>2. \A x \in Parts : x = <<x[1], x[2]>>
  BY DEF Parts
<1>3. CASE tasks[t].kind = "provision"
  <2>1. n \in (1 .. 21) \ ProvisionReads /\ statement = Statement(i)[Provisioning[n]]
    BY <1>3, PendingFacts
  <2>2. /\ statement.needs \in SUBSET Parts /\ statement.absent \in SUBSET Parts
        /\ \A owner, part :
             /\ <<owner, part>> \in statement.needs
                  <=> Needs(i, n, owner, part)
             /\ <<owner, part>> \in statement.absent
                  <=> Adds(i, n, owner, part) /\ n \notin {8, 11, 12, 13}
    <3> HIDE DEF i, n, statement
    <3>1. /\ Statement(i)[Provisioning[n]].removes = {}
          /\ Statement(i)[Provisioning[n]].needs \in SUBSET Parts
          /\ Statement(i)[Provisioning[n]].absent \in SUBSET Parts
          /\ Statement(i)[Provisioning[n]].adds \in SUBSET Parts
      BY <1>1, <2>1, ProvisionStatement
    <3>2. \A owner, part :
            /\ <<owner, part>> \in Statement(i)[Provisioning[n]].needs
                 <=> Needs(i, n, owner, part)
            /\ <<owner, part>> \in Statement(i)[Provisioning[n]].adds
                 <=> Adds(i, n, owner, part)
            /\ <<owner, part>> \in Statement(i)[Provisioning[n]].absent
                 <=> Adds(i, n, owner, part) /\ n \notin {8, 11, 12, 13}
      BY <1>1, <2>1, ProvisionStatement
    <3> QED BY <2>1, <3>1, <3>2
  <2> HIDE DEF statement
  <2>3. \A x \in statement.needs : x \in has
    BY <1>2, <1>3, <2>2 DEF There
  <2>4. \A x \in statement.absent : x \notin has
    BY <1>2, <1>3, <2>2 DEF There
  <2>5. Accepted(statement)
    BY <2>3, <2>4 DEF Accepted
  <2> QED BY <2>5 DEF statement
<1>4. CASE tasks[t].kind # "provision"
  <2>1. n \in (1 .. 8) \ {4} /\ statement = Statement(i)[Deprovisioning[n]]
    BY <1>4, PendingFacts
  <2>2. /\ statement.absent = {} /\ statement.needs \in SUBSET Parts
        /\ \A owner, part : <<owner, part>> \in statement.needs
                              <=> Requires(i, n, owner, part)
    BY <1>1, <2>1, DeprovisionStatement
  <2> HIDE DEF statement
  <2>3. \A x \in statement.needs : x \in has
    BY <1>2, <1>4, <2>2 DEF There
  <2>4. Accepted(statement)
    BY <2>2, <2>3 DEF Accepted
  <2> QED BY <2>4 DEF statement
<1> QED BY <1>3, <1>4

(* What a task has seen after a read, or that it fails. *)
LEMMA ReadFacts ==
  ASSUME TypeOK, Bookkeeping, NEW t \in Tasks, Read(t)
  PROVE  LET i == tasks[t].indexer
             n == tasks[t].at
             saw(owner, part) == <<owner, part>> \in tasks[t].seen
             sql == There(Account, "database") /\ There(Account, "source")
             becomes(task) == tasks' = [tasks EXCEPT ![t] = task]
         IN /\ Pending(t) /\ UNCHANGED <<has, faults>>
            /\ \/ /\ tasks[t].kind = "provision" /\ n \in {1, 17}
                  /\ \E seen \in SUBSET Parts :
                       /\ becomes(Advanced(tasks[t], seen))
                       /\ \A owner, part : <<owner, part>> \in seen <=>
                            IF \/ owner = Account /\ part = "source"
                               \/ owner = i /\ part \in Metadata
                            THEN There(owner, part) ELSE saw(owner, part)
               \/ /\ tasks[t].kind = "provision" /\ n \in {2, 18}
                  /\ \/ /\ There(Account, "source") /\ ~sql
                        /\ becomes(Failed(tasks[t]))
                     \/ \E seen \in SUBSET Parts :
                          /\ becomes(Advanced(tasks[t], seen))
                          /\ \A owner, part : <<owner, part>> \in seen <=>
                               IF owner = i /\ part \in Tables
                               THEN There(owner, part) /\ sql
                               ELSE saw(owner, part)
               \/ /\ tasks[t].kind = "deprovision" /\ n = 4
                  /\ \/ ~sql /\ becomes(Failed(tasks[t]))
                     \/ \E seen \in SUBSET Parts :
                          /\ sql /\ becomes(Advanced(tasks[t], seen))
                          /\ \A owner, part : <<owner, part>> \in seen <=>
                               /\ owner \in Indexers /\ part = "schema"
                               /\ There(owner, part)
<1> DEFINE i == tasks[t].indexer
           n == tasks[t].at
           sql == There(Account, "database") /\ There(Account, "source")
<1>1. /\ Pending(t) /\ StepOf(t) \in Reads /\ UNCHANGED <<has, faults>>
  BY DEF Read
<1>2. /\ has \subseteq Parts /\ tasks[t].seen \in SUBSET Parts /\ i \in Indexers
  BY <1>1, PendingFacts DEF TypeOK
<1>3. /\ Sql \subseteq has <=> sql
      /\ Shared({"source"}) \subseteq has <=> There(Account, "source")
  BY DEF Sql, Shared, There
<1>4. CASE tasks[t].kind = "provision"
  <2>1. n \in {1, 2, 17, 18} /\ StepOf(t) = Provisioning[n]
    BY <1>1, <1>4, PendingFacts DEF ProvisionReads
  <2>2. CASE n \in {1, 17}
    <3>1. StepOf(t) = "export"
      BY <2>1, <2>2, ProvisioningSteps
    <3> DEFINE metadata == Shared({"source"}) \cup Of(i, Metadata)
               seen == (tasks[t].seen \ metadata) \cup (has \cap metadata)
    <3>2. tasks' = [tasks EXCEPT ![t] = Advanced(tasks[t], seen)]
      BY <3>1 DEF Read
    <3>3. \A owner, part : <<owner, part>> \in metadata <=>
            \/ owner = Account /\ part = "source"
            \/ owner = i /\ part \in Metadata
      BY DEF Shared, Of
    <3> HIDE DEF metadata
    <3>4. seen \in SUBSET Parts
      BY <1>2
    <3>5. \A owner, part : <<owner, part>> \in seen <=>
            IF \/ owner = Account /\ part = "source"
               \/ owner = i /\ part \in Metadata
            THEN There(owner, part) ELSE <<owner, part>> \in tasks[t].seen
      BY <3>3 DEF There
    <3> QED BY <1>1, <1>4, <2>2, <3>2, <3>4, <3>5
  <2>3. CASE n \in {2, 18}
    <3>1. StepOf(t) = "listTables"
      BY <2>1, <2>3, ProvisioningSteps
    <3> DEFINE own == Of(i, Tables)
               seen == (tasks[t].seen \ own) \cup
                         (IF Sql \subseteq has THEN has \cap own ELSE {})
    <3>2. IF Shared({"source"}) \subseteq has /\ ~(Sql \subseteq has)
          THEN tasks' = [tasks EXCEPT ![t] = Failed(tasks[t])]
          ELSE tasks' = [tasks EXCEPT ![t] = Advanced(tasks[t], seen)]
      BY <3>1 DEF Read
    <3>3. \A owner, part : <<owner, part>> \in own <=> owner = i /\ part \in Tables
      BY DEF Of
    <3> HIDE DEF own
    <3>4. seen \in SUBSET Parts
      BY <1>2
    <3>5. \A owner, part : <<owner, part>> \in seen <=>
            IF owner = i /\ part \in Tables
            THEN There(owner, part) /\ sql
            ELSE <<owner, part>> \in tasks[t].seen
      BY <1>3, <3>3 DEF There
    <3> QED BY <1>1, <1>3, <1>4, <2>3, <3>2, <3>4, <3>5
  <2> QED BY <2>1, <2>2, <2>3
<1>5. CASE tasks[t].kind # "provision"
  <2>1. n = 4 /\ StepOf(t) = "listSchemas" /\ tasks[t].kind = "deprovision"
    BY <1>1, <1>5, PendingFacts, DeprovisioningSteps
  <2> DEFINE seen == has \cap Indexers \X {"schema"}
  <2>2. IF Sql \subseteq has
        THEN tasks' = [tasks EXCEPT ![t] = Advanced(tasks[t], seen)]
        ELSE tasks' = [tasks EXCEPT ![t] = Failed(tasks[t])]
    BY <2>1 DEF Read
  <2>3. \A owner, part : <<owner, part>> \in seen <=>
          owner \in Indexers /\ part = "schema" /\ There(owner, part)
    BY DEF There
  <2>4. seen \in SUBSET Parts
    BY <1>2
  <2> QED BY <1>1, <1>3, <1>5, <2>1, <2>2, <2>3, <2>4
<1> QED BY <1>4, <1>5

-----------------------------------------------------------------------------
(***************************************************************************)
(* Types and bookkeeping, kept by every step.                              *)
(***************************************************************************)
(* Nothing but the progress of the tasks changes. *)
SameTasks ==
  /\ \A u \in Tasks :
       /\ tasks'[u].kind = tasks[u].kind
       /\ tasks'[u].indexer = tasks[u].indexer
       /\ tasks'[u].beside = tasks[u].beside
       /\ Started(u)' <=> Started(u)
       /\ Pending(u)' => Pending(u)
       /\ ~Pending(u) => tasks'[u] = tasks[u]
       /\ Stands(u)' <=> Stands(u)
       /\ Undoes(u)' <=> Undoes(u)
  /\ \A u \in Tasks, i \in Indexers : Serves(u, i)' <=> Serves(u, i)
  /\ Removals' = Removals /\ Overlapping' = Overlapping
  /\ OnlyProvisionBeside' <=> OnlyProvisionBeside

LEMMA SameFacts ==
  ASSUME TypeOK, Bookkeeping, tasks' \in [Tasks -> TaskType],
         \A u \in Tasks :
           /\ tasks'[u].kind = tasks[u].kind
           /\ tasks'[u].indexer = tasks[u].indexer
           /\ tasks'[u].beside = tasks[u].beside
           /\ tasks'[u].at >= tasks[u].at \/ ~Pending(u)
           /\ Pending(u) => tasks'[u].state # "none"
           /\ ~Pending(u) => tasks'[u] = tasks[u]
  PROVE  SameTasks /\ Bookkeeping'
<1>1. \A u \in Tasks : Started(u)' <=> Started(u)
  BY DEF Started, Pending
<1>2. \A u \in Tasks : Pending(u)' => Pending(u)
  BY DEF Pending
<1>3. \A u \in Tasks, i \in Indexers : Serves(u, i)' <=> Serves(u, i)
  BY <1>1 DEF Serves
<1>4. \A u \in Tasks : (Stands(u)' <=> Stands(u)) /\ (Undoes(u)' <=> Undoes(u))
  <2> TAKE u \in Tasks
  <2>1. \A v \in Tasks :
          Serves(v, tasks[u].indexer)' <=> Serves(v, tasks[u].indexer)
    BY <1>1 DEF Serves
  <2>2. Stands(u)' <=> Stands(u)
    BY <2>1 DEF Stands
  <2>3. Undoes(u)' <=> Undoes(u)
    BY <2>1 DEF Undoes
  <2> QED BY <2>2, <2>3
<1>5. Removals' = Removals /\ Overlapping' = Overlapping
  BY DEF Removals, Overlapping
<1>6. OnlyProvisionBeside' <=> OnlyProvisionBeside
  <2>1. \A t \in Tasks : \A u \in tasks[t].beside : u \in Tasks
    <3> TAKE t \in Tasks
    <3>1. tasks'[t] \in TaskType /\ tasks'[t].beside = tasks[t].beside
      OBVIOUS
    <3> QED BY <3>1 DEF TaskType
  <2> QED BY <1>5, <2>1 DEF OnlyProvisionBeside
<1>7. Bookkeeping'
  <2>1. \A t \in Tasks :
          /\ ~Started(t)' => tasks'[t] = Unstarted
          /\ Started(t)' => tasks'[t].indexer \in Indexers
          /\ \A u \in tasks'[t].beside : u < t /\ Started(u)'
    <3> TAKE t \in Tasks
    <3>1. ~Started(t)' => tasks'[t] = Unstarted
      BY <1>1 DEF Bookkeeping, Started, Pending
    <3>2. Started(t)' => tasks'[t].indexer \in Indexers
      BY <1>1 DEF Bookkeeping
    <3>3. \A u \in tasks'[t].beside : u \in Tasks
      BY DEF TaskType
    <3>4. \A u \in tasks'[t].beside : u < t /\ Started(u)'
      BY <1>1, <3>3 DEF Bookkeeping
    <3> QED BY <3>1, <3>2, <3>4
  <2>2. \A t \in Tasks : Started(t)' => tasks'[t].at > 0
    <3> SUFFICES ASSUME NEW t \in Tasks, Started(t)' PROVE tasks'[t].at > 0
      OBVIOUS
    <3>1. tasks[t].at > 0
      BY <1>1 DEF Bookkeeping
    <3>2. tasks'[t].at \in Nat
      BY DEF TaskType
    <3>3. CASE tasks'[t].at >= tasks[t].at
      <4>1. tasks[t].at \in Nat
        BY DEF TypeOK, TaskType
      <4> QED BY <3>1, <3>2, <3>3, <4>1
    <3>4. CASE ~Pending(t)
      BY <3>1, <3>4
    <3> QED BY <3>3, <3>4
  <2>3. \A t, u \in Tasks : u < t /\ Started(t)' =>
          Started(u)' /\ (Pending(u)' => u \in tasks'[t].beside)
    BY <1>1, <1>2 DEF Bookkeeping
  <2> QED BY <2>1, <2>2, <2>3 DEF Bookkeeping
<1> QED BY <1>1, <1>2, <1>3, <1>4, <1>5, <1>6, <1>7 DEF SameTasks

(* A task takes a step, or fails. *)
LEMMA MoveFacts ==
  ASSUME TypeOK, Bookkeeping, NEW t \in Tasks, Pending(t),
         NEW next \in TaskType, tasks' = [tasks EXCEPT ![t] = next],
         next.kind = tasks[t].kind, next.indexer = tasks[t].indexer,
         next.beside = tasks[t].beside, next.at >= tasks[t].at,
         next.at <= Len(Plan(tasks[t].kind)), next.state # "none"
  PROVE  /\ tasks' \in [Tasks -> TaskType]
         /\ \A u \in Tasks : tasks'[u].at <= Len(Plan(tasks'[u].kind))
         /\ SameTasks /\ Bookkeeping'
         /\ tasks'[t] = next
         /\ \A u \in Tasks \ {t} : tasks'[u] = tasks[u]
<1>1. /\ tasks' \in [Tasks -> TaskType] /\ tasks'[t] = next
      /\ \A u \in Tasks \ {t} : tasks'[u] = tasks[u]
  BY DEF TypeOK
<1>2. \A u \in Tasks : tasks'[u].at <= Len(Plan(tasks'[u].kind))
  BY <1>1 DEF TypeOK
<1>3. SameTasks /\ Bookkeeping'
  <2>1. \A u \in Tasks :
           /\ tasks'[u].kind = tasks[u].kind
           /\ tasks'[u].indexer = tasks[u].indexer
           /\ tasks'[u].beside = tasks[u].beside
           /\ Pending(u) => tasks'[u].state # "none"
           /\ ~Pending(u) => tasks'[u] = tasks[u]
    BY <1>1 DEF Pending
  <2>2. \A u \in Tasks : tasks'[u].at >= tasks[u].at
    <3>1. \A u \in Tasks : tasks[u].at \in Nat
      BY DEF TypeOK, TaskType
    <3> QED BY <1>1, <3>1
  <2> QED BY <1>1, <2>1, <2>2, SameFacts
<1> QED BY <1>1, <1>2, <1>3

(* What a step of a pending task may be: it goes on, having seen what it   *)
(* has, or it fails.                                                       *)
Moves(t, next) ==
  /\ Pending(t) /\ next \in TaskType
  /\ tasks' = [tasks EXCEPT ![t] = next]
  /\ next.kind = tasks[t].kind /\ next.indexer = tasks[t].indexer
  /\ next.beside = tasks[t].beside /\ next.at >= tasks[t].at
  /\ next.at <= Len(Plan(tasks[t].kind)) /\ next.state # "none"

LEMMA AdvanceMoves ==
  ASSUME TypeOK, Bookkeeping, NEW t \in Tasks, Pending(t),
         NEW seen \in SUBSET Parts,
         tasks' = [tasks EXCEPT ![t] = Advanced(tasks[t], seen)]
  PROVE  Moves(t, Advanced(tasks[t], seen))
<1> DEFINE next == Advanced(tasks[t], seen)
<1>1. /\ tasks[t] \in TaskType
      /\ tasks[t].at \in 1 .. Len(Plan(tasks[t].kind))
      /\ Len(Plan(tasks[t].kind)) \in Nat
  BY PendingFacts, PlanFacts
<1>2. /\ next \in TaskType
      /\ next.kind = tasks[t].kind /\ next.indexer = tasks[t].indexer
      /\ next.beside = tasks[t].beside
      /\ \/ next.state = "complete" /\ next.at = tasks[t].at
         \/ /\ next.state = tasks[t].state
            /\ next.at \in tasks[t].at + 1 .. Len(Plan(tasks[t].kind))
  BY <1>1, AdvancedFacts
<1> HIDE DEF next
<1>3. next.at >= tasks[t].at /\ next.at <= Len(Plan(tasks[t].kind))
  BY <1>1, <1>2
<1>4. next.state # "none"
  BY <1>2 DEF Pending
<1> QED BY <1>2, <1>3, <1>4 DEF Moves, next

LEMMA FailMoves ==
  ASSUME TypeOK, Bookkeeping, NEW t \in Tasks, Pending(t),
         tasks' = [tasks EXCEPT ![t] = Failed(tasks[t])]
  PROVE  Moves(t, Failed(tasks[t]))
<1> DEFINE next == Failed(tasks[t])
<1>1. /\ tasks[t] \in TaskType
      /\ tasks[t].at \in 1 .. Len(Plan(tasks[t].kind))
      /\ Len(Plan(tasks[t].kind)) \in Nat
  BY PendingFacts, PlanFacts
<1>2. /\ next \in TaskType
      /\ next.kind = tasks[t].kind /\ next.indexer = tasks[t].indexer
      /\ next.beside = tasks[t].beside /\ next.at = tasks[t].at
      /\ next.state = tasks[t].state \/ next.state = "failed"
  BY <1>1, FailedFacts
<1> HIDE DEF next
<1>3. next.at >= tasks[t].at /\ next.at <= Len(Plan(tasks[t].kind))
  BY <1>1, <1>2
<1>4. next.state # "none"
  BY <1>2 DEF Pending
<1> QED BY <1>2, <1>3, <1>4 DEF Moves, next

(* A new task runs beside all that are pending. *)
LEMMA StartFacts ==
  ASSUME TypeOK, Bookkeeping, NEW t \in Tasks, NEW i \in Indexers,
         NEW kind \in Kinds, Start(t, i, kind)
  PROVE  /\ ~Started(t) /\ has' = has
         /\ tasks' \in [Tasks -> TaskType]
         /\ \A u \in Tasks : tasks'[u].at <= Len(Plan(tasks'[u].kind))
         /\ Bookkeeping'
         /\ tasks'[t].kind = kind /\ tasks'[t].indexer = i
         /\ tasks'[t].at = 1 /\ tasks'[t].state = "pending"
         /\ tasks'[t].seen = {} /\ tasks'[t].beside = {u \in Tasks : Pending(u)}
         /\ \A u \in Tasks \ {t} : tasks'[u] = tasks[u]
         /\ \A u \in Tasks : (u < t <=> Started(u)) /\ (u > t => ~Started(u))
<1> DEFINE running == {u \in Tasks : Pending(u)}
           next == [Unstarted EXCEPT !.kind = kind, !.indexer = i, !.at = 1,
                                     !.state = "pending", !.beside = running]
<1>1. /\ ~Started(t) /\ has' = has /\ tasks' = [tasks EXCEPT ![t] = next]
      /\ \A u \in Tasks : u < t => Started(u)
  BY DEF Start
<1>2. running \in SUBSET Tasks
  OBVIOUS
<1>3. next = [Unstarted EXCEPT !.kind = kind, !.indexer = i, !.at = 1,
                               !.state = "pending", !.beside = running]
  OBVIOUS
<1> HIDE DEF next, running
<1>4. /\ next.kind = kind /\ next.indexer = i /\ next.at = 1
       /\ next.seen = {} /\ next.state = "pending" /\ next.beside = running
  BY <1>3 DEF Unstarted
<1>5. 0 \in 0 .. MaxRetries - 1
  BY DataLayerAssumption
<1>6. next \in TaskType
  BY <1>2, <1>3, <1>5 DEF Unstarted, TaskType, TaskStates
<1> USE DEF running
<1>7. /\ tasks' \in [Tasks -> TaskType] /\ tasks'[t] = next
      /\ \A u \in Tasks \ {t} : tasks'[u] = tasks[u]
  BY <1>1, <1>6 DEF TypeOK
<1>8. \A u \in Tasks : tasks'[u].at <= Len(Plan(tasks'[u].kind))
  <2>1. Len(Plan(kind)) \in Nat /\ Len(Plan(kind)) >= 8
    BY PlanFacts
  <2>2. tasks'[t].at <= Len(Plan(tasks'[t].kind))
    BY <1>4, <1>7, <2>1
  <2> QED BY <1>7, <2>2 DEF TypeOK
<1>9. \A u \in Tasks : u > t => ~Started(u)
  BY <1>1 DEF Bookkeeping
<1>10. \A u \in Tasks : u \in Nat
  BY DataLayerAssumption DEF Tasks
<1>11. \A u \in Tasks : u < t <=> Started(u)
  BY <1>1, <1>9, <1>10
<1>12. /\ Started(t)' /\ Pending(t)'
       /\ \A u \in Tasks \ {t} :
            (Started(u)' <=> Started(u)) /\ (Pending(u)' <=> Pending(u))
  BY <1>4, <1>7 DEF Started, Pending
<1>13. Bookkeeping'
  <2>1. \A s \in Tasks :
          /\ ~Started(s)' => tasks'[s] = Unstarted
          /\ Started(s)' => tasks'[s].indexer \in Indexers /\ tasks'[s].at > 0
    BY <1>4, <1>7, <1>12 DEF Bookkeeping
  <2>2. \A s \in Tasks : \A u \in tasks'[s].beside : u < s /\ Started(u)'
    <3> TAKE s \in Tasks
    <3>1. CASE s = t
      <4>1. tasks'[s].beside = running
        BY <1>4, <1>7, <3>1
      <4>2. \A u \in running : Started(u) /\ u \in Tasks
        BY DEF Pending, Started
      <4> QED BY <1>11, <1>12, <3>1, <4>1, <4>2
    <3>2. CASE s # t
      <4>1. tasks'[s].beside = tasks[s].beside /\ tasks[s].beside \subseteq Tasks
        BY <1>7, <3>2 DEF TaskType
      <4> QED BY <1>12, <4>1 DEF Bookkeeping
    <3> QED BY <3>1, <3>2
  <2>3. \A s, u \in Tasks : u < s /\ Started(s)' =>
          Started(u)' /\ (Pending(u)' => u \in tasks'[s].beside)
    <3> SUFFICES ASSUME NEW s \in Tasks, NEW u \in Tasks, u < s, Started(s)'
                 PROVE  Started(u)' /\ (Pending(u)' => u \in tasks'[s].beside)
      OBVIOUS
    <3>1. CASE s = t
      BY <1>4, <1>7, <1>10, <1>11, <1>12, <3>1
    <3>2. CASE s # t
      <4>1. Started(s) /\ u # t
        BY <1>1, <1>9, <1>10, <1>11, <1>12, <3>2
      <4> QED BY <1>7, <1>12, <3>2, <4>1 DEF Bookkeeping
    <3> QED BY <3>1, <3>2
  <2> QED BY <2>1, <2>2, <2>3 DEF Bookkeeping
<1> QED BY <1>1, <1>4, <1>7, <1>8, <1>9, <1>11, <1>13

-----------------------------------------------------------------------------
(***************************************************************************)
(* What a step of a task does.                                             *)
(***************************************************************************)
(* The steps that t leaves out, having seen what it has. *)
LeavesOut(t, n, seen) ==
  LET sees(part) == <<tasks[t].indexer, part>> \in seen
      noUserTables == ~sees("tables") \/ sees("tablesTracked")
  IN IF tasks[t].kind = "provision"
     THEN \/ n \in {3, 4, 5, 6} /\ <<Account, "source">> \in seen
          \/ n = 7 /\ (sees("systemTracked") \/ sees("tablesTracked"))
          \/ n = 8 /\ sees("metadata")
          \/ n \in {10, 11, 12, 13} /\ sees("logs")
          \/ n = 14 /\ sees("systemTracked")
          \/ n = 15 /\ sees("systemPermitted")
          \/ n = 16 /\ sees("tables")
          \/ n = 19 /\ noUserTables
          \/ n = 21 /\ (noUserTables \/ sees("tablesPermitted"))
     ELSE n > 4 /\ \E other \in Indexers : <<other, "schema">> \in seen

Last(t) == IF tasks[t].kind = "provision" THEN 21 ELSE 8

(* t goes on, having seen what is in seen: to a step, or to its end. *)
GoesOn(t, seen) ==
  LET n == tasks[t].at
      next == tasks'[t]
  IN /\ seen \in SUBSET Parts
     /\ \/ /\ next.state = "pending" /\ next.seen = seen
           /\ next.at \in n + 1 .. Last(t) /\ ~LeavesOut(t, next.at, seen)
           /\ \A m \in n + 1 .. next.at - 1 : LeavesOut(t, m, seen)
        \/ /\ next.state = "complete" /\ next.seen = {}
           /\ \A m \in n + 1 .. Last(t) : LeavesOut(t, m, seen)

(* t fails, or will try its step again. *)
Fails(t) ==
  \/ tasks'[t].state = "failed" /\ tasks'[t].seen = {}
  \/ /\ tasks'[t].state = "pending"
     /\ tasks'[t].at = tasks[t].at /\ tasks'[t].seen = tasks[t].seen

(* The statement of t takes effect. *)
Acts(t) ==
  LET i == tasks[t].indexer
      n == tasks[t].at
  IN IF tasks[t].kind = "provision"
     THEN /\ n \notin ProvisionReads
          /\ \A owner, part :
               /\ There(owner, part)'
                    <=> There(owner, part) \/ Adds(i, n, owner, part)
               /\ Needs(i, n, owner, part) => There(owner, part)
               /\ Adds(i, n, owner, part) /\ There(owner, part)
                    => n \in {8, 11, 12, 13}
     ELSE /\ n # 4
          /\ \A owner, part :
               /\ There(owner, part)'
                    <=> There(owner, part) /\ ~Drops(i, n, owner, part)
               /\ Requires(i, n, owner, part) => There(owner, part)

(* What t has seen once it has read. *)
Looks(t, seen) ==
  LET i == tasks[t].indexer
      n == tasks[t].at
      saw(owner, part) == <<owner, part>> \in tasks[t].seen
      sql == There(Account, "database") /\ There(Account, "source")
  IN IF tasks[t].kind = "provision"
     THEN /\ n \in ProvisionReads
          /\ n \in {1, 17} =>
               \A owner, part : <<owner, part>> \in seen <=>
                 IF \/ owner = Account /\ part = "source"
                    \/ owner = i /\ part \in Metadata
                 THEN There(owner, part) ELSE saw(owner, part)
          /\ n \in {2, 18} =>
               \A owner, part : <<owner, part>> \in seen <=>
                 IF owner = i /\ part \in Tables
                 THEN There(owner, part) /\ sql ELSE saw(owner, part)
     ELSE /\ n = 4 /\ sql
          /\ \A owner, part : <<owner, part>> \in seen <=>
               owner \in Indexers /\ part = "schema" /\ There(owner, part)

(* Why the call of t is refused. *)
IsRefused(t) ==
  LET i == tasks[t].indexer
      n == tasks[t].at
      sql == There(Account, "database") /\ There(Account, "source")
  IN IF tasks[t].kind = "provision"
     THEN IF n \in ProvisionReads
          THEN n \in {2, 18} /\ There(Account, "source") /\ ~sql
          ELSE \E owner, part :
                 \/ Needs(i, n, owner, part) /\ ~There(owner, part)
                 \/ /\ Adds(i, n, owner, part) /\ There(owner, part)
                    /\ n \notin {8, 11, 12, 13}
     ELSE IF n = 4
          THEN ~sql
          ELSE \E owner, part :
                 Requires(i, n, owner, part) /\ ~There(owner, part)

LEMMA OmitsFacts ==
  ASSUME NEW t \in Tasks, tasks[t].indexer \in Indexers,
         tasks[t].kind \in Kinds, NEW seen
  PROVE  /\ Len(Plan(tasks[t].kind)) = Last(t)
         /\ \A n \in 1 .. Last(t) :
              Skips(tasks[t].indexer, Plan(tasks[t].kind)[n], seen)
                <=> LeavesOut(t, n, seen)
<1>1. CASE tasks[t].kind = "provision"
  <2>1. Plan(tasks[t].kind) = Provisioning /\ Last(t) = 21
    BY <1>1, PlanFacts DEF Last
  <2>2. \A n \in 1 .. 21 :
          Skips(tasks[t].indexer, Provisioning[n], seen) <=> LeavesOut(t, n, seen)
    BY <1>1, ProvisionSkips DEF LeavesOut
  <2> QED BY <2>1, <2>2, ProvisioningSteps
<1>2. CASE tasks[t].kind = "deprovision"
  <2>1. Plan(tasks[t].kind) = Deprovisioning /\ Last(t) = 8
    BY <1>2, PlanFacts DEF Last
  <2>2. \A n \in 1 .. 8 :
          Skips(tasks[t].indexer, Deprovisioning[n], seen) <=> LeavesOut(t, n, seen)
    BY <1>2, DeprovisionSkips DEF LeavesOut
  <2> QED BY <2>1, <2>2, DeprovisioningSteps
<1> QED BY <1>1, <1>2 DEF Kinds

LEMMA Advances ==
  ASSUME TypeOK, Bookkeeping, NEW t \in Tasks, Pending(t),
         NEW seen \in SUBSET Parts,
         tasks' = [tasks EXCEPT ![t] = Advanced(tasks[t], seen)]
  PROVE  Moves(t, Advanced(tasks[t], seen)) /\ GoesOn(t, seen)
<1> DEFINE n == tasks[t].at
           next == Advanced(tasks[t], seen)
           plan == Plan(tasks[t].kind)
           i == tasks[t].indexer
<1>1. /\ tasks[t] \in TaskType /\ i \in Indexers
      /\ tasks[t].kind \in Kinds /\ n \in 1 .. Len(plan)
      /\ tasks[t].state = "pending"
  BY PendingFacts DEF Pending
<1>2. /\ Len(plan) = Last(t) /\ Last(t) \in Nat
      /\ \A m \in 1 .. Last(t) : Skips(i, plan[m], seen) <=> LeavesOut(t, m, seen)
  BY <1>1, OmitsFacts DEF Last
<1>3. tasks'[t] = next
  BY DEF TypeOK
<1>4. \/ /\ next.state = "complete" /\ next.seen = {}
         /\ \A m \in n + 1 .. Len(plan) : Skips(i, plan[m], seen)
      \/ /\ next.state = "pending" /\ next.seen = seen
         /\ next.at \in n + 1 .. Len(plan)
         /\ ~Skips(i, plan[next.at], seen)
         /\ \A m \in n + 1 .. next.at - 1 : Skips(i, plan[m], seen)
  BY <1>1, AdvancedFacts
<1> HIDE DEF next, plan
<1>5. n \in Nat /\ \A m \in n + 1 .. Last(t) : m \in 1 .. Last(t)
  BY <1>1, <1>2
<1>6. next.at \in n + 1 .. Last(t) =>
        \A m \in n + 1 .. next.at - 1 : m \in 1 .. Last(t)
  BY <1>2, <1>5
<1>7. GoesOn(t, seen)
  BY <1>2, <1>3, <1>4, <1>5, <1>6 DEF GoesOn
<1> QED BY <1>7, AdvanceMoves DEF next

LEMMA Failures ==
  ASSUME TypeOK, Bookkeeping, NEW t \in Tasks, Pending(t),
         tasks' = [tasks EXCEPT ![t] = Failed(tasks[t])]
  PROVE  Moves(t, Failed(tasks[t])) /\ Fails(t)
<1>1. tasks[t] \in TaskType /\ tasks[t].state = "pending"
  BY PendingFacts DEF Pending
<1>2. tasks'[t] = Failed(tasks[t])
  BY DEF TypeOK
<1>3. Fails(t)
  BY <1>1, <1>2, FailedFacts DEF Fails
<1> QED BY <1>3, FailMoves

LEMMA Effects ==
  ASSUME TypeOK, Bookkeeping, NEW t \in Tasks, Pending(t),
         StepOf(t) \notin Reads,
         Accepted(Statement(tasks[t].indexer)[StepOf(t)]),
         has' = Effect(Statement(tasks[t].indexer)[StepOf(t)])
  PROVE  has' \subseteq Parts /\ Acts(t)
  BY EffectFacts, PendingFacts DEF Acts

(* Every step of a task: it reads, acts, is refused, or breaks off. *)
LEMMA TaskSteps ==
  ASSUME TypeOK, Bookkeeping, NEW t \in Tasks,
         Read(t) \/ Execute(t) \/ Breaks(t)
  PROVE  /\ Pending(t) /\ TypeOK' /\ Bookkeeping' /\ SameTasks
         /\ \A u \in Tasks \ {t} : tasks'[u] = tasks[u]
         /\ \/ \E seen : /\ GoesOn(t, seen) /\ Looks(t, seen)
                         /\ UNCHANGED <<has, faults>>
            \/ GoesOn(t, tasks[t].seen) /\ Acts(t) /\ UNCHANGED faults
            \/ Fails(t) /\ IsRefused(t) /\ UNCHANGED <<has, faults>>
            \/ Fails(t) /\ faults' > 0 /\ (UNCHANGED has \/ Acts(t))
<1>1. Pending(t)
  BY DEF Read, Execute, Breaks
<1> DEFINE Kept ==
             /\ tasks' \in [Tasks -> TaskType]
             /\ \A u \in Tasks : tasks'[u].at <= Len(Plan(tasks'[u].kind))
             /\ Bookkeeping' /\ SameTasks
             /\ \A u \in Tasks \ {t} : tasks'[u] = tasks[u]
<1>2. \A next : Moves(t, next) => Kept
  BY <1>1, MoveFacts DEF Moves
<1>3. has \subseteq Parts /\ faults \in 0 .. MaxFaults /\ MaxFaults \in Nat
  BY DataLayerAssumption DEF TypeOK
<1>4. CASE Read(t)
  <2> DEFINE seenBy(seen) ==
               /\ tasks' = [tasks EXCEPT ![t] = Advanced(tasks[t], seen)]
               /\ Looks(t, seen)
  <2>1. UNCHANGED <<has, faults>>
    BY <1>4, ReadFacts
  <2>2. \/ \E seen \in SUBSET Parts : seenBy(seen)
        \/ /\ tasks' = [tasks EXCEPT ![t] = Failed(tasks[t])]
           /\ IsRefused(t)
    BY <1>4, ReadFacts DEF Looks, IsRefused, ProvisionReads
  <2>3. CASE \E seen \in SUBSET Parts : seenBy(seen)
    <3>1. PICK seen \in SUBSET Parts : seenBy(seen)
      BY <2>3
    <3>2. Moves(t, Advanced(tasks[t], seen)) /\ GoesOn(t, seen)
      BY <1>1, <3>1, Advances
    <3>3. Kept
      BY <1>2, <3>2
    <3>4. TypeOK'
      BY <1>3, <2>1, <3>3 DEF TypeOK
    <3> QED BY <1>1, <2>1, <3>1, <3>2, <3>3, <3>4
  <2>4. CASE tasks' = [tasks EXCEPT ![t] = Failed(tasks[t])] /\ IsRefused(t)
    <3>1. Moves(t, Failed(tasks[t])) /\ Fails(t)
      BY <1>1, <2>4, Failures
    <3>2. Kept
      BY <1>2, <3>1
    <3>3. TypeOK'
      BY <1>3, <2>1, <3>2 DEF TypeOK
    <3> QED BY <1>1, <2>1, <2>4, <3>1, <3>2, <3>3
  <2> QED BY <2>2, <2>3, <2>4
<1>5. CASE Execute(t)
  <2> DEFINE statement == Statement(tasks[t].indexer)[StepOf(t)]
  <2>1. StepOf(t) \notin Reads /\ UNCHANGED faults
    BY <1>5 DEF Execute
  <2>2. CASE Accepted(statement)
    <3>1. /\ has' = Effect(statement)
          /\ tasks' = [tasks EXCEPT ![t] = Advanced(tasks[t], tasks[t].seen)]
      BY <1>5, <2>2 DEF Execute
    <3>2. has' \subseteq Parts /\ Acts(t)
      BY <1>1, <2>1, <2>2, <3>1, Effects
    <3>3. tasks[t].seen \in SUBSET Parts
      BY <1>1, PendingFacts
    <3>4. Moves(t, Advanced(tasks[t], tasks[t].seen)) /\ GoesOn(t, tasks[t].seen)
      BY <1>1, <3>1, <3>3, Advances
    <3>5. Kept
      BY <1>2, <3>4
    <3>6. TypeOK'
      BY <1>3, <2>1, <3>2, <3>5 DEF TypeOK
    <3> QED BY <1>1, <2>1, <3>2, <3>4, <3>5, <3>6
  <2>3. CASE ~Accepted(statement)
    <3>1. has' = has /\ tasks' = [tasks EXCEPT ![t] = Failed(tasks[t])]
      BY <1>5, <2>3 DEF Execute
    <3>2. Moves(t, Failed(tasks[t])) /\ Fails(t)
      BY <1>1, <3>1, Failures
    <3>3. IsRefused(t)
      <4>1. \/ tasks[t].kind = "provision" /\ tasks[t].at \notin ProvisionReads
            \/ tasks[t].kind # "provision" /\ tasks[t].at # 4
        BY <1>1, <2>1, PendingFacts
      <4> QED BY <1>1, <2>1, <2>3, <4>1, AcceptedFacts DEF IsRefused
    <3>4. Kept
      BY <1>2, <3>2
    <3>5. TypeOK'
      BY <1>3, <2>1, <3>1, <3>4 DEF TypeOK
    <3> QED BY <1>1, <2>1, <3>1, <3>2, <3>3, <3>4, <3>5
  <2> QED BY <2>2, <2>3
<1>6. CASE Breaks(t)
  <2>1. /\ faults < MaxFaults /\ faults' = faults + 1
        /\ tasks' = [tasks EXCEPT ![t] = Failed(tasks[t])]
    BY <1>6 DEF Breaks
  <2>2. faults' \in 0 .. MaxFaults /\ faults' > 0
    BY <1>3, <2>1
  <2>3. Moves(t, Failed(tasks[t])) /\ Fails(t)
    BY <1>1, <2>1, Failures
  <2>4. Kept
    BY <1>2, <2>3
  <2>5. has' \subseteq Parts /\ (has' = has \/ Acts(t))
    <3>1. \/ UNCHANGED has
          \/ /\ StepOf(t) \notin Reads
             /\ Accepted(Statement(tasks[t].indexer)[StepOf(t)])
             /\ has' = Effect(Statement(tasks[t].indexer)[StepOf(t)])
      BY <1>6 DEF Breaks
    <3> QED BY <1>1, <1>3, <3>1, Effects
  <2>6. TypeOK'
    BY <2>2, <2>4, <2>5 DEF TypeOK
  <2> QED BY <1>1, <2>2, <2>3, <2>4, <2>5, <2>6
<1> QED BY <1>4, <1>5, <1>6

LEMMA RestartFacts ==
  ASSUME TypeOK, Bookkeeping, RunnerRestarts
  PROVE  /\ TypeOK' /\ Bookkeeping' /\ SameTasks
         /\ has' = has /\ faults' > 0
         /\ \A u \in Tasks :
              IF Pending(u)
              THEN tasks'[u].state = "notFound" /\ tasks'[u].seen = {}
              ELSE tasks'[u] = tasks[u]
<1>1. /\ has' = has /\ faults < MaxFaults /\ faults' = faults + 1
      /\ tasks' = [t \in Tasks |->
                     IF Pending(t)
                     THEN [tasks[t] EXCEPT !.seen = {}, !.state = "notFound"]
                     ELSE tasks[t]]
  BY DEF RunnerRestarts
<1>2. faults' \in 0 .. MaxFaults /\ faults' > 0
  <2>1. faults \in 0 .. MaxFaults /\ MaxFaults \in Nat
    BY DataLayerAssumption DEF TypeOK
  <2>2. faults < MaxFaults /\ faults' = faults + 1
    BY <1>1
  <2> QED BY <2>1, <2>2
<1>3. \A u \in Tasks :
        /\ tasks'[u] \in TaskType
        /\ tasks'[u].kind = tasks[u].kind
        /\ tasks'[u].indexer = tasks[u].indexer
        /\ tasks'[u].beside = tasks[u].beside
        /\ tasks'[u].at = tasks[u].at
        /\ IF Pending(u)
           THEN tasks'[u].state = "notFound" /\ tasks'[u].seen = {}
           ELSE tasks'[u] = tasks[u]
  <2> TAKE u \in Tasks
  <2>1. tasks[u] \in TaskType
    BY DEF TypeOK
  <2>2. CASE Pending(u)
    <3>1. tasks'[u] = [tasks[u] EXCEPT !.seen = {}, !.state = "notFound"]
      BY <1>1, <2>2
    <3> QED BY <2>1, <2>2, <3>1 DEF TaskType, TaskStates
  <2>3. CASE ~Pending(u)
    BY <1>1, <2>1, <2>3
  <2> QED BY <2>2, <2>3
<1>4. tasks' \in [Tasks -> TaskType]
  BY <1>1, <1>3
<1>5. \A u \in Tasks : tasks'[u].at <= Len(Plan(tasks'[u].kind))
  BY <1>3 DEF TypeOK
<1>6. \A u \in Tasks : tasks'[u].at >= tasks[u].at
  <2>1. \A u \in Tasks : tasks[u].at \in Nat
    BY DEF TypeOK, TaskType
  <2> QED BY <1>3, <2>1
<1>7. SameTasks /\ Bookkeeping'
  BY <1>3, <1>4, <1>6, SameFacts
<1>8. TypeOK'
  BY <1>1, <1>2, <1>4, <1>5 DEF TypeOK
<1> QED BY <1>1, <1>2, <1>3, <1>7, <1>8

-----------------------------------------------------------------------------
(***************************************************************************)
(* The tasks and the handler.                                              *)
(***************************************************************************)
(* A handler awaits a task of its own, and runs on the word of one.  *)
Awaits ==
  \A i \in Indexers :
    /\ Waiting(i) => Serves(handler[i].task, i)
    /\ handler[i].lifecycle = "Running" =>
         \E t \in Tasks : Serves(t, i) /\ tasks[t].state = "complete"

TasksInv == TypeOK /\ Bookkeeping /\ HandlerTypeOK /\ Awaits

LEMMA TasksStart == HandlerInit => TasksInv
<1> SUFFICES ASSUME HandlerInit PROVE TasksInv
  OBVIOUS
<1>1. /\ has = {} /\ tasks = [t \in Tasks |-> Unstarted] /\ faults = 0
      /\ handler = [i \in Indexers |-> Fresh]
  BY DEF HandlerInit, Init
<1>2. Unstarted \in TaskType /\ Unstarted.at = 0 /\ Unstarted.kind = "provision"
  <2>1. 0 \in 0 .. MaxRetries - 1
    BY DataLayerAssumption
  <2> QED BY <2>1 DEF Unstarted, TaskType, Kinds, TaskStates
<1>3. TypeOK
  <2>1. 0 \in 0 .. MaxFaults
    BY DataLayerAssumption
  <2>2. 0 <= Len(Plan("provision"))
    BY PlanFacts, ProvisioningSteps
  <2> QED BY <1>1, <1>2, <2>1, <2>2 DEF TypeOK
<1>4. Bookkeeping
  <2>1. \A t \in Tasks : ~Started(t) /\ tasks[t].beside = {}
    BY <1>1 DEF Started, Unstarted
  <2> QED BY <1>1, <2>1 DEF Bookkeeping
<1>5. HandlerTypeOK /\ Awaits
  BY <1>1 DEF HandlerTypeOK, Awaits, Fresh, Lifecycles, NoTask, Waiting
<1> QED BY <1>3, <1>4, <1>5 DEF TasksInv

(* What a step may be, for the tasks and for the handlers. *)
TaskStep(t) == (Read(t) \/ Execute(t) \/ Breaks(t)) /\ UNCHANGED handler
Begins(t, i) ==
  /\ Start(t, i, Kind(i)) /\ faults' \in 0 .. MaxFaults /\ faults' >= faults
  /\ \A j \in Indexers :
       /\ handler'[j].task # NoTask =>
            \/ handler'[j].task = handler[j].task
            \/ j = i /\ handler'[j].task = t
       /\ handler'[j].lifecycle = "Running" =>
            handler[j].lifecycle = "Running"
Handles ==
  /\ UNCHANGED <<has, tasks>> /\ faults' \in 0 .. MaxFaults /\ faults' >= faults
  /\ \A j \in Indexers :
       /\ handler'[j].task \in {handler[j].task, NoTask}
       /\ handler'[j].lifecycle = "Running" =>
            \/ handler[j].lifecycle = "Running"
            \/ Waiting(j) /\ tasks[handler[j].task].state = "complete"

LEMMA ReturnsFacts ==
  ASSUME HandlerTypeOK, NEW i \in Indexers, NEW ok \in BOOLEAN, Returns(i, ok)
  PROVE  /\ HandlerTypeOK'
         /\ \A j \in Indexers :
              /\ handler'[j].task \in {handler[j].task, NoTask}
              /\ handler'[j].lifecycle = "Running" =>
                   handler[j].lifecycle = "Running" \/ (j = i /\ ok)
<1> DEFINE HandlerType == [lifecycle : Lifecycles, task : Tasks \cup {NoTask}]
           outcome == IF handler[i].lifecycle = "Deleting" THEN "Deleted"
                      ELSE IF ok THEN "Running" ELSE "Repairing"
           next == [Fresh EXCEPT !.lifecycle = outcome]
<1>1. handler \in [Indexers -> HandlerType]
  BY DEF HandlerTypeOK
<1>2. handler' = [handler EXCEPT ![i] = next]
  BY DEF Returns, Returned
<1>3. outcome \in Lifecycles /\ (outcome = "Running" => ok)
  BY DEF Lifecycles
<1> HIDE DEF outcome
<1>4. next \in HandlerType /\ next.task = NoTask /\ next.lifecycle = outcome
  BY <1>3 DEF Fresh, NoTask
<1> HIDE DEF next
<1>5. handler' \in [Indexers -> HandlerType]
  BY <1>1, <1>2, <1>4
<1> QED BY <1>1, <1>2, <1>3, <1>4, <1>5 DEF HandlerTypeOK

LEMMA HandlerSteps ==
  ASSUME TypeOK, HandlerTypeOK, HandlerNext
  PROVE  /\ HandlerTypeOK'
         /\ \/ \E t \in Tasks : TaskStep(t)
            \/ RunnerRestarts /\ UNCHANGED handler
            \/ \E t \in Tasks, i \in Indexers : Begins(t, i)
            \/ Handles
<1> DEFINE HandlerType == [lifecycle : Lifecycles, task : Tasks \cup {NoTask}]
<1>1. handler \in [Indexers -> HandlerType]
  BY DEF HandlerTypeOK
<1>2. faults \in 0 .. MaxFaults /\ MaxFaults \in Nat
  BY DataLayerAssumption DEF TypeOK
<1>3. /\ faults' = faults \/ Fault => faults' \in 0 .. MaxFaults
      /\ faults' = faults \/ Fault => faults' >= faults
  <2>1. CASE faults' = faults
    BY <1>2, <2>1
  <2>2. CASE Fault
    <3>1. faults' = faults + 1 /\ faults < MaxFaults
      BY <2>2 DEF Fault
    <3> QED BY <1>2, <3>1
  <2> QED BY <2>1, <2>2
<1>4. CASE Service /\ UNCHANGED handler
  BY <1>1, <1>4 DEF Service, TaskStep, HandlerTypeOK
<1>5. ASSUME NEW i \in Indexers, StartTask(i)
      PROVE  HandlerTypeOK' /\ \E t \in Tasks : Begins(t, i)
  <2>1. PICK t \in Tasks :
          /\ Start(t, i, Kind(i))
          /\ \/ handler' = [handler EXCEPT ![i].task = t] /\ UNCHANGED faults
             \/ Returns(i, FALSE) /\ Fault
    BY <1>5 DEF StartTask
  <2>2. CASE handler' = [handler EXCEPT ![i].task = t] /\ UNCHANGED faults
    <3>1. HandlerTypeOK'
      BY <1>1, <2>2 DEF HandlerTypeOK
    <3> DEFINE next == [handler[i] EXCEPT !.task = t]
    <3>2. \A j \in Indexers :
            IF j = i
            THEN handler'[j] = next
            ELSE handler'[j] = handler[j]
      BY <1>1, <2>2
    <3>3. \A j \in Indexers :
            /\ \/ handler'[j].task = handler[j].task
               \/ j = i /\ handler'[j].task = t
            /\ handler'[j].lifecycle = handler[j].lifecycle
      <4>1. next.task = t /\ next.lifecycle = handler[i].lifecycle
        <5>1. handler[i] \in HandlerType
          BY <1>1
        <5> QED BY <5>1
      <4> HIDE DEF next
      <4> QED BY <3>2, <4>1
    <3>4. Begins(t, i)
      BY <1>3, <2>1, <2>2, <3>3 DEF Begins
    <3> QED BY <3>1, <3>4
  <2>3. CASE Returns(i, FALSE) /\ Fault
    <3>1. /\ HandlerTypeOK'
          /\ \A j \in Indexers :
               /\ handler'[j].task \in {handler[j].task, NoTask}
               /\ handler'[j].lifecycle = "Running" =>
                    handler[j].lifecycle = "Running"
      BY <2>3, ReturnsFacts
    <3>2. faults' \in 0 .. MaxFaults /\ faults' >= faults
      BY <1>3, <2>3
    <3>3. Start(t, i, Kind(i))
      BY <2>1
    <3>4. Begins(t, i)
      BY <3>1, <3>2, <3>3 DEF Begins
    <3> QED BY <3>1, <3>4
  <2> QED BY <2>1, <2>2, <2>3
<1>6. ASSUME NEW i \in Indexers, RequestFails(i)
      PROVE  HandlerTypeOK' /\ Handles
  <2>1. Returns(i, FALSE) /\ Fault /\ UNCHANGED <<has, tasks>>
    BY <1>6 DEF RequestFails
  <2>2. /\ HandlerTypeOK'
        /\ \A j \in Indexers :
             /\ handler'[j].task \in {handler[j].task, NoTask}
             /\ handler'[j].lifecycle = "Running" =>
                  handler[j].lifecycle = "Running"
    BY <2>1, ReturnsFacts
  <2> QED BY <1>3, <2>1, <2>2 DEF Handles
<1>7. ASSUME NEW i \in Indexers, Poll(i)
      PROVE  HandlerTypeOK' /\ Handles
  <2>1. PICK ok \in BOOLEAN :
          /\ Returns(i, ok) /\ (faults' = faults \/ Fault)
          /\ ok => TaskStatus(handler[i].task) = "Complete"
    BY <1>7 DEF Poll
  <2>2. Waiting(i) /\ UNCHANGED <<has, tasks>>
    BY <1>7 DEF Poll
  <2>3. ok => tasks[handler[i].task].state = "complete"
    BY <2>1 DEF TaskStatus
  <2>4. /\ HandlerTypeOK'
        /\ \A j \in Indexers :
             /\ handler'[j].task \in {handler[j].task, NoTask}
             /\ handler'[j].lifecycle = "Running" =>
                  handler[j].lifecycle = "Running" \/ (j = i /\ ok)
    BY <2>1, ReturnsFacts
  <2> QED BY <1>3, <2>1, <2>2, <2>3, <2>4 DEF Handles
<1>8. ASSUME NEW i \in Indexers, Remove(i)
      PROVE  HandlerTypeOK' /\ Handles
  <2>1. handler' = [handler EXCEPT ![i].lifecycle = "Deleting"] /\ UNCHANGED vars
    BY <1>8 DEF Remove
  <2>2. HandlerTypeOK'
    BY <1>1, <2>1 DEF HandlerTypeOK, Lifecycles
  <2>3. \A j \in Indexers :
          /\ handler'[j].task = handler[j].task
          /\ handler'[j].lifecycle = "Running" => handler[j].lifecycle = "Running"
    BY <1>1, <2>1
  <2> QED BY <1>3, <2>1, <2>2, <2>3 DEF Handles, vars
<1>9. ASSUME NEW i \in Indexers, RegisterAgain(i)
      PROVE  HandlerTypeOK' /\ Handles
  <2>1. handler' = [handler EXCEPT ![i] = Fresh] /\ UNCHANGED vars
    BY <1>9 DEF RegisterAgain
  <2>2. HandlerTypeOK'
    BY <1>1, <2>1 DEF HandlerTypeOK, Lifecycles, Fresh
  <2>3. \A j \in Indexers :
          /\ handler'[j].task \in {handler[j].task, NoTask}
          /\ handler'[j].lifecycle = "Running" => handler[j].lifecycle = "Running"
    BY <1>1, <2>1 DEF Fresh
  <2> QED BY <1>3, <2>1, <2>2, <2>3 DEF Handles, vars
<1>10. ASSUME CoordinatorCrash
       PROVE  HandlerTypeOK' /\ Handles
  <2>1. /\ UNCHANGED vars
        /\ handler' = [i \in Indexers |->
                         [Fresh EXCEPT !.lifecycle = handler[i].lifecycle]]
    BY <1>10 DEF CoordinatorCrash
  <2>2. \A j \in Indexers :
          /\ handler'[j] \in HandlerType /\ handler'[j].task = NoTask
          /\ handler'[j].lifecycle = handler[j].lifecycle
    BY <1>1, <2>1 DEF Fresh
  <2>3. handler' \in [Indexers -> HandlerType]
    BY <2>1, <2>2
  <2> QED BY <1>3, <2>1, <2>2, <2>3 DEF Handles, vars, HandlerTypeOK
<1> QED BY <1>4, <1>5, <1>6, <1>7, <1>8, <1>9, <1>10 DEF HandlerNext

(* Tasks and handlers keep what relates them. *)
LEMMA TasksStep ==
  ASSUME TasksInv, [HandlerNext]_handlerVars
  PROVE  TasksInv'
<1>1. CASE UNCHANGED handlerVars
  <2> USE <1>1 DEF handlerVars, vars
  <2>1. TypeOK'
    BY DEF TasksInv, TypeOK
  <2>2. Bookkeeping'
    BY DEF TasksInv, Bookkeeping, Started, Pending
  <2>3. HandlerTypeOK' /\ Awaits'
    BY DEF TasksInv, HandlerTypeOK, Awaits, Waiting, Serves, Started
  <2> QED BY <2>1, <2>2, <2>3 DEF TasksInv
<1>2. CASE HandlerNext
  <2> USE DEF TasksInv
  <2>1. HandlerTypeOK' /\ \A i \in Indexers : handler[i].task \in Tasks \cup {NoTask}
    BY <1>2, HandlerSteps DEF HandlerTypeOK
  <2>2. ASSUME TypeOK', Bookkeeping', UNCHANGED handler, SameTasks,
               \A u \in Tasks : Pending(u) \/ tasks'[u] = tasks[u]
        PROVE  TasksInv'
    <3>1. \A i \in Indexers : Waiting(i) => handler[i].task \in Tasks
      BY <2>1 DEF Waiting
    <3>2. \A i \in Indexers : Waiting(i)' => Serves(handler[i].task, i)'
      BY <2>2, <3>1 DEF Awaits, Waiting, SameTasks
    <3>3. \A t \in Tasks : tasks[t].state = "complete" => tasks'[t] = tasks[t]
      BY <2>2 DEF Pending
    <3>4. \A i \in Indexers : handler'[i].lifecycle = "Running" =>
            \E t \in Tasks : Serves(t, i)' /\ tasks'[t].state = "complete"
      BY <2>2, <3>3 DEF Awaits, SameTasks
    <3>5. Awaits'
      BY <2>2, <3>2, <3>4 DEF Awaits
    <3> QED BY <2>1, <2>2, <3>5
  <2>3. ASSUME NEW t \in Tasks, TaskStep(t)
        PROVE  TasksInv'
    <3>1. /\ Pending(t) /\ TypeOK' /\ Bookkeeping' /\ SameTasks
          /\ \A u \in Tasks \ {t} : tasks'[u] = tasks[u]
      BY <2>3, TaskSteps DEF TaskStep
    <3> QED BY <2>2, <2>3, <3>1 DEF TaskStep
  <2>4. CASE RunnerRestarts /\ UNCHANGED handler
    BY <2>2, <2>4, RestartFacts
  <2>5. ASSUME NEW t \in Tasks, NEW i \in Indexers, Begins(t, i)
        PROVE  TasksInv'
    <3>1. Kind(i) \in Kinds
      BY DEF Kind, Kinds
    <3>2. /\ ~Started(t) /\ has' = has
          /\ tasks' \in [Tasks -> TaskType]
          /\ \A u \in Tasks : tasks'[u].at <= Len(Plan(tasks'[u].kind))
          /\ Bookkeeping'
          /\ tasks'[t].indexer = i /\ tasks'[t].state = "pending"
          /\ \A u \in Tasks \ {t} : tasks'[u] = tasks[u]
      BY <2>5, <3>1, StartFacts DEF Begins
    <3>3. TypeOK'
      BY <2>5, <3>2 DEF TypeOK, Begins
    <3>4. \A u \in Tasks, j \in Indexers : Serves(u, j) => Serves(u, j)'
      BY <3>2 DEF Serves, Started
    <3>5. Serves(t, i)' /\ \A j \in Indexers : ~Serves(t, j)
      BY <3>2 DEF Serves, Started
    <3>6. \A j \in Indexers : Waiting(j)' => Serves(handler[j].task, j)'
      <4> SUFFICES ASSUME NEW j \in Indexers, Waiting(j)'
                   PROVE  Serves(handler[j].task, j)'
        OBVIOUS
      <4>1. CASE handler'[j].task = handler[j].task
        <5>1. Waiting(j) /\ handler[j].task \in Tasks
          BY <2>1, <4>1 DEF Waiting
        <5>2. Serves(handler[j].task, j)
          BY <5>1 DEF Awaits
        <5> QED BY <3>2, <3>5, <4>1, <5>1, <5>2 DEF Serves, Started
      <4>2. CASE j = i /\ handler'[j].task = t
        BY <3>5, <4>2 DEF Serves, Started
      <4> QED BY <2>5, <4>1, <4>2 DEF Begins, Waiting
    <3>7. \A j \in Indexers : handler'[j].lifecycle = "Running" =>
            \E u \in Tasks : Serves(u, j)' /\ tasks'[u].state = "complete"
      <4> SUFFICES ASSUME NEW j \in Indexers, handler'[j].lifecycle = "Running"
                   PROVE  \E u \in Tasks : Serves(u, j)' /\ tasks'[u].state = "complete"
        OBVIOUS
      <4>1. PICK u \in Tasks : Serves(u, j) /\ tasks[u].state = "complete"
        BY <2>5 DEF Begins, Awaits
      <4>2. u # t
        BY <3>5, <4>1
      <4> QED BY <3>2, <3>4, <4>1, <4>2
    <3>8. Awaits'
      BY <3>6, <3>7 DEF Awaits, Waiting
    <3> QED BY <2>1, <3>2, <3>3, <3>8
  <2>6. CASE Handles
    <3>1. TypeOK'
      BY <2>6 DEF Handles, TypeOK
    <3>2. Bookkeeping'
      BY <2>6 DEF Handles, Bookkeeping, Started, Pending
    <3>3. \A u \in Tasks, j \in Indexers : Serves(u, j)' <=> Serves(u, j)
      BY <2>6 DEF Handles, Serves, Started
    <3>4. \A j \in Indexers : Waiting(j)' => Serves(handler[j].task, j)'
      <4> SUFFICES ASSUME NEW j \in Indexers, Waiting(j)'
                   PROVE  Serves(handler[j].task, j)'
        OBVIOUS
      <4>1. handler'[j].task = handler[j].task /\ Waiting(j)
        BY <2>6 DEF Handles, Waiting
      <4>2. handler[j].task \in Tasks
        BY <2>1, <4>1 DEF Waiting
      <4>3. Serves(handler[j].task, j)
        BY <4>1 DEF Awaits
      <4> QED BY <2>6, <4>1, <4>2, <4>3 DEF Handles, Serves, Started
    <3>5. \A j \in Indexers : handler'[j].lifecycle = "Running" =>
            \E u \in Tasks : Serves(u, j)' /\ tasks'[u].state = "complete"
      <4> SUFFICES ASSUME NEW j \in Indexers, handler'[j].lifecycle = "Running"
                   PROVE  \E u \in Tasks : Serves(u, j) /\ tasks[u].state = "complete"
        BY <2>6, <3>3 DEF Handles
      <4>1. CASE Waiting(j) /\ tasks[handler[j].task].state = "complete"
        <5>1. handler[j].task \in Tasks
          BY <2>1, <4>1 DEF Waiting
        <5> QED BY <4>1, <5>1 DEF Awaits
      <4>2. CASE handler[j].lifecycle = "Running"
        BY <4>2 DEF Awaits
      <4> QED BY <2>6, <4>1, <4>2 DEF Handles
    <3>6. Awaits'
      BY <3>4, <3>5 DEF Awaits, Waiting
    <3> QED BY <2>1, <3>1, <3>2, <3>6
  <2> QED BY <1>2, <2>3, <2>4, <2>5, <2>6, HandlerSteps
<1> QED BY <1>1, <1>2

(* The state of every task and handler has its type, tasks are started in  *)
(* order, and a handler waits only for a task of its own Indexer.          *)
THEOREM DataLayerTypeCorrect == HandlerSpec => []TasksInv
  BY TasksStart, TasksStep, PTL DEF HandlerSpec

-----------------------------------------------------------------------------
(***************************************************************************)
(* While nothing is deprovisioned: parts are only added, in an order that  *)
(* makes what a task saw, and left out for it, stay true.                  *)
(***************************************************************************)
Order ==
  /\ There(Account, "source") =>
       There(Account, "database") /\ There(Account, "user")
  /\ \A i \in Indexers :
       /\ There(i, "metadata") \/ There(i, "logs") => There(i, "schema")
       /\ There(i, "systemTracked") =>
            /\ There(Account, "cron")
            /\ \A part \in {"metadata", "logs", "createJob", "deleteJob"} :
                 There(i, part)
       /\ There(i, "tablesTracked") => There(i, "systemTracked")

StillThere(t) ==
  \A owner, part : <<owner, part>> \in tasks[t].seen => There(owner, part)

(* What t, at its step n, has behind it. *)
Reached(t) ==
  LET i == tasks[t].indexer
      n == tasks[t].at
  IN /\ n > 6 => There(Account, "source")
     /\ n > 14 => There(i, "systemTracked")
     /\ n > 15 => There(i, "systemPermitted")
     /\ n > 16 => There(i, "tables")
     /\ n > 18 => Sees(t, "tables")
     /\ n > 19 => There(i, "tablesTracked")
     /\ n \in 8 .. 17 /\ ~Sees(t, "systemTracked") /\ ~Sees(t, "tablesTracked") =>
          /\ ~Sees(t, "logs")
          /\ n > 11 => There(Account, "cron")
          /\ n > 12 => There(i, "createJob")
          /\ n > 13 => There(i, "deleteJob")

Ready(i) ==
  /\ There(Account, "source")
  /\ \A part \in {"systemTracked", "systemPermitted", "tables", "tablesTracked"} :
       There(i, part)

Growing ==
  /\ Order
  /\ \A t \in Tasks :
       /\ Pending(t) => StillThere(t) /\ Reached(t)
       /\ \A i \in Indexers :
            tasks[t].state = "complete" /\ tasks[t].indexer = i => Ready(i)
GrowInv == Removals = {} => Growing

(* Reads and statements of a provisioning. *)
Provisions(t, seen) ==
  \/ Looks(t, seen) /\ UNCHANGED has
  \/ Acts(t) /\ seen = tasks[t].seen

LEMMA Grown ==
  ASSUME TypeOK, Bookkeeping, NEW t \in Tasks, Pending(t),
         tasks[t].kind = "provision", NEW seen, Provisions(t, seen)
  PROVE  /\ \A owner, part : There(owner, part) => There(owner, part)'
         /\ StillThere(t) =>
              \A owner, part : <<owner, part>> \in seen => There(owner, part)'
<1>1. \A owner, part : There(owner, part) => There(owner, part)'
  <2>1. CASE UNCHANGED has
    BY <2>1 DEF There
  <2>2. CASE Acts(t)
    BY <2>2 DEF Acts
  <2> QED BY <2>1, <2>2 DEF Provisions
<1>2. ASSUME StillThere(t), NEW owner, NEW part, <<owner, part>> \in seen
      PROVE  There(owner, part)'
  <2>1. CASE seen = tasks[t].seen
    BY <1>1, <1>2, <2>1 DEF StillThere
  <2>2. CASE Looks(t, seen)
    <3>1. There(owner, part) \/ <<owner, part>> \in tasks[t].seen
      BY <1>2, <2>2 DEF Looks, ProvisionReads
    <3> QED BY <1>1, <1>2, <3>1 DEF StillThere
  <2> QED BY <2>1, <2>2 DEF Provisions
<1> QED BY <1>1, <1>2

LEMMA OrderKept ==
  ASSUME TypeOK, Bookkeeping, NEW t \in Tasks, Pending(t),
         tasks[t].kind = "provision", NEW seen, Provisions(t, seen),
         Order, StillThere(t), Reached(t)
  PROVE  Order'
<1> DEFINE i == tasks[t].indexer
           n == tasks[t].at
<1>1. i \in Indexers /\ i # Account /\ n \in 1 .. 21
  BY PendingFacts, DataLayerAssumption
<1>2. CASE UNCHANGED has
  BY <1>2 DEF Order, There
<1>3. CASE Acts(t)
  <2>1. /\ n \notin ProvisionReads
        /\ \A owner, part :
             /\ There(owner, part)'
                  <=> There(owner, part) \/ Adds(i, n, owner, part)
             /\ Needs(i, n, owner, part) => There(owner, part)
             /\ Adds(i, n, owner, part) /\ There(owner, part)
                  => n \in {8, 11, 12, 13}
    BY <1>3 DEF Acts
  <2>2. There(Account, "source")' =>
          There(Account, "database")' /\ There(Account, "user")'
    <3>1. Adds(i, n, Account, "source") =>
            Needs(i, n, Account, "database") /\ Needs(i, n, Account, "user")
      BY <1>1 DEF Adds, Needs
    <3> QED BY <2>1, <3>1 DEF Order
  <2>3. ASSUME NEW j \in Indexers
        PROVE  There(j, "metadata")' \/ There(j, "logs")' => There(j, "schema")'
    <3>1. Adds(i, n, j, "metadata") \/ Adds(i, n, j, "logs")
            => Needs(i, n, j, "schema")
      BY <1>1, DataLayerAssumption DEF Adds, Needs
    <3> QED BY <2>1, <3>1 DEF Order
  <2>4. ASSUME NEW j \in Indexers, There(j, "systemTracked")'
        PROVE  /\ There(Account, "cron")'
               /\ \A part \in {"metadata", "logs", "createJob", "deleteJob"} :
                    There(j, part)'
    <3>1. CASE There(j, "systemTracked")
      BY <2>1, <3>1 DEF Order
    <3>2. CASE ~There(j, "systemTracked")
      <4>1. Adds(i, n, j, "systemTracked")
        BY <2>1, <2>4, <3>2
      <4>2. n = 14 /\ j = i
        BY <1>1, <4>1, DataLayerAssumption DEF Adds
      <4>3. There(j, "metadata") /\ There(j, "logs")
        BY <2>1, <4>2 DEF Needs
      <4>4. ~There(j, "tablesTracked")
        BY <3>2 DEF Order
      <4>5. ~Sees(t, "systemTracked") /\ ~Sees(t, "tablesTracked")
        BY <3>2, <4>2, <4>4 DEF Sees, StillThere
      <4>6. There(Account, "cron") /\ There(j, "createJob") /\ There(j, "deleteJob")
        BY <4>2, <4>5 DEF Reached
      <4> QED BY <2>1, <4>3, <4>6
    <3> QED BY <3>1, <3>2
  <2>5. ASSUME NEW j \in Indexers, There(j, "tablesTracked")'
        PROVE  There(j, "systemTracked")'
    <3>1. CASE There(j, "tablesTracked")
      BY <2>1, <3>1 DEF Order
    <3>2. CASE ~There(j, "tablesTracked")
      <4>1. Adds(i, n, j, "tablesTracked")
        BY <2>1, <2>5, <3>2
      <4>2. n = 19 /\ j = i
        BY <1>1, <4>1, DataLayerAssumption DEF Adds
      <4> QED BY <2>1, <4>2 DEF Reached
    <3> QED BY <3>1, <3>2
  <2> QED BY <2>2, <2>3, <2>4, <2>5 DEF Order
<1> QED BY <1>2, <1>3 DEF Provisions

LEMMA ReachedKept ==
  ASSUME TypeOK, Bookkeeping, SameTasks, NEW t \in Tasks, Pending(t),
         tasks[t].kind = "provision", NEW seen, Provisions(t, seen),
         GoesOn(t, seen), Order, StillThere(t), Reached(t)
  PROVE  /\ Pending(t)' => StillThere(t)' /\ Reached(t)'
         /\ \A i \in Indexers :
              tasks'[t].state = "complete" /\ tasks[t].indexer = i => Ready(i)'
<1>1. PICK i \in Indexers, n \in 1 .. 21 :
        i = tasks[t].indexer /\ n = tasks[t].at /\ tasks'[t].indexer = i
  BY PendingFacts DEF SameTasks
<1> DEFINE sees(part) == <<i, part>> \in seen
           next == tasks'[t].at
           past(m) == tasks'[t].state = "complete" \/ next > m
<1>2. /\ \A owner, part : There(owner, part) => There(owner, part)'
      /\ \A owner, part : <<owner, part>> \in seen => There(owner, part)'
  BY Grown
<1>3. \A m \in 1 .. 21 : past(m) => n > m \/ n = m \/ LeavesOut(t, m, seen)
  <2>1. CASE /\ tasks'[t].state = "pending"
             /\ next \in n + 1 .. Last(t)
             /\ \A m \in n + 1 .. next - 1 : LeavesOut(t, m, seen)
    <3> SUFFICES ASSUME NEW m \in 1 .. 21, next > m, n < m
                 PROVE  LeavesOut(t, m, seen)
      BY <1>1, <2>1
    <3>1. m \in n + 1 .. next - 1
      BY <1>1, <2>1 DEF Last
    <3> QED BY <2>1, <3>1
  <2>2. CASE \A m \in n + 1 .. Last(t) : LeavesOut(t, m, seen)
    <3> SUFFICES ASSUME NEW m \in 1 .. 21, n < m
                 PROVE  LeavesOut(t, m, seen)
      BY <1>1
    <3>1. m \in n + 1 .. Last(t)
      BY <1>1 DEF Last
    <3> QED BY <2>2, <3>1
  <2> QED BY <1>1, <2>1, <2>2 DEF GoesOn
<1>4. /\ Pending(t)' => next \in n + 1 .. 21 /\ tasks'[t].seen = seen
      /\ ~LeavesOut(t, next, seen) \/ ~Pending(t)'
  BY <1>1 DEF GoesOn, Pending, Last
<1>5. n \notin ProvisionReads =>
        /\ seen = tasks[t].seen
        /\ \A owner, part :
             /\ Adds(i, n, owner, part) => There(owner, part)'
             /\ Adds(i, n, owner, part) /\ There(owner, part)
                  => n \in {8, 11, 12, 13}
  BY <1>1 DEF Provisions, Acts, Looks
<1>6. n \in {2, 18} =>
        \A owner, part : <<owner, part>> \in seen <=>
          IF owner = i /\ part \in Tables
          THEN /\ There(owner, part)
               /\ There(Account, "database") /\ There(Account, "source")
          ELSE <<owner, part>> \in tasks[t].seen
  BY <1>1 DEF Provisions, Looks, Acts, ProvisionReads
<1> HIDE DEF next
<1>7. past(6) => There(Account, "source")'
  <2>1. n = 6 => Adds(i, n, Account, "source") /\ n \notin ProvisionReads
    BY DEF Adds, ProvisionReads
  <2>2. LeavesOut(t, 6, seen) => <<Account, "source">> \in seen
    BY DEF LeavesOut
  <2>3. n > 6 => There(Account, "source")
    BY <1>1 DEF Reached
  <2> QED BY <1>2, <1>3, <1>5, <2>1, <2>2, <2>3
<1>8. past(14) => There(i, "systemTracked")'
  <2>1. n = 14 => Adds(i, n, i, "systemTracked") /\ n \notin ProvisionReads
    BY DEF Adds, ProvisionReads
  <2>2. LeavesOut(t, 14, seen) => sees("systemTracked")
    BY <1>1 DEF LeavesOut
  <2>3. n > 14 => There(i, "systemTracked")
    BY <1>1 DEF Reached
  <2>4. past(14) => n > 14 \/ n = 14 \/ LeavesOut(t, 14, seen)
    BY <1>3
  <2> QED BY <1>2, <1>5, <2>1, <2>2, <2>3, <2>4
<1>9. past(15) => There(i, "systemPermitted")'
  <2>1. n = 15 => Adds(i, n, i, "systemPermitted") /\ n \notin ProvisionReads
    BY DEF Adds, ProvisionReads
  <2>2. LeavesOut(t, 15, seen) => sees("systemPermitted")
    BY <1>1 DEF LeavesOut
  <2>3. n > 15 => There(i, "systemPermitted")
    BY <1>1 DEF Reached
  <2>4. past(15) => n > 15 \/ n = 15 \/ LeavesOut(t, 15, seen)
    BY <1>3
  <2> QED BY <1>2, <1>5, <2>1, <2>2, <2>3, <2>4
<1>10. past(16) => There(i, "tables")'
  <2>1. n = 16 => Adds(i, n, i, "tables") /\ n \notin ProvisionReads
    BY DEF Adds, ProvisionReads
  <2>2. LeavesOut(t, 16, seen) => sees("tables")
    BY <1>1 DEF LeavesOut
  <2>3. n > 16 => There(i, "tables")
    BY <1>1 DEF Reached
  <2>4. past(16) => n > 16 \/ n = 16 \/ LeavesOut(t, 16, seen)
    BY <1>3
  <2> QED BY <1>2, <1>5, <2>1, <2>2, <2>3, <2>4
<1>11. past(18) => sees("tables")
  <2>1. n > 18 => Sees(t, "tables") /\ n \notin ProvisionReads
    BY <1>1 DEF Reached, ProvisionReads
  <2>2. ~LeavesOut(t, 18, seen)
    BY DEF LeavesOut
  <2>3. n = 18 => /\ There(i, "tables") /\ There(Account, "source")
                  /\ There(Account, "database")
    BY <1>1 DEF Reached, Order
  <2>4. "tables" \in Tables
    BY DEF Tables
  <2> QED BY <1>3, <1>5, <1>6, <2>1, <2>2, <2>3, <2>4, <1>1 DEF Sees
<1>12. past(19) => There(i, "tablesTracked")'
  <2>1. n = 19 => Adds(i, n, i, "tablesTracked") /\ n \notin ProvisionReads
    BY DEF Adds, ProvisionReads
  <2>2. LeavesOut(t, 19, seen) => ~sees("tables") \/ sees("tablesTracked")
    BY <1>1 DEF LeavesOut
  <2>3. n > 19 => There(i, "tablesTracked")
    BY <1>1 DEF Reached
  <2>4. past(19) => past(18)
    BY <1>1, <1>4 DEF GoesOn, Pending, next
  <2>5. past(19) => n > 19 \/ n = 19 \/ LeavesOut(t, 19, seen)
    BY <1>3
  <2> QED BY <1>2, <1>5, <1>11, <2>1, <2>2, <2>3, <2>4, <2>5
<1>13. ASSUME Pending(t)', next \in 8 .. 17, ~sees("systemTracked"),
              ~sees("tablesTracked")
       PROVE  /\ ~sees("logs")
              /\ next > 11 => There(Account, "cron")'
              /\ next > 12 => There(i, "createJob")'
              /\ next > 13 => There(i, "deleteJob")'
  <2>0. n \in 1 .. 16
    BY <1>1, <1>4, <1>13
  <2>1. n > 6
    <3>1. past(7)
      BY <1>13
    <3>2. ~LeavesOut(t, 7, seen)
      BY <1>13, <1>1 DEF LeavesOut
    <3> QED BY <1>3, <2>0, <3>1, <3>2
  <2>2. n \notin ProvisionReads /\ seen = tasks[t].seen
    BY <1>5, <2>0, <2>1 DEF ProvisionReads
  <2>3. ~sees("logs")
    <3>1. CASE n = 7
      <4>1. Adds(i, n, i, "schema")
        BY <3>1 DEF Adds
      <4>2. ~There(i, "schema")
        BY <1>5, <2>2, <3>1, <4>1
      <4>3. ~There(i, "logs")
        BY <1>1, <4>2 DEF Order
      <4> QED BY <2>2, <4>3, <1>1 DEF StillThere
    <3>2. CASE n > 7
      <4>1. n \in 8 .. 17
        BY <2>0, <3>2
      <4> QED BY <1>13, <2>2, <4>1, <1>1 DEF Reached, Sees
    <3> QED BY <2>0, <2>1, <3>1, <3>2
  <2>4. /\ n = 11 => Adds(i, n, Account, "cron")
        /\ n = 12 => Adds(i, n, i, "createJob")
        /\ n = 13 => Adds(i, n, i, "deleteJob")
    BY DEF Adds
  <2>5. \A m \in {11, 12, 13} : ~LeavesOut(t, m, seen)
    BY <2>3, <1>1 DEF LeavesOut
  <2>6. n > 11 => There(Account, "cron")
    BY <1>13, <2>0, <2>2, <1>1 DEF Reached, Sees
  <2>7. n > 12 => There(i, "createJob")
    BY <1>13, <2>0, <2>2, <1>1 DEF Reached, Sees
  <2>8. n > 13 => There(i, "deleteJob")
    BY <1>13, <2>0, <2>2, <1>1 DEF Reached, Sees
  <2>9. next > 11 => There(Account, "cron")'
    <3>1. next > 11 => n > 11 \/ n = 11
      BY <1>3, <2>5
    <3> QED BY <1>2, <1>5, <2>2, <2>4, <2>6, <3>1
  <2>10. next > 12 => There(i, "createJob")'
    <3>1. next > 12 => n > 12 \/ n = 12
      BY <1>3, <2>5
    <3> QED BY <1>2, <1>5, <2>2, <2>4, <2>7, <3>1
  <2>11. next > 13 => There(i, "deleteJob")'
    <3>1. next > 13 => n > 13 \/ n = 13
      BY <1>3, <2>5
    <3> QED BY <1>2, <1>5, <2>2, <2>4, <2>8, <3>1
  <2> QED BY <2>3, <2>9, <2>10, <2>11
<1>14. Pending(t)' => StillThere(t)'
  BY <1>2, <1>4 DEF StillThere
<1>15. ASSUME Pending(t)' PROVE Reached(t)'
  <2>1. tasks'[t].seen = seen /\ tasks'[t].indexer = i /\ tasks'[t].at = next
    BY <1>1, <1>4, <1>15 DEF next
  <2>2. \A part : Sees(t, part)' <=> sees(part)
    BY <2>1 DEF Sees
  <2>3. /\ next > 6 => There(Account, "source")'
        /\ next > 14 => There(i, "systemTracked")'
        /\ next > 15 => There(i, "systemPermitted")'
        /\ next > 16 => There(i, "tables")'
        /\ next > 18 => sees("tables")
        /\ next > 19 => There(i, "tablesTracked")'
    BY <1>7, <1>8, <1>9, <1>10, <1>11, <1>12
  <2> HIDE DEF next
  <2> QED BY <1>13, <1>15, <2>1, <2>2, <2>3 DEF Reached
<1>16. tasks'[t].state = "complete" => Ready(i)'
  BY <1>7, <1>8, <1>9, <1>10, <1>12 DEF Ready
<1> QED BY <1>14, <1>15, <1>16, <1>1

(* A task that stands where it stood loses nothing while parts are only added. *)
LEMMA Unmoved ==
  ASSUME NEW t \in Tasks, NEW i, i = tasks[t].indexer, i = tasks'[t].indexer,
         tasks'[t].at = tasks[t].at, tasks'[t].seen = tasks[t].seen,
         \A owner, part : There(owner, part) => There(owner, part)'
  PROVE  /\ StillThere(t) => StillThere(t)'
         /\ Reached(t) => Reached(t)'
<1>1. StillThere(t) => StillThere(t)'
  BY DEF StillThere
<1>2. \A part : Sees(t, part)' <=> Sees(t, part)
  BY DEF Sees
<1>3. ASSUME Reached(t) PROVE Reached(t)'
  BY <1>2, <1>3 DEF Reached
<1> QED BY <1>1, <1>3

LEMMA ReadyKept ==
  ASSUME NEW i, \A owner, part : There(owner, part) => There(owner, part)'
  PROVE  Ready(i) => Ready(i)'
  BY DEF Ready

LEMMA GrowStep ==
  ASSUME TasksInv, GrowInv, [HandlerNext]_handlerVars
  PROVE  GrowInv'
<1> SUFFICES ASSUME Removals' = {} PROVE Growing'
  BY DEF GrowInv
<1> DEFINE Kept(u) ==
             /\ Pending(u)' => StillThere(u)' /\ Reached(u)'
             /\ \A i \in Indexers :
                  tasks'[u].state = "complete" /\ tasks'[u].indexer = i => Ready(i)'
           Monotone == \A owner, part : There(owner, part) => There(owner, part)'
<1>1. TypeOK /\ Bookkeeping /\ HandlerTypeOK
  BY DEF TasksInv
<1>2. ASSUME Growing, Monotone, NEW u \in Tasks, tasks'[u] = tasks[u]
      PROVE  Kept(u)
  <2>1. Pending(u)' => Pending(u)
    BY <1>2 DEF Pending
  <2>2. Pending(u)' => StillThere(u)' /\ Reached(u)'
    BY <1>2, <2>1, Unmoved DEF Growing
  <2>3. \A i \in Indexers :
          tasks'[u].state = "complete" /\ tasks'[u].indexer = i => Ready(i)'
    BY <1>2, ReadyKept DEF Growing
  <2> QED BY <2>2, <2>3
<1>3. CASE UNCHANGED <<has, tasks>>
  <2>1. Removals = {}
    BY <1>3 DEF Removals
  <2>2. Growing /\ Monotone
    BY <1>3, <2>1 DEF GrowInv, There
  <2>3. Order'
    BY <1>3, <2>2 DEF Growing, Order, There
  <2>4. \A u \in Tasks : Kept(u)
    BY <1>2, <1>3, <2>2
  <2> QED BY <2>3, <2>4 DEF Growing
<1>4. ASSUME NEW t \in Tasks, TaskStep(t)
      PROVE  Growing'
  <2>1. /\ Pending(t) /\ SameTasks
        /\ \A u \in Tasks \ {t} : tasks'[u] = tasks[u]
        /\ \/ \E seen : GoesOn(t, seen) /\ Provisions(t, seen)
           \/ Fails(t) /\ (UNCHANGED has \/ Acts(t))
    BY <1>1, <1>4, TaskSteps DEF TaskStep, Provisions
  <2>2. Removals = {} /\ Growing
    BY <2>1 DEF SameTasks, GrowInv
  <2>3. tasks[t].kind = "provision"
    <3>1. tasks[t].kind \in Kinds
      BY <1>1, <2>1, PendingFacts
    <3> QED BY <2>2, <3>1 DEF Removals, Kinds
  <2>4. Order /\ StillThere(t) /\ Reached(t)
    BY <2>1, <2>2 DEF Growing
  <2>5. PICK i : i = tasks[t].indexer /\ i = tasks'[t].indexer
    BY <2>1 DEF SameTasks
  <2>6. CASE \E seen : GoesOn(t, seen) /\ Provisions(t, seen)
    <3>1. PICK seen : GoesOn(t, seen) /\ Provisions(t, seen)
      BY <2>6
    <3>2. Monotone
      BY <1>1, <2>1, <2>3, <3>1, Grown
    <3>3. Order'
      BY <1>1, <2>1, <2>3, <2>4, <3>1, OrderKept
    <3>4. Kept(t)
      <4>1. /\ Pending(t)' => StillThere(t)' /\ Reached(t)'
            /\ \A j \in Indexers :
                 tasks'[t].state = "complete" /\ tasks[t].indexer = j => Ready(j)'
        BY <1>1, <2>1, <2>3, <2>4, <3>1, ReachedKept
      <4> QED BY <4>1, <2>5
    <3>5. \A u \in Tasks : Kept(u)
      BY <1>2, <2>1, <2>2, <3>2, <3>4
    <3> QED BY <3>3, <3>5 DEF Growing
  <2>7. CASE Fails(t) /\ (UNCHANGED has \/ Acts(t))
    <3>1. Monotone /\ Order'
      <4>1. CASE UNCHANGED has
        BY <2>4, <4>1 DEF There, Order
      <4>2. CASE Acts(t)
        <5>1. Provisions(t, tasks[t].seen)
          BY <4>2 DEF Provisions
        <5>2. Monotone
          BY <1>1, <2>1, <2>3, <5>1, Grown
        <5>3. Order'
          BY <1>1, <2>1, <2>3, <2>4, <5>1, OrderKept
        <5> QED BY <5>2, <5>3
      <4> QED BY <2>7, <4>1, <4>2
    <3>2. Kept(t)
      <4>1. Pending(t)' => StillThere(t)' /\ Reached(t)'
        <5> SUFFICES ASSUME Pending(t)' PROVE StillThere(t)' /\ Reached(t)'
          OBVIOUS
        <5>1. tasks'[t].at = tasks[t].at /\ tasks'[t].seen = tasks[t].seen
          BY <2>7 DEF Fails, Pending
        <5> QED BY <2>4, <2>5, <3>1, <5>1, Unmoved
      <4>2. tasks'[t].state # "complete"
        BY <2>7 DEF Fails
      <4> QED BY <4>1, <4>2
    <3>3. \A u \in Tasks : Kept(u)
      BY <1>2, <2>1, <2>2, <3>1, <3>2
    <3> QED BY <3>1, <3>3 DEF Growing
  <2> QED BY <2>1, <2>6, <2>7
<1>5. CASE RunnerRestarts
  <2>1. /\ SameTasks /\ has' = has
        /\ \A u \in Tasks :
              IF Pending(u)
              THEN tasks'[u].state = "notFound" /\ tasks'[u].seen = {}
              ELSE tasks'[u] = tasks[u]
    BY <1>1, <1>5, RestartFacts
  <2>2. Growing /\ Monotone
    BY <2>1 DEF SameTasks, GrowInv, There
  <2>3. Order'
    BY <2>1, <2>2 DEF Growing, Order, There
  <2>4. ASSUME NEW u \in Tasks, Pending(u)
        PROVE  Kept(u)
    BY <2>1, <2>4 DEF Pending
  <2>5. \A u \in Tasks : Kept(u)
    BY <1>2, <2>1, <2>2, <2>4
  <2> QED BY <2>3, <2>5 DEF Growing
<1>6. ASSUME NEW t \in Tasks, NEW i \in Indexers, Begins(t, i)
      PROVE  Growing'
  <2>1. /\ ~Started(t) /\ has' = has
        /\ tasks'[t].at = 1 /\ tasks'[t].state = "pending" /\ tasks'[t].seen = {}
        /\ \A u \in Tasks \ {t} : tasks'[u] = tasks[u]
    <3>1. Kind(i) \in Kinds
      BY DEF Kind, Kinds
    <3> QED BY <1>1, <1>6, <3>1, StartFacts DEF Begins
  <2>2. Removals = {}
    <3>1. tasks[t] = Unstarted
      BY <1>1, <2>1 DEF Bookkeeping
    <3> QED BY <2>1, <3>1 DEF Removals, Unstarted
  <2>3. Growing /\ Monotone
    BY <2>1, <2>2 DEF GrowInv, There
  <2>4. Order'
    BY <2>1, <2>3 DEF Growing, Order, There
  <2>5. Kept(t)
    <3>1. StillThere(t)'
      BY <2>1 DEF StillThere
    <3>2. Reached(t)'
      BY <2>1 DEF Reached
    <3> QED BY <2>1, <3>1, <3>2
  <2>6. \A u \in Tasks : Kept(u)
    BY <1>2, <2>1, <2>3, <2>5
  <2> QED BY <2>4, <2>6 DEF Growing
<1>7. CASE UNCHANGED handlerVars
  BY <1>3, <1>7 DEF handlerVars, vars
<1> QED BY <1>1, <1>3, <1>4, <1>5, <1>6, <1>7, HandlerSteps DEF Handles

(* A handler that says Running has a complete task, and what such a task   *)
(* needed is there for good.                                               *)
THEOREM RunningCorrect == HandlerSpec => []RunningIsThere
<1> DEFINE Inv == TasksInv /\ GrowInv
<1>1. HandlerInit => Inv
  <2> SUFFICES ASSUME HandlerInit PROVE GrowInv
    BY TasksStart
  <2>1. /\ has = {} /\ tasks = [t \in Tasks |-> Unstarted]
    BY DEF HandlerInit, Init
  <2>2. Order
    BY <2>1 DEF Order, There
  <2>3. \A t \in Tasks : ~Pending(t) /\ tasks[t].state # "complete"
    BY <2>1 DEF Pending, Unstarted
  <2> QED BY <2>2, <2>3 DEF GrowInv, Growing
<1>2. Inv /\ [HandlerNext]_handlerVars => Inv'
  BY TasksStep, GrowStep
<1>3. Inv => RunningIsThere
  <2> SUFFICES ASSUME TasksInv, GrowInv, Removals = {}, NEW i \in Indexers,
                      handler[i].lifecycle = "Running"
               PROVE  /\ Shared(SharedParts) \subseteq has
                      /\ Of(i, OwnParts \ {"related", "tablesPermitted"})
                           \subseteq has
    BY DEF RunningIsThere
  <2>1. Order /\ Ready(i)
    <3>1. PICK t \in Tasks : Serves(t, i) /\ tasks[t].state = "complete"
      BY DEF TasksInv, Awaits
    <3> QED BY <3>1 DEF GrowInv, Growing, Serves
  <2>2. \A part \in SharedParts : There(Account, part)
    BY <2>1 DEF Order, Ready, SharedParts
  <2>3. \A part \in OwnParts \ {"related", "tablesPermitted"} : There(i, part)
    BY <2>1 DEF Order, Ready, OwnParts, Tables, Metadata, Tracked, Jobs
  <2> QED BY <2>2, <2>3 DEF There, Shared, Of
<1> QED BY <1>1, <1>2, <1>3, PTL DEF HandlerSpec

-----------------------------------------------------------------------------
(***************************************************************************)
(* While no two tasks run at once: the one that runs is the last, and what *)
(* a deprovisioning has removed stays away.                                *)
(***************************************************************************)
Empty(i) == \A part \in OwnParts : ~There(i, part)
NothingShared == \A part \in SharedParts : ~There(Account, part)

(* What a deprovisioning, at its step n, has behind it. *)
Leaving(t) ==
  LET i == tasks[t].indexer
      n == tasks[t].at
  IN /\ n > 1 => \A part \in OwnParts \ Jobs : ~There(i, part)
     /\ n > 2 => ~There(i, "createJob")
     /\ n > 3 => ~There(i, "deleteJob")
     /\ n > 4 => \A j \in Indexers : <<j, "schema">> \notin tasks[t].seen
     /\ n > 5 => ~There(Account, "source")
     /\ n > 6 => ~There(Account, "database")
     /\ n > 7 => ~There(Account, "cron")

LastTask(t) ==
  \A u \in Tasks : u > t => ~Serves(u, tasks[t].indexer)

(* Of the Indexers that were provisioned, all are deprovisioned. *)
Brought(i) == \E t \in Tasks : Serves(t, i) /\ tasks[t].kind = "provision"
AllLeft ==
  \A t \in Tasks : Started(t) /\ tasks[t].kind = "provision" =>
    \E u \in Tasks : /\ tasks[u].indexer = tasks[t].indexer
                    /\ Completed(u, "deprovision")

Shrinking ==
  /\ \A i \in Indexers : Empty(i) \/ Brought(i)
  /\ \A t \in Tasks :
       Pending(t) /\ tasks[t].kind = "deprovision" => Leaving(t)
  /\ \A t \in Tasks, i \in Indexers :
       Serves(t, i) /\ Completed(t, "deprovision") => Empty(i)
  /\ AllLeft => NothingShared
GoneInv == Overlapping = {} => Shrinking

LEMMA Alone ==
  ASSUME TypeOK, Bookkeeping, Overlapping = {}, NEW t \in Tasks, Pending(t)
  PROVE  LastTask(t) /\ \A u \in Tasks : Pending(u) => u = t
<1>1. \A u \in Tasks : u \in Nat
  BY DataLayerAssumption DEF Tasks
<1>2. \A u \in Tasks : tasks[u].beside = {}
  BY DEF Overlapping
<1>3. \A u, s \in Tasks : Pending(u) /\ u < s => ~Started(s)
  BY <1>2 DEF Bookkeeping
<1>4. \A u \in Tasks : Pending(u) => Started(u)
  BY DEF Pending, Started
<1>5. LastTask(t)
  BY <1>1, <1>3 DEF LastTask, Serves
<1>6. ASSUME NEW u \in Tasks, Pending(u) PROVE u = t
  <2>1. ~(u < t) /\ ~(t < u)
    BY <1>3, <1>4, <1>6
  <2> QED BY <1>1, <2>1
<1> QED BY <1>5, <1>6

LEMMA LastExists ==
  ASSUME NEW i, NEW t \in Tasks, Serves(t, i)
  PROVE  \E u \in Tasks : Serves(u, i) /\ LastTask(u)
<1> DEFINE T == {MaxTasks - u : u \in {s \in Tasks : Serves(s, i)}}
<1>1. MaxTasks \in Nat /\ \A u \in Tasks : u \in Nat /\ MaxTasks - u \in Nat
  BY DataLayerAssumption DEF Tasks
<1>2. T \in SUBSET Nat /\ T # {}
  BY <1>1
<1> HIDE DEF T
<1>3. PICK n \in T : \A m \in T : n <= m
  BY <1>2, Least
<1> USE DEF T
<1>4. PICK u \in Tasks : Serves(u, i) /\ n = MaxTasks - u
  BY <1>3
<1>5. ASSUME NEW s \in Tasks, s > u, Serves(s, i) PROVE FALSE
  <2>1. MaxTasks - s \in T
    BY <1>5
  <2>2. n <= MaxTasks - s
    BY <1>3, <2>1
  <2> QED BY <1>1, <1>4, <1>5, <2>2
<1>6. tasks[u].indexer = i
  BY <1>4 DEF Serves
<1> QED BY <1>4, <1>5, <1>6 DEF LastTask

(* What stands after another task began did before. *)
LEMMA StoodBefore ==
  ASSUME NEW t \in Tasks, ~Started(t),
         \A u \in Tasks \ {t} : tasks'[u] = tasks[u],
         NEW u \in Tasks, u # t, Stands(u)'
  PROVE  Stands(u)
<1> SUFFICES ASSUME NEW v \in Tasks, v > u, Serves(v, tasks[u].indexer)
             PROVE  tasks[v].kind = tasks[u].kind
  BY DEF Stands
<1>1. v # t
  BY DEF Serves
<1>2. tasks'[u] = tasks[u] /\ tasks'[v] = tasks[v]
  BY <1>1
<1>3. tasks'[v].kind = tasks'[u].kind
  BY <1>2 DEF Stands, Serves, Started
<1> QED BY <1>2, <1>3

LEMMA CompletedBefore ==
  ASSUME NEW t \in Tasks, ~Started(t), tasks'[t].state = "pending",
         \A u \in Tasks \ {t} : tasks'[u] = tasks[u],
         NEW u \in Tasks, NEW kind, Completed(u, kind)'
  PROVE  u # t /\ Completed(u, kind)
<1>1. u # t
  BY DEF Completed
<1>2. Stands(u)
  BY <1>1, StoodBefore DEF Completed
<1> QED BY <1>1, <1>2 DEF Completed

(* Reads and statements of a deprovisioning. *)
LEMMA LeavingKept ==
  ASSUME TypeOK, Bookkeeping, SameTasks, NEW t \in Tasks, Pending(t),
         tasks[t].kind = "deprovision", NEW seen, Provisions(t, seen),
         GoesOn(t, seen), Leaving(t)
  PROVE  /\ Pending(t)' => Leaving(t)'
         /\ tasks'[t].state = "complete" =>
              /\ \A i \in Indexers : tasks[t].indexer = i => Empty(i)'
              /\ \/ NothingShared'
                 \/ \E other \in Indexers :
                      tasks[t].indexer # other /\ There(other, "schema")'
<1>1. PICK i \in Indexers, n \in 1 .. 8 :
        /\ i = tasks[t].indexer /\ n = tasks[t].at /\ tasks'[t].indexer = i
        /\ Last(t) = 8
  BY PendingFacts DEF SameTasks, Last
<1> DEFINE next == tasks'[t].at
           past(m) == tasks'[t].state = "complete" \/ next > m
           schemas == \E j \in Indexers : <<j, "schema">> \in seen
<1>2. \A m \in 1 .. 8 : LeavesOut(t, m, seen) <=> m > 4 /\ schemas
  BY DEF LeavesOut
<1>3. \A m \in 1 .. 8 : past(m) => n > m \/ n = m \/ (m > 4 /\ schemas)
  <2>1. CASE /\ next \in n + 1 .. 8
             /\ \A m \in n + 1 .. next - 1 : LeavesOut(t, m, seen)
             /\ tasks'[t].state = "pending"
    <3> SUFFICES ASSUME NEW m \in 1 .. 8, next > m, n < m
                 PROVE  m > 4 /\ schemas
      BY <1>1, <2>1
    <3>1. m \in n + 1 .. next - 1
      BY <1>1, <2>1
    <3> QED BY <1>2, <2>1, <3>1
  <2>2. CASE \A m \in n + 1 .. 8 : LeavesOut(t, m, seen)
    <3> SUFFICES ASSUME NEW m \in 1 .. 8, n < m
                 PROVE  m > 4 /\ schemas
      BY <1>1
    <3>1. m \in n + 1 .. 8
      BY <1>1
    <3> QED BY <1>2, <2>2, <3>1
  <2> QED BY <1>1, <2>1, <2>2 DEF GoesOn
<1>4. Pending(t)' => /\ next \in n + 1 .. 8 /\ tasks'[t].seen = seen
                     /\ ~(next > 4 /\ schemas)
  <2>1. Pending(t)' => /\ next \in n + 1 .. 8 /\ tasks'[t].seen = seen
                       /\ ~LeavesOut(t, next, seen)
    BY <1>1 DEF GoesOn, Pending
  <2>2. \A m \in n + 1 .. 8 : m \in 1 .. 8
    BY <1>1
  <2> QED BY <1>2, <2>1, <2>2
<1>5. /\ \A owner, part : There(owner, part)' => There(owner, part)
      /\ n # 4 => /\ seen = tasks[t].seen
                  /\ \A owner, part :
                       Drops(i, n, owner, part) => ~There(owner, part)'
      /\ n = 4 => /\ \A owner, part : There(owner, part)' <=> There(owner, part)
                  /\ \A j : <<j, "schema">> \in seen =>
                       j \in Indexers /\ There(j, "schema")
  <2>1. CASE Looks(t, seen) /\ UNCHANGED has
    BY <1>1, <2>1 DEF Looks, There
  <2>2. CASE Acts(t) /\ seen = tasks[t].seen
    BY <1>1, <2>2 DEF Acts
  <2> QED BY <2>1, <2>2 DEF Provisions
<1> HIDE DEF next, schemas
<1>6. past(1) => \A part \in OwnParts \ Jobs : ~There(i, part)'
  <2>1. n = 1 => \A part \in OwnParts \ Jobs : Drops(i, n, i, part)
    BY DEF Drops, OwnParts, Metadata, Tracked, Tables, Jobs
  <2>2. n > 1 => \A part \in OwnParts \ Jobs : ~There(i, part)
    BY <1>1 DEF Leaving
  <2> QED BY <1>3, <1>5, <2>1, <2>2
<1>7. past(2) => ~There(i, "createJob")'
  <2>1. n = 2 => Drops(i, n, i, "createJob")
    BY DEF Drops
  <2>2. n > 2 => ~There(i, "createJob")
    BY <1>1 DEF Leaving
  <2> QED BY <1>3, <1>5, <2>1, <2>2
<1>8. past(3) => ~There(i, "deleteJob")'
  <2>1. n = 3 => Drops(i, n, i, "deleteJob")
    BY DEF Drops
  <2>2. n > 3 => ~There(i, "deleteJob")
    BY <1>1 DEF Leaving
  <2> QED BY <1>3, <1>5, <2>1, <2>2
<1>9. /\ n = 5 => Drops(i, n, Account, "source")
      /\ n = 6 => Drops(i, n, Account, "database")
      /\ n = 7 => Drops(i, n, Account, "cron")
      /\ n = 8 => Drops(i, n, Account, "user")
  BY DEF Drops
<1>10. /\ n > 5 => ~There(Account, "source")
       /\ n > 6 => ~There(Account, "database")
       /\ n > 7 => ~There(Account, "cron")
  BY <1>1 DEF Leaving
<1>11. ~schemas => /\ past(5) => ~There(Account, "source")'
                   /\ past(6) => ~There(Account, "database")'
                   /\ past(7) => ~There(Account, "cron")'
                   /\ past(8) => ~There(Account, "user")'
  <2> SUFFICES ASSUME ~schemas
               PROVE  /\ past(5) => ~There(Account, "source")'
                      /\ past(6) => ~There(Account, "database")'
                      /\ past(7) => ~There(Account, "cron")'
                      /\ past(8) => ~There(Account, "user")'
    OBVIOUS
  <2>1. past(5) => ~There(Account, "source")'
    BY <1>3, <1>5, <1>9, <1>10
  <2>2. past(6) => ~There(Account, "database")'
    BY <1>3, <1>5, <1>9, <1>10
  <2>3. past(7) => ~There(Account, "cron")'
    BY <1>3, <1>5, <1>9, <1>10
  <2>4. past(8) => ~There(Account, "user")'
    BY <1>3, <1>5, <1>9, <1>10
  <2> QED BY <2>1, <2>2, <2>3, <2>4
<1>12. ASSUME Pending(t)' PROVE Leaving(t)'
  <2>1. /\ next \in n + 1 .. 8 /\ tasks'[t].seen = seen
        /\ ~(next > 4 /\ schemas)
    BY <1>4, <1>12
  <2>2. next > 4 => \A j \in Indexers : <<j, "schema">> \notin seen
    BY <2>1 DEF schemas
  <2>3. /\ next > 5 => ~There(Account, "source")'
        /\ next > 6 => ~There(Account, "database")'
        /\ next > 7 => ~There(Account, "cron")'
    BY <1>1, <1>11, <2>1
  <2>4. tasks'[t].at = next
    BY DEF next
  <2> QED BY <1>1, <1>6, <1>7, <1>8, <2>1, <2>2, <2>3, <2>4 DEF Leaving
<1>13. ASSUME tasks'[t].state = "complete"
       PROVE  /\ Empty(i)'
              /\ NothingShared' \/ \E other \in Indexers :
                                     i # other /\ There(other, "schema")'
  <2>1. Empty(i)'
    BY <1>6, <1>7, <1>8, <1>13 DEF Empty, Jobs
  <2>2. CASE ~schemas
    <3>1. past(5) /\ past(6) /\ past(7) /\ past(8)
      BY <1>13
    <3>2. /\ ~There(Account, "source")' /\ ~There(Account, "database")'
          /\ ~There(Account, "cron")' /\ ~There(Account, "user")'
      BY <1>11, <2>2, <3>1
    <3> QED BY <2>1, <3>2 DEF NothingShared, SharedParts
  <2>3. CASE schemas
    <3>1. PICK other \in Indexers : <<other, "schema">> \in seen
      BY <2>3 DEF schemas
    <3>2. n > 4 => <<other, "schema">> \notin tasks[t].seen
      BY <1>1 DEF Leaving
    <3>3. n = 4
      <4>1. n > 4 \/ n = 4
        BY <1>3, <1>13
      <4> QED BY <1>5, <3>1, <3>2, <4>1
    <3>4. There(other, "schema")'
      BY <1>5, <3>1, <3>3
    <3>5. i # other
      BY <2>1, <3>4 DEF Empty, OwnParts
    <3> QED BY <2>1, <3>4, <3>5
  <2> QED BY <2>1, <2>2, <2>3
<1> QED BY <1>1, <1>12, <1>13

(* A deprovisioning that stands where it stood regains nothing. *)
LEMMA LeavingSame ==
  ASSUME NEW t \in Tasks, NEW i, i = tasks[t].indexer, i = tasks'[t].indexer,
         tasks'[t].at = tasks[t].at, tasks'[t].seen = tasks[t].seen,
         \A owner, part : There(owner, part)' => There(owner, part)
  PROVE  Leaving(t) => Leaving(t)'
  BY DEF Leaving

LEMMA GoneStep ==
  ASSUME TasksInv, GoneInv, [HandlerNext]_handlerVars
  PROVE  GoneInv'
<1> SUFFICES ASSUME Overlapping' = {} PROVE Shrinking'
  BY DEF GoneInv
<1>1. TypeOK /\ Bookkeeping /\ HandlerTypeOK
  BY DEF TasksInv
<1>2. CASE UNCHANGED <<has, tasks>>
  <2>1. Shrinking
    BY <1>2 DEF GoneInv, Overlapping
  <2>2. /\ \A i \in Indexers : (Empty(i)' <=> Empty(i))
        /\ NothingShared' <=> NothingShared
        /\ AllLeft' <=> AllLeft
        /\ \A t \in Tasks :
             /\ Pending(t)' <=> Pending(t) 
             /\ Completed(t, "deprovision")' <=> Completed(t, "deprovision")
             /\ Leaving(t)' <=> Leaving(t)
             /\ tasks'[t].kind = tasks[t].kind
             /\ \A i \in Indexers : Serves(t, i)' <=> Serves(t, i)
    BY <1>2 DEF Empty, There, NothingShared, AllLeft, Started, Stands, Serves,
                Completed, Pending, Leaving
  <2>3. \A i \in Indexers : Brought(i)' <=> Brought(i)
    BY <2>2 DEF Brought
  <2> QED BY <2>1, <2>2, <2>3 DEF Shrinking
<1>3. ASSUME NEW t \in Tasks, TaskStep(t)
      PROVE  Shrinking'
  <2>1. /\ Pending(t) /\ SameTasks
        /\ \A u \in Tasks \ {t} : tasks'[u] = tasks[u]
        /\ \/ \E seen : GoesOn(t, seen) /\ Provisions(t, seen)
           \/ Fails(t) /\ (UNCHANGED has \/ Acts(t))
    BY <1>1, <1>3, TaskSteps DEF TaskStep, Provisions
  <2>2. Shrinking /\ LastTask(t) /\ \A u \in Tasks : Pending(u) => u = t
    BY <1>1, <2>1, Alone DEF SameTasks, GoneInv
  <2>3. PICK i \in Indexers :
          /\ i = tasks[t].indexer /\ i = tasks'[t].indexer
          /\ tasks[t].kind \in Kinds /\ tasks'[t].kind = tasks[t].kind
          /\ Serves(t, i) /\ Serves(t, i)'
    BY <1>1, <2>1, PendingFacts DEF SameTasks, Serves, Pending, Started
  <2>4. UNCHANGED has \/ Acts(t)
    BY <2>1 DEF Provisions
  <2>5. \A j \in Indexers : \A part : j # i /\ There(j, part)' => There(j, part)
    <3>1. CASE UNCHANGED has
      BY <3>1 DEF There
    <3>2. CASE Acts(t)
      <4>1. \A j \in Indexers : \A part :
              j # i => ~Adds(i, tasks[t].at, j, part)
        BY DataLayerAssumption DEF Adds
      <4> QED BY <2>3, <3>2, <4>1 DEF Acts
    <3> QED BY <2>4, <3>1, <3>2
  <2>6. \A j \in Indexers : j # i /\ Empty(j) => Empty(j)'
    BY <2>5 DEF Empty
  <2>7. tasks[t].kind = "deprovision" =>
          \A owner, part : There(owner, part)' => There(owner, part)
    BY <2>4 DEF Acts, There
  <2>8. ASSUME tasks[t].kind = "deprovision"
        PROVE  /\ Pending(t)' => Leaving(t)'
               /\ tasks'[t].state = "complete" =>
                    /\ Empty(i)'
                    /\ NothingShared' \/ \E other \in Indexers :
                                           i # other /\ There(other, "schema")'
    <3>1. Leaving(t)
      BY <2>1, <2>2, <2>8 DEF Shrinking
    <3>2. CASE \E seen : GoesOn(t, seen) /\ Provisions(t, seen)
      <4>1. PICK seen : GoesOn(t, seen) /\ Provisions(t, seen)
        BY <3>2
      <4>2. /\ Pending(t)' => Leaving(t)'
            /\ tasks'[t].state = "complete" =>
                 /\ \A j \in Indexers : tasks[t].indexer = j => Empty(j)'
                 /\ \/ NothingShared'
                    \/ \E other \in Indexers :
                         tasks[t].indexer # other /\ There(other, "schema")'
        BY <1>1, <2>1, <2>8, <3>1, <4>1, LeavingKept
      <4> QED BY <2>3, <4>2
    <3>3. CASE Fails(t)
      <4>1. \A owner, part : There(owner, part)' => There(owner, part)
        BY <2>7, <2>8
      <4>2. Pending(t)' =>
              tasks'[t].at = tasks[t].at /\ tasks'[t].seen = tasks[t].seen
        BY <3>3 DEF Fails, Pending
      <4>3. Pending(t)' => Leaving(t)'
        BY <2>3, <3>1, <4>1, <4>2, LeavingSame
      <4>4. tasks'[t].state # "complete"
        BY <3>3 DEF Fails
      <4> QED BY <4>3, <4>4
    <3> QED BY <2>1, <3>2, <3>3
  <2>9. \A u \in Tasks :
          Pending(u)' /\ tasks'[u].kind = "deprovision" => Leaving(u)'
    BY <2>1, <2>2, <2>3, <2>8 DEF SameTasks
  <2>10. \A j \in Indexers : Empty(j)' \/ Brought(j)'
    <3> TAKE j \in Indexers
    <3>1. CASE j = i /\ tasks[t].kind = "provision"
      BY <2>3, <3>1 DEF Brought
    <3>2. CASE j # i \/ tasks[t].kind = "deprovision"
      <4>1. Empty(j) => Empty(j)'
        BY <2>6, <2>7, <3>2 DEF Empty
      <4>2. Brought(j) => Brought(j)'
        BY <2>1 DEF Brought, SameTasks
      <4> QED BY <2>2, <4>1, <4>2 DEF Shrinking
    <3> QED BY <2>3, <3>1, <3>2 DEF Kinds
  <2>11. ASSUME NEW u \in Tasks, u # t, Completed(u, "deprovision")'
         PROVE  /\ Completed(u, "deprovision")
                /\ Serves(u, i) => tasks[t].kind = "deprovision"
    <3>1. tasks'[u] = tasks[u] /\ Stands(u)
      BY <2>1, <2>11 DEF SameTasks, Completed
    <3>2. Completed(u, "deprovision")
      BY <2>11, <3>1 DEF Completed
    <3>3. u \in Nat /\ t \in Nat
      BY DataLayerAssumption DEF Tasks
    <3>4. ASSUME Serves(u, i) PROVE tasks[t].kind = "deprovision"
      <4>1. CASE u > t
        BY <2>2, <2>3, <3>4, <4>1 DEF LastTask
      <4>2. CASE t > u
        BY <2>3, <3>2, <3>4, <4>2 DEF Completed, Stands, Serves
      <4> QED BY <2>11, <3>3, <4>1, <4>2
    <3> QED BY <3>2, <3>4
  <2>12. ASSUME NEW u \in Tasks, NEW j \in Indexers, Serves(u, j)',
                Completed(u, "deprovision")'
         PROVE  Empty(j)'
    <3>1. CASE u = t
      <4>1. j = i
        BY <2>3, <2>12, <3>1 DEF Serves
      <4> QED BY <2>3, <2>8, <2>12, <3>1, <4>1 DEF Completed
    <3>2. CASE u # t
      <4>1. Completed(u, "deprovision") /\ Serves(u, j)
        BY <2>1, <2>11, <2>12, <3>2 DEF SameTasks
      <4>2. Empty(j)
        BY <2>2, <4>1 DEF Shrinking
      <4>3. j = i => tasks[t].kind = "deprovision"
        BY <2>11, <2>12, <3>2, <4>1
      <4> QED BY <2>6, <2>7, <4>2, <4>3 DEF Empty
    <3> QED BY <3>1, <3>2
  <2>13. ASSUME AllLeft' PROVE NothingShared'
    <3>1. CASE tasks[t].kind = "provision"
      <4>1. PICK u \in Tasks :
              tasks'[u].indexer = i /\ Completed(u, "deprovision")'
        BY <2>3, <2>13, <3>1 DEF AllLeft, Serves
      <4>2. u # t
        BY <2>3, <3>1, <4>1 DEF Completed
      <4>3. Serves(u, i)
        BY <2>1, <4>1, <4>2 DEF Serves, Started, Completed
      <4> QED BY <2>11, <3>1, <4>1, <4>2, <4>3
    <3>2. CASE tasks[t].kind = "deprovision" /\ tasks'[t].state = "complete"
      <4>1. ASSUME NEW other \in Indexers, i # other, There(other, "schema")'
            PROVE  FALSE
        <5>1. ~Empty(other)
          BY <2>5, <4>1 DEF Empty, OwnParts
        <5>2. PICK s \in Tasks : Serves(s, other) /\ tasks[s].kind = "provision"
          BY <2>2, <5>1 DEF Shrinking, Brought
        <5>3. PICK u \in Tasks :
                tasks'[u].indexer = other /\ Completed(u, "deprovision")'
          <6>1. Started(s)' /\ tasks'[s].kind = "provision"
                /\ tasks'[s].indexer = other
            BY <2>1, <5>2 DEF SameTasks, Serves
          <6> QED BY <2>13, <6>1 DEF AllLeft
        <5>4. u # t
          BY <2>3, <4>1, <5>3
        <5>5. Serves(u, other) /\ Completed(u, "deprovision")
          BY <2>1, <2>11, <5>3, <5>4 DEF Serves, Started, Completed
        <5> QED BY <2>2, <5>1, <5>5 DEF Shrinking
      <4> QED BY <2>8, <3>2, <4>1
    <3>3. CASE tasks[t].kind = "deprovision" /\ tasks'[t].state # "complete"
      <4>1. AllLeft
        <5> SUFFICES ASSUME NEW s \in Tasks, Started(s),
                            tasks[s].kind = "provision"
                     PROVE  \E u \in Tasks :
                              /\ tasks[u].indexer = tasks[s].indexer
                              /\ Completed(u, "deprovision")
          BY DEF AllLeft
        <5>1. Started(s)' /\ tasks'[s].kind = "provision"
              /\ tasks'[s].indexer = tasks[s].indexer
          BY <2>1 DEF SameTasks
        <5>2. PICK u \in Tasks : /\ tasks'[u].indexer = tasks'[s].indexer
                                 /\ Completed(u, "deprovision")'
          BY <2>13, <5>1 DEF AllLeft
        <5>3. u # t
          BY <3>3, <5>2 DEF Completed
        <5> QED BY <2>1, <2>11, <5>1, <5>2, <5>3
      <4>2. NothingShared
        BY <2>2, <4>1 DEF Shrinking
      <4> QED BY <2>7, <3>3, <4>2 DEF NothingShared
    <3> QED BY <2>3, <3>1, <3>2, <3>3 DEF Kinds
  <2> QED BY <2>9, <2>10, <2>12, <2>13 DEF Shrinking
<1>4. CASE RunnerRestarts
  <2>1. /\ SameTasks /\ has' = has
        /\ \A u \in Tasks :
              IF Pending(u)
              THEN tasks'[u].state = "notFound" /\ tasks'[u].seen = {}
              ELSE tasks'[u] = tasks[u]
    BY <1>1, <1>4, RestartFacts
  <2>2. Shrinking
    BY <2>1 DEF SameTasks, GoneInv
  <2>3. \A u \in Tasks : ~Pending(u)'
    BY <2>1 DEF Pending
  <2>4. \A u \in Tasks :
          Completed(u, "deprovision")' => Completed(u, "deprovision")
    BY <2>1 DEF Completed, SameTasks
  <2>5. /\ \A i \in Indexers : Empty(i)' <=> Empty(i)
        /\ NothingShared' <=> NothingShared
    BY <2>1 DEF Empty, NothingShared, There
  <2>6. AllLeft' => AllLeft
    BY <2>1, <2>4 DEF AllLeft, SameTasks
  <2>7. \A u \in Tasks, i \in Indexers : Serves(u, i)' <=> Serves(u, i)
    BY <2>1 DEF SameTasks
  <2>8. \A i \in Indexers : Brought(i) => Brought(i)'
    BY <2>1 DEF Brought, SameTasks
  <2> QED BY <2>2, <2>3, <2>4, <2>5, <2>6, <2>7, <2>8 DEF Shrinking
<1>5. ASSUME NEW t \in Tasks, NEW i \in Indexers, Begins(t, i)
      PROVE  Shrinking'
  <2>1. /\ ~Started(t) /\ has' = has /\ tasks'[t].at = 1
        /\ tasks'[t].state = "pending" /\ tasks'[t].indexer = i
        /\ tasks'[t].beside = {u \in Tasks : Pending(u)}
        /\ \A u \in Tasks \ {t} : tasks'[u] = tasks[u]
        /\ \A u \in Tasks : u > t => ~Started(u)
    <3>1. Kind(i) \in Kinds
      BY DEF Kind, Kinds
    <3> QED BY <1>1, <1>5, <3>1, StartFacts DEF Begins
  <2>2. Overlapping = {} /\ \A u \in Tasks : ~Pending(u)
    <3>1. \A u \in Tasks : tasks'[u].beside = {}
      BY DEF Overlapping
    <3>2. tasks[t] = Unstarted
      BY <1>1, <2>1 DEF Bookkeeping
    <3>3. \A u \in Tasks : tasks[u].beside = {}
      BY <2>1, <3>1, <3>2 DEF Unstarted
    <3> QED BY <2>1, <3>1, <3>3 DEF Overlapping
  <2>3. Shrinking
    BY <2>2 DEF GoneInv
  <2>4. \A u \in Tasks : Pending(u)' => u = t
    BY <2>1, <2>2 DEF Pending
  <2>5. Leaving(t)'
    BY <2>1 DEF Leaving
  <2>6. /\ \A j \in Indexers : Empty(j)' <=> Empty(j)
    BY <2>1 DEF Empty, There
  <2>7. \A j \in Indexers : Brought(j) => Brought(j)'
    <3>1. \A u \in Tasks : Started(u) => u # t /\ tasks'[u] = tasks[u]
      BY <2>1
    <3> QED BY <3>1 DEF Brought, Serves, Started
  <2>8. \A u \in Tasks :
          Completed(u, "deprovision")' => u # t /\ Completed(u, "deprovision")
    BY <2>1, CompletedBefore
  <2>9. ASSUME NEW u \in Tasks, NEW j \in Indexers, Serves(u, j)',
               Completed(u, "deprovision")'
        PROVE  Empty(j)'
    <3>1. u # t /\ Completed(u, "deprovision")
      BY <2>8, <2>9
    <3>2. Serves(u, j)
      BY <2>1, <2>9, <3>1 DEF Serves, Started
    <3> QED BY <2>3, <2>6, <3>1, <3>2 DEF Shrinking
  <2>10. ASSUME AllLeft' PROVE NothingShared'
    <3>1. tasks'[t].kind # "provision"
      <4> SUFFICES ASSUME tasks'[t].kind = "provision" PROVE FALSE
        OBVIOUS
      <4>1. Started(t)' /\ Serves(t, i)'
        BY <2>1 DEF Started, Serves
      <4>2. PICK u \in Tasks :
              tasks'[u].indexer = i /\ Completed(u, "deprovision")'
        BY <2>1, <2>10, <4>1 DEF AllLeft
      <4>3. u # t /\ Started(u)
        BY <2>1, <2>8, <4>2 DEF Completed, Started
      <4>4. t > u
        BY <2>1, <4>3, DataLayerAssumption DEF Tasks
      <4> QED BY <4>1, <4>2, <4>4 DEF Completed, Stands
    <3>2. AllLeft
      <4> SUFFICES ASSUME NEW s \in Tasks, Started(s),
                          tasks[s].kind = "provision"
                   PROVE  \E u \in Tasks :
                            /\ tasks[u].indexer = tasks[s].indexer
                            /\ Completed(u, "deprovision")
        BY DEF AllLeft
      <4>1. s # t /\ tasks'[s] = tasks[s] /\ Started(s)'
        BY <2>1 DEF Started
      <4>2. PICK u \in Tasks : /\ tasks'[u].indexer = tasks'[s].indexer
                               /\ Completed(u, "deprovision")'
        BY <2>10, <4>1 DEF AllLeft
      <4> QED BY <2>1, <2>8, <4>1, <4>2
    <3>3. NothingShared
      BY <2>3, <3>2 DEF Shrinking
    <3> QED BY <2>1, <3>3 DEF NothingShared, There
  <2> QED BY <2>3, <2>4, <2>5, <2>6, <2>7, <2>9, <2>10 DEF Shrinking
<1>6. CASE UNCHANGED handlerVars
  BY <1>2, <1>6 DEF handlerVars, vars
<1> QED BY <1>1, <1>2, <1>3, <1>4, <1>5, <1>6, HandlerSteps DEF Handles

(* What a complete deprovisioning leaves behind, of its Indexer and, when  *)
(* it was the last, of the account: nothing.                               *)
THEOREM DeprovisioningCorrect == HandlerSpec => []DeprovisionedIsGone
<1> DEFINE Inv == TasksInv /\ GoneInv
<1>1. HandlerInit => Inv
  <2> SUFFICES ASSUME HandlerInit PROVE GoneInv
    BY TasksStart
  <2>1. /\ has = {} /\ tasks = [t \in Tasks |-> Unstarted]
    BY DEF HandlerInit, Init
  <2>2. NothingShared /\ \A i \in Indexers : Empty(i)
    BY <2>1 DEF NothingShared, Empty, There
  <2>3. \A t \in Tasks : ~Pending(t) /\ ~Completed(t, "deprovision")
    BY <2>1 DEF Pending, Unstarted, Completed
  <2> QED BY <2>2, <2>3 DEF GoneInv, Shrinking
<1>2. Inv /\ [HandlerNext]_handlerVars => Inv'
  BY TasksStep, GoneStep
<1>3. Inv => DeprovisionedIsGone
  <2> SUFFICES ASSUME TasksInv, GoneInv, Overlapping = {}
               PROVE  /\ \A t \in Tasks : Completed(t, "deprovision") =>
                           Of(tasks[t].indexer, OwnParts) \cap has = {}
                      /\ AllLeft => Shared(SharedParts) \cap has = {}
    BY DEF DeprovisionedIsGone, AllLeft
  <2>1. Shrinking
    BY DEF GoneInv
  <2>2. ASSUME NEW t \in Tasks, Completed(t, "deprovision")
        PROVE  Of(tasks[t].indexer, OwnParts) \cap has = {}
    <3>1. Started(t) /\ tasks[t].indexer \in Indexers
      BY <2>2 DEF Completed, Started, TasksInv, Bookkeeping
    <3>2. Empty(tasks[t].indexer)
      BY <2>1, <2>2, <3>1 DEF Shrinking, Serves
    <3> QED BY <3>2 DEF Empty, There, Of
  <2>3. NothingShared => Shared(SharedParts) \cap has = {}
    BY DEF NothingShared, There, Shared
  <2> QED BY <2>1, <2>2, <2>3 DEF Shrinking
<1> QED BY <1>1, <1>2, <1>3, PTL DEF HandlerSpec

-----------------------------------------------------------------------------
(***************************************************************************)
(* While nothing fails from outside, and only provisionings of different   *)
(* Indexers run at once: each finds its Indexer untouched or whole.        *)
(***************************************************************************)
Whole(i) ==
  /\ \A part \in SharedParts : There(Account, part)
  /\ \A part \in OwnParts \ {"related"} : There(i, part)
  /\ ForeignKeys => There(i, "related")

Based ==
  There(Account, "source") =>
    There(Account, "database") /\ There(Account, "user")

(* The parts of its own that a first provisioning has made by step n. *)
MadeBy(n, part) ==
  \/ n > 7 /\ part = "schema"
  \/ n > 8 /\ part = "metadata"
  \/ n > 10 /\ part = "logs"
  \/ n > 12 /\ part = "createJob"
  \/ n > 13 /\ part = "deleteJob"
  \/ n > 14 /\ part = "systemTracked"
  \/ n > 15 /\ part = "systemPermitted"
  \/ n > 16 /\ part = "tables"
  \/ n > 19 /\ part = "tablesTracked"
  \/ n > 20 /\ part = "related" /\ ForeignKeys

FreshAt(t) ==
  LET i == tasks[t].indexer
      n == tasks[t].at
  IN /\ \A part \in OwnParts : There(i, part) <=> MadeBy(n, part)
     /\ n > 6 => There(Account, "source")
     /\ n > 11 => There(Account, "cron")
     /\ n < 18 => \A part \in Metadata \cup Tables : ~Sees(t, part)
     /\ n > 17 => ~Sees(t, "tablesTracked") /\ ~Sees(t, "tablesPermitted")
     /\ n > 18 => Sees(t, "tables")

(* A later one does nothing that was done before. *)
AgainAt(t) ==
  LET i == tasks[t].indexer
      n == tasks[t].at
  IN /\ Whole(i) /\ n \in {1, 2, 9, 17, 18, 20}
     /\ n > 1 =>
          /\ <<Account, "source">> \in tasks[t].seen
          /\ \A part \in Metadata \ {"related"} : Sees(t, part)
     /\ n > 2 => \A part \in Tables : Sees(t, part)

LeavingAt(t) ==
  LET i == tasks[t].indexer
      n == tasks[t].at
  IN /\ n = 1 => Empty(i) \/ Whole(i)
     /\ n \in {2, 3} => There(Account, "source")
     /\ n = 2 => \/ Empty(i)
                 \/ \A part \in OwnParts : There(i, part) <=> part \in Jobs
     /\ n = 3 => \A part \in OwnParts : There(i, part) <=> part = "deleteJob"
     /\ n > 3 => Empty(i)
     /\ n > 4 => \A j \in Indexers :
                   <<j, "schema">> \notin tasks[t].seen /\ Empty(j)
     /\ n > 5 => ~There(Account, "source")

SeesSource(t) == <<Account, "source">> \in tasks[t].seen

Calm == faults = 0 /\ OnlyProvisionBeside
Idle(i) == \A t \in Tasks : ~(Serves(t, i) /\ Pending(t))

Orderly ==
  /\ Based
  /\ \A i \in Indexers : Idle(i) => Empty(i) \/ Whole(i)
  /\ \A t \in Tasks : Pending(t) /\ tasks[t].kind = "provision" =>
       /\ SeesSource(t) => There(Account, "source")
       /\ FreshAt(t) \/ AgainAt(t)
  /\ \A t \in Tasks : Pending(t) /\ tasks[t].kind = "deprovision" => LeavingAt(t)
  /\ \A t \in Tasks, i \in Indexers : Serves(t, i) =>
       /\ Completed(t, "provision") => Whole(i)
       /\ Completed(t, "deprovision") => Empty(i)
CalmInv == Calm => Orderly

LEMMA WholeFacts ==
  ASSUME NEW i \in Indexers
  PROVE  Whole(i) <=> Provisioned(i)
  BY DEF Whole, Provisioned, There, Shared, Of

LEMMA WholeKept ==
  ASSUME NEW i, Whole(i), \A owner, part : There(owner, part) => There(owner, part)'
  PROVE  Whole(i)'
  BY DEF Whole

(* The database and the user outlive the source. *)
LEMMA BasedKept ==
  ASSUME TypeOK, Bookkeeping, NEW t \in Tasks, Pending(t), Based,
         UNCHANGED has \/ Acts(t),
         tasks[t].kind = "deprovision" => LeavingAt(t)
  PROVE  Based'
<1>1. PICK i \in Indexers, n \in Nat : i = tasks[t].indexer /\ n = tasks[t].at
  BY PendingFacts DEF TaskType
<1>2. CASE UNCHANGED has
  BY <1>2 DEF Based, There
<1>3. CASE Acts(t) /\ tasks[t].kind = "provision"
  <2>1. Adds(i, n, Account, "source") =>
          Needs(i, n, Account, "database") /\ Needs(i, n, Account, "user")
    BY DataLayerAssumption DEF Adds, Needs
  <2> QED BY <1>1, <1>3, <2>1 DEF Acts, Based
<1>4. CASE Acts(t) /\ tasks[t].kind # "provision"
  <2>1. n > 5 => ~There(Account, "source")
    BY <1>1, <1>4, PendingFacts DEF LeavingAt
  <2>2. /\ Drops(i, n, Account, "database") => n > 5
        /\ Drops(i, n, Account, "user") => n > 5
    BY DataLayerAssumption DEF Drops, Tables, Metadata, Tracked
  <2>3. \A owner, part : There(owner, part)'
                            <=> There(owner, part) /\ ~Drops(i, n, owner, part)
    BY <1>1, <1>4 DEF Acts
  <2>4. ASSUME There(Account, "source")'
        PROVE  There(Account, "database")' /\ There(Account, "user")'
    <3>1. There(Account, "source")
      BY <2>3, <2>4
    <3>2. There(Account, "database") /\ There(Account, "user") /\ ~(n > 5)
      BY <2>1, <3>1 DEF Based
    <3> QED BY <2>2, <2>3, <3>2
  <2> QED BY <2>4 DEF Based
<1> QED BY <1>2, <1>3, <1>4

(* What a task sees of the source is there. *)
LEMMA SourceSeen ==
  ASSUME TypeOK, Bookkeeping, NEW t \in Tasks, Pending(t),
         tasks[t].kind = "provision", NEW seen, Provisions(t, seen),
         SeesSource(t) => There(Account, "source")
  PROVE  <<Account, "source">> \in seen => There(Account, "source")'
<1>1. There(Account, "source") => There(Account, "source")'
  BY Grown
<1>2. CASE Looks(t, seen)
  <2>1. tasks[t].indexer # Account
    BY PendingFacts, DataLayerAssumption
  <2> QED BY <1>1, <1>2, <2>1 DEF Looks, ProvisionReads, SeesSource
<1>3. CASE seen = tasks[t].seen
  BY <1>1, <1>3 DEF SeesSource
<1> QED BY <1>2, <1>3 DEF Provisions

(* What a first provisioning has seen after a step. *)
LEMMA FreshSees ==
  ASSUME TypeOK, Bookkeeping, NEW t \in Tasks, Pending(t),
         tasks[t].kind = "provision", NEW seen, Provisions(t, seen),
         Based, FreshAt(t), NEW i, i = tasks[t].indexer,
         NEW n \in 1 .. 21, n = tasks[t].at
  PROVE  /\ n < 17 => \A part \in Metadata \cup Tables : <<i, part>> \notin seen
         /\ n >= 17 => /\ <<i, "tablesTracked">> \notin seen
                       /\ <<i, "tablesPermitted">> \notin seen
         /\ n >= 18 => <<i, "tables">> \in seen
<1>1. i # Account
  BY PendingFacts, DataLayerAssumption
<1>2. /\ \A part \in OwnParts : There(i, part) <=> MadeBy(n, part)
      /\ n > 6 => There(Account, "source") /\ There(Account, "database")
      /\ n < 18 => \A part \in Metadata \cup Tables : <<i, part>> \notin tasks[t].seen
      /\ n > 17 => /\ <<i, "tablesTracked">> \notin tasks[t].seen
                   /\ <<i, "tablesPermitted">> \notin tasks[t].seen
      /\ n > 18 => <<i, "tables">> \in tasks[t].seen
  BY DEF FreshAt, Sees, Based
<1>3. CASE seen = tasks[t].seen /\ n \notin ProvisionReads
  <2>1. "tablesTracked" \in Metadata /\ "tablesPermitted" \in Metadata
    BY DEF Metadata, Tracked
  <2> QED BY <1>2, <1>3, <2>1 DEF ProvisionReads
<1>4. CASE Looks(t, seen) /\ n \in {1, 17}
  <2>1. \A part : <<i, part>> \in seen <=>
          IF part \in Metadata
          THEN There(i, part) ELSE <<i, part>> \in tasks[t].seen
    BY <1>1, <1>4 DEF Looks
  <2>2. \A part \in Metadata : part \in OwnParts
    BY DEF OwnParts
  <2>3. n = 1 => \A part \in Metadata : ~MadeBy(n, part)
    BY DEF MadeBy
  <2>4. ~MadeBy(17, "tablesTracked") /\ ~MadeBy(17, "tablesPermitted")
    BY DEF MadeBy
  <2>5. "tablesTracked" \in Metadata /\ "tablesPermitted" \in Metadata
    BY DEF Metadata, Tracked
  <2> QED BY <1>2, <1>4, <2>1, <2>2, <2>3, <2>4, <2>5
<1>5. CASE Looks(t, seen) /\ n \in {2, 18}
  <2>1. \A part : <<i, part>> \in seen <=>
          IF part \in Tables
          THEN There(i, part) /\ There(Account, "database") /\ There(Account, "source")
          ELSE <<i, part>> \in tasks[t].seen
    BY <1>5 DEF Looks
  <2>2. \A part \in Tables : part \in OwnParts
    BY DEF OwnParts
  <2>3. n = 2 => \A part \in Tables : ~MadeBy(n, part)
    BY DEF MadeBy
  <2>4. n = 18 => There(i, "tables") /\ "tables" \in Tables
    BY <1>2, <2>2 DEF MadeBy, Tables
  <2>5. "tablesTracked" \notin Tables /\ "tablesPermitted" \notin Tables
    BY DEF Tables
  <2> QED BY <1>2, <1>5, <2>1, <2>2, <2>3, <2>4, <2>5
<1>6. Looks(t, seen) => n \in {1, 17} \/ n \in {2, 18}
  BY DEF Looks, ProvisionReads
<1>7. Acts(t) => n \notin ProvisionReads
  BY DEF Acts
<1> QED BY <1>3, <1>4, <1>5, <1>6, <1>7 DEF Provisions

(* A first provisioning leaves out nothing of its own. *)
LEMMA FreshNext ==
  ASSUME TypeOK, Bookkeeping, NEW t \in Tasks, Pending(t),
         tasks[t].kind = "provision", NEW seen, GoesOn(t, seen),
         NEW i, i = tasks[t].indexer,
         NEW n \in 1 .. 21, n = tasks[t].at,
         n < 17 => \A part \in Metadata \cup Tables : <<i, part>> \notin seen,
         n >= 17 => /\ <<i, "tablesTracked">> \notin seen
                    /\ <<i, "tablesPermitted">> \notin seen,
         n >= 18 => <<i, "tables">> \in seen
  PROVE  /\ n >= 6 /\ n < 21 => Pending(t)' /\ tasks'[t].at = n + 1
         /\ n = 21 => tasks'[t].state = "complete"
         /\ n < 6 => /\ Pending(t)' /\ tasks'[t].at \in n + 1 .. 7
                     /\ tasks'[t].at = 7 => <<Account, "source">> \in seen
<1>1. /\ "systemTracked" \in Metadata /\ "tablesTracked" \in Metadata
      /\ "systemPermitted" \in Metadata
      /\ "metadata" \in Tables /\ "logs" \in Tables /\ "tables" \in Tables
  BY DEF Metadata, Tracked, Tables
<1>2. ASSUME NEW m \in 7 .. 16, n < 17 PROVE ~LeavesOut(t, m, seen)
  <2>1. /\ <<i, "systemTracked">> \notin seen /\ <<i, "tablesTracked">> \notin seen
        /\ <<i, "systemPermitted">> \notin seen /\ <<i, "metadata">> \notin seen
        /\ <<i, "logs">> \notin seen /\ <<i, "tables">> \notin seen
    BY <1>1, <1>2
  <2> QED BY <1>2, <2>1 DEF LeavesOut
<1>3. ASSUME NEW m \in {17, 18, 20} PROVE ~LeavesOut(t, m, seen)
  BY <1>3 DEF LeavesOut
<1>4. ASSUME NEW m \in {19, 21}, n >= 18 PROVE ~LeavesOut(t, m, seen)
  BY <1>4 DEF LeavesOut
<1>5. n >= 6 /\ n < 21 => ~LeavesOut(t, n + 1, seen)
  <2>1. n >= 6 /\ n < 16 => n + 1 \in 7 .. 16 /\ n < 17
    OBVIOUS
  <2>2. n \in {16, 17, 19} => n + 1 \in {17, 18, 20}
    OBVIOUS
  <2>3. n \in {18, 20} => n + 1 \in {19, 21} /\ n >= 18
    OBVIOUS
  <2>4. n >= 6 /\ n < 21 => n < 16 \/ n \in {16, 17, 19} \/ n \in {18, 20}
    OBVIOUS
  <2> QED BY <1>2, <1>3, <1>4, <2>1, <2>2, <2>3, <2>4
<1>6. n < 6 => ~LeavesOut(t, 7, seen)
  BY <1>2
<1>7. LeavesOut(t, 6, seen) => <<Account, "source">> \in seen
  BY DEF LeavesOut
<1>8. CASE /\ tasks'[t].state = "pending"
           /\ tasks'[t].at \in n + 1 .. 21
           /\ \A m \in n + 1 .. tasks'[t].at - 1 : LeavesOut(t, m, seen)
  <2>1. n >= 6 /\ n < 21 => tasks'[t].at = n + 1
    <3> SUFFICES ASSUME n >= 6, n < 21, tasks'[t].at > n + 1 PROVE FALSE
      BY <1>8
    <3>1. n + 1 \in n + 1 .. tasks'[t].at - 1
      BY <1>8
    <3> QED BY <1>5, <1>8, <3>1
  <2>2. n < 6 => tasks'[t].at \in n + 1 .. 7
    <3> SUFFICES ASSUME n < 6, tasks'[t].at > 7 PROVE FALSE
      BY <1>8
    <3>1. 7 \in n + 1 .. tasks'[t].at - 1
      BY <1>8
    <3> QED BY <1>6, <1>8, <3>1
  <2>3. n < 6 /\ tasks'[t].at = 7 => <<Account, "source">> \in seen
    <3> SUFFICES ASSUME n < 6, tasks'[t].at = 7
                 PROVE  <<Account, "source">> \in seen
      OBVIOUS
    <3>1. 6 \in n + 1 .. tasks'[t].at - 1
      BY <1>8
    <3> QED BY <1>7, <1>8, <3>1
  <2>4. n # 21
    BY <1>8
  <2> QED BY <1>8, <2>1, <2>2, <2>3, <2>4 DEF Pending
<1>9. CASE /\ tasks'[t].state = "complete"
           /\ \A m \in n + 1 .. 21 : LeavesOut(t, m, seen)
  <2>1. ~(n < 21 /\ n >= 6)
    <3> SUFFICES ASSUME n < 21, n >= 6 PROVE FALSE
      OBVIOUS
    <3>1. n + 1 \in n + 1 .. 21
      OBVIOUS
    <3> QED BY <1>5, <1>9, <3>1
  <2>2. ~(n < 6)
    <3> SUFFICES ASSUME n < 6 PROVE FALSE
      OBVIOUS
    <3>1. 7 \in n + 1 .. 21
      OBVIOUS
    <3> QED BY <1>6, <1>9, <3>1
  <2> QED BY <1>9, <2>1, <2>2
<1> QED BY <1>8, <1>9 DEF GoesOn, Last

(* A first provisioning makes its parts one by one, until all are there. *)
LEMMA MadeNext ==
  ASSUME NEW i \in Indexers, NEW n \in 7 .. 20, NEW part \in OwnParts
  PROVE  MadeBy(n + 1, part) <=> MadeBy(n, part) \/ Adds(i, n, i, part)
<1>1. \A m \in 7 .. 20 : (n + 1 > m) <=> (n > m \/ n = m)
  OBVIOUS
<1> QED BY <1>1, DataLayerAssumption DEF MadeBy, Adds

LEMMA FreshKept ==
  ASSUME TypeOK, Bookkeeping, SameTasks, NEW t \in Tasks, Pending(t),
         tasks[t].kind = "provision", NEW seen, Provisions(t, seen),
         GoesOn(t, seen), Based, SeesSource(t) => There(Account, "source"),
         FreshAt(t)
  PROVE  /\ Pending(t)' => FreshAt(t)'
         /\ \A i \in Indexers :
              tasks'[t].state = "complete" /\ tasks[t].indexer = i => Whole(i)'
<1>1. PICK i \in Indexers, n \in 1 .. 21 :
        i = tasks[t].indexer /\ n = tasks[t].at /\ tasks'[t].indexer = i
  BY PendingFacts DEF SameTasks
<1>2. /\ n < 17 => \A part \in Metadata \cup Tables : <<i, part>> \notin seen
      /\ n >= 17 => /\ <<i, "tablesTracked">> \notin seen
                    /\ <<i, "tablesPermitted">> \notin seen
      /\ n >= 18 => <<i, "tables">> \in seen
  BY <1>1, FreshSees
<1>3. /\ n >= 6 /\ n < 21 => Pending(t)' /\ tasks'[t].at = n + 1
      /\ n = 21 => tasks'[t].state = "complete"
      /\ n < 6 => /\ Pending(t)' /\ tasks'[t].at \in n + 1 .. 7
                  /\ tasks'[t].at = 7 => <<Account, "source">> \in seen
  BY <1>1, <1>2, FreshNext
<1>4. /\ \A part \in OwnParts : There(i, part) <=> MadeBy(n, part)
      /\ n > 6 => There(Account, "source")
      /\ n > 11 => There(Account, "cron")
  BY <1>1 DEF FreshAt
<1>5. \A owner, part :
        There(owner, part)' <=>
          There(owner, part) \/ (n \notin ProvisionReads /\ Adds(i, n, owner, part))
  <2>1. CASE Looks(t, seen) /\ UNCHANGED has
    BY <1>1, <2>1 DEF Looks, There
  <2>2. CASE Acts(t)
    BY <1>1, <2>2 DEF Acts
  <2> QED BY <2>1, <2>2 DEF Provisions
<1>6. \A part : n \in ProvisionReads => ~Adds(i, n, i, part)
  BY DataLayerAssumption DEF Adds, ProvisionReads
<1>7. \A part \in OwnParts :
        There(i, part)' <=> MadeBy(n, part) \/ Adds(i, n, i, part)
  BY <1>4, <1>5, <1>6
<1>8. Pending(t)' => tasks'[t].seen = seen
  BY DEF GoesOn, Pending
<1>9. CASE n < 6
  <2>1. PICK m \in 2 .. 7 : tasks'[t].at = m
    BY <1>3, <1>9
  <2>2. \A part \in OwnParts : ~MadeBy(n, part) /\ ~MadeBy(m, part)
    BY <1>9 DEF MadeBy
  <2>3. \A part \in OwnParts : ~Adds(i, n, i, part)
    BY <1>9, DataLayerAssumption DEF Adds
  <2>4. \A part \in OwnParts : There(i, part)' <=> MadeBy(m, part)
    BY <1>7, <2>2, <2>3
  <2>5. m > 6 => There(Account, "source")'
    <3>1. <<Account, "source">> \in seen => There(Account, "source")'
      BY SourceSeen
    <3> QED BY <1>3, <1>9, <2>1, <3>1
  <2>6. \A part \in Metadata \cup Tables : ~Sees(t, part)'
    BY <1>1, <1>2, <1>3, <1>8, <1>9 DEF Sees
  <2>7. FreshAt(t)'
    BY <1>1, <2>1, <2>4, <2>5, <2>6 DEF FreshAt
  <2>8. tasks'[t].state # "complete"
    BY <1>3, <1>9 DEF Pending
  <2> QED BY <2>7, <2>8
<1>10. CASE n >= 6 /\ n < 21
  <2>1. PICK m \in 7 .. 21 : m = n + 1
    BY <1>10
  <2>2. Pending(t)' /\ tasks'[t].at = m /\ tasks'[t].seen = seen
    BY <1>3, <1>8, <1>10, <2>1
  <2>3. \A part \in OwnParts : There(i, part)' <=> MadeBy(m, part)
    <3>1. CASE n = 6
      <4>1. \A part \in OwnParts : ~MadeBy(n, part) /\ ~MadeBy(m, part)
        BY <2>1, <3>1 DEF MadeBy
      <4>2. \A part \in OwnParts : ~Adds(i, n, i, part)
        BY <3>1, DataLayerAssumption DEF Adds
      <4> QED BY <1>7, <4>1, <4>2
    <3>2. CASE n > 6
      <4>1. n \in 7 .. 20
        BY <1>10, <3>2
      <4> QED BY <1>7, <2>1, <4>1, MadeNext
    <3> QED BY <1>10, <3>1, <3>2
  <2>4. There(Account, "source")'
    <3>1. n = 6 => Adds(i, n, Account, "source") /\ n \notin ProvisionReads
      BY DEF Adds, ProvisionReads
    <3> QED BY <1>4, <1>5, <1>10, <3>1
  <2>5. m > 11 => There(Account, "cron")'
    <3>1. n = 11 => Adds(i, n, Account, "cron") /\ n \notin ProvisionReads
      BY DEF Adds, ProvisionReads
    <3> QED BY <1>4, <1>5, <2>1, <3>1
  <2>6. \A part : Sees(t, part)' <=> <<i, part>> \in seen
    BY <1>1, <2>2 DEF Sees
  <2>7. m < 18 => \A part \in Metadata \cup Tables : ~Sees(t, part)'
    <3>1. m < 18 => n < 17
      BY <2>1
    <3> QED BY <1>2, <2>6, <3>1
  <2>8. m > 17 => ~Sees(t, "tablesTracked")' /\ ~Sees(t, "tablesPermitted")'
    <3>1. n >= 16 => /\ <<i, "tablesTracked">> \notin seen
                     /\ <<i, "tablesPermitted">> \notin seen
      BY <1>2 DEF Metadata, Tracked
    <3> QED BY <2>1, <2>6, <1>2
  <2>9. m > 18 => Sees(t, "tables")'
    BY <1>2, <2>1, <2>6
  <2>10. FreshAt(t)'
    BY <1>1, <2>2, <2>3, <2>4, <2>5, <2>7, <2>8, <2>9 DEF FreshAt
  <2>11. tasks'[t].state # "complete"
    BY <2>2 DEF Pending
  <2> QED BY <2>10, <2>11
<1>11. CASE n = 21
  <2>1. ~Pending(t)'
    BY <1>3, <1>11 DEF Pending
  <2>2. \A part \in OwnParts \ {"related"} : There(i, part)'
    <3> SUFFICES ASSUME NEW part \in OwnParts \ {"related"}
                 PROVE  MadeBy(n, part) \/ Adds(i, n, i, part)
      BY <1>7
    <3> QED BY <1>11 DEF MadeBy, Adds, OwnParts, Metadata, Tracked, Tables, Jobs
  <2>3. ForeignKeys => There(i, "related")'
    <3>1. "related" \in OwnParts
      BY DEF OwnParts, Metadata
    <3> QED BY <1>7, <1>11, <3>1 DEF MadeBy
  <2>4. \A part \in SharedParts : There(Account, part)'
    BY <1>4, <1>5, <1>11 DEF SharedParts, Based
  <2>5. Whole(i)'
    BY <2>2, <2>3, <2>4 DEF Whole
  <2> QED BY <1>1, <2>1, <2>5
<1> QED BY <1>9, <1>10, <1>11

LEMMA AgainKept ==
  ASSUME TypeOK, Bookkeeping, SameTasks, NEW t \in Tasks, Pending(t),
         tasks[t].kind = "provision", NEW seen, Provisions(t, seen),
         GoesOn(t, seen), AgainAt(t)
  PROVE  /\ Pending(t)' => AgainAt(t)'
         /\ \A i \in Indexers :
              tasks'[t].state = "complete" /\ tasks[t].indexer = i => Whole(i)'
<1>1. PICK i \in Indexers, n \in 1 .. 21 :
        /\ i = tasks[t].indexer /\ n = tasks[t].at /\ tasks'[t].indexer = i
        /\ i # Account
  BY PendingFacts, DataLayerAssumption DEF SameTasks
<1> DEFINE ofMetadata == /\ <<Account, "source">> \in seen
                         /\ \A part \in Metadata \ {"related"} : <<i, part>> \in seen
           ofTables == \A part \in Tables : <<i, part>> \in seen
<1>2. Whole(i)'
  <2>1. \A owner, part : There(owner, part) => There(owner, part)'
    BY Grown
  <2>2. Whole(i)
    BY <1>1 DEF AgainAt
  <2> QED BY <2>1, <2>2, WholeKept
<1>3. /\ \A part \in SharedParts : There(Account, part)
      /\ \A part \in OwnParts \ {"related"} : There(i, part)
      /\ n \in {1, 2, 9, 17, 18, 20}
      /\ n > 1 => /\ <<Account, "source">> \in tasks[t].seen
                  /\ \A part \in Metadata \ {"related"} : <<i, part>> \in tasks[t].seen
      /\ n > 2 => \A part \in Tables : <<i, part>> \in tasks[t].seen
  BY <1>1 DEF AgainAt, Whole, Sees
<1>4. ofMetadata /\ (n > 1 => ofTables)
  <2>1. CASE seen = tasks[t].seen /\ n \notin ProvisionReads
    BY <1>3, <2>1 DEF ProvisionReads
  <2>2. CASE Looks(t, seen) /\ n \in {1, 17}
    <3>1. \A owner, part : <<owner, part>> \in seen <=>
            IF \/ owner = Account /\ part = "source"
               \/ owner = i /\ part \in Metadata
            THEN There(owner, part) ELSE <<owner, part>> \in tasks[t].seen
      BY <1>1, <2>2 DEF Looks
    <3>2. \A part \in Metadata \ {"related"} : part \in OwnParts \ {"related"}
      BY DEF OwnParts
    <3>3. "source" \in SharedParts
      BY DEF SharedParts
    <3>4. ofMetadata
      BY <1>3, <3>1, <3>2, <3>3
    <3>5. \A part \in Tables : part \notin Metadata
      BY DEF Tables, Metadata, Tracked
    <3>6. n > 1 => ofTables
      BY <1>1, <1>3, <2>2, <3>1, <3>5
    <3> QED BY <3>4, <3>6
  <2>3. CASE Looks(t, seen) /\ n \in {2, 18}
    <3>1. \A owner, part : <<owner, part>> \in seen <=>
            IF owner = i /\ part \in Tables
            THEN /\ There(owner, part)
                 /\ There(Account, "database") /\ There(Account, "source")
            ELSE <<owner, part>> \in tasks[t].seen
      BY <1>1, <2>3 DEF Looks
    <3>2. \A part \in Tables : part \in OwnParts \ {"related"} /\ part \notin Metadata
      BY DEF OwnParts, Tables, Metadata, Tracked
    <3>3. "source" \in SharedParts /\ "database" \in SharedParts
      BY DEF SharedParts
    <3>4. ofTables
      BY <1>3, <3>1, <3>2, <3>3
    <3>5. ofMetadata
      BY <1>1, <1>3, <2>3, <3>1, <3>2
    <3> QED BY <3>4, <3>5
  <2>4. Looks(t, seen) => n \in {1, 17} \/ n \in {2, 18}
    BY <1>1 DEF Looks, ProvisionReads
  <2>5. Acts(t) => n \notin ProvisionReads
    BY <1>1 DEF Acts
  <2> QED BY <2>1, <2>2, <2>3, <2>4, <2>5 DEF Provisions
<1>5. /\ n > 1 => /\ \A m \in {3, 4, 5, 6, 7, 8, 10, 11, 12, 13, 14, 15, 16, 19, 21} :
                       LeavesOut(t, m, seen)
      /\ \A m \in {2, 9, 17, 18, 20} : ~LeavesOut(t, m, seen)
  <2>1. <<i, "systemTracked">> \in seen /\ <<i, "tablesTracked">> \in seen
        /\ <<i, "systemPermitted">> \in seen /\ <<i, "tablesPermitted">> \in seen
    BY <1>4 DEF Metadata, Tracked
  <2>2. n > 1 => /\ <<i, "metadata">> \in seen /\ <<i, "logs">> \in seen
                 /\ <<i, "tables">> \in seen
    BY <1>4 DEF Tables
  <2>3. \A m \in {2, 9, 17, 18, 20} : ~LeavesOut(t, m, seen)
    BY DEF LeavesOut
  <2>4. n > 1 => \A m \in {3, 4, 5, 6, 7, 8, 10, 11, 12, 13, 14, 15, 16, 19, 21} :
                   LeavesOut(t, m, seen)
    BY <1>1, <1>4, <2>1, <2>2 DEF LeavesOut
  <2> QED BY <2>3, <2>4
<1>6. CASE /\ tasks'[t].state = "pending"
           /\ tasks'[t].at \in n + 1 .. 21
           /\ ~LeavesOut(t, tasks'[t].at, seen)
           /\ \A m \in n + 1 .. tasks'[t].at - 1 : LeavesOut(t, m, seen)
           /\ tasks'[t].seen = seen
  <2>1. PICK m \in 2 .. 21 : m = tasks'[t].at
    BY <1>6
  <2>2. m \in {2, 9, 17, 18, 20}
    <3>1. n > 1 => m \notin {3, 4, 5, 6, 7, 8, 10, 11, 12, 13, 14, 15, 16, 19, 21}
      BY <1>5, <1>6, <2>1
    <3>2. n = 1 => m = 2
      <4> SUFFICES ASSUME n = 1, m > 2 PROVE FALSE
        BY <2>1
      <4>1. 2 \in n + 1 .. tasks'[t].at - 1
        BY <2>1
      <4> QED BY <1>5, <1>6, <4>1
    <3> QED BY <1>3, <2>1, <3>1, <3>2
  <2>3. m > 2 => n > 1
    <3> SUFFICES ASSUME n = 1, m > 2 PROVE FALSE
      BY <2>1
    <3>1. 2 \in n + 1 .. tasks'[t].at - 1
      BY <2>1
    <3> QED BY <1>5, <1>6, <3>1
  <2>4. \A part : Sees(t, part)' <=> <<i, part>> \in seen
    BY <1>1, <1>6 DEF Sees
  <2>5. /\ \A part \in Metadata \ {"related"} : Sees(t, part)'
        /\ m > 2 => \A part \in Tables : Sees(t, part)'
        /\ <<Account, "source">> \in tasks'[t].seen
    BY <1>4, <1>6, <2>3, <2>4
  <2>6. AgainAt(t)'
    BY <1>1, <1>2, <2>1, <2>2, <2>5 DEF AgainAt
  <2> QED BY <1>6, <2>6
<1>7. CASE tasks'[t].state = "complete"
  BY <1>1, <1>2, <1>7 DEF Pending
<1> QED BY <1>1, <1>6, <1>7 DEF GoesOn, Last

(* A deprovisioning goes on to its next step, or has come to its end. *)
LEMMA LeavingNext ==
  ASSUME NEW t \in Tasks, tasks[t].kind = "deprovision", NEW seen,
         GoesOn(t, seen), NEW n \in 1 .. 8, n = tasks[t].at,
         ~(\E j \in Indexers : <<j, "schema">> \in seen) \/ n <= 4
  PROVE  \/ /\ tasks'[t].state = "pending" /\ n < 8 /\ tasks'[t].at = n + 1
            /\ tasks'[t].seen = seen
            /\ n = 4 => ~(\E j \in Indexers : <<j, "schema">> \in seen)
         \/ tasks'[t].state = "complete" /\ n >= 4
<1> DEFINE schemas == \E j \in Indexers : <<j, "schema">> \in seen
<1>1. \A m \in 1 .. 8 : LeavesOut(t, m, seen) <=> m > 4 /\ schemas
  BY DEF LeavesOut
<1>2. CASE /\ tasks'[t].state = "pending" /\ tasks'[t].seen = seen
           /\ tasks'[t].at \in n + 1 .. 8
           /\ ~LeavesOut(t, tasks'[t].at, seen)
           /\ \A m \in n + 1 .. tasks'[t].at - 1 : LeavesOut(t, m, seen)
  <2>1. PICK next \in 2 .. 8 : next = tasks'[t].at /\ next > n
    BY <1>2
  <2>2. next = n + 1
    <3> SUFFICES ASSUME next > n + 1 PROVE FALSE
      BY <2>1
    <3>1. n + 1 \in n + 1 .. tasks'[t].at - 1 /\ n + 1 \in 1 .. 8
      BY <2>1
    <3>2. n + 1 > 4 /\ schemas
      BY <1>1, <1>2, <3>1
    <3>3. LeavesOut(t, next, seen)
      BY <1>1, <2>1, <3>2
    <3> QED BY <1>2, <2>1, <3>3
  <2>3. n = 4 => ~schemas
    BY <1>1, <1>2, <2>1, <2>2
  <2> QED BY <1>2, <2>1, <2>2, <2>3
<1>3. CASE /\ tasks'[t].state = "complete"
           /\ \A m \in n + 1 .. 8 : LeavesOut(t, m, seen)
  <2> SUFFICES ASSUME n < 4 PROVE FALSE
    BY <1>3
  <2>1. n + 1 \in n + 1 .. 8 /\ n + 1 \in 1 .. 8 /\ ~(n + 1 > 4)
    OBVIOUS
  <2> QED BY <1>1, <1>3, <2>1
<1> QED BY <1>2, <1>3 DEF GoesOn, Last

(* A deprovisioning takes apart its own Indexer, and what is shared when   *)
(* no other is left.                                                       *)
LEMMA LeavingAtKept ==
  ASSUME TypeOK, Bookkeeping, SameTasks, NEW t \in Tasks, Pending(t),
         tasks[t].kind = "deprovision", NEW seen, Provisions(t, seen),
         GoesOn(t, seen), LeavingAt(t),
         NEW i \in Indexers, i = tasks[t].indexer,
         \A j \in Indexers : j # i => Empty(j) \/ Whole(j)
  PROVE  /\ Pending(t)' => LeavingAt(t)'
         /\ tasks'[t].state = "complete" => Empty(i)'
         /\ \A j \in Indexers : Empty(j) => Empty(j)'
         /\ \A j \in Indexers : j # i /\ Whole(j) => Whole(j)'
<1>1. PICK n \in 1 .. 8 :
        /\ n = tasks[t].at /\ tasks'[t].indexer = i
        /\ Last(t) = 8 /\ i # Account
  BY PendingFacts, DataLayerAssumption DEF SameTasks, Last
<1> DEFINE schemas == \E j \in Indexers : <<j, "schema">> \in seen
<1>2. \A m \in 1 .. 8 : LeavesOut(t, m, seen) <=> m > 4 /\ schemas
  BY DEF LeavesOut
<1>3. /\ n = 1 => Empty(i) \/ Whole(i)
      /\ n \in {2, 3} => There(Account, "source")
      /\ n = 2 => \/ Empty(i)
                  \/ \A part \in OwnParts : There(i, part) <=> part \in Jobs
      /\ n = 3 => \A part \in OwnParts : There(i, part) <=> part = "deleteJob"
      /\ n > 3 => Empty(i)
      /\ n > 4 => \A j \in Indexers :
                    <<j, "schema">> \notin tasks[t].seen /\ Empty(j)
      /\ n > 5 => ~There(Account, "source")
  BY <1>1 DEF LeavingAt
<1>4. /\ n # 4 => /\ seen = tasks[t].seen
                  /\ \A owner, part :
                       /\ There(owner, part)'
                            <=> There(owner, part) /\ ~Drops(i, n, owner, part)
                       /\ Requires(i, n, owner, part) => There(owner, part)
      /\ n = 4 => /\ \A owner, part : There(owner, part)' <=> There(owner, part)
                  /\ \A j : <<j, "schema">> \in seen <=>
                       j \in Indexers /\ There(j, "schema")
  <2>1. CASE Looks(t, seen) /\ UNCHANGED has
    BY <1>1, <2>1 DEF Looks, There
  <2>2. CASE Acts(t) /\ seen = tasks[t].seen
    BY <1>1, <2>2 DEF Acts
  <2> QED BY <2>1, <2>2 DEF Provisions
<1>5. \A j \in Indexers : Whole(j) => There(j, "schema") /\ ~Empty(j)
  BY DEF Whole, Empty, OwnParts
<1>6. \A j \in Indexers : Empty(j) => Empty(j)'
  BY <1>4 DEF Empty
<1>7. ASSUME NEW j \in Indexers, j # i, Whole(j) PROVE Whole(j)'
  <2>1. ~(n > 4)
    BY <1>3, <1>5, <1>7
  <2>2. \A part : ~Drops(i, n, j, part) /\ ~Drops(i, n, Account, part)
    BY <1>1, <1>7, <2>1, DataLayerAssumption DEF Drops
  <2>3. \A part : /\ There(j, part) => There(j, part)'
                  /\ There(Account, part) => There(Account, part)'
    BY <1>4, <2>2
  <2> QED BY <1>7, <2>3 DEF Whole
<1>8. ~schemas \/ n <= 4
  <2> SUFFICES ASSUME n > 4, schemas PROVE FALSE
    OBVIOUS
  <2>1. PICK j \in Indexers : <<j, "schema">> \in seen
    OBVIOUS
  <2>2. seen = tasks[t].seen
    BY <1>4
  <2> QED BY <1>3, <2>1, <2>2
<1>9. \/ /\ tasks'[t].state = "pending" /\ n < 8 /\ tasks'[t].at = n + 1
         /\ tasks'[t].seen = seen /\ (n = 4 => ~schemas)
      \/ tasks'[t].state = "complete" /\ n >= 4
  BY <1>1, <1>8, LeavingNext
<1>10. n > 2 => Empty(i)'
  <2>1. CASE n = 3
    <3>1. Drops(i, n, i, "deleteJob")
      BY <2>1 DEF Drops
    <3> QED BY <1>3, <1>4, <2>1, <3>1 DEF Empty
  <2>2. CASE n > 3
    BY <1>3, <1>6, <2>2
  <2> QED BY <2>1, <2>2
<1>11. ASSUME Pending(t)' PROVE LeavingAt(t)'
  <2>1. PICK m \in 2 .. 8 :
          /\ m = n + 1 /\ m = tasks'[t].at
          /\ tasks'[t].seen = seen /\ (n = 4 => ~schemas)
    BY <1>9, <1>11 DEF Pending
  <2>2. m \in {2, 3} => There(Account, "source")'
    <3>1. n \in {1, 2} => ~Drops(i, n, Account, "source")
      BY <1>1 DEF Drops
    <3>2. n = 1 => Requires(i, n, Account, "source")
      BY DEF Requires
    <3> QED BY <1>3, <1>4, <2>1, <3>1, <3>2
  <2>3. m = 2 => \/ Empty(i)'
                 \/ \A part \in OwnParts : There(i, part)' <=> part \in Jobs
    <3> SUFFICES ASSUME n = 1, Whole(i)
                 PROVE  \A part \in OwnParts : There(i, part)' <=> part \in Jobs
      BY <1>3, <1>6, <2>1
    <3>1. \A part \in OwnParts : Drops(i, n, i, part) <=> part \notin Jobs
      BY <1>1 DEF Drops, OwnParts, Jobs, Tables, Metadata, Tracked
    <3>2. \A part \in Jobs : There(i, part)
      BY DEF Whole, OwnParts, Jobs
    <3> QED BY <1>4, <3>1, <3>2
  <2>4. m = 3 => \A part \in OwnParts : There(i, part)' <=> part = "deleteJob"
    <3> SUFFICES ASSUME n = 2
                 PROVE  \A part \in OwnParts :
                          There(i, part)' <=> part = "deleteJob"
      BY <2>1
    <3>1. There(i, "createJob")
      <4>1. Requires(i, n, i, "createJob")
        BY DEF Requires
      <4> QED BY <1>4, <4>1
    <3>2. \A part \in OwnParts : There(i, part) <=> part \in Jobs
      BY <1>3, <3>1 DEF Empty, OwnParts, Jobs
    <3>3. \A part : Drops(i, n, i, part) <=> part = "createJob"
      BY <1>1 DEF Drops
    <3> QED BY <1>4, <3>2, <3>3 DEF Jobs
  <2>5. m > 3 => Empty(i)'
    BY <1>10, <2>1
  <2>6. ASSUME m > 4, NEW j \in Indexers
        PROVE  <<j, "schema">> \notin tasks'[t].seen /\ Empty(j)'
    <3>1. <<j, "schema">> \notin seen
      BY <1>8, <2>1, <2>6
    <3>2. Empty(j)
      <4>1. CASE n > 4
        BY <1>3, <4>1
      <4>2. CASE n = 4
        BY <1>3, <1>4, <1>5, <3>1, <4>2
      <4> QED BY <2>1, <2>6, <4>1, <4>2
    <3> QED BY <1>6, <2>1, <3>1, <3>2
  <2>7. m > 5 => ~There(Account, "source")'
    <3>1. n = 5 => Drops(i, n, Account, "source")
      BY DEF Drops
    <3> QED BY <1>3, <1>4, <2>1, <3>1
  <2> HIDE DEF schemas
  <2>8. m # 1
    OBVIOUS
  <2> QED BY <1>1, <2>1, <2>2, <2>3, <2>4, <2>5, <2>6, <2>7, <2>8 DEF LeavingAt
<1> QED BY <1>6, <1>7, <1>9, <1>10, <1>11

(* Whom a refusal finds, when nothing fails from outside. *)
LEMMA FreshRefused ==
  ASSUME TypeOK, Bookkeeping, NEW t \in Tasks, Pending(t),
         tasks[t].kind = "provision", IsRefused(t), Based, FreshAt(t),
         NEW i \in Indexers, i = tasks[t].indexer
  PROVE  Empty(i) /\ tasks[t].at < 7
<1>1. PICK n \in 1 .. 21 : n = tasks[t].at /\ i # Account
  BY PendingFacts, DataLayerAssumption
<1>2. /\ \A part \in OwnParts : There(i, part) <=> MadeBy(n, part)
      /\ n > 6 => There(Account, "source")
      /\ n > 11 => There(Account, "cron")
  BY <1>1 DEF FreshAt
<1>3. CASE n < 7
  BY <1>1, <1>2, <1>3 DEF Empty, MadeBy
<1>4. CASE n >= 7
  <2>1. There(Account, "source") /\ There(Account, "database") /\ There(Account, "user")
    BY <1>2, <1>4 DEF Based
  <2>2. \A owner, part : Needs(i, n, owner, part) => There(owner, part)
    <3> SUFFICES ASSUME NEW owner, NEW part, Needs(i, n, owner, part)
                 PROVE  There(owner, part)
      OBVIOUS
    <3>1. CASE owner = Account
      BY <1>1, <1>2, <1>4, <2>1, <3>1 DEF Needs
    <3>2. CASE owner = i
      <4>1. MadeBy(n, part) /\ part \in OwnParts
        BY <1>1, <1>4, <3>2 DEF Needs, MadeBy, OwnParts, Tables, Metadata, Tracked
      <4> QED BY <1>2, <3>2, <4>1
    <3> QED BY <3>1, <3>2 DEF Needs
  <2>3. \A owner, part :
          Adds(i, n, owner, part) /\ There(owner, part) => n \in {8, 11, 12, 13}
    <3> SUFFICES ASSUME NEW owner, NEW part, Adds(i, n, owner, part),
                        There(owner, part), n \notin {8, 11, 12, 13}
                 PROVE  FALSE
      OBVIOUS
    <3>1. CASE owner = Account
      BY <1>1, <1>4, <3>1 DEF Adds
    <3>2. CASE owner = i
      <4>1. ~MadeBy(n, part) /\ part \in OwnParts
        BY <1>1, <1>4, <3>2 DEF Adds, MadeBy, OwnParts, Tables, Metadata, Tracked, Jobs
      <4> QED BY <1>2, <3>2, <4>1
    <3> QED BY <3>1, <3>2 DEF Adds
  <2> QED BY <1>1, <2>1, <2>2, <2>3 DEF IsRefused
<1> QED BY <1>3, <1>4

LEMMA LeavingRefused ==
  ASSUME TypeOK, Bookkeeping, NEW t \in Tasks, Pending(t),
         tasks[t].kind = "deprovision", IsRefused(t), LeavingAt(t),
         NEW i \in Indexers, i = tasks[t].indexer
  PROVE  Empty(i) \/ Whole(i)
<1>1. PICK n \in 1 .. 8 : n = tasks[t].at /\ i # Account
  BY PendingFacts, DataLayerAssumption
<1>2. /\ n = 1 => Empty(i) \/ Whole(i)
      /\ n \in {2, 3} => There(Account, "source")
      /\ n = 2 => \/ Empty(i)
                  \/ \A part \in OwnParts : There(i, part) <=> part \in Jobs
      /\ n = 3 => \A part \in OwnParts : There(i, part) <=> part = "deleteJob"
      /\ n > 3 => Empty(i)
  BY <1>1 DEF LeavingAt
<1>3. CASE n = 2 /\ \A part \in OwnParts : There(i, part) <=> part \in Jobs
  <2>1. There(i, "createJob")
    BY <1>3 DEF OwnParts, Jobs
  <2>2. \A owner, part : Requires(i, n, owner, part) => There(owner, part)
    BY <1>1, <1>2, <1>3, <2>1 DEF Requires
  <2> QED BY <1>1, <1>3, <2>2 DEF IsRefused
<1>4. CASE n = 3
  <2>1. There(i, "deleteJob")
    BY <1>2, <1>4 DEF OwnParts, Jobs
  <2>2. \A owner, part : Requires(i, n, owner, part) => There(owner, part)
    BY <1>1, <1>2, <1>4, <2>1 DEF Requires
  <2> QED BY <1>1, <1>4, <2>2 DEF IsRefused
<1> QED BY <1>2, <1>3, <1>4

(* Two tasks that run at once are provisionings of different Indexers. *)
LEMMA Apart ==
  ASSUME TypeOK, Bookkeeping, OnlyProvisionBeside, NEW t \in Tasks, Pending(t),
         NEW u \in Tasks, u # t, Started(u), u > t \/ Pending(u)
  PROVE  /\ tasks[u].indexer # tasks[t].indexer
         /\ tasks[t].kind = "provision" /\ tasks[u].kind = "provision"
<1>1. u \in Nat /\ t \in Nat
  BY DataLayerAssumption DEF Tasks
<1>2. Started(t)
  BY DEF Pending, Started
<1>3. t \in tasks[u].beside \/ u \in tasks[t].beside
  BY <1>1, <1>2 DEF Bookkeeping
<1>4. {t, u} \cap Removals = {} /\ tasks[u].indexer # tasks[t].indexer
  BY <1>3 DEF OnlyProvisionBeside
<1>5. tasks[t].kind \in Kinds /\ tasks[u].kind \in Kinds
  BY DEF TypeOK, TaskType
<1> QED BY <1>4, <1>5 DEF Removals, Kinds

(* What a step does to its task and to the Indexers. *)
LEMMA OrderlyTask ==
  ASSUME TypeOK, Bookkeeping, SameTasks, Orderly, OnlyProvisionBeside,
         NEW t \in Tasks, Pending(t), NEW i \in Indexers, i = tasks[t].indexer,
         \/ \E seen : GoesOn(t, seen) /\ Provisions(t, seen)
         \/ Fails(t) /\ IsRefused(t) /\ UNCHANGED has
  PROVE  /\ Based'
         /\ Pending(t)' /\ tasks[t].kind = "provision" =>
              /\ SeesSource(t)' => There(Account, "source")'
              /\ FreshAt(t)' \/ AgainAt(t)'
         /\ Pending(t)' /\ tasks[t].kind = "deprovision" => LeavingAt(t)'
         /\ ~Pending(t)' => Empty(i)' \/ Whole(i)'
         /\ tasks'[t].state = "complete" =>
              IF tasks[t].kind = "provision" THEN Whole(i)' ELSE Empty(i)'
         /\ \A j \in Indexers : j # i =>
              (Empty(j) => Empty(j)') /\ (Whole(j) => Whole(j)')
         /\ IF tasks[t].kind = "provision"
            THEN Whole(i) => Whole(i)' ELSE Empty(i) => Empty(i)'
         /\ tasks[t].kind = "provision" =>
              /\ \A part : There(Account, part) => There(Account, part)'
              /\ \A j \in Indexers : \A part :
                   j # i => (There(j, part)' <=> There(j, part))
<1>1. /\ tasks'[t].indexer = i /\ i # Account /\ Based
      /\ tasks[t].kind \in Kinds
  BY PendingFacts, DataLayerAssumption DEF SameTasks, Orderly
<1>2. /\ tasks[t].kind = "provision" =>
           /\ SeesSource(t) => There(Account, "source")
           /\ FreshAt(t) \/ AgainAt(t)
      /\ tasks[t].kind = "deprovision" => LeavingAt(t)
  BY DEF Orderly
<1>3. Based'
  BY <1>1, <1>2, BasedKept DEF Provisions
<1>4. CASE Fails(t) /\ IsRefused(t) /\ UNCHANGED has
  <2>1. \A owner, part : There(owner, part)' <=> There(owner, part)
    BY <1>4 DEF There
  <2>2. /\ \A j \in Indexers : Empty(j)' <=> Empty(j)
        /\ \A j \in Indexers : Whole(j)' <=> Whole(j)
    BY <2>1 DEF Empty, Whole
  <2>3. Empty(i) \/ Whole(i)
    <3>1. CASE tasks[t].kind = "provision"
      <4>1. FreshAt(t) => Empty(i)
        BY <1>1, <1>4, <3>1, FreshRefused
      <4>2. AgainAt(t) => Whole(i)
        BY DEF AgainAt
      <4> QED BY <1>2, <3>1, <4>1, <4>2
    <3>2. CASE tasks[t].kind = "deprovision"
      BY <1>2, <1>4, <3>2, LeavingRefused
    <3> QED BY <1>1, <3>1, <3>2 DEF Kinds
  <2>4. tasks'[t].state # "complete"
    BY <1>4 DEF Fails
  <2>5. ASSUME Pending(t)'
        PROVE  /\ SeesSource(t)' <=> SeesSource(t)
               /\ FreshAt(t) => FreshAt(t)'
               /\ AgainAt(t) => AgainAt(t)'
               /\ LeavingAt(t) => LeavingAt(t)'
    <3>1. tasks'[t].at = tasks[t].at /\ tasks'[t].seen = tasks[t].seen
      BY <1>4, <2>5 DEF Fails, Pending
    <3>2. \A part : Sees(t, part)' <=> Sees(t, part)
      BY <1>1, <3>1 DEF Sees
    <3>3. SeesSource(t)' <=> SeesSource(t)
      BY <3>1 DEF SeesSource
    <3>4. FreshAt(t) => FreshAt(t)'
      BY <1>1, <2>1, <3>1, <3>2 DEF FreshAt
    <3>5. AgainAt(t) => AgainAt(t)'
      BY <1>1, <2>1, <2>2, <3>1, <3>2 DEF AgainAt
    <3>6. LeavingAt(t) => LeavingAt(t)'
      <4>1. /\ Empty(i)' <=> Empty(i)
            /\ Whole(i)' <=> Whole(i)
        BY <2>2
      <4> QED BY <1>1, <2>1, <2>2, <3>1, <4>1 DEF LeavingAt
    <3> QED BY <3>3, <3>4, <3>5, <3>6
  <2> QED BY <1>2, <1>3, <2>1, <2>2, <2>3, <2>4, <2>5
<1>5. CASE /\ \E seen : GoesOn(t, seen) /\ Provisions(t, seen)
           /\ tasks[t].kind = "provision"
  <2>1. PICK seen : GoesOn(t, seen) /\ Provisions(t, seen)
    BY <1>5
  <2>2. \A owner, part : There(owner, part) => There(owner, part)'
    BY <1>5, <2>1, Grown
  <2>3. \A j \in Indexers : \A part : j # i => (There(j, part)' <=> There(j, part))
    <3>1. CASE UNCHANGED has
      BY <3>1 DEF There
    <3>2. CASE Acts(t)
      <4>1. \A j \in Indexers : \A part : j # i => ~Adds(i, tasks[t].at, j, part)
        BY DataLayerAssumption DEF Adds
      <4> QED BY <1>5, <3>2, <4>1 DEF Acts
    <3> QED BY <2>1, <3>1, <3>2 DEF Provisions
  <2>4. /\ FreshAt(t) => /\ Pending(t)' => FreshAt(t)'
                         /\ tasks'[t].state = "complete" => Whole(i)'
    BY <1>1, <1>2, <1>5, <2>1, FreshKept
  <2>5. /\ AgainAt(t) => /\ Pending(t)' => AgainAt(t)'
                         /\ tasks'[t].state = "complete" => Whole(i)'
    BY <1>5, <2>1, AgainKept
  <2>6. ASSUME Pending(t)', SeesSource(t)' PROVE There(Account, "source")'
    <3>1. tasks'[t].seen = seen
      BY <2>1, <2>6 DEF GoesOn, Pending
    <3> QED BY <1>2, <1>5, <2>1, <2>6, <3>1, SourceSeen DEF SeesSource
  <2>7. ~Pending(t)' => tasks'[t].state = "complete"
    BY <2>1 DEF GoesOn, Pending
  <2>8. /\ \A j \in Indexers : j # i => (Empty(j) => Empty(j)')
        /\ \A j \in Indexers : Whole(j) => Whole(j)'
    BY <2>2, <2>3, WholeKept DEF Empty
  <2> QED BY <1>2, <1>3, <1>5, <2>2, <2>3, <2>4, <2>5, <2>6, <2>7, <2>8
<1>6. CASE /\ \E seen : GoesOn(t, seen) /\ Provisions(t, seen)
           /\ tasks[t].kind = "deprovision"
  <2>1. PICK seen : GoesOn(t, seen) /\ Provisions(t, seen)
    BY <1>6
  <2>2. ASSUME NEW j \in Indexers, j # i PROVE Empty(j) \/ Whole(j)
    <3>1. ASSUME NEW u \in Tasks, Serves(u, j), Pending(u) PROVE FALSE
      <4>1. u # t /\ Started(u)
        BY <2>2, <3>1 DEF Serves
      <4> QED BY <1>6, <3>1, <4>1, Apart
    <3> QED BY <3>1 DEF Orderly, Idle
  <2>3. /\ Pending(t)' => LeavingAt(t)'
        /\ tasks'[t].state = "complete" => Empty(i)'
        /\ \A j \in Indexers : Empty(j) => Empty(j)'
        /\ \A j \in Indexers : j # i /\ Whole(j) => Whole(j)'
    BY <1>2, <1>6, <2>1, <2>2, LeavingAtKept
  <2>4. ~Pending(t)' => tasks'[t].state = "complete"
    BY <2>1 DEF GoesOn, Pending
  <2> QED BY <1>3, <1>6, <2>3, <2>4
<1> QED BY <1>1, <1>4, <1>5, <1>6 DEF Kinds

(* What another task relies on. *)
LEMMA OtherKept ==
  ASSUME TypeOK, Bookkeeping, NEW u \in Tasks, Pending(u), tasks'[u] = tasks[u],
         \A part : There(Account, part) => There(Account, part)',
         \A part : There(tasks[u].indexer, part)' <=> There(tasks[u].indexer, part)
  PROVE  /\ FreshAt(u) => FreshAt(u)'
         /\ AgainAt(u) => AgainAt(u)'
<1>1. PICK j \in Indexers, n \in Nat :
        /\ j = tasks[u].indexer /\ j = tasks'[u].indexer
        /\ n = tasks[u].at /\ n = tasks'[u].at /\ tasks'[u].seen = tasks[u].seen
  BY PendingFacts DEF TaskType
<1>2. \A part : There(j, part)' <=> There(j, part)
  BY <1>1 DEF There
<1>3. \A part : Sees(u, part)' <=> Sees(u, part)
  BY <1>1 DEF Sees
<1>4. FreshAt(u) => FreshAt(u)'
  BY <1>1, <1>2, <1>3 DEF FreshAt
<1>5. Whole(j) => Whole(j)'
  BY <1>2 DEF Whole
<1>6. AgainAt(u) => AgainAt(u)'
  BY <1>1, <1>3, <1>5 DEF AgainAt
<1> QED BY <1>4, <1>6

(* A step of a task that nothing outside disturbs. *)
LEMMA OrderlyOn ==
  ASSUME TypeOK, Bookkeeping, Orderly, OnlyProvisionBeside, NEW t \in Tasks,
         TaskStep(t), faults' = 0
  PROVE  Orderly'
<1>1. /\ Pending(t) /\ SameTasks
      /\ \A u \in Tasks \ {t} : tasks'[u] = tasks[u]
      /\ \/ \E seen : GoesOn(t, seen) /\ Provisions(t, seen)
         \/ Fails(t) /\ IsRefused(t) /\ UNCHANGED has
  BY TaskSteps DEF TaskStep, Provisions
<1>2. PICK i \in Indexers :
        /\ i = tasks[t].indexer /\ i = tasks'[t].indexer
        /\ tasks[t].kind \in Kinds /\ tasks'[t].kind = tasks[t].kind
        /\ Serves(t, i) /\ Serves(t, i)'
  BY <1>1, PendingFacts DEF SameTasks, Serves, Pending, Started
<1>3. /\ Based'
      /\ Pending(t)' /\ tasks[t].kind = "provision" =>
           /\ SeesSource(t)' => There(Account, "source")'
           /\ FreshAt(t)' \/ AgainAt(t)'
      /\ Pending(t)' /\ tasks[t].kind = "deprovision" => LeavingAt(t)'
      /\ ~Pending(t)' => Empty(i)' \/ Whole(i)'
      /\ tasks'[t].state = "complete" =>
           IF tasks[t].kind = "provision" THEN Whole(i)' ELSE Empty(i)'
      /\ \A j \in Indexers : j # i =>
           (Empty(j) => Empty(j)') /\ (Whole(j) => Whole(j)')
      /\ IF tasks[t].kind = "provision"
         THEN Whole(i) => Whole(i)' ELSE Empty(i) => Empty(i)'
      /\ tasks[t].kind = "provision" =>
           /\ \A part : There(Account, part) => There(Account, part)'
           /\ \A j \in Indexers : \A part :
                j # i => (There(j, part)' <=> There(j, part))
  BY <1>1, <1>2, OrderlyTask
<1>4. ASSUME NEW u \in Tasks, u # t, Pending(u)
      PROVE  /\ tasks[u].indexer \in Indexers /\ tasks[u].indexer # i
             /\ tasks[t].kind = "provision" /\ tasks[u].kind = "provision"
  <2>1. Started(u)
    BY <1>4 DEF Pending, Started
  <2>2. tasks[u].indexer \in Indexers
    BY <1>4, PendingFacts
  <2> QED BY <1>1, <1>2, <1>4, <2>1, <2>2, Apart
<1>5. ASSUME NEW j \in Indexers, Idle(j)'
      PROVE  Empty(j)' \/ Whole(j)'
  <2>1. CASE j = i
    BY <1>2, <1>3, <1>5, <2>1 DEF Idle
  <2>2. CASE j # i
    <3>1. ASSUME NEW u \in Tasks, Serves(u, j), Pending(u) PROVE FALSE
      <4>1. u # t
        BY <1>2, <2>2, <3>1 DEF Serves
      <4>2. Serves(u, j)' /\ Pending(u)'
        BY <1>1, <3>1, <4>1 DEF Serves, Started, Pending
      <4> QED BY <1>5, <4>2 DEF Idle
    <3>2. Empty(j) \/ Whole(j)
      BY <3>1 DEF Orderly, Idle
    <3> QED BY <1>3, <2>2, <3>2
  <2> QED BY <2>1, <2>2
<1>6. ASSUME NEW u \in Tasks, u # t, Pending(u)'
      PROVE  /\ tasks'[u].kind = "provision"
             /\ SeesSource(u)' => There(Account, "source")'
             /\ FreshAt(u)' \/ AgainAt(u)'
  <2>1. tasks'[u] = tasks[u] /\ Pending(u)
    BY <1>1, <1>6 DEF SameTasks
  <2>2. /\ tasks[u].indexer \in Indexers /\ tasks[u].indexer # i
        /\ tasks[t].kind = "provision" /\ tasks[u].kind = "provision"
    BY <1>4, <1>6, <2>1
  <2>3. /\ SeesSource(u) => There(Account, "source")
        /\ FreshAt(u) \/ AgainAt(u)
    BY <2>1, <2>2 DEF Orderly
  <2>4. /\ \A part : There(Account, part) => There(Account, part)'
        /\ \A part : There(tasks[u].indexer, part)'
                       <=> There(tasks[u].indexer, part)
    BY <1>3, <2>2, <2>1 DEF There
  <2>5. /\ FreshAt(u) => FreshAt(u)'
        /\ AgainAt(u) => AgainAt(u)'
    BY <2>1, <2>4, OtherKept
  <2>6. SeesSource(u)' <=> SeesSource(u)
    BY <2>1 DEF SeesSource
  <2> QED BY <2>1, <2>2, <2>3, <2>4, <2>5, <2>6
<1>7. ASSUME NEW u \in Tasks, NEW j \in Indexers, Serves(u, j)',
             NEW kind \in Kinds, Completed(u, kind)'
      PROVE  IF kind = "provision" THEN Whole(j)' ELSE Empty(j)'
  <2>1. CASE u = t
    <3>1. j = i /\ tasks[t].kind = kind /\ tasks'[t].state = "complete"
      BY <1>2, <1>7, <2>1 DEF Serves, Completed
    <3> QED BY <1>3, <3>1
  <2>2. CASE u # t
    <3>1. tasks'[u] = tasks[u] /\ Stands(u)
      BY <1>1, <1>7, <2>2 DEF SameTasks, Completed
    <3>2. Completed(u, kind) /\ Serves(u, j) /\ Started(u)
      BY <1>7, <3>1 DEF Completed, Serves, Started
    <3>3. u \in Nat /\ t \in Nat
      BY DataLayerAssumption DEF Tasks
    <3>4. j = i => tasks[t].kind = kind
      <4>1. CASE u > t
        BY <1>1, <1>2, <2>2, <3>2, <4>1, Apart DEF Serves
      <4>2. CASE t > u
        BY <1>2, <3>1, <3>2, <4>2 DEF Stands, Serves, Completed
      <4> QED BY <2>2, <3>3, <4>1, <4>2
    <3>5. IF kind = "provision" THEN Whole(j) ELSE Empty(j)
      BY <3>2 DEF Orderly, Kinds
    <3> QED BY <1>3, <3>4, <3>5
  <2> QED BY <2>1, <2>2
<1>8. \A u \in Tasks : Pending(u)' /\ tasks'[u].kind = "provision" =>
        /\ SeesSource(u)' => There(Account, "source")'
        /\ FreshAt(u)' \/ AgainAt(u)'
  BY <1>2, <1>3, <1>6
<1>9. \A u \in Tasks :
        Pending(u)' /\ tasks'[u].kind = "deprovision" => LeavingAt(u)'
  BY <1>2, <1>3, <1>6
<1>10. \A u \in Tasks, j \in Indexers : Serves(u, j)' =>
         /\ Completed(u, "provision")' => Whole(j)'
         /\ Completed(u, "deprovision")' => Empty(j)'
  BY <1>7 DEF Kinds
<1> QED BY <1>3, <1>5, <1>8, <1>9, <1>10 DEF Orderly

(* A task that begins finds its Indexer untouched or whole. *)
LEMMA OrderlyBegins ==
  ASSUME TypeOK, Bookkeeping, CalmInv, NEW t \in Tasks, NEW i \in Indexers,
         Begins(t, i), Calm'
  PROVE  Orderly'
<1>1. /\ ~Started(t) /\ has' = has
      /\ tasks'[t].kind \in Kinds /\ tasks'[t].indexer = i
      /\ tasks'[t].at = 1 /\ tasks'[t].state = "pending"
      /\ tasks'[t].seen = {} /\ tasks'[t].beside = {u \in Tasks : Pending(u)}
      /\ \A u \in Tasks \ {t} : tasks'[u] = tasks[u]
  <2>1. Kind(i) \in Kinds
    BY DEF Kind, Kinds
  <2> QED BY <2>1, StartFacts DEF Begins
<1>2. OnlyProvisionBeside
  <2>1. tasks[t] = Unstarted
    BY <1>1 DEF Bookkeeping
  <2>2. ASSUME NEW u \in Tasks, NEW v \in tasks[u].beside
        PROVE  /\ u # t /\ v # t /\ v \in Tasks
    <3>1. u # t
      BY <2>1, <2>2 DEF Unstarted
    <3>2. Started(v)
      BY <2>2 DEF Bookkeeping
    <3>3. tasks[u] \in TaskType
      BY DEF TypeOK
    <3> QED BY <1>1, <2>2, <3>1, <3>2, <3>3 DEF TaskType
  <2>3. ASSUME NEW u \in Tasks, NEW v \in tasks[u].beside
        PROVE  tasks[v].indexer # tasks[u].indexer /\ {u, v} \cap Removals = {}
    <3>1. /\ tasks'[u] = tasks[u] /\ tasks'[v] = tasks[v] /\ v \in Tasks
      BY <1>1, <2>2, <2>3
    <3>2. tasks'[v].indexer # tasks'[u].indexer /\ {u, v} \cap Removals' = {}
      BY <2>3, <3>1 DEF Calm, OnlyProvisionBeside
    <3> QED BY <3>1, <3>2 DEF Removals
  <2> QED BY <2>3 DEF OnlyProvisionBeside
<1>3. Orderly
  <2>1. faults \in 0 .. MaxFaults /\ faults' = 0 /\ faults' >= faults
    BY DEF TypeOK, Begins, Calm
  <2>2. faults = 0
    BY <2>1, DataLayerAssumption
  <2> QED BY <1>2, <2>2 DEF CalmInv, Calm
<1>4. ASSUME NEW u \in Tasks, Pending(u)
      PROVE  /\ u # t /\ tasks[u].indexer # i /\ tasks[u].kind = "provision"
  <2>1. u # t
    BY <1>1, <1>4 DEF Pending, Started
  <2>2. tasks'[u] = tasks[u] /\ u \in tasks'[t].beside
    BY <1>1, <1>4, <2>1
  <2>3. tasks'[u].indexer # i /\ u \notin Removals'
    BY <1>1, <2>2 DEF Calm, OnlyProvisionBeside
  <2>4. tasks[u].kind \in Kinds
    BY DEF TypeOK, TaskType
  <2> QED BY <2>1, <2>2, <2>3, <2>4 DEF Removals, Kinds
<1>5. \A owner, part : There(owner, part)' <=> There(owner, part)
  BY <1>1 DEF There
<1>6. \A j \in Indexers : (Empty(j)' <=> Empty(j)) /\ (Whole(j)' <=> Whole(j))
  BY <1>5 DEF Empty, Whole
<1>7. Empty(i) \/ Whole(i)
  BY <1>3, <1>4 DEF Orderly, Idle, Serves
<1>8. /\ SeesSource(t)' => There(Account, "source")'
      /\ FreshAt(t)' \/ AgainAt(t)'
      /\ LeavingAt(t)'
  <2>1. \A part : ~Sees(t, part)'
    BY <1>1 DEF Sees
  <2>2. ~SeesSource(t)'
    BY <1>1 DEF SeesSource
  <2>3. Empty(i) => FreshAt(t)'
    <3>1. \A part : ~MadeBy(1, part)
      BY DEF MadeBy
    <3> QED BY <1>1, <1>5, <2>1, <3>1 DEF Empty, FreshAt
  <2>4. Whole(i) => AgainAt(t)'
    BY <1>1, <1>6 DEF AgainAt
  <2>5. LeavingAt(t)'
    <3>1. Empty(i)' \/ Whole(i)'
      BY <1>6, <1>7
    <3> QED BY <1>1, <3>1 DEF LeavingAt
  <2> QED BY <1>7, <2>2, <2>3, <2>4, <2>5
<1>9. ASSUME NEW u \in Tasks, u # t, Pending(u)'
      PROVE  /\ tasks'[u].kind = "provision"
             /\ SeesSource(u)' => There(Account, "source")'
             /\ FreshAt(u)' \/ AgainAt(u)'
  <2>1. tasks'[u] = tasks[u] /\ Pending(u)
    BY <1>1, <1>9 DEF Pending
  <2>2. tasks[u].kind = "provision"
    BY <1>4, <2>1
  <2>3. /\ SeesSource(u) => There(Account, "source")
        /\ FreshAt(u) \/ AgainAt(u)
    BY <1>3, <2>1, <2>2 DEF Orderly
  <2>4. /\ FreshAt(u) => FreshAt(u)'
        /\ AgainAt(u) => AgainAt(u)'
    <3>1. \A part : There(tasks[u].indexer, part)'
                      <=> There(tasks[u].indexer, part)
      BY <1>1, <2>1 DEF There
    <3>2. \A part : There(Account, part) => There(Account, part)'
      BY <1>5
    <3> QED BY <2>1, <3>1, <3>2, OtherKept
  <2>5. SeesSource(u)' <=> SeesSource(u)
    BY <2>1 DEF SeesSource
  <2> QED BY <1>5, <2>1, <2>2, <2>3, <2>4, <2>5
<1>10. Based'
  BY <1>3, <1>5 DEF Orderly, Based
<1>11. ASSUME NEW j \in Indexers, Idle(j)'
       PROVE  Empty(j)' \/ Whole(j)'
  <2>1. ASSUME NEW u \in Tasks, Serves(u, j), Pending(u) PROVE FALSE
    <3>1. u # t
      BY <1>4, <2>1
    <3>2. Serves(u, j)' /\ Pending(u)'
      BY <1>1, <2>1, <3>1 DEF Serves, Started, Pending
    <3> QED BY <1>11, <3>2 DEF Idle
  <2> QED BY <1>3, <1>6, <2>1 DEF Orderly, Idle
<1>12. ASSUME NEW u \in Tasks, NEW j \in Indexers, Serves(u, j)'
       PROVE  /\ Completed(u, "provision")' => Whole(j)'
              /\ Completed(u, "deprovision")' => Empty(j)'
  <2>1. \A kind : Completed(u, kind)' => u # t /\ Completed(u, kind)
    BY <1>1, CompletedBefore
  <2>2. u # t => Serves(u, j)
    BY <1>1, <1>12 DEF Serves, Started
  <2> QED BY <1>3, <1>6, <2>1, <2>2 DEF Orderly
<1>13. \A u \in Tasks : Pending(u)' /\ tasks'[u].kind = "provision" =>
         /\ SeesSource(u)' => There(Account, "source")'
         /\ FreshAt(u)' \/ AgainAt(u)'
  BY <1>8, <1>9
<1>14. \A u \in Tasks :
         Pending(u)' /\ tasks'[u].kind = "deprovision" => LeavingAt(u)'
  BY <1>8, <1>9
<1> QED BY <1>10, <1>11, <1>12, <1>13, <1>14 DEF Orderly

LEMMA CalmStep ==
  ASSUME TasksInv, CalmInv, [HandlerNext]_handlerVars
  PROVE  CalmInv'
<1> SUFFICES ASSUME Calm' PROVE Orderly'
  BY DEF CalmInv
<1>1. TypeOK /\ Bookkeeping /\ HandlerTypeOK
  BY DEF TasksInv
<1>2. faults \in 0 .. MaxFaults /\ MaxFaults \in Nat /\ faults' = 0
  BY <1>1, DataLayerAssumption DEF TypeOK, Calm
<1>3. ASSUME UNCHANGED <<has, tasks>>, faults' >= faults
      PROVE  Orderly'
  <2>1. faults = 0
    BY <1>2, <1>3
  <2>2. OnlyProvisionBeside
    BY <1>3 DEF Calm, OnlyProvisionBeside, Removals
  <2>3. Orderly
    BY <2>1, <2>2 DEF CalmInv, Calm
  <2>4. \A owner, part : There(owner, part)' <=> There(owner, part)
    BY <1>3 DEF There
  <2>5. /\ Based' <=> Based
        /\ \A i \in Indexers : /\ Empty(i)' <=> Empty(i)
                               /\ Whole(i)' <=> Whole(i)
                               /\ Idle(i)' <=> Idle(i)
    BY <1>3, <2>4 DEF Based, Empty, Whole, Idle, Serves, Started, Pending
  <2>6. \A u \in Tasks :
          /\ Pending(u)' <=> Pending(u)
          /\ tasks'[u].kind = tasks[u].kind
          /\ SeesSource(u)' <=> SeesSource(u)
          /\ \A kind \in Kinds : Completed(u, kind)' <=> Completed(u, kind)
          /\ \A i \in Indexers : Serves(u, i)' <=> Serves(u, i)
    BY <1>3 DEF Pending, SeesSource, Completed, Stands, Serves, Started
  <2>7. \A u \in Tasks : FreshAt(u)' <=> FreshAt(u)
    BY <1>3 DEF FreshAt, There, Sees
  <2>8. \A u \in Tasks : AgainAt(u)' <=> AgainAt(u)
    BY <1>3 DEF AgainAt, Whole, There, Sees
  <2>9. \A u \in Tasks : LeavingAt(u)' <=> LeavingAt(u)
    BY <1>3 DEF LeavingAt, Whole, Empty, There
  <2> QED BY <2>3, <2>4, <2>5, <2>6, <2>7, <2>8, <2>9 DEF Orderly, Kinds
<1>4. ASSUME NEW t \in Tasks, TaskStep(t)
      PROVE  Orderly'
  <2>1. SameTasks /\ (faults' = faults \/ faults' > 0)
    BY <1>1, <1>4, TaskSteps DEF TaskStep
  <2>2. faults = 0 /\ OnlyProvisionBeside
    BY <1>2, <2>1 DEF SameTasks, Calm
  <2>3. Orderly
    BY <2>2 DEF CalmInv, Calm
  <2> QED BY <1>1, <1>2, <1>4, <2>2, <2>3, OrderlyOn
<1>5. ~RunnerRestarts
  <2>1. RunnerRestarts => faults' = faults + 1
    BY DEF RunnerRestarts
  <2> QED BY <1>2, <2>1
<1>6. ASSUME NEW t \in Tasks, NEW i \in Indexers, Begins(t, i)
      PROVE  Orderly'
  BY <1>1, <1>6, OrderlyBegins
<1>7. CASE UNCHANGED handlerVars
  <2>1. UNCHANGED <<has, tasks>> /\ faults' = faults
    BY <1>7 DEF handlerVars, vars
  <2> QED BY <1>2, <1>3, <2>1
<1> QED BY <1>1, <1>3, <1>4, <1>5, <1>6, <1>7, HandlerSteps DEF Handles

(* A provisioning that says COMPLETE is the truth, for as long as nobody   *)
(* deprovisions its Indexer: tasks of the other Indexers take nothing away.*)
THEOREM ProvisioningCorrect == HandlerSpec => []CompleteIsProvisioned
<1> DEFINE Inv == TasksInv /\ CalmInv
<1>1. HandlerInit => Inv
  <2> SUFFICES ASSUME HandlerInit PROVE CalmInv
    BY TasksStart
  <2>1. has = {} /\ tasks = [t \in Tasks |-> Unstarted]
    BY DEF HandlerInit, Init
  <2>2. Based /\ \A i \in Indexers : Empty(i)
    BY <2>1 DEF Based, Empty, There
  <2>3. \A t \in Tasks : ~Pending(t) /\ tasks[t].state # "complete"
    BY <2>1 DEF Pending, Unstarted
  <2> QED BY <2>2, <2>3 DEF CalmInv, Orderly, Completed
<1>2. Inv /\ [HandlerNext]_handlerVars => Inv'
  BY TasksStep, CalmStep
<1>3. Inv => CompleteIsProvisioned
  <2> SUFFICES ASSUME TasksInv, CalmInv, Calm,
                      NEW t \in Tasks, Completed(t, "provision")
               PROVE  Provisioned(tasks[t].indexer)
    BY DEF CompleteIsProvisioned, Calm
  <2>1. Started(t) /\ tasks[t].indexer \in Indexers
    BY DEF Completed, Started, TasksInv, Bookkeeping
  <2>2. Whole(tasks[t].indexer)
    BY <2>1 DEF CalmInv, Orderly, Serves
  <2> QED BY <2>1, <2>2, WholeFacts
<1> QED BY <1>1, <1>2, <1>3, PTL DEF HandlerSpec

-----------------------------------------------------------------------------
(***************************************************************************)
(* While no two tasks run at all, and nothing fails from outside: only a   *)
(* deprovisioning is refused that follows no provisioning.  With foreign   *)
(* keys a repeated provisioning is, see README.                            *)
(***************************************************************************)
AllShared == \A part \in SharedParts : There(Account, part)

(* What a task finds when it runs alone: of what is shared, all or nothing. *)
ProvisioningAlone(t) ==
  LET n == tasks[t].at
  IN /\ n \in {1, 2} => NothingShared \/ AllShared
     /\ n = 2 => (SeesSource(t) <=> There(Account, "source"))
     /\ n \in 3 .. 6 => /\ ~There(Account, "source")
                        /\ There(Account, "database") <=> n > 3
                        /\ There(Account, "user") <=> n > 4

DeprovisioningAlone(t) ==
  LET i == tasks[t].indexer
      n == tasks[t].at
  IN /\ n = 1 => Whole(i)
     /\ n = 2 => There(i, "createJob")
     /\ n < 6 => AllShared
     /\ n < 8 => There(Account, "user")

(* One that follows no provisioning finds nothing, and comes to its job.   *)
InVain(t) ==
  /\ tasks[t].at \in {1, 2} /\ Empty(tasks[t].indexer)
  /\ NothingShared \/ AllShared

Undisturbed ==
  /\ \A t \in Tasks : tasks[t].state # "notFound"
  /\ \A t \in Tasks :
       tasks[t].state = "failed" => tasks[t].kind = "deprovision" /\ ~Undoes(t)
  /\ \A t \in Tasks, i \in Indexers :
       Serves(t, i) /\ tasks[t].state = "failed" /\ Stands(t) => Empty(i)
  /\ \A t \in Tasks : Pending(t) /\ tasks[t].kind = "provision" =>
       ProvisioningAlone(t)
  /\ \A t \in Tasks : Pending(t) /\ tasks[t].kind = "deprovision" =>
       IF Undoes(t) THEN DeprovisioningAlone(t) ELSE InVain(t)
  /\ (\A t \in Tasks : ~Pending(t)) => NothingShared \/ AllShared
SerialInv == faults = 0 /\ Overlapping = {} => Undisturbed

(* A provisioning that runs alone makes what is shared, or finds it. *)
LEMMA ProvisioningAloneKept ==
  ASSUME TypeOK, Bookkeeping, NEW t \in Tasks, Pending(t),
         tasks[t].kind = "provision", NEW seen, Provisions(t, seen),
         GoesOn(t, seen), SeesSource(t) => There(Account, "source"),
         ProvisioningAlone(t), Pending(t)'
  PROVE  ProvisioningAlone(t)'
<1>1. PICK n \in 1 .. 21, i \in Indexers :
        n = tasks[t].at /\ i = tasks[t].indexer /\ i # Account
  BY PendingFacts, DataLayerAssumption
<1>2. PICK next \in 2 .. 21 :
        /\ next = tasks'[t].at /\ next > n /\ tasks'[t].seen = seen
        /\ ~LeavesOut(t, next, seen)
        /\ \A m \in n + 1 .. next - 1 : LeavesOut(t, m, seen)
  BY <1>1 DEF GoesOn, Pending, Last
<1> DEFINE source == <<Account, "source">> \in seen
<1>3. /\ ~LeavesOut(t, 2, seen)
      /\ \A m \in 3 .. 6 : LeavesOut(t, m, seen) <=> source
  BY DEF LeavesOut
<1>4. /\ n \in {1, 2} => UNCHANGED has
      /\ n = 1 => (source <=> There(Account, "source"))
      /\ n \in 2 .. 6 => (source <=> SeesSource(t))
      /\ n \in 3 .. 6 => Acts(t)
  <2>1. CASE Looks(t, seen) /\ UNCHANGED has
    BY <1>1, <2>1 DEF Looks, ProvisionReads, SeesSource
  <2>2. CASE Acts(t) /\ seen = tasks[t].seen
    BY <1>1, <2>2 DEF Acts, ProvisionReads, SeesSource
  <2> QED BY <2>1, <2>2 DEF Provisions
<1>5. /\ n \in {1, 2} => NothingShared \/ AllShared
      /\ n = 2 => (SeesSource(t) <=> There(Account, "source"))
      /\ n \in 3 .. 6 => /\ ~There(Account, "source")
                         /\ There(Account, "database") <=> n > 3
                         /\ There(Account, "user") <=> n > 4
  BY <1>1 DEF ProvisioningAlone
<1>6. n \in 3 .. 6 => ~source
  BY <1>4, <1>5
<1> HIDE DEF source
<1>7. CASE n = 1
  <2>1. next = 2
    <3> SUFFICES ASSUME next > 2 PROVE FALSE
      BY <1>2
    <3>1. 2 \in n + 1 .. next - 1
      BY <1>7
    <3> QED BY <1>2, <1>3, <3>1
  <2>2. SeesSource(t)' <=> There(Account, "source")'
    BY <1>2, <1>4, <1>7 DEF source, SeesSource, There
  <2>3. (NothingShared \/ AllShared)'
    BY <1>4, <1>5, <1>7 DEF NothingShared, AllShared, There
  <2> QED BY <1>2, <2>1, <2>2, <2>3 DEF ProvisioningAlone
<1>8. CASE n = 2
  <2>1. CASE source
    <3>1. next > 6
      BY <1>2, <1>3, <1>8, <2>1
    <3> QED BY <1>2, <3>1 DEF ProvisioningAlone
  <2>2. CASE ~source
    <3>1. next = 3
      <4> SUFFICES ASSUME next > 3 PROVE FALSE
        BY <1>2, <1>8
      <4>1. 3 \in n + 1 .. next - 1
        BY <1>8
      <4> QED BY <1>2, <1>3, <2>2, <4>1
    <3>2. ~There(Account, "source")
      BY <1>4, <1>5, <1>8, <2>2
    <3>3. NothingShared
      BY <1>5, <1>8, <3>2 DEF AllShared, SharedParts
    <3>4. \A part \in SharedParts : ~There(Account, part)'
      BY <1>4, <1>8, <3>3 DEF NothingShared, There
    <3> QED BY <1>2, <3>1, <3>4 DEF ProvisioningAlone, SharedParts
  <2> QED BY <2>1, <2>2
<1>9. CASE n \in 3 .. 5
  <2>1. next = n + 1
    <3> SUFFICES ASSUME next > n + 1 PROVE FALSE
      BY <1>2
    <3>1. n + 1 \in n + 1 .. next - 1 /\ n + 1 \in 3 .. 6
      BY <1>9
    <3> QED BY <1>2, <1>3, <1>6, <1>9, <3>1
  <2>2. \A part : There(Account, part)'
                    <=> There(Account, part) \/ Adds(i, n, Account, part)
    BY <1>1, <1>4, <1>9 DEF Acts
  <2>3. /\ Adds(i, n, Account, "database") <=> n = 3
        /\ Adds(i, n, Account, "user") <=> n = 4
        /\ Adds(i, n, Account, "source") <=> n = 6
    BY <1>1 DEF Adds
  <2>4. /\ ~There(Account, "source")'
        /\ There(Account, "database")' <=> next > 3
        /\ There(Account, "user")' <=> next > 4
    BY <1>5, <1>9, <2>1, <2>2, <2>3
  <2>5. next \notin {1, 2}
    BY <1>9, <2>1
  <2> QED BY <1>2, <2>4, <2>5 DEF ProvisioningAlone
<1>10. CASE n >= 6
  <2>1. next \notin {1, 2} /\ next \notin 3 .. 6
    BY <1>2, <1>10
  <2> QED BY <1>2, <2>1 DEF ProvisioningAlone
<1> QED BY <1>7, <1>8, <1>9, <1>10

(* So does a deprovisioning, of what it needs. *)
LEMMA DeprovisioningAloneKept ==
  ASSUME TypeOK, Bookkeeping, SameTasks, NEW t \in Tasks, Pending(t),
         tasks[t].kind = "deprovision", NEW seen, Provisions(t, seen),
         GoesOn(t, seen), LeavingAt(t), DeprovisioningAlone(t), Pending(t)'
  PROVE  DeprovisioningAlone(t)'
<1>1. PICK n \in 1 .. 8, i \in Indexers :
        /\ n = tasks[t].at /\ i = tasks[t].indexer /\ i # Account
        /\ i = tasks'[t].indexer
  BY PendingFacts, DataLayerAssumption DEF SameTasks
<1>2. /\ n # 4 => seen = tasks[t].seen
      /\ \A owner, part :
           There(owner, part) /\ ~Drops(i, n, owner, part) => There(owner, part)'
  <2>1. CASE Looks(t, seen) /\ UNCHANGED has
    BY <1>1, <2>1 DEF Looks, There
  <2>2. CASE Acts(t) /\ seen = tasks[t].seen
    BY <1>1, <2>2 DEF Acts
  <2> QED BY <2>1, <2>2 DEF Provisions
<1>3. ~(\E j \in Indexers : <<j, "schema">> \in seen) \/ n <= 4
  <2>1. n > 4 => \A j \in Indexers : <<j, "schema">> \notin tasks[t].seen
    BY <1>1 DEF LeavingAt
  <2>2. n > 4 => seen = tasks[t].seen
    BY <1>2
  <2>3. n > 4 \/ n <= 4
    OBVIOUS
  <2> QED BY <2>1, <2>2, <2>3
<1>4. n < 8 /\ tasks'[t].at = n + 1
  BY <1>1, <1>3, LeavingNext DEF Pending
<1>5. /\ n = 1 => Whole(i)
      /\ n < 6 => AllShared
      /\ n < 8 => There(Account, "user")
  BY <1>1 DEF DeprovisioningAlone
<1>6. n = 1 => There(i, "createJob")'
  <2>1. n = 1 => ~Drops(i, n, i, "createJob")
    BY <1>1 DEF Drops, Tables, Metadata, Tracked
  <2> QED BY <1>2, <1>5, <2>1 DEF Whole, OwnParts, Jobs
<1>7. n < 5 => AllShared'
  <2>1. n < 5 => \A part : ~Drops(i, n, Account, part)
    BY <1>1, DataLayerAssumption DEF Drops
  <2> QED BY <1>2, <1>5, <2>1 DEF AllShared
<1>8. n < 7 => There(Account, "user")'
  <2>1. n < 7 => ~Drops(i, n, Account, "user")
    BY <1>1, DataLayerAssumption DEF Drops
  <2> QED BY <1>2, <1>5, <2>1
<1>9. /\ n + 1 = 2 => n = 1
      /\ n + 1 < 6 => n < 5
      /\ n + 1 < 8 => n < 7
      /\ n + 1 # 1
  OBVIOUS
<1> QED BY <1>1, <1>4, <1>6, <1>7, <1>8, <1>9 DEF DeprovisioningAlone

(* A provisioning that runs alone is not refused. *)
LEMMA ProvisioningNotRefused ==
  ASSUME TypeOK, Bookkeeping, ~ForeignKeys, NEW t \in Tasks, Pending(t),
         tasks[t].kind = "provision", Based, ProvisioningAlone(t),
         FreshAt(t) \/ AgainAt(t), IsRefused(t)
  PROVE  FALSE
<1>1. PICK n \in 1 .. 21, i \in Indexers :
        n = tasks[t].at /\ i = tasks[t].indexer /\ i # Account
  BY PendingFacts, DataLayerAssumption
<1>2. n \notin ProvisionReads
  BY <1>1 DEF IsRefused, ProvisionReads, Based
<1>3. PICK owner, part :
        \/ Needs(i, n, owner, part) /\ ~There(owner, part)
        \/ Adds(i, n, owner, part) /\ There(owner, part)
  BY <1>1, <1>2 DEF IsRefused
<1>4. CASE n \in 3 .. 6
  <2>1. /\ ~There(Account, "source")
        /\ There(Account, "database") <=> n > 3
        /\ There(Account, "user") <=> n > 4
    BY <1>1, <1>4 DEF ProvisioningAlone
  <2>2. Needs(i, n, owner, part) =>
          owner = Account /\ part \in {"database", "user"} /\ n > 4
    BY <1>1, <1>4 DEF Needs
  <2>3. Adds(i, n, owner, part) =>
          /\ owner = Account
          /\ \/ n = 3 /\ part = "database"
             \/ n = 4 /\ part = "user"
             \/ n = 6 /\ part = "source"
    BY <1>1, <1>4 DEF Adds
  <2> QED BY <1>3, <1>4, <2>1, <2>2, <2>3
<1>5. CASE n > 6 /\ FreshAt(t)
  BY <1>1, <1>5, FreshRefused
<1>6. CASE n > 6 /\ AgainAt(t)
  <2>1. Whole(i) /\ n \in {9, 20}
    BY <1>1, <1>2, <1>6 DEF AgainAt, ProvisionReads
  <2>2. Needs(i, n, owner, part) =>
          \/ owner = Account /\ part \in {"database", "source"}
          \/ owner = i /\ part = "metadata"
    BY <1>1, <2>1 DEF Needs
  <2>3. ~Adds(i, n, owner, part)
    BY <1>1, <2>1 DEF Adds
  <2>4. /\ There(Account, "database") /\ There(Account, "source")
        /\ There(i, "metadata")
    BY <2>1 DEF Whole, SharedParts, OwnParts, Tables
  <2> QED BY <1>3, <2>2, <2>3, <2>4
<1>7. n \in 3 .. 6 \/ n > 6
  BY <1>2 DEF ProvisionReads
<1> QED BY <1>4, <1>5, <1>6, <1>7

(* Nor is a deprovisioning that follows one. *)
LEMMA DeprovisioningNotRefused ==
  ASSUME TypeOK, Bookkeeping, NEW t \in Tasks, Pending(t),
         tasks[t].kind = "deprovision", DeprovisioningAlone(t), LeavingAt(t),
         IsRefused(t)
  PROVE  FALSE
<1>1. PICK n \in 1 .. 8, i \in Indexers :
        n = tasks[t].at /\ i = tasks[t].indexer /\ i # Account
  BY PendingFacts, DataLayerAssumption
<1>2. /\ n = 2 => There(i, "createJob")
      /\ n < 6 => There(Account, "database") /\ There(Account, "source")
      /\ n < 8 => There(Account, "user")
  BY <1>1 DEF DeprovisioningAlone, AllShared, SharedParts
<1>3. n = 3 => There(i, "deleteJob")
  BY <1>1 DEF LeavingAt, OwnParts, Jobs
<1>4. n # 4
  BY <1>1, <1>2 DEF IsRefused
<1>5. PICK owner, part : Requires(i, n, owner, part) /\ ~There(owner, part)
  BY <1>1, <1>4 DEF IsRefused
<1> QED BY <1>1, <1>2, <1>3, <1>5 DEF Requires

(* One that follows none is refused by pg_cron at last. *)
LEMMA InVainKept ==
  ASSUME TypeOK, Bookkeeping, SameTasks, NEW t \in Tasks, Pending(t),
         tasks[t].kind = "deprovision", InVain(t),
         \/ \E seen : GoesOn(t, seen) /\ Provisions(t, seen)
         \/ Fails(t) /\ UNCHANGED has
  PROVE  /\ (NothingShared \/ AllShared)' /\ Empty(tasks[t].indexer)'
         /\ Pending(t)' => InVain(t)'
         /\ ~Pending(t)' => tasks'[t].state = "failed"
<1>1. PICK i \in Indexers, n \in {1, 2} :
        /\ i = tasks[t].indexer /\ n = tasks[t].at
        /\ i = tasks'[t].indexer /\ i # Account
  BY PendingFacts, DataLayerAssumption DEF SameTasks, InVain
<1>2. Empty(i) /\ (NothingShared \/ AllShared)
  BY <1>1 DEF InVain
<1>3. CASE Fails(t) /\ UNCHANGED has
  <2>1. \A owner, part : There(owner, part)' <=> There(owner, part)
    BY <1>3 DEF There
  <2>2. Empty(i)' /\ (NothingShared \/ AllShared)'
    BY <1>2, <2>1 DEF Empty, NothingShared, AllShared
  <2>3. Pending(t)' => tasks'[t].at = n
    BY <1>1, <1>3 DEF Fails, Pending
  <2>4. ~Pending(t)' => tasks'[t].state = "failed"
    BY <1>3 DEF Fails, Pending
  <2> QED BY <1>1, <2>2, <2>3, <2>4 DEF InVain
<1>4. CASE \E seen : GoesOn(t, seen) /\ Provisions(t, seen)
  <2>1. PICK seen : GoesOn(t, seen) /\ Provisions(t, seen)
    BY <1>4
  <2>2. Acts(t)
    BY <1>1, <2>1 DEF Provisions, Looks
  <2>3. \A owner, part :
          /\ There(owner, part)'
               <=> There(owner, part) /\ ~Drops(i, n, owner, part)
          /\ Requires(i, n, owner, part) => There(owner, part)
    BY <1>1, <2>2 DEF Acts
  <2>4. n = 1
    <3>1. n = 2 => Requires(i, n, i, "createJob")
      BY DEF Requires
    <3> QED BY <1>2, <2>3, <3>1 DEF Empty, OwnParts, Jobs
  <2>5. \A part : ~Drops(i, n, Account, part)
    BY <1>1, <2>4 DEF Drops
  <2>6. Empty(i)' /\ (NothingShared \/ AllShared)'
    BY <1>2, <2>3, <2>5 DEF Empty, NothingShared, AllShared
  <2>7. n \in 1 .. 8 /\ n <= 4
    BY <2>4
  <2>8. tasks'[t].state = "pending" /\ tasks'[t].at = 2
    <3>1. \/ tasks'[t].state = "pending" /\ tasks'[t].at = n + 1
          \/ tasks'[t].state = "complete" /\ n >= 4
      BY <1>1, <2>1, <2>7, LeavingNext
    <3> QED BY <2>4, <3>1
  <2> QED BY <1>1, <2>6, <2>8 DEF InVain, Pending
<1> QED BY <1>3, <1>4

(* A step of a task that runs alone. *)
LEMMA SerialTask ==
  ASSUME TypeOK, Bookkeeping, ~ForeignKeys, Orderly, Shrinking, Undisturbed,
         NEW t \in Tasks, TaskStep(t), faults' = 0, Overlapping = {},
         OnlyProvisionBeside
  PROVE  Undisturbed'
<1>1. /\ Pending(t) /\ SameTasks
      /\ \A u \in Tasks \ {t} : tasks'[u] = tasks[u]
      /\ \/ \E seen : GoesOn(t, seen) /\ Provisions(t, seen)
         \/ Fails(t) /\ IsRefused(t) /\ UNCHANGED has
  BY TaskSteps DEF TaskStep, Provisions
<1>2. LastTask(t) /\ \A u \in Tasks : Pending(u) => u = t
  BY <1>1, Alone
<1>3. PICK i \in Indexers :
        /\ i = tasks[t].indexer /\ i = tasks'[t].indexer
        /\ tasks[t].kind \in Kinds /\ tasks'[t].kind = tasks[t].kind
        /\ Serves(t, i) /\ Serves(t, i)'
  BY <1>1, PendingFacts DEF SameTasks, Serves, Pending, Started
<1>4. Based
  BY DEF Orderly
<1>5. tasks[t].kind = "provision" =>
        /\ SeesSource(t) => There(Account, "source")
        /\ FreshAt(t) \/ AgainAt(t)
        /\ ProvisioningAlone(t)
  BY <1>1 DEF Orderly, Undisturbed
<1>6. tasks[t].kind = "deprovision" =>
        /\ LeavingAt(t) /\ Leaving(t)
        /\ IF Undoes(t) THEN DeprovisioningAlone(t) ELSE InVain(t)
  BY <1>1 DEF Orderly, Undisturbed, Shrinking
<1>7. /\ tasks'[t].state = "complete" =>
           IF tasks[t].kind = "provision" THEN Whole(i)' ELSE Empty(i)'
      /\ \A j \in Indexers : j # i =>
           (Empty(j) => Empty(j)') /\ (Whole(j) => Whole(j)')
      /\ tasks[t].kind = "deprovision" => (Empty(i) => Empty(i)')
  BY <1>1, <1>3, OrderlyTask DEF Kinds
<1> DEFINE Good ==
             /\ tasks'[t].state # "notFound"
             /\ tasks'[t].state = "failed" =>
                  /\ tasks[t].kind = "deprovision" /\ ~Undoes(t)
                  /\ Empty(i)'
             /\ Pending(t)' =>
                  IF tasks[t].kind = "provision" THEN ProvisioningAlone(t)'
                  ELSE IF Undoes(t) THEN DeprovisioningAlone(t)' ELSE InVain(t)'
             /\ ~Pending(t)' => (NothingShared \/ AllShared)'
<1>8. ASSUME tasks[t].kind = "provision" PROVE Good
  <2>1. PICK seen : GoesOn(t, seen) /\ Provisions(t, seen)
    BY <1>1, <1>4, <1>5, <1>8, ProvisioningNotRefused
  <2>2. Pending(t)' => ProvisioningAlone(t)'
    BY <1>1, <1>5, <1>8, <2>1, ProvisioningAloneKept
  <2>3. tasks'[t].state \in {"pending", "complete"}
    BY <2>1 DEF GoesOn
  <2>4. ~Pending(t)' => AllShared'
    BY <1>7, <1>8, <2>3 DEF Pending, Whole, AllShared
  <2> QED BY <1>8, <2>2, <2>3, <2>4
<1>9. ASSUME tasks[t].kind = "deprovision", Undoes(t) PROVE Good
  <2>1. PICK seen : GoesOn(t, seen) /\ Provisions(t, seen)
    BY <1>1, <1>6, <1>9, DeprovisioningNotRefused
  <2>2. Pending(t)' => DeprovisioningAlone(t)'
    BY <1>1, <1>6, <1>9, <2>1, DeprovisioningAloneKept
  <2>3. tasks'[t].state \in {"pending", "complete"}
    BY <2>1 DEF GoesOn
  <2>4. ASSUME tasks'[t].state = "complete" PROVE NothingShared' \/ AllShared'
    <3>1. \/ NothingShared'
          \/ \E other \in Indexers : i # other /\ There(other, "schema")'
      BY <1>1, <1>3, <1>6, <1>9, <2>1, <2>4, LeavingKept
    <3>2. ASSUME NEW other \in Indexers, i # other, There(other, "schema")'
          PROVE  AllShared'
      <4>1. Idle(other)
        BY <1>2, <1>3, <3>2 DEF Idle, Serves
      <4>2. Empty(other) \/ Whole(other)
        BY <4>1 DEF Orderly
      <4>3. ~Empty(other)'
        BY <3>2 DEF Empty, OwnParts
      <4>4. Whole(other)'
        BY <1>7, <3>2, <4>2, <4>3
      <4> QED BY <4>4 DEF Whole, AllShared
    <3> QED BY <3>1, <3>2
  <2> QED BY <1>9, <2>2, <2>3, <2>4 DEF Pending
<1>10. ASSUME tasks[t].kind = "deprovision", ~Undoes(t) PROVE Good
  <2>1. /\ (NothingShared \/ AllShared)' /\ Empty(tasks[t].indexer)'
        /\ Pending(t)' => InVain(t)'
        /\ ~Pending(t)' => tasks'[t].state = "failed"
    BY <1>1, <1>6, <1>10, InVainKept
  <2>2. tasks'[t].state # "notFound"
    BY <2>1 DEF Pending
  <2>3. Empty(i)'
    BY <1>3, <1>7, <1>6, <1>10 DEF InVain
  <2> QED BY <1>10, <2>1, <2>2, <2>3
<1>11. Good
  BY <1>3, <1>8, <1>9, <1>10 DEF Kinds
<1> HIDE DEF Good
<1>12. ASSUME NEW u \in Tasks, NEW j \in Indexers, Serves(u, j)',
              tasks'[u].state = "failed", Stands(u)'
       PROVE  Empty(j)'
  <2>1. CASE u = t
    <3>1. j = i
      BY <1>3, <1>12, <2>1 DEF Serves
    <3> QED BY <1>11, <1>12, <2>1, <3>1 DEF Good
  <2>2. CASE u # t
    <3>1. tasks'[u] = tasks[u] /\ Stands(u) /\ Serves(u, j)
      BY <1>1, <1>12, <2>2 DEF SameTasks
    <3>2. Empty(j) /\ tasks[u].kind = "deprovision"
      BY <1>12, <3>1 DEF Undisturbed
    <3>3. u \in Nat /\ t \in Nat
      BY DataLayerAssumption DEF Tasks
    <3>4. j = i => tasks[t].kind = "deprovision"
      <4> SUFFICES ASSUME j = i PROVE tasks[t].kind = "deprovision"
        OBVIOUS
      <4>1. ~(u > t)
        BY <1>2, <1>3, <3>1 DEF LastTask
      <4>2. t > u
        BY <2>2, <3>3, <4>1
      <4> QED BY <1>3, <3>1, <3>2, <4>2 DEF Stands, Serves
    <3> QED BY <1>7, <3>2, <3>4
  <2> QED BY <2>1, <2>2
<1>13. \A u \in Tasks : Pending(u)' => u = t
  BY <1>1, <1>2 DEF SameTasks
<1>14. \A u \in Tasks : Undoes(u)' <=> Undoes(u)
  BY <1>1 DEF SameTasks
<1>15. \A u \in Tasks :
         /\ tasks'[u].state # "notFound"
         /\ tasks'[u].state = "failed" =>
              tasks'[u].kind = "deprovision" /\ ~Undoes(u)'
  <2> TAKE u \in Tasks
  <2>1. CASE u = t
    BY <1>3, <1>11, <1>14, <2>1 DEF Good
  <2>2. CASE u # t
    BY <1>1, <1>14, <2>2 DEF Undisturbed
  <2> QED BY <2>1, <2>2
<1>16. \A u \in Tasks :
         /\ Pending(u)' /\ tasks'[u].kind = "provision" =>
              ProvisioningAlone(u)'
         /\ Pending(u)' /\ tasks'[u].kind = "deprovision" =>
              IF Undoes(u)' THEN DeprovisioningAlone(u)' ELSE InVain(u)'
  BY <1>3, <1>11, <1>13, <1>14 DEF Good
<1>17. (\A u \in Tasks : ~Pending(u)') => (NothingShared \/ AllShared)'
  BY <1>11 DEF Good
<1> QED BY <1>12, <1>15, <1>16, <1>17 DEF Undisturbed

(* A task that begins alone finds all or nothing; one that deprovisions    *)
(* finds its Indexer whole, or is in vain.                                 *)
LEMMA SerialBegins ==
  ASSUME TypeOK, Bookkeeping, Orderly, Shrinking, Undisturbed,
         NEW t \in Tasks, NEW i \in Indexers, Begins(t, i),
         \A u \in Tasks : ~Pending(u)
  PROVE  Undisturbed'
<1>1. /\ ~Started(t) /\ has' = has
      /\ tasks'[t].kind \in Kinds /\ tasks'[t].indexer = i
      /\ tasks'[t].at = 1 /\ tasks'[t].state = "pending"
      /\ \A u \in Tasks \ {t} : tasks'[u] = tasks[u]
      /\ \A u \in Tasks : (u < t <=> Started(u)) /\ (u > t => ~Started(u))
  <2>1. Kind(i) \in Kinds
    BY DEF Kind, Kinds
  <2> QED BY <2>1, StartFacts DEF Begins
<1>2. /\ \A u \in Tasks : u \in Nat
      /\ \A u \in Tasks, j \in Indexers : u # t => (Serves(u, j)' <=> Serves(u, j))
      /\ \A u \in Tasks, j \in Indexers : Serves(u, j) => u < t /\ u # t
  <2>1. \A u \in Tasks : u \in Nat
    BY DataLayerAssumption DEF Tasks
  <2> QED BY <1>1, <2>1 DEF Serves, Started
<1>3. \A owner, part : There(owner, part)' <=> There(owner, part)
  BY <1>1 DEF There
<1>4. /\ \A j \in Indexers : Empty(j)' <=> Empty(j)
      /\ (NothingShared \/ AllShared)'
  <2>1. NothingShared \/ AllShared
    BY DEF Undisturbed
  <2> QED BY <1>3, <2>1 DEF Empty, NothingShared, AllShared
<1>5. ProvisioningAlone(t)'
  BY <1>1, <1>4 DEF ProvisioningAlone
<1>6. ASSUME NEW u \in Tasks, Serves(u, i)
      PROVE  /\ tasks[u].kind \in Kinds
             /\ \/ tasks[u].state = "complete"
                \/ tasks[u].state = "failed" /\ tasks[u].kind = "deprovision"
  <2>1. tasks[u].state \in TaskStates /\ tasks[u].kind \in Kinds
    BY DEF TypeOK, TaskType
  <2> QED BY <1>6, <2>1 DEF Serves, Started, Pending, TaskStates, Undisturbed
<1>7. ASSUME tasks'[t].kind = "deprovision", Undoes(t)'
      PROVE  DeprovisioningAlone(t)'
  <2>1. PICK u \in Tasks :
          /\ u < t /\ Serves(u, i)' /\ tasks'[u].kind # "deprovision"
          /\ \A v \in Tasks : u < v /\ v < t => ~Serves(v, i)'
    BY <1>1, <1>7 DEF Undoes
  <2>2. u # t /\ Serves(u, i) /\ tasks[u].kind = "provision"
        /\ tasks[u].state = "complete"
    <3>1. u # t
      BY <1>2, <2>1
    <3> QED BY <1>1, <1>2, <1>6, <2>1, <3>1 DEF Kinds
  <2>3. Stands(u)
    <3> SUFFICES ASSUME NEW v \in Tasks, v > u, Serves(v, i) PROVE FALSE
      BY <2>2 DEF Stands, Serves
    <3>1. v < t /\ Serves(v, i)'
      BY <1>2
    <3> QED BY <1>2, <2>1, <3>1
  <2>4. Whole(i)
    BY <2>2, <2>3 DEF Orderly, Completed
  <2>5. Whole(i)' /\ AllShared' /\ There(Account, "user")'
    BY <1>3, <2>4 DEF Whole, AllShared, SharedParts
  <2> QED BY <1>1, <2>5 DEF DeprovisioningAlone
<1>8. ASSUME tasks'[t].kind = "deprovision", ~Undoes(t)'
      PROVE  InVain(t)'
  <2>1. CASE ~Brought(i)
    BY <1>1, <1>4, <2>1 DEF Shrinking, InVain
  <2>2. CASE Brought(i)
    <3>1. PICK l \in Tasks : Serves(l, i) /\ LastTask(l)
      BY <2>2, LastExists DEF Brought
    <3>2. l < t /\ l # t /\ Serves(l, i)' /\ tasks'[l] = tasks[l]
      BY <1>1, <1>2, <3>1
    <3>3. \A v \in Tasks : l < v /\ v < t => ~Serves(v, i)'
      <4> SUFFICES ASSUME NEW v \in Tasks, l < v, v < t, Serves(v, i)'
                   PROVE  FALSE
        OBVIOUS
      <4>1. v # t /\ v > l
        BY <1>2
      <4>2. Serves(v, i)
        BY <1>2, <4>1
      <4> QED BY <3>1, <4>1, <4>2 DEF LastTask, Serves
    <3>4. tasks[l].kind = "deprovision"
      BY <1>1, <1>8, <3>2, <3>3 DEF Undoes
    <3>5. Stands(l)
      BY <3>1 DEF LastTask, Stands
    <3>6. Empty(i)
      <4>1. CASE tasks[l].state = "complete"
        BY <3>1, <3>4, <3>5, <4>1 DEF Orderly, Completed
      <4>2. CASE tasks[l].state = "failed"
        BY <3>1, <3>5, <4>2 DEF Undisturbed
      <4> QED BY <1>6, <3>1, <4>1, <4>2
    <3> QED BY <1>1, <1>4, <3>6 DEF InVain
  <2> QED BY <2>1, <2>2
<1>9. ASSUME NEW u \in Tasks, u # t, Started(u)
      PROVE  Undoes(u)' => Undoes(u)
  <2>1. tasks'[u] = tasks[u] /\ u < t
    BY <1>1, <1>9
  <2>2. \A v \in Tasks : v < u => v # t /\ tasks'[v] = tasks[v]
    BY <1>1, <1>2, <2>1
  <2>3. PICK j \in Indexers : j = tasks[u].indexer /\ j = tasks'[u].indexer
    BY <1>9, <2>1 DEF Bookkeeping
  <2>4. \A v \in Tasks : v < u => (Serves(v, j)' <=> Serves(v, j))
    BY <1>2, <2>2
  <2> QED BY <2>1, <2>2, <2>3, <2>4 DEF Undoes
<1>10. \A u \in Tasks :
         /\ tasks'[u].state # "notFound"
         /\ tasks'[u].state = "failed" =>
              tasks'[u].kind = "deprovision" /\ ~Undoes(u)'
  <2> TAKE u \in Tasks
  <2>1. CASE u = t
    BY <1>1, <2>1
  <2>2. CASE u # t
    BY <1>1, <1>9, <2>2 DEF Undisturbed, Started
  <2> QED BY <2>1, <2>2
<1>11. ASSUME NEW u \in Tasks, NEW j \in Indexers, Serves(u, j)',
              tasks'[u].state = "failed", Stands(u)'
       PROVE  Empty(j)'
  <2>1. u # t /\ tasks'[u] = tasks[u]
    BY <1>1, <1>11
  <2>2. Stands(u)
    BY <1>1, <1>11, <2>1, StoodBefore
  <2>3. Empty(j)
    BY <1>2, <1>11, <2>1, <2>2 DEF Undisturbed
  <2> QED BY <1>4, <2>3
<1>12. \A u \in Tasks : Pending(u)' <=> u = t
  BY <1>1 DEF Pending
<1> QED BY <1>5, <1>7, <1>8, <1>10, <1>11, <1>12 DEF Undisturbed

LEMMA SerialStep ==
  ASSUME ~ForeignKeys, TasksInv, GoneInv, CalmInv, SerialInv,
         [HandlerNext]_handlerVars
  PROVE  SerialInv'
<1> SUFFICES ASSUME faults' = 0, Overlapping' = {} PROVE Undisturbed'
  BY DEF SerialInv
<1>1. TypeOK /\ Bookkeeping /\ HandlerTypeOK
  BY DEF TasksInv
<1>2. faults \in 0 .. MaxFaults /\ MaxFaults \in Nat
  BY <1>1, DataLayerAssumption DEF TypeOK
<1>3. ASSUME faults = 0, Overlapping = {}
      PROVE  Orderly /\ Shrinking /\ Undisturbed /\ OnlyProvisionBeside
  <2>1. \A u \in Tasks : tasks[u].beside = {}
    BY <1>3 DEF Overlapping
  <2>2. OnlyProvisionBeside
    BY <2>1 DEF OnlyProvisionBeside
  <2> QED BY <1>3, <2>2 DEF CalmInv, Calm, GoneInv, SerialInv
<1>4. ASSUME UNCHANGED <<has, tasks>>, faults' >= faults
      PROVE  Undisturbed'
  <2>1. faults = 0 /\ Overlapping = {}
    BY <1>2, <1>4 DEF Overlapping
  <2>2. Undisturbed
    BY <1>3, <2>1
  <2>3. /\ NothingShared' <=> NothingShared
        /\ AllShared' <=> AllShared
        /\ \A i \in Indexers : Empty(i)' <=> Empty(i)
        /\ \A u \in Tasks :
             /\ Pending(u)' <=> Pending(u)
             /\ Stands(u)' <=> Stands(u)
             /\ Undoes(u)' <=> Undoes(u)
             /\ InVain(u)' <=> InVain(u)
             /\ ProvisioningAlone(u)' <=> ProvisioningAlone(u)
             /\ \A i \in Indexers : Serves(u, i)' <=> Serves(u, i)
    BY <1>4 DEF Pending, Stands, Undoes, Serves, Started, InVain, Empty,
                ProvisioningAlone, There, NothingShared, AllShared, SeesSource
  <2>4. \A u \in Tasks : DeprovisioningAlone(u)' <=> DeprovisioningAlone(u)
    BY <1>4 DEF DeprovisioningAlone, Whole, AllShared, There
  <2> QED BY <1>4, <2>2, <2>3, <2>4 DEF Undisturbed
<1>5. ASSUME NEW t \in Tasks, TaskStep(t)
      PROVE  Undisturbed'
  <2>1. SameTasks /\ (faults' = faults \/ faults' > 0)
    BY <1>1, <1>5, TaskSteps DEF TaskStep
  <2>2. faults = 0 /\ Overlapping = {}
    BY <2>1 DEF SameTasks
  <2> QED BY <1>1, <1>3, <1>5, <2>2, SerialTask
<1>6. ~RunnerRestarts
  <2>1. RunnerRestarts => faults' = faults + 1
    BY DEF RunnerRestarts
  <2> QED BY <1>2, <2>1
<1>7. ASSUME NEW t \in Tasks, NEW i \in Indexers, Begins(t, i)
      PROVE  Undisturbed'
  <2>1. /\ ~Started(t) /\ tasks'[t].beside = {u \in Tasks : Pending(u)}
        /\ \A u \in Tasks \ {t} : tasks'[u] = tasks[u]
    <3>1. Kind(i) \in Kinds
      BY DEF Kind, Kinds
    <3> QED BY <1>1, <1>7, <3>1, StartFacts DEF Begins
  <2>2. \A u \in Tasks : tasks'[u].beside = {}
    BY DEF Overlapping
  <2>3. Overlapping = {} /\ \A u \in Tasks : ~Pending(u)
    <3>1. tasks[t] = Unstarted
      BY <1>1, <2>1 DEF Bookkeeping
    <3>2. \A u \in Tasks : tasks[u].beside = {}
      BY <2>1, <2>2, <3>1 DEF Unstarted
    <3> QED BY <2>1, <2>2, <3>2 DEF Overlapping
  <2>4. faults = 0
    BY <1>2, <1>7 DEF Begins
  <2> QED BY <1>1, <1>3, <1>7, <2>3, <2>4, SerialBegins
<1>8. CASE UNCHANGED handlerVars
  <2>1. UNCHANGED <<has, tasks>> /\ faults' = faults
    BY <1>8 DEF handlerVars, vars
  <2> QED BY <1>2, <1>4, <2>1
<1> QED BY <1>1, <1>4, <1>5, <1>6, <1>7, <1>8, HandlerSteps DEF Handles

(* Without foreign keys, provisioning can be repeated, after anything: only*)
(* a deprovisioning that follows no provisioning fails, while each task    *)
(* runs alone and nothing fails from outside.                              *)
THEOREM NothingIsRefused ==
  ASSUME ~ForeignKeys
  PROVE  HandlerSpec => []ProvisioningInv
<1> DEFINE Inv == TasksInv /\ GoneInv /\ CalmInv /\ SerialInv
<1>1. HandlerInit => Inv
  <2> SUFFICES ASSUME HandlerInit PROVE GoneInv /\ CalmInv /\ SerialInv
    BY TasksStart
  <2>1. has = {} /\ tasks = [t \in Tasks |-> Unstarted]
    BY DEF HandlerInit, Init
  <2>2. NothingShared /\ Based /\ \A i \in Indexers : Empty(i)
    BY <2>1 DEF NothingShared, Based, Empty, There
  <2>3. \A t \in Tasks : tasks[t].state = "none"
    BY <2>1 DEF Unstarted
  <2>4. \A t \in Tasks : /\ ~Pending(t)
                         /\ \A kind : ~Completed(t, kind)
    BY <2>3 DEF Pending, Completed
  <2>5. GoneInv
    BY <2>2, <2>4 DEF GoneInv, Shrinking
  <2>6. CalmInv
    BY <2>2, <2>4 DEF CalmInv, Orderly
  <2>7. SerialInv
    BY <2>2, <2>3, <2>4 DEF SerialInv, Undisturbed
  <2> QED BY <2>5, <2>6, <2>7
<1>2. Inv /\ [HandlerNext]_handlerVars => Inv'
  BY TasksStep, GoneStep, CalmStep, SerialStep
<1>3. Inv => ProvisioningInv
  BY DEF ProvisioningInv, NothingRefused, TasksInv, SerialInv, Undisturbed
<1> QED BY <1>1, <1>2, <1>3, PTL DEF HandlerSpec

=============================================================================
