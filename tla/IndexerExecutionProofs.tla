----------------------- MODULE IndexerExecutionProofs -----------------------
(***************************************************************************)
(* For any number of blocks, statements, faults and kills: the height that *)
(* is shown never runs ahead of the tables.                                *)
(***************************************************************************)
EXTENDS IndexerExecution, TLAPS

USE IndexerExecutionAssumption

(* Every block up to and with h is in the tables. *)
IndexedTo(h) == \A b \in 1 .. h : RowsOf(b) \subseteq rows

(* Where the call stands, and what it has therefore written. *)
Progressed ==
  /\ pc # "idle" => block > 0
  /\ outcome = "ok" => block > 0
  /\ block > 0 => IndexedTo(block - 1)
  /\ outcome = "ok" => IndexedTo(block)
  /\ pc = "running" =>
       \A s \in 1 .. (next - 1) : <<block, s>> \in rows

(* Heights that are written, or will be, are of blocks in the tables. *)
HeightsFollow ==
  /\ IndexedTo(metadata.HEIGHT)
  /\ \A w \in writes : w.field = "HEIGHT" => IndexedTo(w.value)

Inv == TypeOK /\ Progressed /\ HeightsFollow

-----------------------------------------------------------------------------
(* The queries, by their kind. *)

LEMMA StatusQueryType ==
  ASSUME NEW status \in {"RUNNING", "FAILING"}
  PROVE  StatusQuery(status) \subseteq StatusWrites
<1>1. Query("STATUS", status) \in StatusWrites
  BY DEF Query, Statuses, StatusWrites
<1> QED
  BY <1>1 DEF StatusQuery

LEMMA BlockQueryType ==
  ASSUME NEW field \in {"HEIGHT", "LOGS"}, NEW b \in Blocks
  PROVE  /\ Query(field, b) \in BlockWrites
         /\ Query(field, b).value = b
  BY DEF Query, BlockWrites

LEMMA WriteTypes ==
  ASSUME NEW w
  PROVE  /\ w \in StatusWrites => w.field = "STATUS" /\ w.value \in Statuses
         /\ w \in BlockWrites => /\ w.field \in {"HEIGHT", "LOGS"}
                                 /\ w.value \in Blocks
  BY DEF StatusWrites, BlockWrites

LEMMA LateType ==
  ASSUME NEW w \in StatusWrites \cup BlockWrites
  PROVE  /\ [w EXCEPT !.awaited = FALSE] \in StatusWrites \cup BlockWrites
         /\ [w EXCEPT !.awaited = FALSE].field = w.field
         /\ [w EXCEPT !.awaited = FALSE].value = w.value
  BY DEF StatusWrites, BlockWrites

(* Rows are only added, so what is indexed stays. *)
LEMMA IndexedStays ==
  ASSUME NEW h, IndexedTo(h), rows \subseteq rows'
  PROVE  \A b \in 1 .. h : RowsOf(b) \subseteq rows'
  BY DEF IndexedTo

-----------------------------------------------------------------------------

LEMMA InitInv == Init => Inv
  BY DEF Init, Inv, TypeOK, Progressed, HeightsFollow, IndexedTo, RowsOf,
         Statuses, Blocks

LEMMA TypeStep == TypeOK /\ Progressed /\ [Next]_vars => TypeOK'
<1> SUFFICES ASSUME TypeOK, Progressed, [Next]_vars PROVE TypeOK'
  OBVIOUS
<1> USE DEF TypeOK, Progressed
<1>0. pc # "idle" => block \in Blocks
  BY DEF Blocks
<1>1. CASE Execute
  BY <1>1, StatusQueryType DEF Execute, Blocks, Statuses
<1>2. CASE Upsert
  BY <1>0, <1>2 DEF Upsert
<1>3. CASE Succeed
  BY <1>0, <1>3, BlockQueryType DEF Succeed
<1>4. CASE Fail
  BY <1>4, StatusQueryType DEF Fail, Statuses
<1>5. CASE LeaveCatch
  BY <1>0, <1>5, BlockQueryType DEF LeaveCatch
<1>6. CASE Return
  BY <1>6 DEF Return
<1>7. CASE Write
  <2>1. PICK w \in writes : Write!(w)
    BY <1>7 DEF Write
  <2>2. /\ w.field \in {"STATUS", "HEIGHT", "LOGS"}
        /\ w.field = "STATUS" => w.value \in Statuses
        /\ w.field # "STATUS" => w.value \in Blocks
    BY WriteTypes
  <2>3. logged' \subseteq Blocks
    BY <2>1, <2>2
  <2>4. metadata' \in [STATUS : Statuses \cup {"PROVISIONING"},
                      HEIGHT : 0 .. MaxBlock]
    BY <2>1, <2>2 DEF Blocks
  <2>5. unwritten' \subseteq {"STATUS", "HEIGHT", "LOGS"}
    BY <2>1, <2>2
  <2> QED
    BY <2>1, <2>3, <2>4, <2>5
<1>8. CASE WriteFails
  <2>1. PICK w \in writes : WriteFails!(w)
    BY <1>8 DEF WriteFails
  <2>2. w.field \in {"STATUS", "HEIGHT", "LOGS"}
    BY WriteTypes
  <2>3. unwritten' \subseteq {"STATUS", "HEIGHT", "LOGS"}
    BY <2>1, <2>2
  <2>4. faults' \in 0 .. MaxFaults
    BY <2>1
  <2> QED
    BY <2>1, <2>3, <2>4
<1>9. CASE Kill
  <2>1. writes' \subseteq StatusWrites \cup BlockWrites
    BY <1>9, LateType DEF Kill
  <2> QED
    BY <1>9, <2>1 DEF Kill, Statuses
<1>10. CASE UNCHANGED vars
  BY <1>10 DEF vars
<1> QED
  BY <1>1, <1>2, <1>3, <1>4, <1>5, <1>6, <1>7, <1>8, <1>9, <1>10 DEF Next

LEMMA ProgressStep == TypeOK /\ Progressed /\ [Next]_vars => Progressed'
<1> SUFFICES ASSUME TypeOK, Progressed, [Next]_vars PROVE Progressed'
  OBVIOUS
<1> USE DEF Progressed
<1>0. /\ block \in Nat /\ next \in Nat
      /\ MaxBlock \in Nat /\ Statements \in Nat
  BY DEF TypeOK
<1>1. CASE Execute
  <2>1. block' \in Blocks /\ (block' = block \/ block' = block + 1)
    BY <1>1, <1>0 DEF Execute
  <2>2. IndexedTo(block' - 1)
    <3>1. CASE block' = block
      BY <2>1, <3>1, <1>0 DEF Blocks
    <3>2. CASE block' = block + 1 /\ outcome = "ok"
      BY <3>2, <1>0
    <3>3. CASE block' = block + 1 /\ block = 0
      BY <3>3 DEF IndexedTo
    <3> QED
      BY <1>1, <1>0, <3>1, <3>2, <3>3 DEF Execute
  <2> QED
    BY <1>1, <2>1, <2>2, <1>0 DEF Execute, IndexedTo, Blocks
<1>2. CASE Upsert
  <2>1. rows \subseteq rows'
    BY <1>2 DEF Upsert
  <2>2. \A s \in 1 .. (next' - 1) : <<block, s>> \in rows'
    BY <1>2, <1>0 DEF Upsert
  <2> QED
    BY <1>2, <2>1, <2>2, IndexedStays DEF Upsert, IndexedTo
<1>3. CASE Succeed
  <2>1. RowsOf(block) \subseteq rows
    BY <1>3, <1>0 DEF Succeed, RowsOf
  <2>2. IndexedTo(block)
    BY <1>3, <2>1, <1>0 DEF Succeed, IndexedTo
  <2> QED
    BY <1>3, <2>2 DEF Succeed, IndexedTo
<1>4. CASE Fail
  BY <1>4 DEF Fail, IndexedTo
<1>5. CASE LeaveCatch
  BY <1>5 DEF LeaveCatch, IndexedTo
<1>6. CASE Return
  BY <1>6 DEF Return, IndexedTo
<1>7. CASE Write
  BY <1>7 DEF Write, IndexedTo
<1>8. CASE WriteFails
  BY <1>8 DEF WriteFails, IndexedTo
<1>9. CASE Kill
  BY <1>9 DEF Kill, IndexedTo
<1>10. CASE UNCHANGED vars
  BY <1>10 DEF vars, IndexedTo
<1> QED
  BY <1>1, <1>2, <1>3, <1>4, <1>5, <1>6, <1>7, <1>8, <1>9, <1>10 DEF Next

LEMMA HeightsStep == Inv /\ [Next]_vars => HeightsFollow'
<1> SUFFICES ASSUME Inv, [Next]_vars PROVE HeightsFollow'
  OBVIOUS
<1> USE DEF Inv, HeightsFollow
<1>0. writes \subseteq (StatusWrites \cup BlockWrites)
  BY DEF TypeOK
<1>00. pc # "idle" => block \in Blocks
  BY DEF Progressed, TypeOK, Blocks
<1>1. CASE Execute
  <2>1. \A w \in StatusQuery("RUNNING") : w.field # "HEIGHT"
    BY StatusQueryType, WriteTypes
  <2> QED
    BY <1>1, <2>1 DEF Execute, IndexedTo
<1>2. CASE Upsert
  BY <1>2, IndexedStays DEF Upsert, IndexedTo
<1>3. CASE Succeed
  <2>1. IndexedTo(block)
    <3>1. Progressed'
      BY <1>3, ProgressStep DEF Next
    <3> QED
      BY <1>3, <3>1 DEF Succeed, Progressed, IndexedTo
  <2>2. /\ Query("HEIGHT", block).value = block
        /\ Query("LOGS", block).value = block
    BY <1>3, <1>00, BlockQueryType DEF Succeed
  <2> QED
    BY <1>3, <2>1, <2>2 DEF Succeed, IndexedTo
<1>4. CASE Fail
  <2>1. \A w \in StatusQuery("FAILING") : w.field # "HEIGHT"
    BY StatusQueryType, WriteTypes
  <2> QED
    BY <1>4, <2>1 DEF Fail, IndexedTo
<1>5. CASE LeaveCatch
  <2>1. Query("LOGS", block).field # "HEIGHT"
    BY DEF Query
  <2> QED
    BY <1>5, <2>1 DEF LeaveCatch, IndexedTo
<1>6. CASE Return
  BY <1>6 DEF Return, IndexedTo
<1>7. CASE Write
  <2>1. PICK w \in writes : Write!(w)
    BY <1>7 DEF Write
  <2>2. w.field \in {"STATUS", "HEIGHT", "LOGS"}
    BY <1>0, WriteTypes
  <2>3. /\ metadata'.HEIGHT = IF w.field = "HEIGHT" THEN w.value
                              ELSE metadata.HEIGHT
        /\ rows' = rows /\ writes' \subseteq writes
    BY <2>1, <2>2 DEF TypeOK
  <2> QED
    BY <2>3 DEF IndexedTo
<1>8. CASE WriteFails
  BY <1>8 DEF WriteFails, IndexedTo
<1>9. CASE Kill
  <2>1. \A v \in writes' : \E w \in writes :
          v.field = w.field /\ v.value = w.value
    <3> SUFFICES ASSUME NEW v \in writes'
                 PROVE  \E w \in writes : v.field = w.field /\ v.value = w.value
      OBVIOUS
    <3>1. PICK w \in writes : v = [w EXCEPT !.awaited = FALSE]
      BY <1>9 DEF Kill
    <3>2. w \in StatusWrites \cup BlockWrites
      BY <1>0
    <3>3. v.field = w.field /\ v.value = w.value
      BY <3>1, <3>2 DEF StatusWrites, BlockWrites
    <3> QED BY <3>3
  <2> QED
    BY <1>9, <2>1 DEF Kill, IndexedTo
<1>10. CASE UNCHANGED vars
  BY <1>10 DEF vars, IndexedTo
<1> QED
  BY <1>1, <1>2, <1>3, <1>4, <1>5, <1>6, <1>7, <1>8, <1>9, <1>10 DEF Next

-----------------------------------------------------------------------------

(* The invariant that makes the shown height inductive: what the call has  *)
(* written so far, and what the heights on their way stand for.            *)
THEOREM ExecutionInvHolds == Spec => []Inv
<1>1. Inv /\ [Next]_vars => Inv'
  BY TypeStep, ProgressStep, HeightsStep DEF Inv
<1> QED
  BY InitInv, <1>1, PTL DEF Spec

(* TypeOK holds of every behaviour of Indexer.execute. *)
THEOREM ExecutionTypeCorrect == Spec => []TypeOK
  BY ExecutionInvHolds, PTL DEF Inv

(* HeightIsIndexed: whatever fails and whoever is killed, everything up to *)
(* the height in sys_metadata is in the tables of the user.                *)
THEOREM HeightCorrect == Spec => []HeightIsIndexed
<1>1. Inv => HeightIsIndexed
  BY DEF Inv, HeightsFollow, IndexedTo, HeightIsIndexed
<1> QED
  BY ExecutionInvHolds, <1>1, PTL

-----------------------------------------------------------------------------
(***************************************************************************)
(* What a worker's queries say while none was killed.  Done(f, v): the     *)
(* last query for f has said v, or was refused, or is under way.           *)
(***************************************************************************)
Done(field, said, value) ==
  said \/ field \in unwritten \/ Query(field, value) \in writes

(* All queries under way are of this worker and of this call, and the ones *)
(* of a call that has succeeded are sent and not overtaken.                *)
Recording ==
  kills = 0 =>
  /\ metadata.HEIGHT <= block
  /\ \A w \in writes : w.awaited
  /\ pc = "idle" => writes = {}
  /\ \A w \in writes : w.field # "STATUS" => w.value = block /\ pc = "settling"
  /\ pc = "running" => currentStatus = "RUNNING"
  /\ outcome = "ok" =>
       /\ currentStatus = "RUNNING" /\ pc \in {"settling", "idle"}
       /\ Done("HEIGHT", metadata.HEIGHT = block, block)
       /\ Done("LOGS", block \in logged, block)
  /\ currentStatus = "RUNNING" =>
       /\ \A w \in writes : w.field = "STATUS" => w.value = "RUNNING"
       /\ Done("STATUS", metadata.STATUS = "RUNNING", "RUNNING")

RecordInv == Inv /\ Recording

LEMMA Queries ==
  ASSUME NEW f, NEW v
  PROVE  /\ Query(f, v).field = f /\ Query(f, v).value = v
         /\ Query(f, v).awaited
  BY DEF Query

(* A query in the air is the one it looks like. *)
LEMMA QueryIs ==
  ASSUME TypeOK, NEW w \in writes, w.awaited
  PROVE  w = Query(w.field, w.value)
<1>1. w \in StatusWrites \cup BlockWrites
  BY DEF TypeOK
<1>2. w.awaited = TRUE
  BY <1>1 DEF StatusWrites, BlockWrites
<1> QED
  BY <1>1, <1>2 DEF Query, StatusWrites, BlockWrites

LEMMA RecordingStep ==
  ASSUME Inv, Inv', Recording, [Next]_vars, kills' = 0
  PROVE  Recording'
<1>k. kills = 0
  BY DEF Next, Execute, Upsert, Succeed, Fail, LeaveCatch, Return, Write,
     WriteFails, Kill, vars, Inv, TypeOK
<1>t. TypeOK /\ block \in Nat /\ metadata.HEIGHT \in Nat
  BY DEF Inv, TypeOK
<1>1. CASE Execute
  <2>1. /\ pc = "idle" /\ writes = {} /\ metadata.HEIGHT <= block
        /\ block' \in {block, block + 1}
        /\ pc' = "running" /\ outcome' = "none" /\ currentStatus' = "RUNNING"
        /\ writes' = StatusQuery("RUNNING")
        /\ UNCHANGED <<metadata, logged, unwritten>>
    BY <1>k, <1>1 DEF Recording, Execute
  <2>2. \A w \in writes' :
          w.awaited /\ w.field = "STATUS" /\ w.value = "RUNNING"
    BY <2>1, Queries DEF StatusQuery
  <2>3. Done("STATUS", metadata.STATUS = "RUNNING", "RUNNING")'
    <3>1. CASE currentStatus = "RUNNING"
      BY <1>k, <2>1, <3>1 DEF Recording, Done
    <3>2. CASE currentStatus # "RUNNING"
      BY <2>1, <3>2 DEF StatusQuery, Done
    <3> QED
      BY <3>1, <3>2
  <2>4. metadata'.HEIGHT <= block'
    BY <1>t, <2>1
  <2> QED
    BY <2>1, <2>2, <2>3, <2>4 DEF Recording
<1>2. CASE Upsert
  BY <1>k, <1>2 DEF Upsert, Recording, Done
<1>3. CASE Succeed
  <2>1. /\ pc = "running" /\ pc' = "settling" /\ outcome' = "ok"
        /\ writes' = writes \cup {Query("HEIGHT", block), Query("LOGS", block)}
        /\ UNCHANGED <<block, currentStatus, metadata, logged, unwritten>>
    BY <1>3 DEF Succeed
  <2>2. \A w \in writes' : w \in writes \/ (w.awaited /\ w.value = block
                                           /\ w.field # "STATUS")
    BY <2>1, Queries
  <2>3. /\ Done("HEIGHT", metadata.HEIGHT = block, block)'
        /\ Done("LOGS", block \in logged, block)'
    BY <2>1 DEF Done
  <2>4. /\ currentStatus = "RUNNING"
        /\ Done("STATUS", metadata.STATUS = "RUNNING", "RUNNING")'
    BY <1>k, <2>1 DEF Recording, Done
  <2> QED
    BY <1>k, <2>1, <2>2, <2>3, <2>4 DEF Recording
<1>4. CASE Fail
  <2>1. /\ pc = "running" /\ pc' = "failing" /\ outcome' = "failed"
        /\ writes' = writes \cup StatusQuery("FAILING")
        /\ currentStatus' = "FAILING" /\ UNCHANGED <<block, metadata>>
    BY <1>4 DEF Fail
  <2>2. \A w \in StatusQuery("FAILING") : w.awaited /\ w.field = "STATUS"
    BY Queries DEF StatusQuery
  <2> QED
    BY <1>k, <2>1, <2>2 DEF Recording
<1>5. CASE LeaveCatch
  <2>1. /\ pc = "failing" /\ pc' = "settling"
        /\ writes' = writes \cup {Query("LOGS", block)}
        /\ UNCHANGED <<block, outcome, currentStatus, metadata, logged, unwritten>>
    BY <1>5 DEF LeaveCatch
  <2>2. outcome # "ok"
    BY <1>k, <2>1 DEF Recording
  <2>3. Done("STATUS", metadata.STATUS = "RUNNING", "RUNNING")
          => Done("STATUS", metadata.STATUS = "RUNNING", "RUNNING")'
    BY <2>1 DEF Done
  <2> QED
    BY <1>k, <2>1, <2>2, <2>3, Queries DEF Recording
<1>6. CASE Return
  <2>1. writes = {}
    BY <1>k, <1>6 DEF Return, Awaited, Recording
  <2> QED
    BY <1>k, <1>6, <2>1 DEF Return, Recording, Done
<1>7. CASE Write
  <2>1. PICK w \in writes : Write!(w)
    BY <1>7 DEF Write
  <2>2. w.awaited /\ w = Query(w.field, w.value)
    BY <1>k, <1>t, <2>1, QueryIs DEF Recording
  <2>3. /\ writes' = writes \ {w}
        /\ UNCHANGED <<pc, block, outcome, currentStatus>>
        /\ unwritten' = unwritten \ {w.field}
    BY <2>1, <2>2
  <2>4. /\ w.field = "STATUS" => /\ metadata'.STATUS = w.value
                                 /\ metadata'.HEIGHT = metadata.HEIGHT
                                 /\ logged' = logged
        /\ w.field = "HEIGHT" => /\ metadata'.HEIGHT = w.value
                                 /\ metadata'.STATUS = metadata.STATUS
                                 /\ logged' = logged
        /\ w.field = "LOGS" => w.value \in logged' /\ metadata' = metadata
        /\ w.field \in {"STATUS", "HEIGHT", "LOGS"}
    <3>1. w.field \in {"STATUS", "HEIGHT", "LOGS"}
      BY <1>t, WriteTypes DEF TypeOK
    <3> QED
      BY <1>t, <2>1, <3>1 DEF TypeOK
  <2>5. w.field # "STATUS" => w.value = block
    BY <1>k, <2>1 DEF Recording
  <2>6. metadata'.HEIGHT <= block'
    BY <1>k, <1>t, <2>3, <2>4, <2>5 DEF Recording
  <2>7. ASSUME outcome = "ok"
        PROVE  /\ Done("HEIGHT", metadata.HEIGHT = block, block)'
               /\ Done("LOGS", block \in logged, block)'
    <3>1. /\ Done("HEIGHT", metadata.HEIGHT = block, block)
          /\ Done("LOGS", block \in logged, block)
      BY <1>k, <2>7 DEF Recording
    <3>2. logged \subseteq logged'
      BY <2>1
    <3>3. CASE w.field = "HEIGHT"
      BY <2>2, <2>3, <2>4, <2>5, <3>1, <3>2, <3>3 DEF Done, Query
    <3>4. CASE w.field = "LOGS"
      BY <2>2, <2>3, <2>4, <2>5, <3>1, <3>2, <3>4 DEF Done, Query
    <3>5. CASE w.field = "STATUS"
      BY <2>2, <2>3, <2>4, <3>1, <3>2, <3>5 DEF Done, Query
    <3> QED
      BY <2>4, <3>3, <3>4, <3>5
  <2>8. ASSUME currentStatus = "RUNNING"
        PROVE  /\ Done("STATUS", metadata.STATUS = "RUNNING", "RUNNING")'
               /\ \A v \in writes' : v.field = "STATUS" => v.value = "RUNNING"
    <3>1. /\ Done("STATUS", metadata.STATUS = "RUNNING", "RUNNING")
          /\ \A v \in writes : v.field = "STATUS" => v.value = "RUNNING"
      BY <1>k, <2>8 DEF Recording
    <3>2. CASE w.field = "STATUS"
      BY <2>1, <2>3, <2>4, <3>1, <3>2 DEF Done
    <3>3. CASE w.field # "STATUS"
      BY <2>2, <2>3, <2>4, <3>1, <3>3 DEF Done, Query
    <3> QED
      BY <3>2, <3>3
  <2> QED
    BY <1>k, <2>1, <2>3, <2>6, <2>7, <2>8 DEF Recording
<1>8. CASE WriteFails
  <2>1. PICK w \in writes : WriteFails!(w)
    BY <1>8 DEF WriteFails
  <2>2. w.awaited /\ w = Query(w.field, w.value)
    BY <1>k, <1>t, <2>1, QueryIs DEF Recording
  <2>3. /\ writes' = writes \ {w}
        /\ UNCHANGED <<pc, block, outcome, currentStatus, metadata, logged>>
        /\ unwritten' = unwritten \cup {w.field}
    BY <2>1, <2>2
  <2>4. /\ Done("HEIGHT", metadata.HEIGHT = block, block)
             => Done("HEIGHT", metadata.HEIGHT = block, block)'
        /\ Done("LOGS", block \in logged, block)
             => Done("LOGS", block \in logged, block)'
        /\ Done("STATUS", metadata.STATUS = "RUNNING", "RUNNING")
             => Done("STATUS", metadata.STATUS = "RUNNING", "RUNNING")'
    BY <2>3, Queries DEF Done
  <2> QED
    BY <1>k, <2>1, <2>3, <2>4 DEF Recording
<1>9. CASE UNCHANGED vars
  BY <1>k, <1>9 DEF vars, Recording, Done
<1>10. ~Kill
  BY <1>k DEF Kill
<1> QED
  BY <1>1, <1>2, <1>3, <1>4, <1>5, <1>6, <1>7, <1>8, <1>9, <1>10 DEF Next

LEMMA RecordInit == Init => RecordInv
<1>1. Init => Recording
  BY DEF Init, Recording, Done
<1> QED
  BY <1>1, InitInv DEF RecordInv

LEMMA RecordStep == RecordInv /\ [Next]_vars => RecordInv'
<1> SUFFICES ASSUME RecordInv, [Next]_vars PROVE RecordInv'
  OBVIOUS
<1>1. Inv'
  BY TypeStep, ProgressStep, HeightsStep DEF Inv, RecordInv
<1>2. kills' = 0 => Recording'
  BY <1>1, RecordingStep DEF RecordInv
<1> QED
  BY <1>1, <1>2 DEF RecordInv, Recording

(* A worker that goes on after a success has recorded it: status, height   *)
(* and logs say so, whatever order Postgres has executed the queries in,   *)
(* unless it has refused the last of them.                                 *)
THEOREM SuccessRecorded == Spec => []SuccessIsRecorded
<1>1. RecordInv => SuccessIsRecorded
  BY DEF RecordInv, Recording, Done, SuccessIsRecorded
<1> QED
  BY <1>1, RecordInit, RecordStep, PTL DEF Spec

(* The height that is shown never goes back until a worker is killed.      *)
THEOREM HeightMonotone == Spec => HeightNeverDecreases
<1>1. RecordInv /\ [Next]_vars =>
        [kills = 0 => metadata'.HEIGHT >= metadata.HEIGHT]_vars
  <2> SUFFICES ASSUME RecordInv, [Next]_vars, kills = 0
               PROVE  metadata'.HEIGHT >= metadata.HEIGHT
    OBVIOUS
  <2>t. TypeOK /\ metadata.HEIGHT \in Nat /\ block \in Nat
    BY DEF RecordInv, Inv, TypeOK
  <2>1. CASE Write
    <3>1. PICK w \in writes : Write!(w)
      BY <2>1 DEF Write
    <3>2. w.field = "HEIGHT" => w.value >= metadata.HEIGHT
      BY <2>t, <3>1 DEF RecordInv, Recording
    <3>3. metadata'.HEIGHT \in {metadata.HEIGHT}
            \cup (IF w.field = "HEIGHT" THEN {w.value} ELSE {})
      BY <2>t, <3>1 DEF TypeOK
    <3> QED
      BY <2>t, <3>2, <3>3
  <2>2. CASE ~Write
    <3>1. UNCHANGED metadata
      BY <2>2 DEF Next, Execute, Upsert, Succeed, Fail, LeaveCatch, Return,
         WriteFails, Kill, vars
    <3> QED
      BY <2>t, <3>1
  <2> QED
    BY <2>1, <2>2
<1> QED
  BY <1>1, RecordInit, RecordStep, PTL DEF Spec, HeightNeverDecreases
=============================================================================
