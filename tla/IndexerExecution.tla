--------------------------- MODULE IndexerExecution ---------------------------
(***************************************************************************)
(* Indexer.execute in a worker of the Runner, with the IndexerMeta and the *)
(* DmlHandler it writes through.  Each query takes a connection of a pool  *)
(* and commits by itself: the statements of the user's code one after      *)
(* another, the status, the height and the logs beside them, in any order. *)
(* A killed worker leaves the queries it has sent to Postgres.             *)
(*                                                                         *)
(* The user's code is a list of upserts that it awaits, of rows that only  *)
(* its block determines.  It may throw between any two of them.            *)
(***************************************************************************)
EXTENDS Naturals, FiniteSets

CONSTANTS
  MaxBlock,     \* blocks of the Redis stream
  Statements,   \* upserts the code runs on each
  MaxFaults,    \* statements and writes of IndexerMeta that fail
  MaxKills      \* workers that are terminated

ASSUME IndexerExecutionAssumption ==
  /\ {MaxBlock, Statements} \subseteq Nat \ {0}
  /\ {MaxFaults, MaxKills} \subseteq Nat

VARIABLES
  pc,             \* where execute stands; "idle" between two calls
  block,          \* of the call, or of the last one
  next,           \* statement of the code that runs next
  outcome,        \* "ok" or "failed" once known
  currentStatus,  \* of the Indexer object
  writes,         \* queries of IndexerMeta that Postgres has not answered
  metadata,       \* sys_metadata
  logged,         \* blocks with entries in sys_logs
  rows,           \* the user's tables: block and statement of each row
  unwritten,      \* fields this worker's last answered query did not write
  faults, kills

vars == <<pc, block, next, outcome, currentStatus, writes, metadata, logged,
          rows, unwritten, faults, kills>>

Blocks == 1 .. MaxBlock
RowsOf(b) == {b} \X (1 .. Statements)

Query(field, value) == [field |-> field, value |-> value, awaited |-> TRUE]
Awaited == {w \in writes : w.awaited}

StatusQuery(status) ==
  IF currentStatus = status THEN {} ELSE {Query("STATUS", status)}

(* Slip: the height is written before the code has run. *)
ExecuteNotingHeight ==
  /\ pc = "idle"
  /\ \E b \in Blocks :
       /\ b \in {block} \cup (IF outcome = "ok" \/ block = 0
                              THEN {block + 1} ELSE {})
       /\ block' = b
       /\ writes' = writes \cup StatusQuery("RUNNING")
                           \cup {Query("HEIGHT", b)}
  /\ pc' = "running" /\ next' = 1 /\ outcome' = "none"
  /\ currentStatus' = "RUNNING"
  /\ UNCHANGED <<metadata, logged, rows, unwritten, faults, kills>>

(* A call begins: on the first block of the stream, which is the one of    *)
(* the call before while that has not succeeded, or its message was not    *)
(* deleted.                                                                *)
Execute ==
  /\ pc = "idle"
  /\ \E b \in Blocks :
       /\ b \in {block} \cup (IF outcome = "ok" \/ block = 0
                              THEN {block + 1} ELSE {})
       /\ block' = b
  /\ pc' = "running" /\ next' = 1 /\ outcome' = "none"
  /\ writes' = writes \cup StatusQuery("RUNNING")
  /\ currentStatus' = "RUNNING"
  /\ UNCHANGED <<metadata, logged, rows, unwritten, faults, kills>>

(* Slip: without ON CONFLICT DO UPDATE. *)
InsertRow ==
  /\ pc = "running" /\ next \in 1 .. Statements
  /\ <<block, next>> \notin rows
  /\ rows' = rows \cup {<<block, next>>}
  /\ next' = next + 1
  /\ UNCHANGED <<pc, block, outcome, currentStatus, writes, metadata, logged,
                 unwritten, faults, kills>>

(* context.db.*.upsert: an INSERT with ON CONFLICT DO UPDATE. *)
Upsert ==
  /\ pc = "running" /\ next \in 1 .. Statements
  /\ rows' = rows \cup {<<block, next>>}
  /\ next' = next + 1
  /\ UNCHANGED <<pc, block, outcome, currentStatus, writes, metadata, logged,
                 unwritten, faults, kills>>

(* The code has returned: the height and, in finally, the logs are sent. *)
Succeed ==
  /\ pc = "running" /\ next = Statements + 1
  /\ pc' = "settling" /\ outcome' = "ok"
  /\ writes' = writes \cup {Query("HEIGHT", block), Query("LOGS", block)}
  /\ UNCHANGED <<block, next, currentStatus, metadata, logged, rows,
                 unwritten, faults, kills>>

(* Slip: the status that is written is not remembered. *)
FailUnremembered ==
  /\ pc = "running" /\ faults < MaxFaults
  /\ pc' = "failing" /\ outcome' = "failed"
  /\ writes' = writes \cup StatusQuery("FAILING")
  /\ faults' = faults + 1
  /\ UNCHANGED <<block, next, currentStatus, metadata, logged, rows,
                 unwritten, kills>>

(* The code, or a statement of it, has thrown. *)
Fail ==
  /\ pc = "running" /\ faults < MaxFaults
  /\ pc' = "failing" /\ outcome' = "failed"
  /\ writes' = writes \cup StatusQuery("FAILING")
  /\ currentStatus' = "FAILING"
  /\ faults' = faults + 1
  /\ UNCHANGED <<block, next, metadata, logged, rows, unwritten, kills>>

(* The catch block has awaited its own write, not the one of RUNNING. *)
LeaveCatch ==
  /\ pc = "failing" /\ Query("STATUS", "FAILING") \notin writes
  /\ pc' = "settling"
  /\ writes' = writes \cup {Query("LOGS", block)}
  /\ UNCHANGED <<block, next, outcome, currentStatus, metadata, logged, rows,
                 unwritten, faults, kills>>

(* Slip: execute returns while its writes are on their way. *)
ReturnAtOnce ==
  /\ pc = "settling"
  /\ pc' = "idle"
  /\ UNCHANGED <<block, next, outcome, currentStatus, writes, metadata,
                 logged, rows, unwritten, faults, kills>>

(* Promise.allSettled in finally; execute returns, or throws again. *)
Return ==
  /\ pc = "settling" /\ Awaited = {}
  /\ pc' = "idle"
  /\ UNCHANGED <<block, next, outcome, currentStatus, writes, metadata,
                 logged, rows, unwritten, faults, kills>>

(* Postgres executes a query, whoever sent it. *)
Write ==
  \E w \in writes :
    /\ writes' = writes \ {w}
    /\ IF w.field = "LOGS"
       THEN logged' = logged \cup {w.value} /\ UNCHANGED metadata
       ELSE metadata' = [metadata EXCEPT ![w.field] = w.value]
            /\ UNCHANGED logged
    /\ unwritten' = IF w.awaited THEN unwritten \ {w.field} ELSE unwritten
    /\ UNCHANGED <<pc, block, next, outcome, currentStatus, rows, faults,
                   kills>>

(* A query fails: it is logged and forgotten. *)
WriteFails ==
  \E w \in writes :
    /\ faults < MaxFaults
    /\ faults' = faults + 1
    /\ writes' = writes \ {w}
    /\ unwritten' = IF w.awaited THEN unwritten \cup {w.field} ELSE unwritten
    /\ UNCHANGED <<pc, block, next, outcome, currentStatus, metadata, logged,
                   rows, kills>>

(* The worker is terminated and another takes over with new objects.  What *)
(* was sent may still be executed.                                         *)
Kill ==
  /\ kills < MaxKills
  /\ kills' = kills + 1
  /\ outcome' = IF pc = "idle" THEN outcome ELSE "none"
  /\ pc' = "idle" /\ next' = 1
  /\ currentStatus' = "none" /\ unwritten' = {}
  /\ writes' = {[w EXCEPT !.awaited = FALSE] : w \in writes}
  /\ UNCHANGED <<block, metadata, logged, rows, faults>>

Init ==
  /\ pc = "idle" /\ block = 0 /\ next = 1 /\ outcome = "none"
  /\ currentStatus = "none" /\ writes = {}
  /\ metadata = [STATUS |-> "PROVISIONING", HEIGHT |-> 0]
  /\ logged = {} /\ rows = {} /\ unwritten = {}
  /\ faults = 0 /\ kills = 0

Next ==
  \/ Execute \/ Upsert \/ Succeed \/ Fail \/ LeaveCatch \/ Return
  \/ Write \/ WriteFails \/ Kill

Spec == Init /\ [][Next]_vars

(* The worker's loop goes on, Postgres answers, and the message of a block *)
(* that succeeds again and again is deleted at last.                       *)
FairSpec ==
  /\ Spec
  /\ WF_vars(Execute) /\ SF_vars(Execute /\ block' # block)
  /\ WF_vars(Upsert) /\ WF_vars(Succeed)
  /\ WF_vars(LeaveCatch) /\ WF_vars(Return) /\ WF_vars(Write)

-----------------------------------------------------------------------------

Statuses == {"none", "RUNNING", "FAILING"}
StatusWrites == [field : {"STATUS"}, value : Statuses, awaited : BOOLEAN]
BlockWrites == [field : {"HEIGHT", "LOGS"}, value : Blocks, awaited : BOOLEAN]

TypeOK ==
  /\ pc \in {"idle", "running", "failing", "settling"}
  /\ block \in 0 .. MaxBlock
  /\ next \in 1 .. (Statements + 1)
  /\ outcome \in {"none", "ok", "failed"}
  /\ currentStatus \in Statuses
  /\ writes \subseteq (StatusWrites \cup BlockWrites)
  /\ metadata \in [STATUS : Statuses \cup {"PROVISIONING"},
                   HEIGHT : 0 .. MaxBlock]
  /\ logged \subseteq Blocks
  /\ rows \subseteq (Blocks \X (1 .. Statements))
  /\ unwritten \subseteq {"STATUS", "HEIGHT", "LOGS"}
  /\ faults \in 0 .. MaxFaults /\ kills \in 0 .. MaxKills

(* The height an Indexer shows is that of a block before which, and with   *)
(* which, everything is in the tables: whatever fails, and whatever a      *)
(* killed worker's queries do later.                                       *)
HeightIsIndexed ==
  \A b \in 1 .. metadata.HEIGHT : RowsOf(b) \subseteq rows

(* When a call has succeeded and Postgres has refused nothing, its worker  *)
(* goes on only after status, height and logs say so: no earlier write can *)
(* overtake them, but those of a killed worker.                            *)
SuccessIsRecorded ==
  (pc = "idle" /\ outcome = "ok" /\ kills = 0) =>
    /\ metadata.STATUS = "RUNNING" \/ "STATUS" \in unwritten
    /\ metadata.HEIGHT = block \/ "HEIGHT" \in unwritten
    /\ block \in logged \/ "LOGS" \in unwritten

(* The height that is shown goes only up, while no killed worker's write   *)
(* lands late.                                                             *)
HeightNeverDecreases ==
  [][kills = 0 => metadata'.HEIGHT >= metadata.HEIGHT]_vars

(* Faults that end leave no block that cannot be executed: what an attempt *)
(* has committed does not stand in the way of the next.                    *)
Indexes == <>[](\A b \in Blocks : RowsOf(b) \subseteq rows)

=============================================================================
