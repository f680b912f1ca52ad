-------------------------- MODULE ExecutorService --------------------------
(***************************************************************************)
(* The gRPC service of the Runner and its map of executors, for one        *)
(* Indexer: runner-service.ts and StreamHandler.  JavaScript callbacks run *)
(* one at a time, so a step is what happens between two awaits.  An        *)
(* executor (a StreamHandler) is named after the request that started it.  *)
(* What its worker thread does is in ExecutorWorker; here it posts states  *)
(* and may die.                                                            *)
(***************************************************************************)
EXTENDS Naturals, FiniteSets

CONSTANTS
  MaxRequests,  \* requests the Coordinator sends
  MaxAbandoned, \* requests it gives up on, restarting before the answer
  MaxFaults     \* failing connections and dying workers

ASSUME ExecutorAssumption ==
  /\ MaxRequests \in Nat /\ MaxAbandoned \in Nat /\ MaxFaults \in Nat

Requests == 1 .. MaxRequests
NoExecutor == 0

VARIABLES
  entry,      \* executors: the one entry, or NoExecutor
  worker,     \* per executor: its worker thread
  state,      \* per executor: executorContext.executionState
  posted,     \* per executor: EXECUTION_STATE messages under way
  pc,         \* per request: where its handler stands
  victim,     \* per request: the executor a stop found
  abandoned,  \* requests whose client is gone
  faults

vars == <<entry, worker, state, posted, pc, victim, abandoned, faults>>
executors == <<worker, state, posted>>

WorkerStates == {"none", "connecting", "running", "crashed", "terminated"}
Posts == {"RUNNING", "WAITING", "FAILING"}
ExecutionStates == Posts \cup {"IDLE", "STALLED", "STOPPED"}
(* STOPPED is answered at once when there was no worker to terminate. *)
Answers ==
  {"started", "exists", "stopped", "stoppedAtOnce", "notFound", "internal"}
Answered(r) == pc[r] \in Answers
Fault == faults < MaxFaults /\ faults' = faults + 1

Sends(r) ==
  /\ pc[r] = "idle"
  /\ \A q \in Requests : q < r => Answered(q) \/ q \in abandoned
  /\ \A q \in Requests : q > r => pc[q] = "idle"

Abandon(r) ==
  /\ pc[r] # "idle" /\ ~Answered(r)
  /\ r \notin abandoned
  /\ Cardinality(abandoned) < MaxAbandoned
  /\ abandoned' = abandoned \cup {r}
  /\ UNCHANGED <<entry, executors, pc, victim, faults>>

-----------------------------------------------------------------------------
(* The entry is set and the request answered before the executor is up. *)
StartExecutor(r) ==
  /\ Sends(r)
  /\ IF entry # NoExecutor
     THEN /\ pc' = [pc EXCEPT ![r] = "exists"]
          /\ UNCHANGED <<entry, worker>>
     ELSE /\ entry' = r
          /\ worker' = [worker EXCEPT ![r] = "connecting"]
          /\ pc' = [pc EXCEPT ![r] = "started"]
  /\ UNCHANGED <<state, posted, victim, abandoned, faults>>

(* StreamHandler.start after its await of the PgBouncer parameters. *)
Connected(h) ==
  /\ worker[h] = "connecting"
  /\ worker' = [worker EXCEPT ![h] = "running"]
  /\ state' = [state EXCEPT ![h] = "RUNNING"]
  /\ UNCHANGED <<entry, posted, pc, victim, abandoned, faults>>

ConnectFails(h) ==
  /\ worker[h] = "connecting"
  /\ Fault
  /\ worker' = [worker EXCEPT ![h] = "none"]
  /\ state' = [state EXCEPT ![h] = "STALLED"]
  /\ UNCHANGED <<entry, posted, pc, victim, abandoned>>

(* Without a worker stop() is done at once; else it awaits terminate().    *)
StopExecutor(r) ==
  /\ Sends(r)
  /\ victim' = [victim EXCEPT ![r] = entry]
  /\ IF entry = NoExecutor
     THEN /\ pc' = [pc EXCEPT ![r] = "notFound"]
          /\ UNCHANGED <<entry, state>>
     ELSE IF worker[entry] \in {"none", "connecting"}
     THEN /\ pc' = [pc EXCEPT ![r] = "stoppedAtOnce"]
          /\ state' = [state EXCEPT ![entry] = "STOPPED"]
          /\ entry' = NoExecutor
     ELSE /\ pc' = [pc EXCEPT ![r] = "terminating"]
          /\ UNCHANGED <<entry, state>>
  /\ UNCHANGED <<worker, posted, abandoned, faults>>

(* Slip: the worker is not terminated. *)
TerminatedOnPaper(r) ==
  /\ pc[r] = "terminating"
  /\ state' = [state EXCEPT ![victim[r]] = "STOPPED"]
  /\ entry' = NoExecutor
  /\ pc' = [pc EXCEPT ![r] = "stopped"]
  /\ UNCHANGED <<worker, posted, victim, abandoned, faults>>

(* The id is deleted from the map, whoever holds it by then. *)
Terminated(r) ==
  /\ pc[r] = "terminating"
  /\ worker' = [worker EXCEPT ![victim[r]] = "terminated"]
  /\ state' = [state EXCEPT ![victim[r]] = "STOPPED"]
  /\ entry' = NoExecutor
  /\ pc' = [pc EXCEPT ![r] = "stopped"]
  /\ UNCHANGED <<posted, victim, abandoned, faults>>

TerminateFails(r) ==
  /\ pc[r] = "terminating"
  /\ Fault
  /\ pc' = [pc EXCEPT ![r] = "internal"]
  /\ UNCHANGED <<entry, executors, victim, abandoned>>

-----------------------------------------------------------------------------
(***************************************************************************)
(* The worker thread and what the main thread hears of it.  Messages and   *)
(* errors come through two ports, so a state posted before the error may   *)
(* be handled after it.                                                    *)
(***************************************************************************)
Post(h) ==
  /\ worker[h] = "running"
  /\ \E s \in Posts : posted' = [posted EXCEPT ![h] = {s}]
  /\ UNCHANGED <<entry, worker, state, pc, victim, abandoned, faults>>

HandleMessage(h) ==
  /\ \E s \in posted[h] : state' = [state EXCEPT ![h] = s]
  /\ posted' = [posted EXCEPT ![h] = {}]
  /\ UNCHANGED <<entry, worker, pc, victim, abandoned, faults>>

(* The worker throws; handleError terminates it and keeps the entry. *)
HandleError(h) ==
  /\ worker[h] = "running"
  /\ Fault
  /\ worker' = [worker EXCEPT ![h] = "crashed"]
  /\ state' = [state EXCEPT ![h] = "STALLED"]
  /\ UNCHANGED <<entry, posted, pc, victim, abandoned>>

Init ==
  /\ entry = NoExecutor
  /\ worker = [r \in Requests |-> "none"]
  /\ state = [r \in Requests |-> "IDLE"]
  /\ posted = [r \in Requests |-> {}]
  /\ pc = [r \in Requests |-> "idle"]
  /\ victim = [r \in Requests |-> NoExecutor]
  /\ abandoned = {}
  /\ faults = 0

Next ==
  \E r \in Requests :
    \/ StartExecutor(r) \/ Connected(r) \/ ConnectFails(r)
    \/ StopExecutor(r) \/ Terminated(r) \/ TerminateFails(r)
    \/ Post(r) \/ HandleMessage(r) \/ HandleError(r) \/ Abandon(r)

Spec == Init /\ [][Next]_vars

-----------------------------------------------------------------------------
TypeOK ==
  /\ entry \in {NoExecutor} \cup Requests
  /\ worker \in [Requests -> WorkerStates]
  /\ state \in [Requests -> ExecutionStates]
  /\ posted \in [Requests -> SUBSET Posts]
  /\ pc \in [Requests -> {"idle", "terminating"} \cup Answers]
  /\ victim \in [Requests -> {NoExecutor} \cup Requests]
  /\ abandoned \subseteq Requests
  /\ faults \in 0 .. MaxFaults

(* An answered stop that awaited terminate() leaves nothing of the         *)
(* executor it found, in the map or as a thread, whichever other requests  *)
(* and errors came in between.                                             *)
StoppedIsGone ==
  \A r \in Requests :
    pc[r] = "stopped" =>
      entry # victim[r] /\ worker[victim[r]] # "running"

(* A worker that runs unknown to the map was lost to one of two races: a   *)
(* stop came before its connection parameters, or the second of two stops  *)
(* of its predecessor deleted its entry.  Neither failures nor overlapping *)
(* starts lose one.                                                        *)
OnlyStopsLeak ==
  \A h \in Requests :
    worker[h] = "running" /\ h # entry =>
      \/ \E r \in Requests : pc[r] = "stoppedAtOnce" /\ victim[r] = h
      \/ \E q, r \in Requests :
           /\ q # r /\ victim[q] = victim[r]
           /\ pc[q] = "stopped" /\ pc[r] = "stopped"

(* What holds of map and worker threads in every state: what an answered   *)
(* stop has terminated is gone from both, and a worker is lost only to the *)
(* two races.                                                              *)
ExecutorsInv == TypeOK /\ StoppedIsGone /\ OnlyStopsLeak

(* What both races break.  ListExecutors: "List of all executors,          *)
(* including stopped or crashed ones".                                     *)
NoLeak ==
  \A h \in Requests : worker[h] = "running" => h = entry

(* ExecutionState: STALLED is "Unintentionally stopped", which is what     *)
(* makes the Coordinator restart an executor.  Not so: a state posted      *)
(* before the error is handled after it.                                   *)
DeadIsStalled ==
  entry # NoExecutor /\ worker[entry] \in {"none", "crashed"}
    => state[entry] = "STALLED"
=============================================================================
