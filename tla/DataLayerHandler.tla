-------------------------- MODULE DataLayerHandler --------------------------
(***************************************************************************)
(* The Coordinator's side of provisioning: handle_initializing waits in    *)
(* ensure_provisioned for the task it started, polling the Runner, and     *)
(* decides for good: Running or Repairing.  Any failing call, a task the   *)
(* Runner no longer knows and a time limit end the waiting; a restart of   *)
(* the Coordinator begins it anew, with another task.  Nothing calls       *)
(* ensure_deprovisioned at present (its call in handle_deleting is         *)
(* commented out); it is modelled as it would be called there.             *)
(*                                                                         *)
(* Time is not modelled: a poll may find the limit passed at any moment.   *)
(* That, like any failure of a call, is charged to faults; a restart of    *)
(* the Coordinator is not, so a task may always be repeated.               *)
(***************************************************************************)
EXTENDS DataLayer

VARIABLE handler  \* Indexer -> its lifecycle and the task it awaits

handlerVars == <<vars, handler>>

NoTask == 0
Lifecycles == {"Initializing", "Running", "Repairing", "Deleting", "Deleted"}
Fresh == [lifecycle |-> "Initializing", task |-> NoTask]

Kind(i) ==
  IF handler[i].lifecycle = "Initializing" THEN "provision" ELSE "deprovision"
Waiting(i) == handler[i].task # NoTask

Fault == faults < MaxFaults /\ faults' = faults + 1

(* ensure_provisioned, or ensure_deprovisioned, returns.  The latter's     *)
(* outcome makes no difference to handle_deleting.                         *)
Returned(i, ok) ==
  [handler EXCEPT ![i] =
     [Fresh EXCEPT !.lifecycle =
        IF handler[i].lifecycle = "Deleting" THEN "Deleted"
        ELSE IF ok THEN "Running" ELSE "Repairing"]]
Returns(i, ok) == handler' = Returned(i, ok)

(* The request takes effect and is answered, or its answer is lost.  The   *)
(* Runner never gives the answer that means "already provisioned".         *)
StartTask(i) ==
  /\ handler[i].lifecycle \in {"Initializing", "Deleting"} /\ ~Waiting(i)
  /\ \E t \in Tasks :
       /\ Start(t, i, Kind(i))
       /\ \/ handler' = [handler EXCEPT ![i].task = t] /\ UNCHANGED faults
          \/ Returns(i, FALSE) /\ Fault

RequestFails(i) ==
  /\ handler[i].lifecycle \in {"Initializing", "Deleting"} \/ Waiting(i)
  /\ Returns(i, FALSE)
  /\ Fault
  /\ UNCHANGED <<has, tasks>>

(* get_task_status: a task that is not found counts as failed.  Slip: it is*)
(* taken for one that has ended well.                                      *)
TaskStatusForgiving(t) ==
  CASE tasks[t].state = "pending" -> "Pending"
    [] tasks[t].state = "failed" -> "Failed"
    [] OTHER -> "Complete"

TaskStatus(t) ==
  CASE tasks[t].state = "pending" -> "Pending"
    [] tasks[t].state = "complete" -> "Complete"
    [] OTHER -> "Failed"

Poll(i) ==
  /\ Waiting(i)
  /\ LET status == TaskStatus(handler[i].task) IN
     \/ status = "Complete" /\ Returns(i, TRUE) /\ UNCHANGED faults
     \/ status = "Failed" /\ Returns(i, FALSE) /\ UNCHANGED faults
     \/ status = "Pending" /\ Returns(i, FALSE) /\ Fault
  /\ UNCHANGED <<has, tasks>>

(* The record still says Initializing or Deleting, and its task is unknown.*)
CoordinatorCrash ==
  /\ \E i \in Indexers : Waiting(i)
  /\ handler' = [i \in Indexers |->
                   [Fresh EXCEPT !.lifecycle = handler[i].lifecycle]]
  /\ UNCHANGED vars

(* The owner removes the Indexer, which its handlers look for first, or    *)
(* registers it again.                                                     *)
Remove(i) ==
  /\ handler[i].lifecycle \in {"Initializing", "Running", "Repairing"}
  /\ ~Waiting(i)
  /\ handler' = [handler EXCEPT ![i].lifecycle = "Deleting"]
  /\ UNCHANGED vars

RegisterAgain(i) ==
  /\ handler[i].lifecycle = "Deleted"
  /\ handler' = [handler EXCEPT ![i] = Fresh]
  /\ UNCHANGED vars

HandlerInit == Init /\ handler = [i \in Indexers |-> Fresh]

HandlerNext ==
  \/ Service /\ UNCHANGED handler
  \/ \E i \in Indexers :
       \/ StartTask(i) \/ RequestFails(i) \/ Poll(i)
       \/ Remove(i) \/ RegisterAgain(i)
  \/ CoordinatorCrash

HandlerSpec == HandlerInit /\ [][HandlerNext]_handlerVars

-----------------------------------------------------------------------------
HandlerTypeOK ==
  handler \in [Indexers -> [lifecycle : Lifecycles, task : Tasks \cup {NoTask}]]

(* Running is decided on the word of one task, and never revised.  Whatever*)
(* else was started, given up, lost or broken off for the Indexer, or is   *)
(* still under way: all it needs is there, but for the permissions of      *)
(* SaysPermitted.                                                          *)
RunningIsThere ==
  Removals = {} => \A i \in Indexers :
    handler[i].lifecycle = "Running" =>
      /\ Shared(SharedParts) \subseteq has
      /\ Of(i, OwnParts \ {"related", "tablesPermitted"}) \subseteq has
=============================================================================
