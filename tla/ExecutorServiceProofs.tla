----------------------- MODULE ExecutorServiceProofs -----------------------
(***************************************************************************)
(* Proofs about ExecutorService for any number of requests, of clients     *)
(* that give up and of failing connections and workers.                    *)
(***************************************************************************)
EXTENDS ExecutorService, TLAPS

(* Two stops of one executor have both awaited terminate(). *)
StoppedTwice ==
  \E q, r \in Requests :
    q # r /\ victim[q] = victim[r] /\ pc[q] = "stopped" /\ pc[r] = "stopped"

(* An entry, and what a stop terminates, is an executor that was started;  *)
(* its worker never returns to a state without a thread to terminate, and  *)
(* a terminated one stays so.                                              *)
Started ==
  /\ entry # NoExecutor => pc[entry] = "started"
  /\ \A r \in Requests : pc[r] \in {"terminating", "stopped"} =>
       /\ victim[r] \in Requests /\ pc[victim[r]] = "started"
       /\ worker[victim[r]] \notin {"none", "connecting"}
  /\ \A r \in Requests : pc[r] = "stopped" =>
       worker[victim[r]] = "terminated" /\ entry # victim[r]

(* A stop that awaits terminate() finds its executor still in the map,     *)
(* unless another stop of the same one was quicker.                        *)
Awaited ==
  \A r \in Requests : pc[r] = "terminating" =>
    \/ entry = victim[r]
    \/ \E q \in Requests : pc[q] = "stopped" /\ victim[q] = victim[r]
    \/ StoppedTwice

(* OnlyStopsLeak, from the moment the executor is created. *)
Lost ==
  \A h \in Requests :
    worker[h] \in {"connecting", "running"} /\ h # entry =>
      \/ \E r \in Requests : pc[r] = "stoppedAtOnce" /\ victim[r] = h
      \/ StoppedTwice

Inv == TypeOK /\ Started /\ Awaited /\ Lost

-----------------------------------------------------------------------------
(* Requests are numbers other than NoExecutor. *)
LEMMA Numbers == \A r \in Requests : r # NoExecutor
  BY ExecutorAssumption DEF Requests, NoExecutor

LEMMA InvInit == Init => Inv
  BY ExecutorAssumption
  DEF Init, Inv, TypeOK, Started, Awaited, Lost, WorkerStates, ExecutionStates,
      Posts, Requests, NoExecutor

(* Every step keeps the types.                                             *)
LEMMA TypeNext == TypeOK /\ Started /\ [Next]_vars => TypeOK'
  <1> SUFFICES ASSUME TypeOK, Started, [Next]_vars PROVE TypeOK'
    OBVIOUS
  <1> USE DEF executors
  <1>1. CASE UNCHANGED vars
    BY <1>1 DEF vars, TypeOK
  <1>2. ASSUME NEW r \in Requests,
               \/ StartExecutor(r) \/ Connected(r) \/ ConnectFails(r)
               \/ StopExecutor(r) \/ Terminated(r) \/ TerminateFails(r)
               \/ Post(r) \/ HandleMessage(r) \/ HandleError(r) \/ Abandon(r)
        PROVE  TypeOK'
    <2> USE DEF TypeOK, StartExecutor, Connected, ConnectFails, StopExecutor,
          Terminated, TerminateFails, Post, HandleMessage, HandleError, Abandon
    <2>1. pc' \in [Requests -> {"idle", "terminating"} \cup Answers]
      BY <1>2 DEF Answers
    <2>2. worker' \in [Requests -> WorkerStates]
      BY <1>2 DEF WorkerStates
    <2>3. state' \in [Requests -> ExecutionStates]
      <3>1. CASE HandleMessage(r)
        <4>1. PICK s \in posted[r] : state' = [state EXCEPT ![r] = s]
          BY <3>1
        <4>2. s \in ExecutionStates
          BY <4>1 DEF ExecutionStates
        <4> QED BY <4>1, <4>2
      <3>2. CASE ~HandleMessage(r)
        BY <1>2, <3>2 DEF ExecutionStates, Posts
      <3> QED BY <3>1, <3>2
    <2>4. posted' \in [Requests -> SUBSET Posts]
      BY <1>2
    <2>5. victim' \in [Requests -> {NoExecutor} \cup Requests]
      BY <1>2
    <2>6. /\ entry' \in {NoExecutor} \cup Requests /\ abandoned' \subseteq Requests
          /\ faults' \in 0 .. MaxFaults
      <3>1. faults' = faults \/ Fault
        BY <1>2
      <3>2. faults' \in 0 .. MaxFaults
        BY <3>1, ExecutorAssumption DEF Fault
      <3> QED BY <1>2, <3>2
    <2> QED BY <2>1, <2>2, <2>3, <2>4, <2>5, <2>6
  <1> QED BY <1>1, <1>2 DEF Next

(* What the other conjuncts of Inv say once the types are known.           *)
Rest == Started /\ Awaited /\ Lost

(* A step that concerns neither map nor handlers, and after which a worker *)
(* with a thread has had one, and a terminated one stays so.               *)
LEMMA WorkersMove ==
  ASSUME Rest, UNCHANGED <<entry, pc, victim>>,
         \A h \in Requests :
           /\ worker'[h] \in {"connecting", "running"} =>
                worker[h] \in {"connecting", "running"}
           /\ worker[h] \notin {"none", "connecting"} =>
                worker'[h] \notin {"none", "connecting"}
           /\ worker[h] = "terminated" => worker'[h] = "terminated"
  PROVE  Rest'
  <1>1. Started'
    BY DEF Rest, Started
  <1>2. Awaited' /\ Lost'
    BY DEF Rest, Awaited, Lost, StoppedTwice
  <1> QED BY <1>1, <1>2 DEF Rest

(* Inv is inductive. *)
LEMMA InvNext == Inv /\ [Next]_vars => Inv'
  <1> SUFFICES ASSUME Inv, [Next]_vars PROVE Rest'
    BY TypeNext DEF Inv, Rest
  <1>t. TypeOK /\ TypeOK' /\ Rest
    BY TypeNext DEF Inv, Rest
  <1>1. CASE UNCHANGED <<entry, worker, pc, victim>>
    BY <1>1, <1>t, WorkersMove
  <1>2. ASSUME NEW r \in Requests, Connected(r) \/ ConnectFails(r) \/ HandleError(r)
        PROVE  Rest'
    <2>1. /\ UNCHANGED <<entry, pc, victim>>
          /\ \/ worker[r] = "connecting" /\ worker'[r] \in {"running", "none"}
             \/ worker[r] = "running" /\ worker'[r] = "crashed"
          /\ \A q \in Requests : q # r => worker'[q] = worker[q]
      BY <1>2, <1>t DEF Connected, ConnectFails, HandleError, TypeOK
    <2> QED BY <1>t, <2>1, WorkersMove
  <1>3. ASSUME NEW r \in Requests, StartExecutor(r) PROVE Rest'
    <2>1. pc[r] = "idle" /\ UNCHANGED victim
      BY <1>3 DEF StartExecutor, Sends
    <2>2. CASE entry # NoExecutor
      <3>1. /\ pc'[r] = "exists" /\ \A q \in Requests : q # r => pc'[q] = pc[q]
            /\ UNCHANGED <<entry, worker>>
        BY <1>3, <1>t, <2>2 DEF StartExecutor, TypeOK
      <3>2. Started'
        BY <1>t, <2>1, <3>1 DEF Rest, Started, TypeOK
      <3>3. Awaited' /\ Lost'
        BY <1>t, <2>1, <3>1 DEF Rest, Awaited, Lost, StoppedTwice
      <3> QED BY <3>2, <3>3 DEF Rest
    <2>3. CASE entry = NoExecutor
      <3>1. /\ pc'[r] = "started" /\ \A q \in Requests : q # r => pc'[q] = pc[q]
            /\ worker'[r] = "connecting"
            /\ \A q \in Requests : q # r => worker'[q] = worker[q]
            /\ entry' = r
        BY <1>3, <1>t, <2>3 DEF StartExecutor, TypeOK
      <3>2. Started'
        BY <1>t, <2>1, <3>1 DEF Rest, Started, TypeOK
      <3>3. Awaited'
        BY <1>t, <2>1, <2>3, <3>1, Numbers DEF Rest, Started, Awaited, StoppedTwice
      <3>4. Lost'
        BY <1>t, <2>1, <2>3, <3>1, Numbers DEF Rest, Lost, StoppedTwice
      <3> QED BY <3>2, <3>3, <3>4 DEF Rest
    <2> QED BY <2>2, <2>3
  <1>4. ASSUME NEW r \in Requests, StopExecutor(r) PROVE Rest'
    <2>1. /\ pc[r] = "idle" /\ UNCHANGED worker
          /\ victim'[r] = entry
          /\ \A q \in Requests : q # r => victim'[q] = victim[q] /\ pc'[q] = pc[q]
          /\ \/ entry = NoExecutor /\ pc'[r] = "notFound" /\ entry' = entry
             \/ /\ entry \in Requests /\ worker[entry] \in {"none", "connecting"}
                /\ pc'[r] = "stoppedAtOnce" /\ entry' = NoExecutor
             \/ /\ entry \in Requests /\ worker[entry] \notin {"none", "connecting"}
                /\ pc'[r] = "terminating" /\ entry' = entry
      BY <1>4, <1>t DEF StopExecutor, Sends, TypeOK
    <2>2. Started'
      <3>1. entry' # NoExecutor => pc'[entry'] = "started"
        BY <1>t, <2>1 DEF Rest, Started, TypeOK
      <3>2. ASSUME NEW q \in Requests, pc'[q] \in {"terminating", "stopped"}
            PROVE  /\ victim'[q] \in Requests /\ pc'[victim'[q]] = "started"
                   /\ worker'[victim'[q]] \notin {"none", "connecting"}
        BY <1>t, <2>1, <3>2, Numbers DEF Rest, Started
      <3>3. ASSUME NEW q \in Requests, pc'[q] = "stopped"
            PROVE  worker'[victim'[q]] = "terminated" /\ entry' # victim'[q]
        BY <1>t, <2>1, <3>3, Numbers DEF Rest, Started
      <3> QED BY <3>1, <3>2, <3>3 DEF Started
    <2>3. Awaited'
      BY <1>t, <2>1 DEF Rest, Started, Awaited, StoppedTwice
    <2>4. Lost'
      BY <1>t, <2>1 DEF Rest, Lost, StoppedTwice
    <2> QED BY <2>2, <2>3, <2>4 DEF Rest
  <1>5. ASSUME NEW r \in Requests, Terminated(r) PROVE Rest'
    <2>1. /\ pc[r] = "terminating" /\ pc'[r] = "stopped"
          /\ \A q \in Requests : q # r => pc'[q] = pc[q]
          /\ victim[r] \in Requests /\ worker'[victim[r]] = "terminated"
          /\ \A h \in Requests : h # victim[r] => worker'[h] = worker[h]
          /\ entry' = NoExecutor /\ UNCHANGED victim
      BY <1>5, <1>t DEF Terminated, TypeOK, Rest, Started
    <2>2. Started'
      BY <1>t, <2>1, Numbers DEF Rest, Started
    <2>3. StoppedTwice => StoppedTwice'
      BY <2>1 DEF StoppedTwice
    <2>4. entry = victim[r] \/ StoppedTwice'
      BY <1>t, <2>1, <2>3 DEF Rest, Awaited, StoppedTwice
    <2>5. Awaited'
      BY <1>t, <2>1, <2>3, <2>4 DEF Rest, Awaited
    <2>6. Lost'
      BY <1>t, <2>1, <2>3, <2>4 DEF Rest, Lost
    <2> QED BY <2>2, <2>5, <2>6 DEF Rest
  <1>6. ASSUME NEW r \in Requests, TerminateFails(r) PROVE Rest'
    <2>1. /\ pc[r] = "terminating" /\ pc'[r] = "internal"
          /\ \A q \in Requests : q # r => pc'[q] = pc[q]
          /\ UNCHANGED <<entry, worker, victim>>
      BY <1>6, <1>t DEF TerminateFails, TypeOK, executors
    <2>2. Started'
      BY <1>t, <2>1 DEF Rest, Started, TypeOK
    <2>3. Awaited' /\ Lost'
      BY <1>t, <2>1 DEF Rest, Awaited, Lost, StoppedTwice
    <2> QED BY <2>2, <2>3 DEF Rest
  <1>7. ASSUME NEW r \in Requests, Post(r) \/ HandleMessage(r) \/ Abandon(r)
        PROVE  Rest'
    BY <1>1, <1>7 DEF Post, HandleMessage, Abandon, executors
  <1> QED
    BY <1>1, <1>2, <1>3, <1>4, <1>5, <1>6, <1>7 DEF Next, vars

(* Whatever the requests, their overlaps and the failing connections and   *)
(* workers: what an answered stop has awaited is gone from the map and as  *)
(* a thread, and a worker is lost only to a stop that came before its      *)
(* connection parameters or to the second of two stops.                    *)
THEOREM ExecutorsAreKept == Spec => []ExecutorsInv
  <1>1. Inv => ExecutorsInv
    <2>1. Inv => StoppedIsGone
      BY DEF Inv, Started, StoppedIsGone
    <2>2. Inv => OnlyStopsLeak
      BY DEF Inv, Lost, OnlyStopsLeak, StoppedTwice
    <2> QED BY <2>1, <2>2 DEF Inv, ExecutorsInv
  <1> QED BY <1>1, InvInit, InvNext, PTL DEF Spec
=============================================================================
