--------------------------- MODULE ExecutorWorker ---------------------------
(***************************************************************************)
(* The worker thread of an executor (stream-handler/worker.ts): a producer *)
(* that prefetches the blocks of the Redis stream and a consumer that runs *)
(* the Indexer on them one by one and deletes their messages.  Both run in *)
(* one JavaScript thread and interleave at every await.  A block is known  *)
(* by the id of its message; ids grow in the order of publication, also    *)
(* after an update has cleared the stream under the running worker.        *)
(***************************************************************************)
EXTENDS Naturals, Sequences

CONSTANTS
  MaxMessages,      \* messages the Block Streamer publishes
  PrefetchLimit,    \* PREFETCH_QUEUE_LIMIT
  MaxFetchFaults,   \* blocks that cannot be downloaded
  MaxFaults,        \* failing executions and Redis calls, crashes
  MaxUpdates        \* updates that supersede the stream

ASSUME WorkerAssumption ==
  /\ MaxMessages \in Nat /\ PrefetchLimit \in Nat \ {0}
  /\ MaxFetchFaults \in Nat /\ MaxFaults \in Nat /\ MaxUpdates \in Nat

VARIABLES
  stream,       \* the Redis stream: the ids in it
  published,    \* how many messages were ever published
  superseded,   \* the ids that were in it when it was cleared
  version,      \* of the Indexer the stream is filled for
  code,         \* the version the worker was started with
  startId,      \* streamMessageStartId of the producer
  producer,     \* messages the producer asked for; 0: it sleeps
  queue,        \* the prefetch queue of promises, [id, block]
  consumer,     \* where the consumer stands; "down": no thread runs
  state,        \* the EXECUTION_STATE posted last
  executions,   \* per id: executions that were begun
  succeeded,    \* the ids some execution of which succeeded
  fetchFaults, faults

redis == <<stream, published, superseded>>
versions == <<version, code>>
producing == <<startId, producer>>
history == <<executions, succeeded>>
vars == <<redis, versions, producing, queue, consumer, state, history,
          fetchFaults, faults>>

Ids == 1 .. MaxMessages
Blocks == {"fetching", "fetched", "missing"}
ConsumerSteps == {"count", "look", "await", "execute", "delete", "sleep",
                  "down"}
States == {"RUNNING", "WAITING", "FAILING", "STALLED", "STOPPED"}
Fault == faults < MaxFaults /\ faults' = faults + 1
Running == consumer # "down"

(* The thread ends, terminated or by an error: its queue is gone. *)
Ends(as) ==
  /\ consumer' = "down"
  /\ state' = as
  /\ queue' = <<>>
  /\ startId' = 0
  /\ producer' = 0

-----------------------------------------------------------------------------
(***************************************************************************)
(* blockQueueProducer: the room is counted before the await of XREAD.      *)
(***************************************************************************)
ProducerCounts ==
  /\ Running
  /\ producer = 0
  /\ Len(queue) < PrefetchLimit
  /\ producer' = PrefetchLimit - Len(queue)
  /\ UNCHANGED <<redis, versions, startId, queue, consumer, state, history, fetchFaults,
                 faults>>

(* XREAD COUNT: the oldest of the unread messages, oldest first. *)
Unread == {id \in stream : id > startId}
IsBatch(batch) ==
  /\ \A i, j \in DOMAIN batch : i < j => batch[i] < batch[j]
  /\ \A id \in Unread :
       \/ \E i \in DOMAIN batch : batch[i] = id
       \/ Len(batch) = producer /\ \A i \in DOMAIN batch : batch[i] < id
Batches == {batch \in UNION {[1 .. n -> Unread] : n \in 0 .. producer} :
              IsBatch(batch)}

Promises(batch) ==
  [i \in DOMAIN batch |-> [id |-> batch[i], block |-> "fetching"]]

(* Slip: read from the beginning again. *)
ProducerRereads ==
  /\ Running
  /\ producer # 0
  /\ producer' = 0
  /\ \E batch \in Batches : queue' = queue \o Promises(batch)
  /\ UNCHANGED <<redis, versions, startId, consumer, state, history, fetchFaults, faults>>

ProducerReads ==
  /\ Running
  /\ producer # 0
  /\ producer' = 0
  /\ \E batch \in Batches :
       /\ queue' = queue \o Promises(batch)
       /\ startId' = IF batch = <<>> THEN startId ELSE batch[Len(batch)]
  /\ UNCHANGED <<redis, versions, consumer, state, history, fetchFaults, faults>>

ProducerFails ==
  /\ Running
  /\ producer # 0
  /\ Fault
  /\ producer' = 0
  /\ UNCHANGED <<redis, versions, startId, queue, consumer, state, history, fetchFaults>>

(***************************************************************************)
(* generateQueuePromise: from the cache or from S3; a failing download is  *)
(* caught and leaves no block.  Promises settle in any order.              *)
(***************************************************************************)
Settle(i, block) == queue' = [queue EXCEPT ![i].block = block]

Fetched(i) ==
  /\ Running
  /\ queue[i].block = "fetching"
  /\ Settle(i, "fetched")
  /\ UNCHANGED <<redis, versions, producing, consumer, state, history, fetchFaults,
                 faults>>

FetchFails(i) ==
  /\ Running
  /\ queue[i].block = "fetching"
  /\ fetchFaults < MaxFetchFaults
  /\ fetchFaults' = fetchFaults + 1
  /\ Settle(i, "missing")
  /\ UNCHANGED <<redis, versions, producing, consumer, state, history, faults>>

(* A failing GET of the cache rejects the promise.  Awaited, it is caught  *)
(* and stays rejected; otherwise nobody handles it and the thread ends.    *)
CacheFails(i) ==
  /\ Running
  /\ queue[i].block = "fetching"
  /\ fetchFaults < MaxFetchFaults
  /\ fetchFaults' = fetchFaults + 1
  /\ IF i = 1 /\ consumer = "await"
     THEN Settle(i, "missing") /\ UNCHANGED <<producing, consumer, state>>
     ELSE Ends("STALLED")
  /\ UNCHANGED <<redis, versions, history, faults>>

-----------------------------------------------------------------------------
(***************************************************************************)
(* blockQueueConsumer.                                                     *)
(***************************************************************************)
Goto(step) == consumer' = step

(* The count of unprocessed messages is read outside of the try. *)
Count ==
  /\ consumer = "count"
  /\ \/ /\ Goto("look")
        /\ UNCHANGED <<producing, queue, state, faults>>
     \/ Fault /\ Ends("STALLED")
  /\ UNCHANGED <<redis, versions, history, fetchFaults>>

Look ==
  /\ consumer = "look"
  /\ IF queue = <<>>
     THEN Goto("count") /\ state' = "WAITING"
     ELSE Goto("await") /\ UNCHANGED state
  /\ UNCHANGED <<redis, versions, producing, queue, history, fetchFaults, faults>>

Failing == Goto("sleep") /\ state' = "FAILING"

Await ==
  /\ consumer = "await"
  /\ \/ /\ Head(queue).block = "fetched"
        /\ Goto("execute")
        /\ executions' = [executions EXCEPT ![Head(queue).id] = @ + 1]
        /\ UNCHANGED state
     \/ /\ Head(queue).block = "missing"
        /\ Failing
        /\ UNCHANGED executions
  /\ UNCHANGED <<redis, versions, producing, queue, succeeded, fetchFaults, faults>>

(* Slip: a failing execution is logged and the message deleted. *)
ExecuteSkippingErrors ==
  /\ consumer = "execute"
  /\ \/ /\ succeeded' = succeeded \cup {Head(queue).id}
        /\ UNCHANGED faults
     \/ Fault /\ UNCHANGED succeeded
  /\ Goto("delete") /\ state' = "RUNNING"
  /\ UNCHANGED <<redis, versions, producing, queue, executions, fetchFaults>>

Execute ==
  /\ consumer = "execute"
  /\ \/ /\ succeeded' = succeeded \cup {Head(queue).id}
        /\ Goto("delete") /\ state' = "RUNNING"
        /\ UNCHANGED faults
     \/ Fault /\ Failing /\ UNCHANGED succeeded
  /\ UNCHANGED <<redis, versions, producing, queue, executions, fetchFaults>>

(* Slip: the queue is shifted although XDEL failed. *)
DeleteShiftingAnyway ==
  /\ consumer = "delete"
  /\ \/ /\ stream' = stream \ {Head(queue).id}
        /\ Goto("count")
        /\ UNCHANGED <<state, faults>>
     \/ Fault /\ Failing /\ UNCHANGED stream
  /\ queue' = Tail(queue)
  /\ UNCHANGED <<published, superseded, versions, producing, history, fetchFaults>>

(* XDEL, then the shift.  A failed XDEL, or one whose answer is lost, is   *)
(* handled like a failed execution.                                        *)
Delete ==
  /\ consumer = "delete"
  /\ \/ /\ stream' = stream \ {Head(queue).id}
        /\ queue' = Tail(queue)
        /\ Goto("count")
        /\ UNCHANGED <<state, faults>>
     \/ /\ Fault /\ Failing
        /\ stream' \in {stream, stream \ {Head(queue).id}}
        /\ UNCHANGED queue
  /\ UNCHANGED <<published, superseded, versions, producing, history, fetchFaults>>

Wake ==
  /\ consumer = "sleep"
  /\ Goto("count")
  /\ UNCHANGED <<redis, versions, producing, queue, state, history, fetchFaults, faults>>

(* The thread dies in the middle of anything, for instance when its        *)
(* process does.                                                           *)
Dies ==
  /\ Running
  /\ Fault
  /\ Ends("STALLED")
  /\ UNCHANGED <<redis, versions, history, fetchFaults>>

-----------------------------------------------------------------------------
(***************************************************************************)
(* The Coordinator, which settles the stream first, and the Block Streamer.*)
(***************************************************************************)
(* Slip: the stream is not cleared. *)
SupersedeKeeping ==
  /\ version < MaxUpdates
  /\ version' = version + 1
  /\ superseded' = superseded \cup stream
  /\ UNCHANGED <<stream, published, code, producing, queue, consumer, state,
                 history, fetchFaults, faults>>

(* reconfigure with Height or Latest: the old stream has stopped. *)
Supersede ==
  /\ version < MaxUpdates
  /\ version' = version + 1
  /\ superseded' = superseded \cup stream
  /\ stream' = {}
  /\ UNCHANGED <<published, code, producing, queue, consumer, state, history,
                 fetchFaults, faults>>

(* restart of an outdated executor stops it first ... *)
StopOutdated ==
  /\ Running
  /\ code # version
  /\ Ends("STOPPED")
  /\ UNCHANGED <<redis, versions, history, fetchFaults, faults>>

(* ... and like that of a stalled one starts the version of the stream. *)
Restart ==
  /\ consumer = "down"
  /\ Goto("count")
  /\ state' = "RUNNING"
  /\ code' = version
  /\ UNCHANGED <<redis, version, producing, queue, history, fetchFaults, faults>>

Publish ==
  /\ published < MaxMessages
  /\ published' = published + 1
  /\ stream' = stream \cup {published'}
  /\ UNCHANGED <<superseded, versions, producing, queue, consumer, state,
                 history, fetchFaults, faults>>

Producer == ProducerCounts \/ ProducerReads \/ ProducerFails
Consumer == Count \/ Look \/ Await \/ Execute \/ Delete \/ Wake
Fetching == \E i \in DOMAIN queue : Fetched(i) \/ FetchFails(i) \/ CacheFails(i)

Init ==
  /\ stream = {} /\ published = 0 /\ superseded = {}
  /\ version = 0 /\ code = 0
  /\ startId = 0 /\ producer = 0
  /\ queue = <<>>
  /\ consumer = "count"
  /\ state = "RUNNING"
  /\ executions = [id \in Ids |-> 0] /\ succeeded = {}
  /\ fetchFaults = 0 /\ faults = 0

Coordinator == Supersede \/ StopOutdated \/ Restart

Next ==
  \/ Producer \/ Consumer \/ Fetching \/ Dies \/ Coordinator \/ Publish

Spec == Init /\ [][Next]_vars

(* The event loop of the thread runs what is ready, downloads end (S3 has  *)
(* its own time-outs), and the Coordinator restarts what is stalled or     *)
(* outdated.                                                               *)
FairSpec ==
  /\ Spec
  /\ WF_vars(Producer) /\ WF_vars(Consumer) /\ WF_vars(Fetching)
  /\ WF_vars(StopOutdated) /\ WF_vars(Restart)

-----------------------------------------------------------------------------
TypeOK ==
  /\ stream \subseteq 1 .. published /\ published \in 0 .. MaxMessages
  /\ superseded \subseteq 1 .. published
  /\ version \in 0 .. MaxUpdates /\ code \in 0 .. version
  /\ startId \in 0 .. published /\ producer \in 0 .. PrefetchLimit
  /\ queue \in Seq([id : Ids, block : Blocks])
  /\ consumer \in ConsumerSteps /\ state \in States
  /\ executions \in [Ids -> Nat] /\ succeeded \subseteq 1 .. published
  /\ fetchFaults \in 0 .. MaxFetchFaults /\ faults \in 0 .. MaxFaults

Queued == {queue[i].id : i \in DOMAIN queue}

(* The queue is in the order of the chain and skips nothing: what was read *)
(* from the stream is in it, has succeeded or was superseded.              *)
PrefetchedInOrder ==
  /\ \A i, j \in DOMAIN queue : i < j => queue[i].id < queue[j].id
  /\ \A i \in DOMAIN queue : queue[i].id <= startId
  /\ 1 .. startId \subseteq Queued \cup succeeded \cup superseded

(* The room counted before XREAD is still there when its answer arrives.   *)
PrefetchBounded == Len(queue) + producer <= PrefetchLimit

(* A block is executed again only after a failure or an update: nothing is *)
(* prefetched twice by the reads that run beside the consumer's deletions. *)
RepeatsFollowFaults ==
  \A id \in Ids : executions[id] <= 1 + faults + fetchFaults + version

(* What holds of the worker in every state: blocks are prefetched in order *)
(* without a gap, no more of them than the limit, and executed again only  *)
(* for a reason.                                                           *)
WorkerInv ==
  TypeOK /\ PrefetchedInOrder /\ PrefetchBounded /\ RepeatsFollowFaults

(* The worker implements Delivery: through crashes, lost answers, retries  *)
(* and downloads that settle in any order, a message is begun after every  *)
(* older one has succeeded and deleted after it has itself; and "All       *)
(* queued blocks at the time of update will be cleared" (docs/indexers.md) *)
(* holds of the new code, although the old worker goes on with what it has *)
(* prefetched, and with the first messages of the new stream.              *)
Delivered ==
  INSTANCE Delivery
    WITH waiting <- stream, begun <- {id \in Ids : executions[id] > 0}
ImplementsDelivery == Delivered!Spec

(* Every published block is eventually executed and deleted, or cleared:   *)
(* failing executions, calls, crashes and updates are got over, unless a   *)
(* download failed.                                                        *)
KeepsUp ==
  \A id \in Ids :
    published >= id ~>
      fetchFaults > 0 \/ (id \in succeeded \cup superseded /\ id \notin stream)

(* ExecutionState: FAILING is "Executor is running, but the execution is   *)
(* erroring".  Not so once a download has failed: no execution is erroring *)
(* then, the retried promise is one that has settled without a block.      *)
FailingIsExecuting ==
  state = "FAILING" ~> state # "FAILING"
=============================================================================
