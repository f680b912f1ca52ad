------------------------ MODULE ExecutorWorkerProofs ------------------------
(***************************************************************************)
(* For any number of messages, faults and updates, and any size of the     *)
(* prefetch queue: the worker keeps its queue in order and implements      *)
(* Delivery.                                                               *)
(***************************************************************************)
EXTENDS ExecutorWorker, TLAPS

USE WorkerAssumption

(* What leaves the stream was executed or cleared. *)
Kept == 1 .. published \subseteq stream \cup succeeded \cup superseded

(* Code that is up to date has prefetched nothing that was cleared. *)
Fresh ==
  /\ stream \cap superseded = {}
  /\ code = version => Queued \cap superseded = {}

InOrder ==
  \A id \in Ids : executions[id] > 0 =>
    /\ id <= published
    /\ \A older \in 1 .. id - 1 : older \in succeeded \cup superseded

(* Where the consumer stands, and what it has therefore done. *)
AtHead ==
  /\ consumer \in {"await", "execute", "delete"} => queue # <<>>
  /\ consumer = "execute" => executions[queue[1].id] > 0
  /\ consumer = "delete" => queue[1].id \in succeeded
  /\ consumer = "down" => queue = <<>> /\ producer = 0 /\ startId = 0

(* The lives of the worker that are paid for, by a fault or by an update;  *)
(* in each of them a message is begun once.                                *)
Lives == faults + fetchFaults + (IF consumer = "down" THEN version ELSE code)
Done(id) ==
  /\ consumer # "down" /\ id <= startId
  /\ id \in Queued => consumer \in {"execute", "delete"} /\ id = queue[1].id
Rounds ==
  \A id \in Ids : executions[id] <= Lives + (IF Done(id) THEN 1 ELSE 0)

Inv ==
  /\ TypeOK /\ PrefetchedInOrder /\ PrefetchBounded
  /\ Kept /\ Fresh /\ InOrder /\ AtHead /\ Rounds

-----------------------------------------------------------------------------
LEMMA InitInv == Init => Inv
  BY DEF Init, Inv, TypeOK, PrefetchedInOrder, PrefetchBounded, Kept, Fresh,
     InOrder, AtHead, Rounds, Lives, Done, Queued, Ids, Blocks, ConsumerSteps,
     States

(* Steps that leave the queue, Redis and the counts alone. *)
LEMMA QueueType ==
  ASSUME TypeOK
  PROVE  /\ Len(queue) \in Nat /\ DOMAIN queue = 1 .. Len(queue)
         /\ \A i \in DOMAIN queue :
              queue[i].id \in Ids /\ queue[i].block \in Blocks
         /\ queue # <<>> => 1 \in DOMAIN queue /\ Head(queue) = queue[1]
<1>1. queue \in Seq([id : Ids, block : Blocks])
  BY DEF TypeOK
<1>2. /\ Len(queue) \in Nat /\ DOMAIN queue = 1 .. Len(queue)
      /\ \A i \in DOMAIN queue :
           queue[i].id \in Ids /\ queue[i].block \in Blocks
  <2> DEFINE S == [id : Ids, block : Blocks]
  <2>1. \A x \in S : x.id \in Ids /\ x.block \in Blocks
    OBVIOUS
  <2> HIDE DEF S
  <2>2. queue \in Seq(S)
    BY <1>1 DEF S
  <2> QED BY <2>1, <2>2
<1>3. queue # <<>> => 1 \in DOMAIN queue /\ Head(queue) = queue[1]
  BY <1>1
<1> QED BY <1>2, <1>3

LEMMA StreamType ==
  ASSUME TypeOK
  PROVE  /\ published \in Nat
         /\ \A id \in stream : id \in Nat /\ id \in Ids /\ id \in 1 .. published
<1>1. /\ published \in Nat /\ published <= MaxMessages
      /\ stream \subseteq 1 .. published
  BY DEF TypeOK
<1> QED BY <1>1 DEF Ids

(* The thread ends, paid for by a fault or by an update. *)
LEMMA EndsInv ==
  ASSUME Inv, \E as \in {"STALLED", "STOPPED"} : Ends(as),
         UNCHANGED <<redis, versions, history>>,
         faults' \in 0 .. MaxFaults, fetchFaults' \in 0 .. MaxFetchFaults,
         Running,
         \/ faults' = faults + 1 /\ fetchFaults' = fetchFaults
         \/ faults' = faults /\ fetchFaults' = fetchFaults + 1
         \/ UNCHANGED <<faults, fetchFaults>> /\ code # version
  PROVE  Inv'
<1>1. queue' = <<>> /\ startId' = 0 /\ producer' = 0 /\ consumer' = "down"
  BY DEF Ends
<1>t. TypeOK'
  <2>1. queue' \in Seq([id : Ids, block : Blocks])
    BY <1>1
  <2>2. consumer' \in ConsumerSteps /\ state' \in States
    BY DEF Ends, ConsumerSteps, States
  <2>3. startId' \in 0 .. published' /\ producer' \in 0 .. PrefetchLimit
    BY <1>1 DEF Inv, TypeOK, redis
  <2> QED BY <2>1, <2>2, <2>3 DEF Inv, TypeOK, redis, versions, history
<1>p. PrefetchedInOrder' /\ PrefetchBounded'
  BY <1>1 DEF Inv, TypeOK, PrefetchedInOrder, PrefetchBounded, Queued
<1>2. Kept' /\ Fresh' /\ InOrder' /\ AtHead'
  BY DEF Inv, Kept, Fresh, InOrder, AtHead, Ends, redis, versions, history,
     Queued
<1>3. Rounds'
  <2>1. code \in Nat /\ version \in Nat /\ code <= version
    BY DEF Inv, TypeOK
  <2>2. consumer # "down" /\ consumer' = "down" /\ version' = version
    BY <1>1 DEF Running, versions
  <2>3. /\ faults \in Nat /\ fetchFaults \in Nat
        /\ faults' \in Nat /\ fetchFaults' \in Nat
    BY <1>t DEF Inv, TypeOK
  <2>4. Lives' >= Lives + 1 /\ Lives' \in Nat /\ Lives \in Nat
    <3>1. CASE faults' = faults + 1 /\ fetchFaults' = fetchFaults
      BY <2>1, <2>2, <2>3, <3>1 DEF Lives
    <3>2. CASE faults' = faults /\ fetchFaults' = fetchFaults + 1
      BY <2>1, <2>2, <2>3, <3>2 DEF Lives
    <3>3. CASE UNCHANGED <<faults, fetchFaults>> /\ code # version
      BY <2>1, <2>2, <2>3, <3>3 DEF Lives
    <3> QED BY <3>1, <3>2, <3>3
  <2>5. \A id \in Ids : executions'[id] <= Lives + 1 /\ executions'[id] \in Nat
    BY <1>t, <2>1, <2>2, <2>3 DEF Inv, TypeOK, Rounds, Lives, history, Ends
  <2>6. \A id \in Ids : ~Done(id)'
    BY <1>1 DEF Done
  <2> QED
    BY <2>1, <2>2, <2>3, <2>4, <2>5, <2>6 DEF Rounds, Lives
<1> QED BY <1>t, <1>p, <1>2, <1>3 DEF Inv

LEMMA CountsInv == Inv /\ ProducerCounts => Inv'
  BY QueueType DEF Inv, ProducerCounts, Running, TypeOK, PrefetchedInOrder, PrefetchBounded, Kept, Fresh,
     InOrder, AtHead, Rounds, Lives, Done, Queued, redis, versions, history

LEMMA ProducerFailsInv == Inv /\ ProducerFails => Inv'
<1> SUFFICES ASSUME Inv, ProducerFails PROVE Inv'
  OBVIOUS
<1> USE DEF ProducerFails, Fault, Running, redis, versions, history
<1>1. TypeOK' /\ PrefetchedInOrder' /\ PrefetchBounded'
  BY QueueType DEF Inv, TypeOK, PrefetchedInOrder, PrefetchBounded, Queued
<1>2. Kept' /\ Fresh' /\ InOrder' /\ AtHead'
  BY DEF Inv, Kept, Fresh, InOrder, AtHead, Queued
<1>3. Rounds'
  <2>1. Lives' = Lives + 1 /\ Lives \in Nat
    BY DEF Inv, TypeOK, Lives
  <2>2. \A id \in Ids : Done(id)' = Done(id)
    BY DEF Done, Queued
  <2> QED BY <2>1, <2>2 DEF Inv, TypeOK, Rounds
<1> QED BY <1>1, <1>2, <1>3 DEF Inv

LEMMA BatchType ==
  ASSUME TypeOK, NEW batch \in Batches
  PROVE  /\ Len(batch) \in 0 .. producer
         /\ DOMAIN batch = 1 .. Len(batch)
         /\ batch \in [1 .. Len(batch) -> Unread]
         /\ IsBatch(batch)
<1>1. PICK n \in 0 .. producer : batch \in [1 .. n -> Unread]
  BY DEF Batches
<1>2. Len(batch) = n
  BY <1>1 DEF TypeOK
<1> QED BY <1>1, <1>2 DEF Batches

(* Where the elements of a concatenation come from. *)
LEMMA Concatenation ==
  ASSUME NEW T, NEW s \in Seq(T), NEW t \in Seq(T)
  PROVE  /\ s \o t \in Seq(T) /\ Len(s \o t) = Len(s) + Len(t)
         /\ \A i \in 1 .. Len(s) : (s \o t)[i] = s[i]
         /\ \A i \in 1 .. Len(t) : (s \o t)[Len(s) + i] = t[i]
  BY SMTT(30)

(* What a read appends, and that all of it is unread. *)
LEMMA ReadQueue ==
  ASSUME Inv, NEW batch \in Batches, queue' = queue \o Promises(batch)
  PROVE  /\ queue' \in Seq([id : Ids, block : Blocks])
         /\ Len(queue') = Len(queue) + Len(batch)
         /\ DOMAIN queue' = 1 .. Len(queue) + Len(batch)
         /\ \A i \in DOMAIN queue : queue'[i] = queue[i]
         /\ \A i \in DOMAIN batch :
              /\ queue'[Len(queue) + i].id = batch[i]
              /\ batch[i] \in stream /\ batch[i] > startId
         /\ Queued' = Queued \cup {batch[i] : i \in DOMAIN batch}
<1> DEFINE S == [id : Ids, block : Blocks]
<1> DEFINE new == Promises(batch)
<1>1. batch \in [1 .. Len(batch) -> Unread] /\ Len(batch) \in Nat
      /\ DOMAIN batch = 1 .. Len(batch)
  BY BatchType DEF Inv, TypeOK
<1>2. \A i \in DOMAIN batch : batch[i] \in stream /\ batch[i] > startId
  BY <1>1 DEF Unread
<1>3. new = [i \in 1 .. Len(batch) |-> [id |-> batch[i], block |-> "fetching"]]
  BY <1>1 DEF Promises
<1>4. \A i \in 1 .. Len(batch) : new[i] \in S /\ new[i].id = batch[i]
  <2>1. \A i \in 1 .. Len(batch) : batch[i] \in Ids
    BY <1>1, <1>2, StreamType DEF Inv
  <2> QED BY <1>3, <2>1 DEF Blocks
<1>5. new \in Seq(S) /\ Len(new) = Len(batch)
  BY <1>1, <1>3, <1>4
<1>6. queue \in Seq(S) /\ Len(queue) \in Nat /\ DOMAIN queue = 1 .. Len(queue)
  BY QueueType DEF Inv, TypeOK
<1> HIDE DEF S, new
<1>7. /\ queue' \in Seq(S) /\ Len(queue') = Len(queue) + Len(batch)
      /\ \A i \in 1 .. Len(queue) : queue'[i] = queue[i]
      /\ \A i \in 1 .. Len(batch) : queue'[Len(queue) + i] = new[i]
  <2>1. queue' = queue \o new
    BY DEF new
  <2>s. queue \in Seq(S) /\ new \in Seq(S)
    BY <1>5, <1>6
  <2> HIDE DEF Inv
  <2>2. /\ queue \o new \in Seq(S)
        /\ Len(queue \o new) = Len(queue) + Len(new)
        /\ \A i \in 1 .. Len(queue) : (queue \o new)[i] = queue[i]
        /\ \A i \in 1 .. Len(new) : (queue \o new)[Len(queue) + i] = new[i]
    BY <2>s, Concatenation
  <2> QED BY <1>5, <2>1, <2>2
<1>8. DOMAIN queue' = 1 .. Len(queue) + Len(batch)
  BY <1>1, <1>6, <1>7
<1>9. \A i \in 1 .. Len(batch) : queue'[Len(queue) + i].id = batch[i]
  BY <1>4, <1>7
<1>10. Queued' = Queued \cup {batch[i] : i \in DOMAIN batch}
  <2>1. \A k \in DOMAIN queue' : queue'[k].id \in
          Queued \cup {batch[i] : i \in DOMAIN batch}
    <3> TAKE k \in DOMAIN queue'
    <3>1. CASE k \in 1 .. Len(queue)
      BY <1>6, <1>7, <3>1 DEF Queued
    <3>2. CASE k \notin 1 .. Len(queue)
      <4>1. k - Len(queue) \in 1 .. Len(batch)
            /\ k = Len(queue) + (k - Len(queue))
        BY <1>1, <1>6, <1>8, <3>2
      <4> QED BY <1>1, <1>9, <4>1
    <3> QED BY <3>1, <3>2
  <2>2. \A k \in DOMAIN queue : queue[k].id \in Queued'
    BY <1>1, <1>6, <1>7, <1>8 DEF Queued
  <2>3. \A i \in DOMAIN batch : batch[i] \in Queued'
    <3> TAKE i \in DOMAIN batch
    <3>1. Len(queue) + i \in DOMAIN queue'
      BY <1>1, <1>6, <1>8
    <3> QED BY <1>1, <1>9, <3>1 DEF Queued
  <2> QED BY <2>1, <2>2, <2>3 DEF Queued
<1> QED BY <1>1, <1>2, <1>6, <1>7, <1>8, <1>9, <1>10 DEF S

LEMMA ReadsInv == Inv /\ ProducerReads => Inv'
<1> SUFFICES ASSUME Inv, ProducerReads PROVE Inv'
  OBVIOUS
<1>1. PICK batch \in Batches :
        /\ queue' = queue \o Promises(batch)
        /\ startId' = IF batch = <<>> THEN startId ELSE batch[Len(batch)]
  BY DEF ProducerReads
<1> DEFINE n == Len(batch)
<1>2. /\ n \in Nat /\ n <= producer /\ DOMAIN batch = 1 .. n
      /\ batch \in [1 .. n -> Unread] /\ IsBatch(batch)
  BY BatchType DEF Inv, TypeOK
<1>3. /\ queue' \in Seq([id : Ids, block : Blocks])
      /\ Len(queue') = Len(queue) + n
      /\ DOMAIN queue' = 1 .. Len(queue) + n
      /\ \A i \in DOMAIN queue : queue'[i] = queue[i]
      /\ \A i \in 1 .. n : /\ queue'[Len(queue) + i].id = batch[i]
                          /\ batch[i] \in stream /\ batch[i] > startId
      /\ Queued' = Queued \cup {batch[i] : i \in 1 .. n}
  BY <1>1, <1>2, ReadQueue
<1>4. Len(queue) \in Nat /\ DOMAIN queue = 1 .. Len(queue)
  BY QueueType DEF Inv
<1>5. /\ consumer # "down" /\ producer' = 0
      /\ UNCHANGED <<stream, published, superseded, version, code, consumer,
                     state, executions, succeeded, fetchFaults, faults>>
  BY DEF ProducerReads, Running, redis, versions, history
<1> HIDE DEF n
<1>m. /\ published \in Nat
      /\ \A i \in 1 .. n : batch[i] \in Nat /\ batch[i] \in 1 .. published
  BY <1>3, StreamType DEF Inv
<1>6. n > 0 => batch # <<>>
  BY <1>2 DEF n
<1>7. /\ startId \in Nat /\ startId' \in 0 .. published
      /\ startId <= startId'
      /\ n > 0 => startId' = batch[n]
      /\ n = 0 => startId' = startId
  <2>1. startId \in 0 .. published /\ stream \subseteq 1 .. published
        /\ published \in Nat
    BY DEF Inv, TypeOK
  <2>2. CASE n = 0
    <3>1. batch = <<>>
      BY <1>2, <2>2 DEF n
    <3> QED BY <1>1, <2>1, <2>2, <3>1
  <2>3. CASE n > 0
    <3>1. startId' = batch[n]
      BY <1>1, <1>6, <2>3 DEF n
    <3>2. n \in 1 .. n
      BY <1>2, <2>3
    <3> QED BY <1>3, <1>m, <2>1, <2>3, <3>1, <3>2
  <2> QED BY <1>2, <2>2, <2>3
<1>t. TypeOK'
  BY <1>3, <1>5, <1>7 DEF Inv, TypeOK
<1>p. PrefetchedInOrder'
  <2>1. \A i \in 1 .. n : batch[i] <= startId'
    <3> TAKE i \in 1 .. n
    <3>1. i = n \/ (i < n /\ n \in 1 .. n)
      BY <1>2
    <3>2. i < n => batch[i] < batch[n]
      BY <1>2, <3>1 DEF IsBatch
    <3>3. batch[i] \in Nat /\ batch[n] \in Nat /\ n > 0
      BY <1>2, <1>m
    <3> QED BY <1>7, <3>1, <3>2, <3>3
  <2>2. \A i, j \in DOMAIN queue' : i < j => queue'[i].id < queue'[j].id
    <3> TAKE i, j \in DOMAIN queue'
    <3> HAVE i < j
    <3>1. CASE j <= Len(queue)
      BY <1>3, <1>4, <3>1 DEF Inv, PrefetchedInOrder
    <3>2. CASE i <= Len(queue) /\ j > Len(queue)
      <4>1. j - Len(queue) \in 1 .. n /\ j = Len(queue) + (j - Len(queue))
        BY <1>2, <1>3, <1>4, <3>2
      <4>2. queue'[j].id = batch[j - Len(queue)] /\ j - Len(queue) \in DOMAIN batch
        BY <1>2, <1>3, <4>1
      <4>m. queue'[j].id > startId /\ queue'[j].id \in Nat
        BY <1>2, <1>3, <1>m, <4>1, <4>2
      <4>3. queue'[i].id <= startId /\ queue'[i].id \in Nat
        BY <1>3, <1>4, <3>2, QueueType DEF Inv, PrefetchedInOrder, Ids
      <4> QED BY <1>7, <4>m, <4>3
    <3>3. CASE i > Len(queue)
      <4>1. /\ j - Len(queue) \in 1 .. n /\ j = Len(queue) + (j - Len(queue))
            /\ i - Len(queue) \in 1 .. n /\ i = Len(queue) + (i - Len(queue))
            /\ i - Len(queue) < j - Len(queue)
        <5>1. /\ i \in Nat /\ j \in Nat /\ i < j
              /\ i <= Len(queue) + n /\ j <= Len(queue) + n
          BY <1>2, <1>3, <1>4
        <5> QED BY <1>2, <1>4, <3>3, <5>1
      <4>2. batch[i - Len(queue)] < batch[j - Len(queue)]
        BY <1>2, <4>1 DEF IsBatch
      <4> QED BY <1>3, <4>1, <4>2
    <3> QED BY <1>2, <1>3, <1>4, <3>1, <3>2, <3>3
  <2>3. \A k \in DOMAIN queue' : queue'[k].id <= startId'
    <3> TAKE k \in DOMAIN queue'
    <3>1. CASE k <= Len(queue)
      <4>1. queue'[k].id <= startId /\ queue'[k].id \in Nat
        BY <1>3, <1>4, <3>1, QueueType DEF Inv, PrefetchedInOrder, Ids
      <4> QED BY <1>7, <4>1
    <3>2. CASE k > Len(queue)
      <4>1. k - Len(queue) \in 1 .. n /\ k = Len(queue) + (k - Len(queue))
        BY <1>2, <1>3, <1>4, <3>2
      <4> QED BY <1>3, <2>1, <4>1
    <3> QED BY <1>2, <1>3, <1>4, <3>1, <3>2
  <2>4. 1 .. startId' \subseteq Queued' \cup succeeded \cup superseded
    <3> SUFFICES ASSUME NEW id \in 1 .. startId'
                 PROVE  id \in Queued' \cup succeeded \cup superseded
      OBVIOUS
    <3>1. CASE id <= startId
      BY <1>3, <1>7, <3>1 DEF Inv, PrefetchedInOrder
    <3>2. CASE id > startId
      <4>1. n > 0 /\ n \in 1 .. n /\ id <= batch[n]
        BY <1>2, <1>7, <3>2
      <4>2. id \in stream \cup succeeded \cup superseded
        BY <1>7 DEF Inv, TypeOK, Kept
      <4>3. CASE id \in stream
        <5>1. \/ \E i \in 1 .. n : batch[i] = id
              \/ \A i \in 1 .. n : batch[i] < id
          BY <1>2, <3>2, <4>3 DEF IsBatch, Unread
        <5>2. batch[n] \in Nat /\ id \in Nat
          BY <1>m, <1>7, <4>1
        <5> QED BY <1>3, <4>1, <5>1, <5>2
      <4> QED BY <4>2, <4>3
    <3> QED BY <1>7, <3>1, <3>2
  <2> QED BY <1>5, <2>2, <2>3, <2>4 DEF PrefetchedInOrder
<1>b. PrefetchBounded'
  BY <1>2, <1>3, <1>4, <1>5 DEF Inv, TypeOK, PrefetchBounded
<1>k. Kept' /\ InOrder'
  BY <1>5 DEF Inv, Kept, InOrder
<1>f. Fresh'
  BY <1>3, <1>5 DEF Inv, Fresh
<1>h. AtHead'
  <2>1. queue # <<>> => queue' # <<>> /\ queue'[1] = queue[1]
    BY <1>2, <1>3, <1>4, QueueType DEF Inv
  <2> QED BY <1>5, <2>1 DEF Inv, AtHead
<1>r. Rounds'
  <2>1. ASSUME NEW id \in Ids, Done(id) PROVE Done(id)'
    <3>1. id <= startId'
      BY <1>7, <2>1 DEF Done, Ids
    <3>2. id \in Queued' => id \in Queued
      BY <1>3, <1>7, <2>1 DEF Done, Ids
    <3>3. queue # <<>> => queue'[1] = queue[1]
      BY <1>3, <1>4, QueueType DEF Inv
    <3>4. id \in Queued => queue # <<>>
      BY <1>4 DEF Queued
    <3> QED BY <1>5, <2>1, <3>1, <3>2, <3>3, <3>4 DEF Done
  <2>2. Lives' = Lives /\ Lives \in Nat
    BY <1>5 DEF Inv, TypeOK, Lives
  <2> QED BY <1>5, <2>1, <2>2 DEF Inv, TypeOK, Rounds
<1> QED BY <1>t, <1>p, <1>b, <1>k, <1>f, <1>h, <1>r DEF Inv

-----------------------------------------------------------------------------
(* A promise settles: the ids stay. *)
LEMMA SettleQueue ==
  ASSUME Inv, NEW i \in DOMAIN queue, NEW block \in Blocks, Settle(i, block)
  PROVE  /\ queue' \in Seq([id : Ids, block : Blocks])
         /\ Len(queue') = Len(queue) /\ DOMAIN queue' = DOMAIN queue
         /\ \A k \in DOMAIN queue : queue'[k].id = queue[k].id
         /\ Queued' = Queued
         /\ queue = <<>> <=> queue' = <<>>
<1> DEFINE S == [id : Ids, block : Blocks]
<1>1. queue \in Seq(S) /\ Len(queue) \in Nat /\ DOMAIN queue = 1 .. Len(queue)
  BY QueueType DEF Inv, TypeOK
<1>2. queue' = [queue EXCEPT ![i] = [queue[i] EXCEPT !.block = block]]
  BY <1>1 DEF Settle
<1>3. queue[i] \in S /\ [queue[i] EXCEPT !.block = block] \in S
      /\ [queue[i] EXCEPT !.block = block].id = queue[i].id
  <2>1. \A x \in S : [x EXCEPT !.block = block] \in S
                     /\ [x EXCEPT !.block = block].id = x.id
    OBVIOUS
  <2>2. queue[i] \in S
    <3> HIDE DEF S
    <3> QED BY <1>1
  <2> QED BY <2>1, <2>2
<1> HIDE DEF S
<1>4. queue' \in Seq(S) /\ Len(queue') = Len(queue)
      /\ DOMAIN queue' = DOMAIN queue
  BY <1>1, <1>2, <1>3
<1>5. \A k \in DOMAIN queue : queue'[k].id = queue[k].id
  BY <1>1, <1>2, <1>3
<1>6. Queued' = Queued
  BY <1>4, <1>5 DEF Queued
<1>7. queue = <<>> <=> queue' = <<>>
  BY <1>1, <1>4
<1> QED BY <1>4, <1>5, <1>6, <1>7 DEF S

LEMMA SettleInv ==
  ASSUME Inv, NEW i \in DOMAIN queue, NEW block \in Blocks, Settle(i, block),
         UNCHANGED <<redis, versions, producing, consumer, history, faults>>,
         state' \in States,
         \/ UNCHANGED fetchFaults
         \/ fetchFaults' = fetchFaults + 1 /\ fetchFaults' <= MaxFetchFaults
  PROVE  Inv'
<1>1. /\ queue' \in Seq([id : Ids, block : Blocks])
      /\ Len(queue') = Len(queue) /\ DOMAIN queue' = DOMAIN queue
      /\ \A k \in DOMAIN queue : queue'[k].id = queue[k].id
      /\ Queued' = Queued
      /\ queue = <<>> <=> queue' = <<>>
  BY SettleQueue
<1>2. UNCHANGED <<stream, published, superseded, version, code, startId,
                  producer, consumer, executions, succeeded, faults>>
  BY DEF redis, versions, producing, history
<1>3. queue # <<>> => queue'[1].id = queue[1].id
  BY <1>1, QueueType DEF Inv
<1>t. TypeOK'
  BY <1>1, <1>2 DEF Inv, TypeOK, producing
<1>p. PrefetchedInOrder' /\ PrefetchBounded'
  BY <1>1, <1>2 DEF Inv, PrefetchedInOrder, PrefetchBounded
<1>k. Kept' /\ Fresh' /\ InOrder'
  BY <1>1, <1>2 DEF Inv, Kept, Fresh, InOrder
<1>h. AtHead'
  BY <1>1, <1>2, <1>3 DEF Inv, AtHead
<1>r. Rounds'
  <2>1. fetchFaults' >= fetchFaults /\ fetchFaults' \in Nat
    BY <1>1 DEF Inv, TypeOK
  <2>n. {version, code, faults, fetchFaults} \subseteq Nat
    BY WorkerAssumption DEF Inv, TypeOK
  <2>l. Lives' >= Lives /\ Lives' \in Nat /\ Lives \in Nat
    BY <1>2, <2>1, <2>n DEF Lives
  <2>2. \A id \in Ids : id \in Queued => queue # <<>>
    BY QueueType DEF Queued, Inv
  <2>3. \A id \in Ids : Done(id)' = Done(id)
    BY <1>1, <1>2, <1>3, <2>2 DEF Done
  <2> QED BY <1>2, <2>l, <2>3 DEF Inv, TypeOK, Rounds
<1> QED BY <1>t, <1>p, <1>k, <1>h, <1>r DEF Inv

LEMMA FetchingInv == Inv /\ Fetching => Inv'
<1> SUFFICES ASSUME Inv, NEW i \in DOMAIN queue,
                    Fetched(i) \/ FetchFails(i) \/ CacheFails(i)
             PROVE  Inv'
  BY DEF Fetching
<1>1. /\ "fetched" \in Blocks /\ "missing" \in Blocks
      /\ state \in States
      /\ fetchFaults \in Nat /\ faults \in 0 .. MaxFaults
      /\ MaxFetchFaults \in Nat
  BY DEF Blocks, Inv, TypeOK
<1>2. CASE Fetched(i)
  <2>1. Settle(i, "fetched") /\ UNCHANGED <<redis, versions, producing, consumer, state, history, fetchFaults, faults>>
    BY <1>2 DEF Fetched
  <2>2. state' \in States
    BY <1>1, <2>1
  <2> QED BY <1>1, <2>1, <2>2, SettleInv
<1>3. CASE FetchFails(i)
  <2>1. Settle(i, "missing") /\ UNCHANGED <<redis, versions, producing, consumer, state, history, faults>>
        /\ fetchFaults' = fetchFaults + 1 /\ fetchFaults' <= MaxFetchFaults
    BY <1>1, <1>3 DEF FetchFails
  <2> QED BY <1>1, <2>1, SettleInv
<1>4. CASE CacheFails(i)
  <2>1. /\ UNCHANGED <<redis, versions, history, faults>>
        /\ fetchFaults' = fetchFaults + 1 /\ fetchFaults' <= MaxFetchFaults
        /\ fetchFaults' \in 0 .. MaxFetchFaults
        /\ Running
    BY <1>1, <1>4 DEF CacheFails
  <2>2. \/ Settle(i, "missing") /\ UNCHANGED <<producing, consumer, state>>
        \/ Ends("STALLED")
    BY <1>4 DEF CacheFails
  <2>3. CASE Settle(i, "missing") /\ UNCHANGED <<producing, consumer, state>>
    BY <1>1, <2>1, <2>3, SettleInv
  <2>4. CASE Ends("STALLED")
    BY <1>1, <2>1, <2>4, EndsInv
  <2> QED BY <2>2, <2>3, <2>4
<1> QED BY <1>2, <1>3, <1>4

(* The consumer goes to another step, and nothing else happens. *)
LEMMA GoesInv ==
  ASSUME Inv, consumer # "down", consumer' \in ConsumerSteps, state' \in States,
         UNCHANGED <<redis, versions, producing, queue, history, fetchFaults>>,
         \/ UNCHANGED faults /\ consumer \notin {"execute", "delete"}
         \/ faults' = faults + 1 /\ faults' <= MaxFaults,
         \/ consumer' \in {"count", "look", "sleep"}
         \/ consumer' = "await" /\ queue # <<>>
  PROVE  Inv'
<1>1. UNCHANGED <<stream, published, superseded, version, code, startId,
                  producer, executions, succeeded>>
  BY DEF redis, versions, producing, history
<1>t. TypeOK'
  BY <1>1 DEF Inv, TypeOK
<1>p. PrefetchedInOrder' /\ PrefetchBounded'
  BY <1>1 DEF Inv, PrefetchedInOrder, PrefetchBounded, Queued
<1>k. Kept' /\ Fresh' /\ InOrder'
  BY <1>1 DEF Inv, Kept, Fresh, InOrder, Queued
<1>h. AtHead'
  BY <1>1 DEF Inv, AtHead
<1>r. Rounds'
  <2>1. /\ code \in Nat /\ fetchFaults \in Nat /\ faults \in Nat
        /\ \A id \in Ids : executions[id] \in Nat
        /\ consumer' # "down"
    BY DEF Inv, TypeOK
  <2>2. CASE UNCHANGED faults /\ consumer \notin {"execute", "delete"}
    <3>1. Lives' = Lives /\ Lives \in Nat
      BY <1>1, <2>1, <2>2 DEF Lives
    <3>2. \A id \in Ids : Done(id) => Done(id)'
      BY <1>1, <2>1, <2>2 DEF Done, Queued
    <3> QED BY <1>1, <2>1, <3>1, <3>2 DEF Inv, Rounds
  <2>3. CASE faults' = faults + 1
    <3>1. Lives' = Lives + 1 /\ Lives \in Nat
      BY <1>1, <2>1, <2>3 DEF Lives
    <3> QED BY <1>1, <2>1, <3>1 DEF Inv, Rounds
  <2> QED BY <2>2, <2>3
<1> QED BY <1>t, <1>p, <1>k, <1>h, <1>r DEF Inv

LEMMA CountInv == Inv /\ Count => Inv'
<1> SUFFICES ASSUME Inv, Count PROVE Inv'
  OBVIOUS
<1>1. faults \in Nat /\ fetchFaults \in 0 .. MaxFetchFaults /\ state \in States
  BY DEF Inv, TypeOK
<1>2. consumer # "down" /\ Running
      /\ UNCHANGED <<redis, versions, history, fetchFaults>>
  BY DEF Count, Running
<1>3. CASE Goto("look") /\ UNCHANGED <<producing, queue, state, faults>>
  <2>1. consumer \notin {"execute", "delete"} /\ consumer' = "look"
        /\ consumer' \in ConsumerSteps /\ state' \in States
    BY <1>1, <1>3 DEF Count, Goto, ConsumerSteps
  <2> QED BY <1>2, <1>3, <2>1, GoesInv
<1>4. CASE Fault /\ Ends("STALLED")
  <2>1. faults' = faults + 1 /\ faults' \in 0 .. MaxFaults
    BY <1>1, <1>4 DEF Fault
  <2> QED BY <1>1, <1>2, <1>4, <2>1, EndsInv
<1> QED BY <1>3, <1>4 DEF Count

LEMMA LookInv == Inv /\ Look => Inv'
<1> SUFFICES ASSUME Inv, Look PROVE Inv'
  OBVIOUS
<1>1. /\ consumer = "look"
      /\ UNCHANGED <<redis, versions, producing, queue, history, fetchFaults>>
      /\ UNCHANGED faults
      /\ consumer' \in ConsumerSteps /\ state' \in States
      /\ \/ consumer' = "count"
         \/ consumer' = "await" /\ queue # <<>>
  BY DEF Look, Goto, Inv, TypeOK, ConsumerSteps, States
<1> QED BY <1>1, GoesInv

LEMMA WakeInv == Inv /\ Wake => Inv'
<1> SUFFICES ASSUME Inv, Wake PROVE Inv'
  OBVIOUS
<1>1. /\ consumer = "sleep"
      /\ UNCHANGED <<redis, versions, producing, queue, history, fetchFaults>>
      /\ UNCHANGED faults
      /\ consumer' \in ConsumerSteps /\ state' \in States
      /\ consumer' = "count"
  BY DEF Wake, Goto, Inv, TypeOK, ConsumerSteps, States
<1> QED BY <1>1, GoesInv

(* The message at the head of the queue. *)
LEMMA HeadFacts ==
  ASSUME Inv, queue # <<>>
  PROVE  /\ Head(queue) = queue[1] /\ 1 \in DOMAIN queue
         /\ queue[1].id \in Ids /\ queue[1].id \in Queued
         /\ queue[1].id <= startId /\ queue[1].id <= published
         /\ \A older \in 1 .. queue[1].id - 1 : older \in succeeded \cup superseded
<1>1. /\ Head(queue) = queue[1] /\ 1 \in DOMAIN queue
      /\ queue[1].id \in Ids /\ queue[1].id \in Queued
  BY QueueType DEF Inv, Queued
<1>2. queue[1].id <= startId
  BY <1>1 DEF Inv, PrefetchedInOrder
<1>3. startId \in Nat /\ published \in Nat /\ startId <= published
      /\ queue[1].id \in Nat
  BY <1>1 DEF Inv, TypeOK, Ids
<1>4. ASSUME NEW older \in 1 .. queue[1].id - 1
      PROVE  older \in succeeded \cup superseded
  <2>1. older \in 1 .. startId
    BY <1>2, <1>3
  <2>2. older \notin Queued
    <3>1. \A k \in DOMAIN queue : queue[1].id <= queue[k].id
      <4> TAKE k \in DOMAIN queue
      <4>1. k = 1 \/ 1 < k
        BY QueueType DEF Inv
      <4>2. queue[k].id \in Nat
        BY QueueType DEF Inv, Ids
      <4> QED BY <1>1, <1>3, <4>1, <4>2 DEF Inv, PrefetchedInOrder
    <3>2. \A k \in DOMAIN queue : queue[k].id \in Nat
      BY QueueType DEF Inv, Ids
    <3> QED BY <1>3, <3>1, <3>2 DEF Queued
  <2> QED BY <2>1, <2>2 DEF Inv, PrefetchedInOrder
<1> QED BY <1>1, <1>2, <1>3, <1>4

LEMMA AwaitInv == Inv /\ Await => Inv'
<1> SUFFICES ASSUME Inv, Await PROVE Inv'
  OBVIOUS
<1> DEFINE id == queue[1].id
<1>1. /\ consumer = "await" /\ queue # <<>>
      /\ UNCHANGED <<redis, versions, producing, queue, succeeded, fetchFaults,
                     faults>>
  BY DEF Await, Inv, AtHead
<1>2. CASE Failing /\ UNCHANGED executions
  <2>1. /\ UNCHANGED history
        /\ consumer' \in ConsumerSteps /\ state' \in States
        /\ consumer' = "sleep"
    BY <1>1, <1>2 DEF Failing, Goto, ConsumerSteps, States, history
  <2> QED BY <1>1, <2>1, GoesInv
<1>3. CASE /\ Goto("execute") /\ UNCHANGED state
           /\ executions' = [executions EXCEPT ![Head(queue).id] = @ + 1]
  <2>1. /\ UNCHANGED <<stream, published, superseded, version, code, startId,
                       producer, state>>
        /\ consumer' = "execute"
        /\ executions' = [executions EXCEPT ![id] = @ + 1]
    BY <1>1, <1>3, HeadFacts DEF redis, versions, producing, Goto
  <2>2. /\ id \in Ids /\ id \in Queued /\ id <= startId /\ id <= published
        /\ \A older \in 1 .. id - 1 : older \in succeeded \cup superseded
    BY <1>1, HeadFacts
  <2> HIDE DEF id
  <2>3. executions \in [Ids -> Nat]
    BY DEF Inv, TypeOK
  <2>4. /\ executions'[id] = executions[id] + 1
        /\ \A other \in Ids \ {id} : executions'[other] = executions[other]
        /\ executions' \in [Ids -> Nat]
    BY <2>1, <2>2, <2>3
  <2>t. TypeOK'
    BY <1>1, <2>1, <2>4 DEF Inv, TypeOK, ConsumerSteps
  <2>p. PrefetchedInOrder' /\ PrefetchBounded' /\ Kept' /\ Fresh'
    BY <1>1, <2>1 DEF Inv, PrefetchedInOrder, PrefetchBounded, Kept, Fresh,
       Queued
  <2>o. InOrder'
    BY <1>1, <2>1, <2>2, <2>4 DEF Inv, InOrder
  <2>h. AtHead'
    BY <1>1, <2>1, <2>2, <2>3, <2>4 DEF Inv, AtHead, id
  <2>r. Rounds'
    <3>1. Lives' = Lives /\ Lives \in Nat
      BY <1>1, <2>1 DEF Inv, TypeOK, Lives
    <3>2. ~Done(id)
      BY <1>1, <2>2 DEF Done
    <3>3. \A other \in Ids \ {id} : Done(other) => Done(other)'
      BY <1>1, <2>1 DEF Done, Queued, id
    <3>4. executions'[id] <= Lives + 1
      BY <2>2, <2>3, <2>4, <3>1, <3>2 DEF Inv, Rounds
    <3>5. \A other \in Ids \ {id} :
            executions'[other] <= Lives + (IF Done(other)' THEN 1 ELSE 0)
      BY <2>3, <2>4, <3>1, <3>3 DEF Inv, Rounds
    <3>6. ASSUME NEW o \in Ids
          PROVE  executions'[o] <= Lives' + (IF Done(o)' THEN 1 ELSE 0)
      <4>1. CASE o = id
        <5>1. Done(o)'
          BY <1>1, <2>1, <2>2, <4>1 DEF Done, Queued, id
        <5>2. executions'[o] <= Lives + 1
          BY <3>4, <4>1
        <5> QED BY <3>1, <5>1, <5>2
      <4>2. CASE o # id
        BY <3>1, <3>5, <4>2
      <4> QED BY <4>1, <4>2
    <3> QED BY <3>6 DEF Rounds
  <2> QED BY <2>t, <2>p, <2>o, <2>h, <2>r DEF Inv
<1> QED BY <1>2, <1>3 DEF Await

LEMMA ExecuteInv == Inv /\ Execute => Inv'
<1> SUFFICES ASSUME Inv, Execute PROVE Inv'
  OBVIOUS
<1> DEFINE id == queue[1].id
<1>1. /\ consumer = "execute" /\ queue # <<>>
      /\ UNCHANGED <<redis, versions, producing, queue, executions, fetchFaults>>
  BY DEF Execute, Inv, AtHead
<1>2. CASE Fault /\ Failing /\ UNCHANGED succeeded
  <2>1. /\ UNCHANGED <<redis, versions, producing, queue, history, fetchFaults>>
        /\ consumer' \in ConsumerSteps /\ state' \in States
        /\ consumer' = "sleep"
    BY <1>1, <1>2 DEF Failing, Goto, ConsumerSteps, States, history
  <2>2. faults' = faults + 1 /\ faults' <= MaxFaults
    BY <1>2 DEF Fault, Inv, TypeOK
  <2> QED BY <1>1, <2>1, <2>2, GoesInv
<1>3. CASE /\ succeeded' = succeeded \cup {Head(queue).id}
           /\ Goto("delete") /\ state' = "RUNNING" /\ UNCHANGED faults
  <2>1. /\ UNCHANGED <<stream, published, superseded, version, code, startId,
                       producer, queue, executions, faults, fetchFaults>>
        /\ consumer' = "delete" /\ state' = "RUNNING"
        /\ succeeded' = succeeded \cup {id}
    BY <1>1, <1>3, HeadFacts DEF redis, versions, producing, Goto
  <2>2. id \in Ids /\ id <= published /\ published \in Nat
    BY <1>1, HeadFacts DEF Inv, TypeOK
  <2>t. TypeOK'
    <3>1. id \in 1 .. published
      <4> HIDE DEF id
      <4> QED BY <2>2 DEF Ids
    <3>2. succeeded' \subseteq 1 .. published
      BY <2>1, <3>1 DEF Inv, TypeOK
    <3> QED BY <2>1, <3>2 DEF Inv, TypeOK, ConsumerSteps, States
  <2>p. PrefetchedInOrder' /\ PrefetchBounded' /\ Kept' /\ Fresh' /\ InOrder'
    BY <2>1 DEF Inv, PrefetchedInOrder, PrefetchBounded, Kept, Fresh, InOrder,
       Queued
  <2>h. AtHead'
    BY <1>1, <2>1 DEF Inv, AtHead
  <2>r. Rounds'
    BY <1>1, <2>1 DEF Inv, Rounds, Lives, Done, Queued
  <2> QED BY <2>t, <2>p, <2>h, <2>r DEF Inv
<1> QED BY <1>2, <1>3 DEF Execute

LEMMA DeleteInv == Inv /\ Delete => Inv'
<1> SUFFICES ASSUME Inv, Delete PROVE Inv'
  OBVIOUS
<1> DEFINE id == queue[1].id
<1>1. /\ consumer = "delete" /\ queue # <<>> /\ id \in succeeded
      /\ UNCHANGED <<published, superseded, version, code, startId, producer,
                     executions, succeeded, fetchFaults>>
  BY DEF Delete, Inv, AtHead, versions, producing, history
<1>2. Head(queue) = queue[1] /\ id \in Ids
  BY <1>1, HeadFacts
<1>3. CASE /\ Fault /\ Failing /\ UNCHANGED queue
           /\ stream' \in {stream, stream \ {Head(queue).id}}
  <2>1. /\ consumer' = "sleep" /\ state' \in States
        /\ faults' = faults + 1 /\ faults' \in 0 .. MaxFaults
    BY <1>3 DEF Failing, Goto, Fault, States, Inv, TypeOK
  <2>2. stream' = stream \/ stream' = stream \ {id}
    BY <1>2, <1>3
  <2>t. TypeOK'
    BY <1>1, <1>3, <2>1, <2>2 DEF Inv, TypeOK, ConsumerSteps
  <2>p. PrefetchedInOrder' /\ PrefetchBounded'
    BY <1>1, <1>3 DEF Inv, PrefetchedInOrder, PrefetchBounded, Queued
  <2>k. Kept' /\ Fresh' /\ InOrder'
    BY <1>1, <1>3, <2>2 DEF Inv, Kept, Fresh, InOrder, Queued
  <2>h. AtHead'
    BY <2>1 DEF AtHead
  <2>r. Rounds'
    <3>1. Lives' = Lives + 1 /\ Lives \in Nat
      BY <1>1, <2>1 DEF Inv, TypeOK, Lives
    <3>2. \A other \in Ids :
            executions[other] <= Lives + 1 /\ executions[other] \in Nat
      BY <3>1 DEF Inv, TypeOK, Rounds
    <3> QED BY <1>1, <3>1, <3>2 DEF Rounds
  <2> QED BY <2>t, <2>p, <2>k, <2>h, <2>r DEF Inv
<1>4. CASE /\ stream' = stream \ {Head(queue).id}
           /\ queue' = Tail(queue)
           /\ Goto("count")
           /\ UNCHANGED <<state, faults>>
  <2>1. /\ stream' = stream \ {id} /\ consumer' = "count"
        /\ UNCHANGED <<state, faults>>
    BY <1>2, <1>4 DEF Goto
  <2>2. /\ queue' \in Seq([id : Ids, block : Blocks])
        /\ Len(queue') = Len(queue) - 1 /\ DOMAIN queue' = 1 .. Len(queue) - 1
        /\ \A k \in 1 .. Len(queue) - 1 : queue'[k] = queue[k + 1]
    <3> DEFINE S == [id : Ids, block : Blocks]
    <3>1. queue \in Seq(S)
      BY DEF Inv, TypeOK
    <3> HIDE DEF S
    <3>2. queue' \in Seq(S) /\ Len(queue') = Len(queue) - 1
          /\ DOMAIN queue' = 1 .. Len(queue) - 1
          /\ \A k \in 1 .. Len(queue) - 1 : queue'[k] = queue[k + 1]
      BY <1>1, <1>4, <3>1
    <3> QED BY <3>2 DEF S
  <2>3. Len(queue) \in Nat /\ Len(queue) > 0 /\ DOMAIN queue = 1 .. Len(queue)
    BY <1>1, QueueType DEF Inv
  <2>4. Queued' = Queued \ {id}
    <3>1. \A k \in DOMAIN queue : k # 1 => id < queue[k].id
      BY <2>3 DEF Inv, PrefetchedInOrder
    <3>2. \A k \in DOMAIN queue : queue[k].id \in Nat
      BY QueueType DEF Inv, Ids
    <3>3. \A k \in DOMAIN queue' : queue'[k].id \in Queued \ {id}
      BY <1>2, <2>2, <2>3, <3>1, <3>2 DEF Queued
    <3>4. ASSUME NEW k \in DOMAIN queue, k # 1 PROVE queue[k].id \in Queued'
      <4>1. k - 1 \in DOMAIN queue' /\ queue'[k - 1] = queue[k]
        BY <2>2, <2>3, <3>4
      <4> QED BY <4>1 DEF Queued
    <3> QED BY <3>3, <3>4 DEF Queued
  <2>t. TypeOK'
    BY <1>1, <2>1, <2>2 DEF Inv, TypeOK, ConsumerSteps
  <2>p. PrefetchedInOrder'
    <3>1. ASSUME NEW i \in DOMAIN queue', NEW j \in DOMAIN queue', i < j
          PROVE  queue'[i].id < queue'[j].id
      <4>1. /\ i + 1 \in DOMAIN queue /\ j + 1 \in DOMAIN queue
            /\ i + 1 < j + 1
            /\ queue'[i] = queue[i + 1] /\ queue'[j] = queue[j + 1]
        BY <2>2, <2>3, <3>1
      <4> QED BY <4>1 DEF Inv, PrefetchedInOrder
    <3>2. \A i \in DOMAIN queue' : queue'[i].id <= startId
      BY <2>2, <2>3 DEF Inv, PrefetchedInOrder
    <3>3. 1 .. startId \subseteq Queued' \cup succeeded \cup superseded
      BY <1>1, <2>4 DEF Inv, PrefetchedInOrder
    <3> QED BY <1>1, <3>1, <3>2, <3>3 DEF PrefetchedInOrder
  <2>b. PrefetchBounded'
    BY <1>1, <2>2, <2>3 DEF Inv, TypeOK, PrefetchBounded
  <2>k. Kept' /\ Fresh' /\ InOrder'
    BY <1>1, <2>1, <2>4 DEF Inv, Kept, Fresh, InOrder
  <2>h. AtHead'
    BY <2>1 DEF AtHead
  <2>r. Rounds'
    <3>1. Lives' = Lives /\ Lives \in Nat
      BY <1>1, <2>1 DEF Inv, TypeOK, Lives
    <3>2. \A other \in Ids : Done(other) => Done(other)'
      BY <1>1, <2>1, <2>4 DEF Done
    <3> QED BY <1>1, <3>1, <3>2 DEF Inv, TypeOK, Rounds
  <2> QED BY <2>t, <2>p, <2>b, <2>k, <2>h, <2>r DEF Inv
<1> QED BY <1>3, <1>4 DEF Delete

-----------------------------------------------------------------------------
LEMMA DiesInv == Inv /\ (Dies \/ StopOutdated) => Inv'
<1> SUFFICES ASSUME Inv, Dies \/ StopOutdated PROVE Inv'
  OBVIOUS
<1>1. faults \in 0 .. MaxFaults /\ fetchFaults \in 0 .. MaxFetchFaults
  BY DEF Inv, TypeOK
<1>2. CASE Dies
  <2>1. /\ UNCHANGED <<redis, versions, history>> /\ UNCHANGED fetchFaults
        /\ faults' = faults + 1 /\ faults' \in 0 .. MaxFaults
        /\ Running /\ Ends("STALLED")
    BY <1>1, <1>2 DEF Dies, Fault
  <2> QED BY <1>1, <2>1, EndsInv
<1>3. CASE StopOutdated
  <2>1. /\ UNCHANGED <<redis, versions, history>>
        /\ UNCHANGED <<faults, fetchFaults>>
        /\ code # version /\ Running /\ Ends("STOPPED")
    BY <1>3 DEF StopOutdated
  <2> QED BY <1>1, <2>1, EndsInv
<1> QED BY <1>2, <1>3

LEMMA RestartInv == Inv /\ Restart => Inv'
<1> SUFFICES ASSUME Inv, Restart PROVE Inv'
  OBVIOUS
<1>1. /\ consumer = "down" /\ consumer' = "count" /\ state' = "RUNNING"
      /\ queue = <<>> /\ producer = 0 /\ startId = 0 /\ code' = version
      /\ UNCHANGED <<stream, published, superseded, version, startId, producer,
                     queue, executions, succeeded, fetchFaults, faults>>
  BY DEF Restart, Goto, Inv, AtHead, redis, producing, history
<1>t. TypeOK'
  BY <1>1 DEF Inv, TypeOK, ConsumerSteps, States
<1>p. PrefetchedInOrder' /\ PrefetchBounded' /\ Kept' /\ Fresh' /\ InOrder'
  BY <1>1 DEF Inv, PrefetchedInOrder, PrefetchBounded, Kept, Fresh, InOrder,
     Queued
<1>h. AtHead'
  BY <1>1 DEF AtHead
<1>r. Rounds'
  <2>1. Lives' = Lives /\ Lives \in Nat
    BY <1>1 DEF Inv, TypeOK, Lives
  <2>2. \A id \in Ids : ~Done(id)
    BY <1>1 DEF Done
  <2> QED BY <1>1, <2>1, <2>2 DEF Inv, TypeOK, Rounds
<1> QED BY <1>t, <1>p, <1>h, <1>r DEF Inv

LEMMA SupersedeInv == Inv /\ Supersede => Inv'
<1> SUFFICES ASSUME Inv, Supersede PROVE Inv'
  OBVIOUS
<1>1. /\ version < MaxUpdates /\ version' = version + 1
      /\ superseded' = superseded \cup stream /\ stream' = {}
      /\ UNCHANGED <<published, code, startId, producer, queue, consumer, state,
                     executions, succeeded, fetchFaults, faults>>
  BY DEF Supersede, producing, history
<1>t. TypeOK'
  BY <1>1 DEF Inv, TypeOK
<1>p. PrefetchedInOrder' /\ PrefetchBounded' /\ Kept' /\ InOrder' /\ AtHead'
  BY <1>1 DEF Inv, PrefetchedInOrder, PrefetchBounded, Kept, InOrder, AtHead,
     Queued
<1>f. Fresh'
  BY <1>1 DEF Inv, TypeOK, Fresh
<1>r. Rounds'
  <2>1. Lives' >= Lives /\ Lives' \in Nat /\ Lives \in Nat
    BY <1>1 DEF Inv, TypeOK, Lives
  <2>2. \A id \in Ids : Done(id)' = Done(id)
    BY <1>1 DEF Done, Queued
  <2> QED BY <1>1, <2>1, <2>2 DEF Inv, TypeOK, Rounds
<1> QED BY <1>t, <1>p, <1>f, <1>r DEF Inv

LEMMA PublishInv == Inv /\ Publish => Inv'
<1> SUFFICES ASSUME Inv, Publish PROVE Inv'
  OBVIOUS
<1>1. /\ published < MaxMessages /\ published' = published + 1
      /\ stream' = stream \cup {published + 1}
      /\ UNCHANGED <<superseded, version, code, startId, producer, queue,
                     consumer, state, executions, succeeded, fetchFaults, faults>>
  BY DEF Publish, versions, producing, history
<1>2. /\ published \in Nat /\ stream \subseteq 1 .. published
      /\ superseded \subseteq 1 .. published
      /\ succeeded \subseteq 1 .. published
      /\ startId \in 0 .. published
  BY DEF Inv, TypeOK
<1>3. 1 .. published' = 1 .. published \cup {published + 1}
      /\ published + 1 \notin 1 .. published
  BY <1>1, <1>2
<1>t. TypeOK'
  <2>1. /\ stream' \subseteq 1 .. published' /\ published' \in 0 .. MaxMessages
        /\ superseded' \subseteq 1 .. published'
        /\ succeeded' \subseteq 1 .. published' /\ startId' \in 0 .. published'
    BY <1>1, <1>2
  <2> QED BY <1>1, <2>1 DEF Inv, TypeOK
<1>p. PrefetchedInOrder' /\ PrefetchBounded' /\ AtHead'
  BY <1>1 DEF Inv, PrefetchedInOrder, PrefetchBounded, AtHead, Queued
<1>k. Kept' /\ Fresh'
  BY <1>1, <1>2, <1>3 DEF Inv, Kept, Fresh, Queued
<1>o. InOrder'
  BY <1>1, <1>2 DEF Inv, InOrder, Ids
<1>r. Rounds'
  BY <1>1 DEF Inv, Rounds, Lives, Done, Queued
<1> QED BY <1>t, <1>p, <1>k, <1>o, <1>r DEF Inv

-----------------------------------------------------------------------------
LEMMA NextInv == Inv /\ [Next]_vars => Inv'
<1> SUFFICES ASSUME Inv, [Next]_vars PROVE Inv'
  OBVIOUS
<1>1. CASE Producer
  BY <1>1, CountsInv, ReadsInv, ProducerFailsInv DEF Producer
<1>2. CASE Consumer
  BY <1>2, CountInv, LookInv, AwaitInv, ExecuteInv, DeleteInv, WakeInv
     DEF Consumer
<1>3. CASE Fetching
  BY <1>3, FetchingInv
<1>4. CASE Dies
  BY <1>4, DiesInv
<1>5. CASE Coordinator
  BY <1>5, SupersedeInv, DiesInv, RestartInv DEF Coordinator
<1>6. CASE Publish
  BY <1>6, PublishInv
<1>7. CASE UNCHANGED vars
  BY <1>7 DEF vars, redis, versions, producing, history, Inv, TypeOK,
     PrefetchedInOrder, PrefetchBounded, Kept, Fresh, InOrder, AtHead, Rounds,
     Lives, Done, Queued
<1> QED BY <1>1, <1>2, <1>3, <1>4, <1>5, <1>6, <1>7 DEF Next

(* The inductive invariant of the worker. *)
THEOREM InvHolds == Spec => []Inv
  BY InitInv, NextInv, PTL DEF Spec

(* Blocks are prefetched in order without a gap, no more than the limit,   *)
(* and executed again only after a failure, a crash or an update.          *)
THEOREM WorkerInvHolds == Spec => []WorkerInv
<1>1. Inv => RepeatsFollowFaults
  <2> SUFFICES ASSUME Inv, NEW id \in Ids
               PROVE  executions[id] <= 1 + faults + fetchFaults + version
    BY DEF RepeatsFollowFaults
  <2>1. /\ code \in Nat /\ version \in Nat /\ code <= version
        /\ faults \in Nat /\ fetchFaults \in Nat /\ executions[id] \in Nat
    BY DEF Inv, TypeOK
  <2>2. Lives \in Nat /\ Lives <= faults + fetchFaults + version
    BY <2>1 DEF Lives
  <2>3. executions[id] <= Lives + 1
    BY <2>1, <2>2 DEF Inv, Rounds
  <2> QED BY <2>1, <2>2, <2>3
<1>2. Inv => WorkerInv
  BY <1>1 DEF Inv, WorkerInv
<1> QED BY <1>2, InvHolds, PTL

-----------------------------------------------------------------------------
(* What the steps of the worker are to a reader of Delivery. *)
Begun == {id \in Ids : executions[id] > 0}

LEMMA Unseen ==
  ASSUME UNCHANGED <<redis, versions, history>>
  PROVE  UNCHANGED Delivered!vars
<1>1. UNCHANGED <<stream, published, superseded, version, code, executions,
                  succeeded>>
  BY DEF redis, versions, history
<1>2. Begun' = Begun
  BY <1>1 DEF Begun
<1> QED BY <1>1, <1>2 DEF Delivered!vars, Begun

LEMMA AwaitBegins ==
  ASSUME Inv, Await
  PROVE  Delivered!Next \/ UNCHANGED Delivered!vars
<1> DEFINE id == queue[1].id
<1>1. /\ consumer = "await" /\ queue # <<>>
      /\ UNCHANGED <<redis, versions, succeeded>>
  BY DEF Await, Inv, AtHead
<1>2. CASE UNCHANGED executions
  BY <1>1, <1>2, Unseen DEF history
<1>3. CASE executions' = [executions EXCEPT ![Head(queue).id] = @ + 1]
  <2>1. /\ Head(queue) = queue[1] /\ id \in Ids /\ id \in Queued
        /\ id <= published
        /\ \A older \in 1 .. id - 1 : older \in succeeded \cup superseded
    BY <1>1, HeadFacts
  <2>2. executions' = [executions EXCEPT ![id] = @ + 1]
    BY <1>3, <2>1
  <2> HIDE DEF id
  <2>3. id \in Delivered!Messages
    BY <2>1 DEF Delivered!Messages, Ids, Inv, TypeOK
  <2>4. id \in superseded => code < version
    BY <2>1 DEF Inv, Fresh, TypeOK
  <2>5. executions \in [Ids -> Nat]
    BY DEF Inv, TypeOK
  <2>6. Begun' = Begun \cup {id}
    BY <2>1, <2>2, <2>5 DEF Begun
  <2>7. UNCHANGED <<stream, published, superseded, version, code, succeeded>>
    BY <1>1 DEF redis, versions
  <2>8. PICK m : m = id
    OBVIOUS
  <2>9. Delivered!Begin(m)
    <3>1. \A older \in 1 .. m - 1 : older \in succeeded \cup superseded
      BY <2>1, <2>8
    <3> QED BY <2>3, <2>4, <2>6, <2>7, <2>8, <3>1 DEF Delivered!Begin, Begun
  <2> QED BY <2>3, <2>8, <2>9 DEF Delivered!Next
<1> QED BY <1>2, <1>3 DEF Await

LEMMA ExecuteSucceeds ==
  ASSUME Inv, Execute
  PROVE  Delivered!Next \/ UNCHANGED Delivered!vars
<1> DEFINE id == queue[1].id
<1>1. /\ consumer = "execute" /\ queue # <<>> /\ executions[id] > 0
      /\ UNCHANGED <<redis, versions, executions>>
  BY DEF Execute, Inv, AtHead
<1>2. CASE UNCHANGED succeeded
  BY <1>1, <1>2, Unseen DEF history
<1>3. CASE succeeded' = succeeded \cup {Head(queue).id}
  <2>1. Head(queue) = queue[1] /\ id \in Ids /\ id <= published
    BY <1>1, HeadFacts
  <2>2. succeeded' = succeeded \cup {id}
    BY <1>3, <2>1
  <2>3. id \in Begun
    BY <1>1, <2>1 DEF Begun
  <2> HIDE DEF id
  <2>4. id \in Delivered!Messages
    BY <2>1 DEF Delivered!Messages, Ids, Inv, TypeOK
  <2>5. UNCHANGED <<stream, published, superseded, version, code>> /\ Begun' = Begun
    BY <1>1 DEF redis, versions, Begun
  <2>6. Delivered!Succeed(id)
    BY <2>2, <2>3, <2>5 DEF Delivered!Succeed, Begun
  <2> QED BY <2>4, <2>6 DEF Delivered!Next
<1> QED BY <1>2, <1>3 DEF Execute

LEMMA DeleteRemoves ==
  ASSUME Inv, Delete
  PROVE  Delivered!Next \/ UNCHANGED Delivered!vars
<1> DEFINE id == queue[1].id
<1>1. /\ consumer = "delete" /\ queue # <<>> /\ id \in succeeded
      /\ UNCHANGED <<published, superseded, versions, history>>
  BY DEF Delete, Inv, AtHead
<1>2. Head(queue) = queue[1] /\ id \in Ids /\ id <= published
  BY <1>1, HeadFacts
<1>3. stream' = stream \/ stream' = stream \ {id}
  BY <1>2 DEF Delete
<1> HIDE DEF id
<1>4. CASE stream' = stream
  BY <1>1, <1>4, Unseen DEF redis
<1>5. CASE stream' = stream \ {id}
  <2>1. id \in Delivered!Messages
    BY <1>2 DEF Delivered!Messages, Ids, Inv, TypeOK
  <2>2. UNCHANGED <<published, superseded, version, code, succeeded>> /\ Begun' = Begun
    BY <1>1 DEF versions, history, Begun
  <2>3. Delivered!Remove(id)
    BY <1>1, <1>5, <2>2 DEF Delivered!Remove, Begun
  <2> QED BY <2>1, <2>3 DEF Delivered!Next
<1> QED BY <1>3, <1>4, <1>5

LEMMA OthersDeliver ==
  ASSUME Inv, Supersede \/ Restart \/ Publish
  PROVE  Delivered!Next
<1>1. CASE Supersede
  <2>1. Begun' = Begun /\ UNCHANGED <<published, code, succeeded>>
    BY <1>1 DEF Supersede, history, Begun
  <2>2. Delivered!Supersede
    BY <1>1, <2>1 DEF Supersede, Delivered!Supersede, Begun
  <2> QED BY <2>2 DEF Delivered!Next
<1>2. CASE Restart
  <2>1. /\ Begun' = Begun
        /\ UNCHANGED <<stream, published, superseded, version, succeeded>>
    BY <1>2 DEF Restart, redis, history, Begun
  <2>2. Delivered!Replace
    BY <1>2, <2>1 DEF Restart, Delivered!Replace, Begun
  <2> QED BY <2>2 DEF Delivered!Next
<1>3. CASE Publish
  <2>1. Begun' = Begun /\ UNCHANGED <<superseded, version, code, succeeded>>
    BY <1>3 DEF Publish, versions, history, Begun
  <2>2. Delivered!Publish
    BY <1>3, <2>1 DEF Publish, Delivered!Publish, Begun
  <2> QED BY <2>2 DEF Delivered!Next
<1> QED BY <1>1, <1>2, <1>3

LEMMA StepDelivers ==
  Inv /\ [Next]_vars => [Delivered!Next]_(Delivered!vars)
<1> SUFFICES ASSUME Inv, [Next]_vars
             PROVE  Delivered!Next \/ UNCHANGED Delivered!vars
  OBVIOUS
<1>1. CASE Producer \/ Fetching \/ Dies \/ Count \/ Look \/ Wake \/ StopOutdated
  <2>1. UNCHANGED <<redis, versions, history>>
    BY <1>1 DEF Producer, ProducerCounts, ProducerReads, ProducerFails,
       Fetching, Fetched, FetchFails, CacheFails, Dies, Count, Look, Wake,
       StopOutdated
  <2> QED BY <2>1, Unseen
<1>2. CASE Await
  BY <1>2, AwaitBegins
<1>3. CASE Execute
  BY <1>3, ExecuteSucceeds
<1>4. CASE Delete
  BY <1>4, DeleteRemoves
<1>5. CASE Supersede \/ Restart \/ Publish
  BY <1>5, OthersDeliver
<1>6. CASE UNCHANGED vars
  BY <1>6, Unseen DEF vars
<1> QED BY <1>1, <1>2, <1>3, <1>4, <1>5, <1>6 DEF Next, Consumer, Coordinator

(* Every behaviour of the worker is one of Delivery. *)
THEOREM ImplementsDeliveryHolds == Spec => ImplementsDelivery
<1>1. Init => Delivered!Init
  BY DEF Init, Delivered!Init, Ids
<1>2. Inv /\ [Next]_vars => [Delivered!Next]_(Delivered!vars)
  BY StepDelivers
<1> QED BY <1>1, <1>2, InvHolds, PTL
        DEF Spec, ImplementsDelivery, Delivered!Spec

(* What was published waits, was executed, or was superseded. *)
THEOREM NothingLostHolds == Spec => []Delivered!NothingLost
<1>1. Inv => Delivered!NothingLost
  BY DEF Inv, Kept, Delivered!NothingLost, Delivered!Messages
<1> QED BY <1>1, InvHolds, PTL
=============================================================================
