------------------------ MODULE BlockStreamerProofs ------------------------
(***************************************************************************)
(* Proofs about the Block Streamer: its service and the Lake client that   *)
(* its streams share, for any number of requests, clients that give up,    *)
(* streams and objects, and any size of the cache; the backfill of a       *)
(* stream, for any chain and any index over it; and the rules that decide  *)
(* what a stream has, for any filters and blocks.  The service first.      *)
(***************************************************************************)
EXTENDS BlockStreamerService, LakeCache, History, ReceiverBlocks,
        SequenceTheorems, FiniteSetTheorems, TLAPS

(* The Coordinator sends a request only when the one before is answered or *)
(* given up.                                                               *)
OneAtATime ==
  \A q, r \in Requests :
    q < r /\ pc[r] # "idle" => Answered(q) \/ q \in abandoned

(* A start between its look and its insert found the map empty, so an      *)
(* entry it is about to replace is that of a start beside it: a client of  *)
(* one of the two is gone.                                                 *)
Replaces ==
  \A r \in Requests :
    pc[r] \in {"checked", "spawned"} /\ entry # NoStream =>
      {r, entry} \cap abandoned # {}

(* What a stop has removed is a stream that was started and is not in the  *)
(* map, and only such streams are cancelled.                               *)
Stopping == {"removed", "joining", "stopped", "dropped"}
Removed ==
  /\ \A r \in Requests : pc[r] \in Stopping =>
       victim[r] \in Requests /\ pc[victim[r]] = "started" /\ victim[r] # entry
  /\ \A s \in cancelled : pc[s] = "started"

Inv ==
  /\ TypeOK /\ OneAtATime /\ Replaces /\ Removed
  /\ StopEndsTask /\ EntryIsStarted /\ OnlyStartsLeak

-----------------------------------------------------------------------------
(* One request moves, the others stay where they are.                      *)
LEMMA Moves ==
  ASSUME TypeOK, NEW r \in Requests, NEW step \in Steps, Goto(r, step)
  PROVE  /\ pc' \in [Requests -> Steps]
         /\ pc'[r] = step
         /\ \A q \in Requests : q # r => pc'[q] = pc[q]
  BY DEF TypeOK, Goto

(* Requests are numbers other than NoStream. *)
LEMMA Numbers ==
  /\ \A r \in Requests : r \in Nat /\ r # NoStream
  /\ Answers \subseteq Steps
  /\ Stopping \subseteq Steps
  BY ServiceAssumption DEF Requests, NoStream, Answers, Steps, Stopping

LEMMA InvInit == Init => Inv
  BY DEF Init, Inv, TypeOK, OneAtATime, Replaces, Removed, StopEndsTask,
     EntryIsStarted, OnlyStartsLeak, Stopping, Steps, Requests, NoStream

(* Every step keeps the types.                                             *)
LEMMA TypeNext == TypeOK /\ Removed /\ [Next]_vars => TypeOK'
  <1> SUFFICES ASSUME TypeOK, Removed, [Next]_vars PROVE TypeOK'
    OBVIOUS
  <1>1. CASE UNCHANGED vars
    BY <1>1 DEF vars, TypeOK
  <1>2. ASSUME NEW r \in Requests,
               \/ StartChecks(r) \/ StopRemoves(r) \/ Handler(r)
               \/ StopDropped(r) \/ Abandon(r) \/ TaskObeys(r) \/ TaskEnds(r)
        PROVE  TypeOK'
    <2>1. pc' \in [Requests -> Steps]
      BY <1>2 DEF TypeOK, StartChecks, StopRemoves, Handler, StopDropped,
         Abandon, TaskObeys, TaskEnds, StartSpawns, StartInserts, StopCancels,
         StopJoins, Goto, Steps, Answers
    <2>2. victim' \in [Requests -> {NoStream} \cup Requests]
      BY <1>2 DEF TypeOK, StartChecks, StopRemoves, Handler, StopDropped,
         Abandon, TaskObeys, TaskEnds, StartSpawns, StartInserts, StopCancels,
         StopJoins
    <2>3. cancelled' \subseteq Requests
      <3>1. CASE StopCancels(r)
        BY <3>1 DEF StopCancels, TypeOK, Removed, Stopping
      <3>2. CASE ~StopCancels(r)
        BY <1>2, <3>2 DEF TypeOK, StartChecks, StopRemoves, Handler, StopDropped,
           Abandon, TaskObeys, TaskEnds, StartSpawns, StartInserts, StopJoins
      <3> QED BY <3>1, <3>2
    <2>4. /\ entry' \in {NoStream} \cup Requests
          /\ tasks' \subseteq Requests /\ abandoned' \subseteq Requests
      BY <1>2 DEF TypeOK, StartChecks, StopRemoves, Handler, StopDropped,
         Abandon, TaskObeys, TaskEnds, StartSpawns, StartInserts, StopCancels,
         StopJoins
    <2> QED BY <2>1, <2>2, <2>3, <2>4 DEF TypeOK
  <1> QED BY <1>1, <1>2 DEF Next

(* What the other conjuncts of Inv say once the types are known.           *)
Rest ==
  /\ OneAtATime /\ Replaces /\ Removed
  /\ StopEndsTask /\ EntryIsStarted /\ OnlyStartsLeak

(* A handler that goes on leaves the order of the requests as it is.       *)
LEMMA GoesOn ==
  ASSUME OneAtATime, NEW r \in Requests, pc[r] \notin {"idle"} \cup Answers,
         pc'[r] # "idle", \A q \in Requests : q # r => pc'[q] = pc[q],
         UNCHANGED abandoned
  PROVE  OneAtATime'
  BY DEF OneAtATime, Answered

(* Inv is inductive. *)
LEMMA InvNext == Inv /\ [Next]_vars => Inv'
  <1> SUFFICES ASSUME Inv, [Next]_vars PROVE Rest'
    BY TypeNext DEF Inv, Rest
  <1>t. TypeOK /\ TypeOK'
    BY TypeNext DEF Inv
  <1>1. CASE UNCHANGED vars
    BY <1>1 DEF vars, Inv, Rest, OneAtATime, Replaces, Removed, StopEndsTask,
       EntryIsStarted, OnlyStartsLeak, Known, Handled, ListStreams, Answered
  <1>2. ASSUME NEW r \in Requests, StartChecks(r) PROVE Rest'
    <2> DEFINE step == IF entry # NoStream THEN "exists" ELSE "checked"
    <2>1. /\ pc[r] = "idle" /\ pc'[r] = step
          /\ \A q \in Requests : q # r => pc'[q] = pc[q]
          /\ UNCHANGED <<entry, tasks, cancelled, victim, abandoned>>
      BY <1>t, <1>2 DEF StartChecks, Sends, Goto, TypeOK
    <2>2. OneAtATime'
      BY <1>2, <2>1, Numbers DEF Inv, OneAtATime, StartChecks, Sends, Answered, Answers
    <2>3. Replaces'
      BY <2>1 DEF Inv, Replaces
    <2>4. Removed'
      BY <2>1 DEF Inv, Removed, Stopping, TypeOK
    <2>5. StopEndsTask' /\ EntryIsStarted'
      BY <2>1 DEF Inv, StopEndsTask, EntryIsStarted, TypeOK
    <2>6. OnlyStartsLeak'
      BY <2>1, <1>t DEF Inv, OnlyStartsLeak, Known, Handled, ListStreams, TypeOK
    <2> QED BY <2>2, <2>3, <2>4, <2>5, <2>6 DEF Rest
  <1>3. ASSUME NEW r \in Requests, StartSpawns(r) PROVE Rest'
    <2>1. /\ pc[r] = "checked" /\ pc'[r] = "spawned"
          /\ \A q \in Requests : q # r => pc'[q] = pc[q]
          /\ tasks' = tasks \cup {r}
          /\ UNCHANGED <<entry, cancelled, victim, abandoned>>
      BY <1>t, <1>3 DEF StartSpawns, Goto, TypeOK, Steps, Answers
    <2>2. OneAtATime'
      BY <1>t, <2>1, GoesOn DEF Inv, Answers
    <2>3. Replaces'
      BY <2>1 DEF Inv, Replaces
    <2>4. Removed'
      BY <1>t, <2>1 DEF Inv, Removed, Stopping, EntryIsStarted, TypeOK
    <2>5. StopEndsTask' /\ EntryIsStarted'
      BY <1>t, <2>1 DEF Inv, StopEndsTask, EntryIsStarted, Removed, Stopping, TypeOK
    <2>6. OnlyStartsLeak'
      BY <1>t, <2>1 DEF Inv, OnlyStartsLeak, Known, Handled, ListStreams, TypeOK
    <2> QED BY <2>2, <2>3, <2>4, <2>5, <2>6 DEF Rest
  <1>4. ASSUME NEW r \in Requests, StartInserts(r) PROVE Rest'
    <2>1. /\ pc[r] = "spawned" /\ pc'[r] = "started"
          /\ \A q \in Requests : q # r => pc'[q] = pc[q]
          /\ entry' = r /\ r # NoStream
          /\ UNCHANGED <<tasks, cancelled, victim, abandoned>>
      BY <1>t, <1>4, Numbers DEF StartInserts, Goto, TypeOK, Steps, Answers
    <2>2. OneAtATime'
      BY <1>t, <2>1, GoesOn DEF Inv, Answers
    <2>3. Replaces'
      <3> SUFFICES ASSUME NEW q \in Requests, pc'[q] \in {"checked", "spawned"}
                   PROVE  {q, r} \cap abandoned' # {}
        BY <2>1 DEF Replaces
      <3>1. /\ q # r /\ pc[q] # "idle" /\ pc[r] # "idle"
            /\ ~Answered(q) /\ ~Answered(r)
        BY <2>1 DEF Answered, Answers
      <3>2. q < r \/ r < q
        BY <3>1, Numbers
      <3> QED BY <2>1, <3>1, <3>2 DEF Inv, OneAtATime
    <2>4. Removed'
      BY <1>t, <2>1 DEF Inv, Removed, Stopping, EntryIsStarted, TypeOK
    <2>5. StopEndsTask' /\ EntryIsStarted'
      BY <1>t, <2>1 DEF Inv, StopEndsTask, EntryIsStarted, Removed, Stopping, TypeOK
    <2>6. OnlyStartsLeak'
      BY <1>t, <2>1 DEF Inv, Replaces, EntryIsStarted, OnlyStartsLeak, Known, Handled, ListStreams, TypeOK
    <2> QED BY <2>2, <2>3, <2>4, <2>5, <2>6 DEF Rest
  <1>5. ASSUME NEW r \in Requests, StopRemoves(r) PROVE Rest'
    <2>1. /\ pc[r] = "idle"
          /\ pc'[r] = IF entry = NoStream THEN "notFound" ELSE "removed"
          /\ \A q \in Requests : q # r => pc'[q] = pc[q]
          /\ victim'[r] = entry /\ \A q \in Requests : q # r => victim'[q] = victim[q]
          /\ entry' = NoStream
          /\ UNCHANGED <<tasks, cancelled, abandoned>>
      BY <1>t, <1>5 DEF StopRemoves, Goto, TypeOK, Steps, Answers, Sends
    <2>2. OneAtATime'
      BY <1>t, <1>5, <2>1, Numbers DEF Inv, OneAtATime, StopRemoves, Sends, Answered, Answers
    <2>3. Replaces'
      BY <2>1 DEF Inv, Replaces
    <2>4. Removed'
      <3>1. ASSUME NEW q \in Requests, pc'[q] \in Stopping
            PROVE  /\ victim'[q] \in Requests /\ pc'[victim'[q]] = "started"
                   /\ victim'[q] # entry'
        <4>1. CASE q = r
          <5>1. entry # NoStream /\ entry \in Requests /\ pc[entry] = "started"
            BY <1>t, <2>1, <3>1, <4>1 DEF Inv, EntryIsStarted, Stopping, TypeOK
          <5> QED BY <2>1, <4>1, <5>1, Numbers
        <4>2. CASE q # r
          <5>1. victim[q] \in Requests /\ pc[victim[q]] = "started"
            BY <2>1, <3>1, <4>2 DEF Inv, Removed
          <5> QED BY <2>1, <4>2, <5>1, Numbers
        <4> QED BY <4>1, <4>2
      <3>2. \A s \in cancelled' : pc'[s] = "started"
        BY <1>t, <2>1 DEF Inv, Removed, TypeOK
      <3> QED BY <3>1, <3>2 DEF Removed
    <2>5. StopEndsTask' /\ EntryIsStarted'
      BY <1>t, <2>1 DEF Inv, StopEndsTask, EntryIsStarted, Removed, Stopping, TypeOK
    <2>6. OnlyStartsLeak'
      BY <1>t, <2>1 DEF Inv, OnlyStartsLeak, Known, Handled, ListStreams, TypeOK
    <2> QED BY <2>2, <2>3, <2>4, <2>5, <2>6 DEF Rest
  <1>6. ASSUME NEW r \in Requests, StopCancels(r) PROVE Rest'
    <2>1. /\ pc[r] = "removed" /\ pc'[r] = "joining"
          /\ \A q \in Requests : q # r => pc'[q] = pc[q]
          /\ cancelled' = cancelled \cup {victim[r]}
          /\ UNCHANGED <<entry, tasks, victim, abandoned>>
      BY <1>t, <1>6 DEF StopCancels, Goto, TypeOK, Steps, Answers
    <2>2. OneAtATime'
      BY <1>t, <2>1, GoesOn DEF Inv, Answers
    <2>3. Replaces'
      BY <2>1 DEF Inv, Replaces
    <2>4. Removed'
      BY <1>t, <2>1 DEF Inv, Removed, Stopping, EntryIsStarted, TypeOK
    <2>5. StopEndsTask' /\ EntryIsStarted'
      BY <1>t, <2>1 DEF Inv, StopEndsTask, EntryIsStarted, Removed, Stopping, TypeOK
    <2>6. OnlyStartsLeak'
      BY <1>t, <2>1 DEF Inv, OnlyStartsLeak, Known, Handled, ListStreams, TypeOK
    <2> QED BY <2>2, <2>3, <2>4, <2>5, <2>6 DEF Rest
  <1>7. ASSUME NEW r \in Requests, StopJoins(r) PROVE Rest'
    <2>1. /\ pc[r] = "joining" /\ pc'[r] = "stopped"
          /\ victim[r] \notin tasks
          /\ \A q \in Requests : q # r => pc'[q] = pc[q]
          /\ UNCHANGED <<entry, tasks, cancelled, victim, abandoned>>
      BY <1>t, <1>7 DEF StopJoins, Goto, TypeOK, Steps, Answers
    <2>2. OneAtATime'
      BY <1>t, <2>1, GoesOn DEF Inv, Answers
    <2>3. Replaces'
      BY <2>1 DEF Inv, Replaces
    <2>4. Removed'
      BY <1>t, <2>1 DEF Inv, Removed, Stopping, EntryIsStarted, TypeOK
    <2>5. StopEndsTask' /\ EntryIsStarted'
      BY <1>t, <2>1 DEF Inv, StopEndsTask, EntryIsStarted, Removed, Stopping, TypeOK
    <2>6. OnlyStartsLeak'
      BY <1>t, <2>1 DEF Inv, OnlyStartsLeak, Known, Handled, ListStreams, TypeOK
    <2> QED BY <2>2, <2>3, <2>4, <2>5, <2>6 DEF Rest
  <1>8. ASSUME NEW r \in Requests, StopDropped(r) PROVE Rest'
    <2>1. /\ pc[r] = "joining" /\ pc'[r] = "dropped"
          /\ \A q \in Requests : q # r => pc'[q] = pc[q]
          /\ UNCHANGED <<entry, tasks, cancelled, victim, abandoned>>
      BY <1>t, <1>8 DEF StopDropped, Goto, TypeOK, Steps, Answers
    <2>2. OneAtATime'
      BY <1>t, <2>1, GoesOn DEF Inv, Answers
    <2>3. Replaces'
      BY <2>1 DEF Inv, Replaces
    <2>4. Removed'
      BY <1>t, <2>1 DEF Inv, Removed, Stopping, EntryIsStarted, TypeOK
    <2>5. StopEndsTask' /\ EntryIsStarted'
      BY <1>t, <2>1 DEF Inv, StopEndsTask, EntryIsStarted, Removed, Stopping, TypeOK
    <2>6. OnlyStartsLeak'
      BY <1>t, <2>1 DEF Inv, OnlyStartsLeak, Known, Handled, ListStreams, TypeOK
    <2> QED BY <2>2, <2>3, <2>4, <2>5, <2>6 DEF Rest
  <1>9. ASSUME NEW r \in Requests, Abandon(r) PROVE Rest'
    <2>1. /\ abandoned' = abandoned \cup {r}
          /\ UNCHANGED <<entry, tasks, cancelled, pc, victim>>
      BY <1>9 DEF Abandon
    <2> QED BY <2>1 DEF Inv, Rest, OneAtATime, Replaces, Removed, StopEndsTask,
       EntryIsStarted, OnlyStartsLeak, Known, Handled, ListStreams, Answered
  <1>10. ASSUME NEW r \in Requests, TaskObeys(r) \/ TaskEnds(r) PROVE Rest'
    <2>1. /\ tasks' \subseteq tasks
          /\ UNCHANGED <<entry, cancelled, pc, victim, abandoned>>
      BY <1>10 DEF TaskObeys, TaskEnds
    <2> QED BY <2>1 DEF Inv, Rest, OneAtATime, Replaces, Removed, StopEndsTask,
       EntryIsStarted, OnlyStartsLeak, Known, Handled, ListStreams, Answered
  <1> QED
    BY <1>1, <1>2, <1>3, <1>4, <1>5, <1>6, <1>7, <1>8, <1>9, <1>10
    DEF Next, Handler

(* Whatever the requests, their overlaps and the clients that give up: an  *)
(* answered stop has ended its stream's task, the map holds no stream that *)
(* was stopped, and a task is lost only between two starts, one of them    *)
(* given up by its client.                                                 *)
THEOREM StreamsAreKept == Spec => []StreamsInv
  <1>1. Inv => StreamsInv
    BY DEF Inv, StreamsInv
  <1> QED BY <1>1, InvInit, InvNext, PTL DEF Spec

-----------------------------------------------------------------------------
(***************************************************************************)
(* The Lake client.  LakeInv is inductive: to CacheInv it adds why a       *)
(* prefix that is not cached may be asked for again (Remembered).          *)
(***************************************************************************)
(* A cached prefix that was evicted, or whose entry is older than its last *)
(* request, was pushed out by a later request for another one.             *)
Remembered ==
  Failures = {} =>
    \A f \in DOMAIN futures :
      \/ Hit(futures[f].prefix)
      \/ \E g \in DOMAIN futures :
           f < g /\ futures[g].prefix # futures[f].prefix

LakeInv == CacheInv /\ ReportedIsForgotten /\ Remembered

(* Removing from a sequence moves up what is behind. *)
LEMMA RemoveAtFacts ==
  ASSUME NEW T, NEW seq \in Seq(T), NEW w \in DOMAIN seq
  PROVE  /\ RemoveAt(seq, w) \in Seq(T)
         /\ Len(RemoveAt(seq, w)) = Len(seq) - 1
         /\ \A k \in DOMAIN RemoveAt(seq, w) :
              RemoveAt(seq, w)[k] = IF k < w THEN seq[k] ELSE seq[k + 1]
<1> DEFINE front == SubSeq(seq, 1, w - 1)
           back == SubSeq(seq, w + 1, Len(seq))
<1>1. /\ front \in Seq(T) /\ Len(front) = w - 1
      /\ \A k \in 1 .. w - 1 : front[k] = seq[k]
  OBVIOUS
<1>2. /\ back \in Seq(T) /\ Len(back) = Len(seq) - w
      /\ \A k \in 1 .. Len(seq) - w : back[k] = seq[k + w]
  OBVIOUS
<1>3. RemoveAt(seq, w) = front \o back
  BY DEF RemoveAt
<1> HIDE DEF front, back
<1>4. /\ front \o back \in Seq(T)
      /\ Len(front \o back) = Len(front) + Len(back)
      /\ \A k \in 1 .. Len(front) + Len(back) :
           (front \o back)[k] = IF k <= Len(front) THEN front[k]
                                ELSE back[k - Len(front)]
  BY <1>1, <1>2, ConcatProperties
<1>5. w \in 1 .. Len(seq) /\ Len(seq) \in Nat
  OBVIOUS
<1> DEFINE all == front \o back
<1> HIDE DEF all
<1>6. DOMAIN all = 1 .. (Len(seq) - 1)
  BY <1>1, <1>2, <1>4, <1>5 DEF all
<1>7. \A k \in DOMAIN all : all[k] = IF k < w THEN seq[k] ELSE seq[k + 1]
  <2> TAKE k \in DOMAIN all
  <2>1. /\ k \in 1 .. Len(front) + Len(back) /\ k \in Nat
        /\ Len(front) = w - 1 /\ Len(back) = Len(seq) - w
        /\ k <= Len(seq) - 1 /\ w \in Nat
    BY <1>1, <1>2, <1>5, <1>6
  <2>2. CASE k < w
    <3>1. k \in 1 .. w - 1
      BY <1>5, <2>1, <2>2
    <3> QED BY <1>1, <1>4, <1>5, <2>1, <2>2, <3>1 DEF all
  <2>3. CASE k >= w
    <3> DEFINE d == k - (w - 1)
    <3>1. d \in 1 .. Len(seq) - w /\ d + w = k + 1
      <4> k \in Nat /\ w \in Nat /\ k >= w
        BY <2>1, <2>3
      <4>1. d \in Int /\ d >= 1 /\ d + w = k + 1
        OBVIOUS
      <4>2. d <= Len(seq) - w
        BY <1>5, <2>1
      <4> QED BY <4>1, <4>2, <1>5, <2>1
    <3> HIDE DEF d
    <3>2. k - Len(front) = d /\ ~(k <= Len(front))
      BY <1>5, <2>1, <2>3 DEF d
    <3>3. all[k] = back[d]
      BY <1>4, <2>1, <3>2 DEF all
    <3> QED BY <1>2, <1>5, <2>1, <2>3, <3>1, <3>3
  <2> QED BY <1>5, <2>1, <2>2, <2>3
<1> QED BY <1>1, <1>2, <1>3, <1>4, <1>5, <1>7 DEF all

(* What is left without a prefix: the other entries, in their order. *)
LEMMA WithoutFacts ==
  ASSUME CacheTypeOK, Answering, NEW prefix
  PROVE  /\ Without(prefix) \in Seq(Entries)
         /\ Len(Without(prefix)) =
              IF Hit(prefix) THEN Len(cache) - 1 ELSE Len(cache)
         /\ \A k \in DOMAIN Without(prefix) :
              /\ Without(prefix)[k].prefix # prefix
              /\ \E l \in DOMAIN cache : Without(prefix)[k] = cache[l]
         /\ \A k, l \in DOMAIN Without(prefix) :
              Without(prefix)[k].prefix = Without(prefix)[l].prefix => k = l
         /\ \A l \in DOMAIN cache : cache[l].prefix # prefix =>
              \E k \in DOMAIN Without(prefix) : Without(prefix)[k] = cache[l]
<1>1. cache \in Seq(Entries)
  BY DEF CacheTypeOK
<1>2. CASE ~Hit(prefix)
  BY <1>1, <1>2 DEF Without, Hit, Answering
<1>3. CASE Hit(prefix)
  <2> DEFINE w == Where(prefix)
             rest == RemoveAt(cache, w)
  <2>1. w \in DOMAIN cache /\ cache[w].prefix = prefix
    BY <1>3 DEF Hit, Where
  <2>2. Without(prefix) = rest
    BY <1>3 DEF Without
  <2> HIDE DEF w
  <2>3. /\ rest \in Seq(Entries) /\ Len(rest) = Len(cache) - 1
        /\ \A k \in DOMAIN rest :
             rest[k] = IF k < w THEN cache[k] ELSE cache[k + 1]
    BY <1>1, <2>1, RemoveAtFacts
  <2> HIDE DEF rest
  <2>4. /\ DOMAIN cache = 1 .. Len(cache) /\ Len(cache) \in Nat
        /\ DOMAIN rest = 1 .. (Len(cache) - 1)
    BY <1>1, <2>3
  <2> DEFINE from(k) == IF k < w THEN k ELSE k + 1
  <2>5. \A k \in DOMAIN rest :
          /\ from(k) \in DOMAIN cache /\ from(k) # w
          /\ rest[k] = cache[from(k)]
    BY <2>1, <2>3, <2>4
  <2>6. \A l \in DOMAIN cache : l # w => \E k \in DOMAIN rest : from(k) = l
    <3> TAKE l \in DOMAIN cache
    <3> HAVE l # w
    <3> DEFINE k == IF l < w THEN l ELSE l - 1
    <3>1. k \in DOMAIN rest /\ from(k) = l
      BY <2>1, <2>4
    <3> QED BY <3>1
  <2>7. \A k, l \in DOMAIN rest : from(k) = from(l) => k = l
    BY <2>1, <2>4
  <2> HIDE DEF from
  <2> QED BY <1>3, <2>1, <2>2, <2>3, <2>5, <2>6, <2>7 DEF Answering
<1> QED BY <1>2, <1>3

(* Used last, an entry is in front of those of the other prefixes; one more*)
(* than there is room for falls out.                                       *)
LEMMA UsedFacts ==
  ASSUME CacheTypeOK, Answering, NEW T, Entries \subseteq T, NEW e \in T
  PROVE  /\ UsedWith(e) \in Seq(T)
         /\ Len(UsedWith(e)) <= CacheSize
         /\ UsedWith(e)[1] = e /\ 1 \in DOMAIN UsedWith(e)
         /\ \A k \in DOMAIN UsedWith(e) : k # 1 =>
              /\ UsedWith(e)[k].prefix # e.prefix
              /\ \E l \in DOMAIN cache : UsedWith(e)[k] = cache[l]
         /\ \A k, l \in DOMAIN UsedWith(e) :
              UsedWith(e)[k].prefix = UsedWith(e)[l].prefix => k = l
         /\ Hit(e.prefix) =>
              \A l \in DOMAIN cache : cache[l].prefix # e.prefix =>
                \E k \in DOMAIN UsedWith(e) : UsedWith(e)[k] = cache[l]
<1> DEFINE rest == Without(e.prefix)
           used == <<e>> \o rest
<1>1. /\ rest \in Seq(T)
      /\ Len(rest) = IF Hit(e.prefix) THEN Len(cache) - 1 ELSE Len(cache)
      /\ \A k \in DOMAIN rest :
           /\ rest[k].prefix # e.prefix
           /\ \E l \in DOMAIN cache : rest[k] = cache[l]
      /\ \A k, l \in DOMAIN rest : rest[k].prefix = rest[l].prefix => k = l
      /\ \A l \in DOMAIN cache : cache[l].prefix # e.prefix =>
           \E k \in DOMAIN rest : rest[k] = cache[l]
  BY WithoutFacts
<1>2. /\ cache \in Seq(Entries) /\ Len(cache) \in Nat /\ Len(cache) <= CacheSize
      /\ CacheSize \in Nat /\ CacheSize >= 1
  BY LakeCacheAssumption DEF CacheTypeOK
<1> HIDE DEF rest
<1>3. /\ used \in Seq(T) /\ Len(used) = Len(rest) + 1
      /\ used[1] = e
      /\ \A k \in 1 .. Len(rest) : used[k + 1] = rest[k]
  <2>1. <<e>> \in Seq(T) /\ Len(<<e>>) = 1 /\ <<e>>[1] = e
    OBVIOUS
  <2>2. Len(rest) \in Nat
    BY <1>1
  <2>3. /\ used \in Seq(T)
        /\ Len(used) = 1 + Len(rest)
        /\ \A k \in 1 .. 1 + Len(rest) :
             used[k] = IF k <= 1 THEN <<e>>[k] ELSE rest[k - 1]
    BY <1>1, <2>1, ConcatProperties
  <2> HIDE DEF used
  <2> QED BY <2>1, <2>2, <2>3
<1>4. UsedWith(e) =
        IF Len(used) > CacheSize THEN SubSeq(used, 1, CacheSize) ELSE used
  BY DEF UsedWith, rest
<1> HIDE DEF used
<1> DEFINE kept == UsedWith(e)
<1>5. /\ kept \in Seq(T) /\ Len(kept) <= CacheSize
      /\ Len(kept) <= Len(used) /\ Len(kept) >= 1
      /\ \A k \in 1 .. Len(kept) : kept[k] = used[k]
      /\ Hit(e.prefix) => Len(kept) = Len(used)
  <2>1. CASE Len(used) > CacheSize
    <3>1. kept = SubSeq(used, 1, CacheSize)
      BY <1>4, <2>1
    <3>2. ~Hit(e.prefix)
      BY <1>1, <1>2, <1>3, <2>1
    <3> QED BY <1>2, <1>3, <2>1, <3>1, <3>2
  <2>2. CASE ~(Len(used) > CacheSize)
    <3>1. kept = used
      BY <1>4, <2>2
    <3> QED BY <1>1, <1>2, <1>3, <2>2, <3>1
  <2> QED BY <2>1, <2>2
<1> HIDE DEF kept
<1>6. \A k \in DOMAIN kept : k # 1 =>
        /\ k - 1 \in DOMAIN rest /\ kept[k] = rest[k - 1]
  <2> TAKE k \in DOMAIN kept
  <2> HAVE k # 1
  <2>1. k \in 1 .. Len(kept) /\ Len(kept) \in Nat /\ Len(rest) \in Nat
    BY <1>1, <1>5
  <2>2. k - 1 \in 1 .. Len(rest) /\ (k - 1) + 1 = k
    BY <1>3, <1>5, <2>1
  <2>3. used[(k - 1) + 1] = rest[k - 1]
    BY <1>3, <2>2
  <2> QED BY <1>1, <1>5, <2>1, <2>2, <2>3
<1>7. kept[1] = e /\ 1 \in DOMAIN kept
  BY <1>3, <1>5
<1>8. \A k, l \in DOMAIN kept : kept[k].prefix = kept[l].prefix => k = l
  <2> TAKE k, l \in DOMAIN kept
  <2> HAVE kept[k].prefix = kept[l].prefix
  <2>1. k \in Nat /\ l \in Nat
    BY <1>5
  <2> QED BY <1>1, <1>6, <1>7, <2>1
<1>9. Hit(e.prefix) =>
        \A l \in DOMAIN cache : cache[l].prefix # e.prefix =>
          \E k \in DOMAIN kept : kept[k] = cache[l]
  <2> SUFFICES ASSUME Hit(e.prefix), NEW l \in DOMAIN cache,
                      cache[l].prefix # e.prefix
               PROVE  \E k \in DOMAIN kept : kept[k] = cache[l]
    OBVIOUS
  <2>1. PICK k \in DOMAIN rest : rest[k] = cache[l]
    BY <1>1
  <2>2. k \in 1 .. Len(rest) /\ Len(rest) \in Nat
    BY <1>1
  <2>3. k + 1 \in DOMAIN kept /\ kept[k + 1] = rest[k]
    BY <1>3, <1>5, <2>2
  <2> QED BY <2>1, <2>3
<1> QED BY <1>1, <1>5, <1>6, <1>7, <1>8, <1>9 DEF kept

(* The entry of a prefix that is found. *)
LEMMA EntryFacts ==
  ASSUME CacheTypeOK, Answering, NEW prefix, Hit(prefix)
  PROVE  /\ Entry(prefix) \in Entries /\ Entry(prefix).prefix = prefix
         /\ \E k \in DOMAIN cache : cache[k] = Entry(prefix)
<1>1. Where(prefix) \in DOMAIN cache /\ cache[Where(prefix)].prefix = prefix
  BY DEF Hit, Where
<1> QED BY <1>1 DEF Entry, CacheTypeOK

LEMMA InitLake ==
  ASSUME CacheInit PROVE LakeInv
<1>1. Failures = {} /\ DOMAIN futures = {} /\ DOMAIN cache = {}
  BY DEF CacheInit, Failures
<1>2. CacheTypeOK
  <2>1. \A s \in Streams : calls[s] = NoCall
    BY DEF CacheInit
  <2> QED BY <1>1, <2>1, LakeCacheAssumption DEF CacheInit, CacheTypeOK
<1>3. Answering
  BY <1>1 DEF CacheInit, Answering, Awaits
<1> QED BY <1>1, <1>2, <1>3
        DEF LakeInv, CacheInv, RequestedOnce, ReportedIsForgotten, Remembered

(* A call that finds the prefix: the same entries, another order. *)
LEMMA HitStep ==
  ASSUME LakeInv, NEW s \in Streams, NEW prefix \in Objects,
         Hit(prefix), cache' = UsedWith(Entry(prefix)),
         calls' = [calls EXCEPT ![s] = Entry(prefix)],
         UNCHANGED <<futures, reported, cancels>>
  PROVE  LakeInv'
<1>1. CacheTypeOK /\ Answering /\ RequestedOnce /\ ReportedIsForgotten
      /\ Remembered
  BY DEF LakeInv, CacheInv
<1>2. /\ Entry(prefix) \in Entries /\ Entry(prefix).prefix = prefix
      /\ \E k \in DOMAIN cache : cache[k] = Entry(prefix)
      /\ Hit(Entry(prefix).prefix)
  BY <1>1, EntryFacts
<1>3. /\ cache' \in Seq(Entries) /\ Len(cache') <= CacheSize
      /\ cache'[1] = Entry(prefix) /\ 1 \in DOMAIN cache'
      /\ \A k \in DOMAIN cache' : k # 1 =>
           \E l \in DOMAIN cache : cache'[k] = cache[l]
      /\ \A k, l \in DOMAIN cache' :
           cache'[k].prefix = cache'[l].prefix => k = l
      /\ \A l \in DOMAIN cache : cache[l].prefix # prefix =>
           \E k \in DOMAIN cache' : cache'[k] = cache[l]
  <2>1. /\ UsedWith(Entry(prefix)) \in Seq(Entries)
        /\ Len(UsedWith(Entry(prefix))) <= CacheSize
        /\ UsedWith(Entry(prefix))[1] = Entry(prefix)
        /\ 1 \in DOMAIN UsedWith(Entry(prefix))
    BY <1>1, <1>2, UsedFacts
  <2>2. \A k \in DOMAIN UsedWith(Entry(prefix)) : k # 1 =>
          \E l \in DOMAIN cache : UsedWith(Entry(prefix))[k] = cache[l]
    BY <1>1, <1>2, UsedFacts
  <2>3. \A k, l \in DOMAIN UsedWith(Entry(prefix)) :
          UsedWith(Entry(prefix))[k].prefix = UsedWith(Entry(prefix))[l].prefix
            => k = l
    BY <1>1, <1>2, UsedFacts
  <2>4. \A l \in DOMAIN cache : cache[l].prefix # prefix =>
          \E k \in DOMAIN UsedWith(Entry(prefix)) :
            UsedWith(Entry(prefix))[k] = cache[l]
    BY <1>1, <1>2, UsedFacts
  <2> QED BY <2>1, <2>2, <2>3, <2>4
<1>4. /\ \A k \in DOMAIN cache' : \E l \in DOMAIN cache : cache'[k] = cache[l]
      /\ \A q : Hit(q) => Hit(q)'
  BY <1>2, <1>3 DEF Hit
<1>5. Failures' = Failures /\ Entries' = Entries
  BY DEF Failures, Entries
<1>6. CacheTypeOK'
  <2>1. calls' \in [Streams -> Entries \cup {NoCall}]
    BY <1>1, <1>2 DEF CacheTypeOK
  <2> QED BY <1>1, <1>3, <1>5, <2>1 DEF CacheTypeOK
<1>7. Answering'
  <2>1. futures[Entry(prefix).future].prefix = prefix
    BY <1>1, <1>2 DEF Answering
  <2>2. \A t \in Streams : calls'[t] = IF t = s THEN Entry(prefix) ELSE calls[t]
    BY <1>1 DEF CacheTypeOK
  <2>3. \A t \in Streams :
          Awaits(t)' => futures[calls'[t].future].prefix = calls'[t].prefix
    BY <1>1, <1>2, <2>1, <2>2 DEF Answering, Awaits
  <2> QED BY <1>1, <1>3, <1>4, <2>3 DEF Answering
<1>8. RequestedOnce'
  BY <1>1, <1>5 DEF RequestedOnce
<1>9. ReportedIsForgotten'
  BY <1>1, <1>4 DEF ReportedIsForgotten
<1>10. Remembered'
  BY <1>1, <1>4, <1>5 DEF Remembered
<1> QED BY <1>6, <1>7, <1>8, <1>9, <1>10 DEF LakeInv, CacheInv

(* A call that does not: another entry may have to go. *)
LEMMA MissStep ==
  ASSUME LakeInv, NEW s \in Streams, NEW prefix \in Objects, ~Hit(prefix),
         NEW new, new = [prefix |-> prefix, future |-> Len(futures) + 1],
         cache' = UsedWith(new), calls' = [calls EXCEPT ![s] = new],
         futures' = Append(futures, Requested(prefix)),
         UNCHANGED <<reported, cancels>>
  PROVE  LakeInv'
<1> DEFINE last == Len(futures) + 1
<1>1. CacheTypeOK /\ Answering /\ RequestedOnce /\ ReportedIsForgotten
      /\ Remembered
  BY DEF LakeInv, CacheInv
<1>2. /\ futures \in Seq([prefix : Objects, state : FutureStates])
      /\ Len(futures) \in Nat /\ DOMAIN futures = 1 .. Len(futures)
  BY <1>1 DEF CacheTypeOK
<1>3. /\ Requested(prefix) \in [prefix : Objects, state : FutureStates]
      /\ Requested(prefix).prefix = prefix
      /\ Requested(prefix).state = "pending"
  BY DEF Requested, FutureStates
<1>4. /\ futures' \in Seq([prefix : Objects, state : FutureStates])
      /\ DOMAIN futures' = 1 .. last
      /\ futures'[last] = Requested(prefix)
      /\ \A f \in DOMAIN futures : futures'[f] = futures[f]
  BY <1>2, <1>3
<1>5. last \notin DOMAIN futures /\ DOMAIN futures' = DOMAIN futures \cup {last}
  BY <1>2, <1>4
<1>6. Entries \subseteq Entries' /\ new \in Entries' /\ new.prefix = prefix
      /\ new.future = last /\ new # NoCall
  BY <1>2, <1>5 DEF Entries, NoCall
<1>7. Failures' = Failures
  <2>1. last \notin Failures'
    BY <1>3, <1>4 DEF Failures
  <2> QED BY <1>4, <1>5, <2>1 DEF Failures
<1>8. /\ cache' \in Seq(Entries') /\ Len(cache') <= CacheSize
      /\ cache'[1] = new /\ 1 \in DOMAIN cache'
      /\ \A k \in DOMAIN cache' : k # 1 =>
           \E l \in DOMAIN cache : cache'[k] = cache[l]
      /\ \A k, l \in DOMAIN cache' :
           cache'[k].prefix = cache'[l].prefix => k = l
  BY <1>1, <1>6, UsedFacts
<1>9. CacheTypeOK'
  <2>1. calls' \in [Streams -> Entries' \cup {NoCall}]
    BY <1>1, <1>6 DEF CacheTypeOK
  <2> QED BY <1>1, <1>4, <1>7, <1>8, <2>1 DEF CacheTypeOK
<1>10. Answering'
  <2>1. \A k \in DOMAIN cache' :
          futures'[cache'[k].future].prefix = cache'[k].prefix
    <3> TAKE k \in DOMAIN cache'
    <3>1. CASE k = 1
      BY <1>3, <1>4, <1>6, <1>8, <3>1
    <3>2. CASE k # 1
      <4>1. PICK l \in DOMAIN cache : cache'[k] = cache[l]
        BY <1>8, <3>2
      <4>2. cache[l] \in Entries
        BY <1>1 DEF CacheTypeOK
      <4>3. cache[l].future \in DOMAIN futures
        BY <4>2 DEF Entries
      <4> QED BY <1>1, <1>4, <4>1, <4>3 DEF Answering
    <3> QED BY <3>1, <3>2
  <2>2. \A t \in Streams : calls'[t] = IF t = s THEN new ELSE calls[t]
    BY <1>1 DEF CacheTypeOK
  <2>3. \A t \in Streams :
          Awaits(t)' => futures'[calls'[t].future].prefix = calls'[t].prefix
    <3> SUFFICES ASSUME NEW t \in Streams, Awaits(t)'
                 PROVE  futures'[calls'[t].future].prefix = calls'[t].prefix
      OBVIOUS
    <3>1. CASE t = s
      BY <1>3, <1>4, <1>6, <2>2, <3>1
    <3>2. CASE t # s
      <4>1. calls'[t] = calls[t] /\ Awaits(t)
        BY <2>2, <3>2 DEF Awaits
      <4>2. calls[t].future \in DOMAIN futures
        BY <1>1, <4>1 DEF CacheTypeOK, Entries, Awaits
      <4> QED BY <1>1, <1>4, <4>1, <4>2 DEF Answering
    <3> QED BY <3>1, <3>2
  <2> QED BY <1>8, <2>1, <2>3 DEF Answering
<1>11. RequestedOnce'
  <2> SUFFICES ASSUME Failures = {}, NEW f \in DOMAIN futures',
                      NEW g \in DOMAIN futures', f < g,
                      futures'[f].prefix = futures'[g].prefix
               PROVE  \E between \in f + 1 .. g - 1 :
                        futures'[between].prefix # futures'[g].prefix
    BY <1>7 DEF RequestedOnce
  <2>1. f \in DOMAIN futures /\ f \in Nat /\ g \in Nat
    BY <1>2, <1>4
  <2>2. CASE g \in DOMAIN futures
    <3>1. PICK between \in f + 1 .. g - 1 :
            futures[between].prefix # futures[g].prefix
      BY <1>1, <1>4, <2>1, <2>2 DEF RequestedOnce
    <3>2. between \in DOMAIN futures
      BY <1>2, <2>1, <2>2
    <3> QED BY <1>4, <2>2, <3>1, <3>2
  <2>3. CASE g = last
    <3>1. futures[f].prefix = prefix
      BY <1>3, <1>4, <2>1, <2>3
    <3>2. PICK between \in DOMAIN futures :
            f < between /\ futures[between].prefix # prefix
      BY <1>1, <2>1, <3>1 DEF Remembered
    <3>3. between \in f + 1 .. g - 1
      BY <1>2, <2>1, <2>3, <3>2
    <3> QED BY <1>3, <1>4, <2>3, <3>2, <3>3
  <2> QED BY <1>5, <2>2, <2>3
<1>12. ReportedIsForgotten'
  <2>1. last \notin reported
    BY <1>1, <1>5 DEF CacheTypeOK, Failures
  <2> QED BY <1>1, <1>6, <1>8, <2>1 DEF ReportedIsForgotten
<1>13. Remembered'
  <2> SUFFICES ASSUME Failures = {}, NEW f \in DOMAIN futures'
               PROVE  \/ \E k \in DOMAIN cache' :
                           cache'[k].prefix = futures'[f].prefix
                      \/ \E g \in DOMAIN futures' :
                           f < g /\ futures'[g].prefix # futures'[f].prefix
    BY <1>7 DEF Remembered, Hit
  <2>1. CASE futures'[f].prefix = prefix
    BY <1>6, <1>8, <2>1
  <2>2. CASE futures'[f].prefix # prefix
    <3>1. f # last /\ f < last
      BY <1>2, <1>3, <1>4, <2>2
    <3> QED BY <1>3, <1>4, <1>5, <2>2, <3>1
  <2> QED BY <2>1, <2>2
<1> QED BY <1>9, <1>10, <1>11, <1>12, <1>13 DEF LakeInv, CacheInv

(* An answer changes what a future is, not whose object it is. *)
LEMMA SettleStep ==
  ASSUME LakeInv, NEW f \in FutureNames, Settle(f)
  PROVE  LakeInv'
<1>1. CacheTypeOK /\ Answering /\ RequestedOnce /\ ReportedIsForgotten
      /\ Remembered
  BY DEF LakeInv, CacheInv
<1>2. PICK result \in {"ok", "failed"} :
        futures' = [futures EXCEPT ![f].state = result]
  BY DEF Settle
<1>3. /\ f \in DOMAIN futures /\ futures[f].state = "pending"
      /\ UNCHANGED <<cache, calls, reported, cancels>>
  BY DEF Settle
<1>4. futures \in Seq([prefix : Objects, state : FutureStates])
  BY <1>1 DEF CacheTypeOK
<1>5. /\ DOMAIN futures' = DOMAIN futures
      /\ \A g \in DOMAIN futures :
           /\ futures'[g].prefix = futures[g].prefix
           /\ g # f => futures'[g] = futures[g]
           /\ futures'[g] \in [prefix : Objects, state : FutureStates]
  <2>1. \A g \in DOMAIN futures :
          futures[g] \in [prefix : Objects, state : FutureStates]
    <3> DEFINE R == [prefix : Objects, state : FutureStates]
    <3>1. futures \in Seq(R)
      BY <1>4
    <3> HIDE DEF R
    <3>2. \A g \in DOMAIN futures : futures[g] \in R
      BY <3>1
    <3> QED BY <3>2 DEF R
  <2>2. /\ DOMAIN futures' = DOMAIN futures
        /\ \A g \in DOMAIN futures :
             futures'[g] = IF g = f THEN [futures[f] EXCEPT !.state = result]
                                    ELSE futures[g]
    BY <1>2, <1>4
  <2>3. [futures[f] EXCEPT !.state = result]
          \in [prefix : Objects, state : FutureStates]
    BY <1>3, <2>1 DEF FutureStates
  <2>4. [futures[f] EXCEPT !.state = result].prefix = futures[f].prefix
    BY <1>3, <2>1
  <2> QED BY <2>1, <2>2, <2>3, <2>4
<1>6. futures' \in Seq([prefix : Objects, state : FutureStates])
  BY <1>2, <1>3, <1>4, <1>5
<1>7. Failures \subseteq Failures'
  BY <1>3, <1>5 DEF Failures
<1>8. CacheTypeOK'
  <2>1. Entries' = Entries
    BY <1>5 DEF Entries
  <2> QED BY <1>1, <1>3, <1>6, <1>7, <2>1 DEF CacheTypeOK
<1>9. Answering'
  <2>1. \A k \in DOMAIN cache : cache[k].future \in DOMAIN futures
    <3>1. \A k \in DOMAIN cache : cache[k] \in Entries
      BY <1>1 DEF CacheTypeOK
    <3> QED BY <3>1 DEF Entries
  <2>2. \A s \in Streams : Awaits(s) => calls[s].future \in DOMAIN futures
    BY <1>1 DEF CacheTypeOK, Entries, Awaits
  <2>3. \A s \in Streams : Awaits(s)' <=> Awaits(s)
    BY <1>3 DEF Awaits
  <2> QED BY <1>1, <1>3, <1>5, <2>1, <2>2, <2>3 DEF Answering
<1>10. RequestedOnce'
  <2> SUFFICES ASSUME Failures' = {}, NEW a \in DOMAIN futures,
                      NEW b \in DOMAIN futures, a < b,
                      futures'[a].prefix = futures'[b].prefix
               PROVE  \E between \in a + 1 .. b - 1 :
                        futures'[between].prefix # futures'[b].prefix
    BY <1>5 DEF RequestedOnce
  <2>1. PICK between \in a + 1 .. b - 1 :
          futures[between].prefix # futures[b].prefix
    BY <1>1, <1>5, <1>7 DEF RequestedOnce
  <2>2. between \in DOMAIN futures
    BY <1>4
  <2> QED BY <1>5, <2>1, <2>2
<1>11. ReportedIsForgotten'
  BY <1>1, <1>3 DEF ReportedIsForgotten
<1>12. Remembered'
  <2>1. \A p : Hit(p)' <=> Hit(p)
    BY <1>3 DEF Hit
  <2> QED BY <1>1, <1>5, <1>7, <2>1 DEF Remembered
<1> QED BY <1>8, <1>9, <1>10, <1>11, <1>12 DEF LakeInv, CacheInv

(* A call is over: its result was taken, or its stream was cancelled. *)
LEMMA EndStep ==
  ASSUME LakeInv, NEW s \in Streams,
         calls' = [calls EXCEPT ![s] = NoCall],
         UNCHANGED <<cache, futures, reported>>, cancels' \in 0 .. MaxCancels
  PROVE  LakeInv'
<1>1. /\ Failures' = Failures /\ Entries' = Entries
      /\ \A p : Hit(p)' <=> Hit(p)
  BY DEF Failures, Entries, Hit
<1>2. calls \in [Streams -> Entries \cup {NoCall}]
  BY DEF LakeInv, CacheInv, CacheTypeOK
<1>3. /\ calls' \in [Streams -> Entries \cup {NoCall}]
      /\ \A t \in Streams : Awaits(t)' => Awaits(t) /\ calls'[t] = calls[t]
  BY <1>2 DEF Awaits
<1>4. CacheTypeOK' /\ Answering'
  BY <1>1, <1>3 DEF LakeInv, CacheInv, CacheTypeOK, Answering
<1> QED BY <1>1, <1>4
        DEF LakeInv, CacheInv, RequestedOnce, ReportedIsForgotten, Remembered

(* A call that finds an error: whatever its prefix stands for is removed,  *)
(* and with it the error, if it was still there.                           *)
LEMMA ErrorStep ==
  ASSUME LakeInv, NEW s \in Streams, Awaits(s), calls[s].future \in Failures,
         calls' = [calls EXCEPT ![s] = NoCall],
         cache' = Without(calls[s].prefix),
         reported' = reported \cup {calls[s].future},
         UNCHANGED <<futures, cancels>>
  PROVE  LakeInv'
<1>1. CacheTypeOK /\ Answering /\ ReportedIsForgotten
  BY DEF LakeInv, CacheInv
<1>2. Failures' = Failures /\ Failures # {} /\ Entries' = Entries
  BY DEF Failures, Entries
<1>3. /\ cache' \in Seq(Entries) /\ Len(cache') <= CacheSize
      /\ \A k \in DOMAIN cache' :
           /\ cache'[k].prefix # calls[s].prefix
           /\ \E l \in DOMAIN cache : cache'[k] = cache[l]
      /\ \A k, l \in DOMAIN cache' :
           cache'[k].prefix = cache'[l].prefix => k = l
  <2>1. Len(cache) \in Nat /\ Len(cache) <= CacheSize /\ CacheSize \in Nat
    BY <1>1, LakeCacheAssumption DEF CacheTypeOK
  <2>2. Len(cache') <= CacheSize
    BY <1>1, <2>1, WithoutFacts
  <2> QED BY <1>1, <2>2, WithoutFacts
<1>4. /\ calls' \in [Streams -> Entries \cup {NoCall}]
      /\ \A t \in Streams : Awaits(t)' => Awaits(t) /\ calls'[t] = calls[t]
  BY <1>1 DEF CacheTypeOK, Awaits
<1>5. CacheTypeOK'
  BY <1>1, <1>2, <1>3, <1>4 DEF CacheTypeOK
<1>6. Answering'
  BY <1>1, <1>3, <1>4 DEF Answering
<1>7. ReportedIsForgotten'
  <2> SUFFICES ASSUME NEW k \in DOMAIN cache'
               PROVE  cache'[k].future \notin reported'
    BY DEF ReportedIsForgotten
  <2>1. PICK l \in DOMAIN cache : cache'[k] = cache[l]
    BY <1>3
  <2>2. cache[l].future # calls[s].future
    BY <1>1, <1>3, <2>1 DEF Answering
  <2> QED BY <1>1, <2>1, <2>2 DEF ReportedIsForgotten
<1> QED BY <1>2, <1>5, <1>6, <1>7
        DEF LakeInv, CacheInv, RequestedOnce, Remembered

LEMMA LakeStep ==
  ASSUME LakeInv, [CacheNext]_cacheVars PROVE LakeInv'
<1>1. ASSUME NEW s \in Streams, NEW prefix \in Objects, Call(s, prefix)
      PROVE  LakeInv'
  <2>1. CASE Hit(prefix)
    BY <1>1, <2>1, HitStep DEF Call
  <2>2. CASE ~Hit(prefix)
    BY <1>1, <2>2, MissStep DEF Call
  <2> QED BY <2>1, <2>2
<1>2. ASSUME NEW s \in Streams, Return(s) PROVE LakeInv'
  <2>1. CASE calls[s].future \in Failures
    BY <1>2, <2>1, ErrorStep DEF Return
  <2>2. CASE calls[s].future \notin Failures
    <3>1. cancels' \in 0 .. MaxCancels
      BY <1>2 DEF Return, LakeInv, CacheInv, CacheTypeOK
    <3> QED BY <1>2, <2>2, <3>1, EndStep DEF Return
  <2> QED BY <2>1, <2>2
<1>3. ASSUME NEW s \in Streams, Cancel(s) PROVE LakeInv'
  <2>1. cancels' \in 0 .. MaxCancels
    BY <1>3, LakeCacheAssumption
       DEF Cancel, LakeInv, CacheInv, CacheTypeOK
  <2> QED BY <1>3, <2>1, EndStep DEF Cancel
<1>4. CASE UNCHANGED cacheVars
  BY <1>4 DEF cacheVars, LakeInv, CacheInv, CacheTypeOK, Answering, Entries,
              RequestedOnce, ReportedIsForgotten, Remembered, Failures,
              Awaits, Hit
<1> QED BY <1>1, <1>2, <1>3, <1>4, SettleStep DEF CacheNext

(* The cache keeps to its size, nobody waits for the future of another     *)
(* object, and until a request fails none is asked for again while cached. *)
THEOREM CacheCorrect == CacheSpec => []CacheInv
<1>1. LakeInv => CacheInv
  BY DEF LakeInv
<1> QED BY <1>1, InitLake, LakeStep, PTL DEF CacheSpec

(* An error that a call has returned is not handed out again. *)
THEOREM ErrorsForgotten == CacheSpec => []ReportedIsForgotten
<1>1. LakeInv => ReportedIsForgotten
  BY DEF LakeInv
<1> QED BY <1>1, InitLake, LakeStep, PTL DEF CacheSpec

-----------------------------------------------------------------------------
(***************************************************************************)
(* The backfill, for any chain, any days, any lag and any restarts of the  *)
(* core Indexer.                                                           *)
(***************************************************************************)
(* The heights that the stream has read from the index. *)
Read == Range(stream.yielded) \cup stream.todo

(* Only blocks touch accounts. *)
BlocksTouch == \A r \in Receivers, h \in Missing : <<r, h>> \notin touched

(* A stream starts behind the chain and looks for its day from there on.   *)
StartsBehind ==
  /\ stream.pc # "none" =>
       tip >= StreamsFrom /\ stream.start \in StartHeights
  /\ stream.pc = "probe" => stream.probe >= stream.start

(* The core Indexer leaves no gap behind it, nor behind what it executed,  *)
(* and is behind the chain by no more than it may.                         *)
LeavesNoGap ==
  /\ IndexedFrom .. indexed \subseteq executed
  /\ \A h \in executed : IndexedFrom .. h \subseteq executed
  /\ IndexedFrom .. tip - MaxLag \subseteq executed

(* What is read is of the days before the next one, and what is still to   *)
(* be yielded comes behind what was.                                       *)
ReadsInOrder ==
  /\ stream.pc \in {"none", "probe"} => stream.yielded = <<>>
  /\ stream.pc # "query" => stream.todo = {}
  /\ \A h \in Read : h >= stream.start /\ Touched(h) /\ Day[h] < stream.day
  /\ \A k \in DOMAIN stream.yielded :
       /\ \A h \in stream.todo : stream.yielded[k] < h
       /\ \A j \in 1 .. k - 1 : stream.yielded[j] < stream.yielded[k]

(* Every height that touches an account was read, is of a day still to be  *)
(* read, or, on the last day, comes after all that was.                    *)
Spared(h) ==
  \/ h \in Read
  \/ Day[h] >= stream.day
  \/ Day[h] = Day[Tip] /\ \A g \in Read : g < h

ReadsAll ==
  /\ stream.pc = "probe" =>
       \A h \in stream.start .. stream.probe - 1 :
         Touched(h) => Day[h] = Day[Tip]
  /\ stream.pc = "query" \/ stream.yielded # <<>> =>
       \A h \in stream.start .. tip : Touched(h) => Spared(h)

BackfillIInv ==
  /\ BackfillTypeOK /\ BlocksTouch /\ StartsBehind /\ LeavesNoGap
  /\ ReadsInOrder
  /\ ReadsInTime => ReadsAll

LEMMA LeastHeight ==
  ASSUME NEW T \in SUBSET Nat, T # {}
  PROVE  Min(T) \in T /\ \A n \in T : Min(T) <= n
<1> DEFINE R == {pair \in Nat \X Nat : pair[1] < pair[2]}
<1>1. IsWellFoundedOn(R, Nat)
  BY NatLessThanWellFounded DEF OpToRel
<1> HIDE DEF R
<1>2. PICK n \in T : \A m \in T : ~(<<m, n>> \in R)
  BY <1>1, WFMin
<1>3. \A m \in T : n <= m
  <2> SUFFICES ASSUME NEW m \in T, m < n PROVE FALSE
    OBVIOUS
  <2>1. <<m, n>> \in Nat \X Nat /\ <<m, n>>[1] < <<m, n>>[2]
    OBVIOUS
  <2>2. <<m, n>> \in R
    BY <2>1 DEF R
  <2> QED BY <1>2, <2>2
<1> QED BY <1>3 DEF Min

LEMMA SeqWidens ==
  ASSUME NEW S, NEW T, S \subseteq T, NEW s \in Seq(S)
  PROVE  s \in Seq(T)
<1>1. Len(s) \in Nat /\ s \in [1 .. Len(s) -> T]
  BY LenProperties
<1> QED BY <1>1, SeqDef

LEMMA AppendFacts ==
  ASSUME NEW S, NEW s \in Seq(S), NEW e \in S
  PROVE  /\ Append(s, e) \in Seq(S)
         /\ DOMAIN s = 1 .. Len(s) /\ Len(s) \in Nat
         /\ DOMAIN Append(s, e) = 1 .. Len(s) + 1
         /\ \A k \in 1 .. Len(s) : Append(s, e)[k] = s[k]
         /\ Append(s, e)[Len(s) + 1] = e
  BY AppendProperties

LEMMA RangeGrows ==
  ASSUME NEW s, NEW t, NEW n \in Nat, DOMAIN s = 1 .. n,
         DOMAIN t = 1 .. n + 1, \A k \in 1 .. n : t[k] = s[k]
  PROVE  Range(t) = Range(s) \cup {t[n + 1]}
<1>1. ASSUME NEW x \in Range(s) PROVE x \in Range(t)
  BY DEF Range
<1>2. t[n + 1] \in Range(t)
  BY DEF Range
<1>3. ASSUME NEW x \in Range(t), x # t[n + 1] PROVE x \in Range(s)
  <2>1. PICK k \in 1 .. n + 1 : x = t[k]
    BY DEF Range
  <2>2. k \in 1 .. n
    BY <1>3, <2>1
  <2> QED BY <2>1, <2>2 DEF Range
<1> QED BY <1>1, <1>2, <1>3

(* What the assumptions on the constants are used for. *)
LEMMA BackfillConstants ==
  /\ Tip \in Nat /\ MaxLag \in Nat /\ MaxRetries \in Nat
  /\ Tip > 0 /\ MaxLag > 0 /\ MaxRetries > 0
  /\ \A h \in 1 .. Tip : Day[h] \in Nat
  /\ \A g, h \in 1 .. Tip : g <= h => Day[g] <= Day[h]
  /\ IndexedFrom \in 1 .. Tip /\ MaxRestarts \in Nat
  /\ \A h \in RestartsFrom : h \in 1 .. Tip
  /\ \A h \in StartHeights : h \in 1 .. Tip
  /\ StreamsFrom \in Nat
  BY BackfillAssumption DEF Heights

LEMMA BackfillStart == BackfillInit => BackfillIInv
<1> SUFFICES ASSUME BackfillInit PROVE BackfillIInv
  OBVIOUS
<1>1. BackfillTypeOK
  BY BackfillConstants DEF BackfillInit, BackfillTypeOK, NotStarted
<1>2. BlocksTouch /\ StartsBehind /\ LeavesNoGap
  BY BackfillConstants
  DEF BackfillInit, NotStarted, BlocksTouch, StartsBehind, LeavesNoGap
<1>3. Read = {}
  BY DEF BackfillInit, NotStarted, Read, Range
<1>4. ReadsInOrder /\ ReadsAll
  BY <1>3 DEF BackfillInit, NotStarted, ReadsInOrder, ReadsAll
<1> QED BY <1>1, <1>2, <1>4 DEF BackfillIInv

StreamStates ==
  [pc : {"none", "probe", "query", "ended"},
   start : StartHeights \cup {0}, probe : Nat, tries : 0 .. MaxRetries,
   day : Nat, todo : SUBSET (1 .. tip), yielded : Seq(1 .. tip)]

(* What the stream does leaves the rest alone. *)
LEMMA StreamType ==
  ASSUME BackfillTypeOK, stream' \in StreamStates,
         UNCHANGED <<tip, touched, indexed, executed, restarts>>
  PROVE  BackfillTypeOK'
  BY DEF BackfillTypeOK, StreamStates

LEMMA BackfillType ==
  ASSUME BackfillTypeOK, StartsBehind, [BackfillNext]_backfillVars
  PROVE  BackfillTypeOK'
<1> USE BackfillConstants
<1>0. stream \in StreamStates
  BY DEF BackfillTypeOK, StreamStates
<1>1. CASE Produce
  <2>1. tip' \in 0 .. Tip /\ 1 .. tip \subseteq 1 .. tip'
    BY <1>1 DEF Produce, BackfillTypeOK
  <2>2. touched' \subseteq Receivers \X (1 .. tip')
    BY <1>1, <2>1 DEF Produce, BackfillTypeOK
  <2>3. stream.yielded \in Seq(1 .. tip')
    BY <1>0, <2>1, SeqWidens DEF StreamStates
  <2> QED BY <1>1, <2>1, <2>2, <2>3 DEF Produce, BackfillTypeOK
<1>2. CASE ExecuteNext
  BY <1>2 DEF ExecuteNext, BackfillTypeOK
<1>3. CASE Restart
  BY <1>3 DEF Restart, BackfillTypeOK
<1>4. CASE StartStream
  <2>1. PICK h \in StartHeights :
          stream' = [stream EXCEPT !.pc = "probe", !.start = h, !.probe = h,
                                   !.tries = 1]
    BY <1>4 DEF StartStream
  <2>2. h \in Nat /\ 1 \in 0 .. MaxRetries
    OBVIOUS
  <2>3. stream' \in StreamStates
    BY <1>0, <2>1, <2>2 DEF StreamStates
  <2> QED BY <1>4, <2>3, StreamType DEF StartStream
<1>5. CASE Probe
  <2>1. stream.pc = "probe" /\ stream.probe \in Nat /\ stream.probe >= 1
    BY <1>0, <1>5 DEF Probe, StartsBehind, StreamStates
  <2>2. CASE Exists(stream.probe)
    <3>1. Day[stream.probe] \in Nat
      BY <2>1, <2>2 DEF Exists, BackfillTypeOK
    <3>2. stream' \in StreamStates
      BY <1>0, <1>5, <2>2, <3>1 DEF Probe, StreamStates
    <3> QED BY <1>5, <3>2, StreamType DEF Probe
  <2>3. CASE ~Exists(stream.probe)
    <3>1. ASSUME stream.tries + 1 > MaxRetries PROVE stream' \in StreamStates
      <4>1. stream' = [stream EXCEPT !.pc = "ended"]
        BY <1>5, <2>3, <3>1 DEF Probe
      <4> QED BY <1>0, <4>1 DEF StreamStates
    <3>2. ASSUME ~(stream.tries + 1 > MaxRetries) PROVE stream' \in StreamStates
      <4>1. stream' = [stream EXCEPT !.probe = @ + 1, !.tries = @ + 1]
        BY <1>5, <2>3, <3>2 DEF Probe
      <4>2. stream.probe + 1 \in Nat /\ stream.tries + 1 \in 0 .. MaxRetries
        BY <1>0, <3>2 DEF StreamStates
      <4> QED BY <1>0, <4>1, <4>2 DEF StreamStates
    <3>3. stream' \in StreamStates
      BY <3>1, <3>2
    <3> QED BY <1>5, <3>3, StreamType DEF Probe
  <2> QED BY <2>2, <2>3
<1>6. CASE ReadDay(Listed(stream.day))
  <2>1. Wanted(Listed(stream.day)) \subseteq 1 .. tip
    BY DEF Wanted, Listed, BackfillTypeOK
  <2>2. \/ stream' = [stream EXCEPT !.pc = "ended"]
        \/ stream' = [stream EXCEPT !.day = @ + 1,
                                    !.todo = Wanted(Listed(stream.day))]
    BY <1>6 DEF ReadDay
  <2>3. stream.day + 1 \in Nat
    BY <1>0 DEF StreamStates
  <2>4. stream' \in StreamStates
    BY <1>0, <2>1, <2>2, <2>3 DEF StreamStates
  <2> QED BY <1>6, <2>4, StreamType DEF ReadDay
<1>7. CASE RequestFails
  <2>1. stream' \in StreamStates
    BY <1>0, <1>7 DEF RequestFails, StreamStates
  <2> QED BY <1>7, <2>1, StreamType DEF RequestFails
<1>8. CASE Yield
  <2>1. stream.todo \subseteq 1 .. tip /\ stream.todo # {}
        /\ stream.todo \subseteq Nat
    BY <1>0, <1>8 DEF Yield, StreamStates, BackfillTypeOK
  <2>2. Min(stream.todo) \in 1 .. tip
    BY <2>1, LeastHeight
  <2>3. Append(stream.yielded, Min(stream.todo)) \in Seq(1 .. tip)
    BY <1>0, <2>2, AppendFacts DEF StreamStates
  <2>4. stream' \in StreamStates
    BY <1>0, <1>8, <2>2, <2>3 DEF Yield, StreamStates
  <2> QED BY <1>8, <2>4, StreamType DEF Yield
<1>9. CASE UNCHANGED backfillVars
  BY <1>0, <1>9, StreamType DEF backfillVars
<1> QED
  BY <1>1, <1>2, <1>3, <1>4, <1>5, <1>6, <1>7, <1>8, <1>9 DEF BackfillNext

LEMMA StartsBehindNext ==
  ASSUME BackfillTypeOK, StartsBehind, [BackfillNext]_backfillVars
  PROVE  StartsBehind'
<1> USE BackfillConstants DEF BackfillTypeOK, StartsBehind
<1>1. CASE Produce
  BY <1>1 DEF Produce
<1>2. CASE ExecuteNext \/ Restart
  BY <1>2 DEF ExecuteNext, Restart
<1>3. CASE StartStream
  BY <1>3 DEF StartStream
<1>4. CASE Probe
  BY <1>4 DEF Probe
<1>5. CASE ReadDay(Listed(stream.day)) \/ RequestFails \/ Yield
  BY <1>5 DEF ReadDay, RequestFails, Yield
<1>6. CASE UNCHANGED backfillVars
  BY <1>6 DEF backfillVars
<1> QED BY <1>1, <1>2, <1>3, <1>4, <1>5, <1>6 DEF BackfillNext

LEMMA BlocksTouchNext ==
  ASSUME BackfillTypeOK, BlocksTouch, [BackfillNext]_backfillVars
  PROVE  BlocksTouch'
<1>1. CASE Produce
  <2> SUFFICES ASSUME NEW r \in Receivers, NEW h \in Missing,
                      <<r, h>> \in touched'
               PROVE  FALSE
    BY DEF BlocksTouch
  <2>1. PICK receivers \in SUBSET Receivers :
          /\ tip + 1 \in Missing => receivers = {}
          /\ touched' = touched \cup receivers \X {tip + 1}
    BY <1>1 DEF Produce
  <2>2. <<r, h>> \in receivers \X {tip + 1}
    BY <2>1 DEF BlocksTouch
  <2> QED BY <2>1, <2>2
<1>2. CASE UNCHANGED touched
  BY <1>2 DEF BlocksTouch
<1> QED
  BY <1>1, <1>2 DEF BackfillNext, backfillVars, ExecuteNext, Restart,
     StartStream, Probe, ReadDay, RequestFails, Yield

LEMMA LeavesNoGapNext ==
  ASSUME BackfillTypeOK, LeavesNoGap, [BackfillNext]_backfillVars
  PROVE  LeavesNoGap'
<1> USE BackfillConstants DEF BackfillTypeOK, LeavesNoGap
<1>1. CASE Produce
  BY <1>1 DEF Produce
<1>2. CASE ExecuteNext
  BY <1>2 DEF ExecuteNext
<1>3. CASE Restart
  BY <1>3 DEF Restart
<1>4. CASE UNCHANGED <<tip, indexed, executed>>
  BY <1>4
<1> QED
  BY <1>1, <1>2, <1>3, <1>4 DEF BackfillNext, backfillVars,
     StartStream, Probe, ReadDay, RequestFails, Yield

(* What is yielded comes from what is to be yielded: no other step reads.  *)
LEMMA ReadFacts ==
  ASSUME BackfillTypeOK
  PROVE  /\ Read \subseteq 1 .. tip
         /\ DOMAIN stream.yielded = 1 .. Len(stream.yielded)
         /\ Len(stream.yielded) \in Nat
         /\ \A k \in DOMAIN stream.yielded : stream.yielded[k] \in 1 .. tip
         /\ stream.todo \subseteq 1 .. tip
         /\ stream.day \in Nat /\ tip \in Nat /\ stream.probe \in Nat
         /\ \A h \in 1 .. tip : h \in 1 .. Tip /\ Day[h] \in Nat
<1>1. /\ stream.yielded \in Seq(1 .. tip) /\ stream.todo \subseteq 1 .. tip
      /\ stream.day \in Nat /\ tip \in Nat /\ tip <= Tip
      /\ stream.probe \in Nat
  BY BackfillConstants DEF BackfillTypeOK
<1>2. /\ DOMAIN stream.yielded = 1 .. Len(stream.yielded)
      /\ Len(stream.yielded) \in Nat
      /\ \A k \in DOMAIN stream.yielded : stream.yielded[k] \in 1 .. tip
  BY <1>1
<1>3. Read \subseteq 1 .. tip
  BY <1>1, <1>2 DEF Read, Range
<1> QED BY <1>1, <1>2, <1>3, BackfillConstants

(* The step that yields. *)
LEMMA YieldFacts ==
  ASSUME BackfillTypeOK, Yield
  PROVE  LET h == Min(stream.todo) IN
         /\ h \in stream.todo /\ \A g \in stream.todo : h <= g
         /\ stream'.todo = stream.todo \ {h}
         /\ stream'.yielded = Append(stream.yielded, h)
         /\ stream'.pc = "query" /\ stream.pc = "query"
         /\ stream'.start = stream.start /\ stream'.day = stream.day
         /\ Read' = Read
         /\ UNCHANGED <<tip, touched>>
<1> DEFINE h == Min(stream.todo)
<1>1. stream.todo \in SUBSET Nat /\ stream.todo # {}
  BY ReadFacts DEF Yield
<1>2. h \in stream.todo /\ \A g \in stream.todo : h <= g
  BY <1>1, LeastHeight
<1>3. stream \in StreamStates
  BY DEF BackfillTypeOK, StreamStates
<1> HIDE DEF h
<1>4. stream' = [stream EXCEPT !.todo = @ \ {h}, !.yielded = Append(@, h)]
  BY DEF Yield, h
<1>5. /\ stream'.todo = stream.todo \ {h}
      /\ stream'.yielded = Append(stream.yielded, h)
      /\ stream'.pc = stream.pc
      /\ stream'.start = stream.start /\ stream'.day = stream.day
  BY <1>3, <1>4 DEF StreamStates
<1>6. Range(stream'.yielded) = Range(stream.yielded) \cup {h}
  <2>1. stream.yielded \in Seq(1 .. tip) /\ h \in 1 .. tip
    BY <1>2, <1>3 DEF StreamStates
  <2>2. /\ DOMAIN stream.yielded = 1 .. Len(stream.yielded)
        /\ Len(stream.yielded) \in Nat
        /\ DOMAIN stream'.yielded = 1 .. Len(stream.yielded) + 1
        /\ \A k \in 1 .. Len(stream.yielded) :
             stream'.yielded[k] = stream.yielded[k]
        /\ stream'.yielded[Len(stream.yielded) + 1] = h
    BY <1>5, <2>1, AppendFacts
  <2> DEFINE s == stream.yielded
             t == stream'.yielded
             n == Len(stream.yielded)
  <2>3. n \in Nat /\ DOMAIN s = 1 .. n /\ DOMAIN t = 1 .. n + 1
        /\ (\A k \in 1 .. n : t[k] = s[k]) /\ t[n + 1] = h
    BY <2>2
  <2> HIDE DEF s, t, n
  <2>4. Range(t) = Range(s) \cup {t[n + 1]}
    BY <2>3, RangeGrows
  <2> QED BY <2>3, <2>4 DEF s, t
<1>7. Read' = Read
  BY <1>2, <1>5, <1>6 DEF Read
<1> QED BY <1>2, <1>5, <1>7 DEF Yield, h

(* What no step but a read and a yield changes. *)
LEMMA OtherSteps ==
  ASSUME BackfillTypeOK,
         \/ Produce \/ ExecuteNext \/ Restart \/ StartStream \/ Probe
         \/ RequestFails \/ UNCHANGED backfillVars
  PROVE  /\ UNCHANGED <<stream.yielded, stream.todo, Read>>
         /\ stream.pc \notin {"none", "probe"} =>
              UNCHANGED <<stream.start, stream.day>>
         /\ \A h : Touched(h) => Touched(h)'
<1>0. stream \in StreamStates
  BY DEF BackfillTypeOK, StreamStates
<1>1. UNCHANGED <<stream.yielded, stream.todo>>
  BY <1>0 DEF Produce, ExecuteNext, Restart, StartStream, Probe, RequestFails,
     backfillVars, StreamStates
<1>2. stream.pc \notin {"none", "probe"} =>
        UNCHANGED <<stream.start, stream.day>>
  BY <1>0 DEF Produce, ExecuteNext, Restart, StartStream, Probe, RequestFails,
     backfillVars, StreamStates
<1>3. touched \subseteq touched'
  BY DEF Produce, ExecuteNext, Restart, StartStream, Probe, RequestFails,
     backfillVars
<1> QED BY <1>1, <1>2, <1>3 DEF Read, Touched

LEMMA ReadsInOrderNext ==
  ASSUME BackfillTypeOK, ReadsInOrder, [BackfillNext]_backfillVars
  PROVE  ReadsInOrder'
<1> USE ReadFacts
<1>0. stream \in StreamStates
  BY DEF BackfillTypeOK, StreamStates
<1>1. CASE ReadDay(Listed(stream.day))
  <2>1. stream.todo = {} /\ stream.pc = "query"
        /\ UNCHANGED <<tip, touched>>
    BY <1>1 DEF ReadDay
  <2>2. CASE stream.day > Day[tip]
    <3>1. stream' = [stream EXCEPT !.pc = "ended"]
      BY <1>1, <2>2 DEF ReadDay
    <3>2. stream'.pc = "ended"
          /\ UNCHANGED <<stream.yielded, stream.todo, stream.start, stream.day>>
      BY <1>0, <3>1 DEF StreamStates
    <3> QED BY <2>1, <3>2 DEF ReadsInOrder, Read, Touched
  <2>3. CASE ~(stream.day > Day[tip])
    <3> DEFINE new == Wanted(Listed(stream.day))
    <3>1. stream' = [stream EXCEPT !.day = @ + 1, !.todo = new]
      BY <1>1, <2>3 DEF ReadDay
    <3>2. \A h \in new : h \in 1 .. tip /\ h >= stream.start /\ Touched(h)
                         /\ Day[h] = stream.day
      BY DEF Wanted, Listed, BackfillTypeOK
    <3> HIDE DEF new
    <3>3. /\ stream'.pc = "query" /\ stream'.todo = new
          /\ stream'.day = stream.day + 1
          /\ UNCHANGED <<stream.yielded, stream.start>>
      BY <1>0, <2>1, <3>1 DEF StreamStates
    <3>4. Read' = Read \cup new
      BY <2>1, <3>3 DEF Read
    <3>5. \A h : Touched(h)' = Touched(h)
      BY <2>1 DEF Touched
    <3>6. \A h \in Read' : h >= stream'.start /\ Touched(h)'
                           /\ Day[h] < stream'.day
      BY <3>2, <3>3, <3>4, <3>5 DEF ReadsInOrder
    <3>7. \A k \in DOMAIN stream.yielded, h \in new : stream.yielded[k] < h
      <4> SUFFICES ASSUME NEW k \in DOMAIN stream.yielded, NEW h \in new
                   PROVE  stream.yielded[k] < h
        OBVIOUS
      <4>1. stream.yielded[k] \in Read
        BY DEF Read, Range
      <4>2. Day[stream.yielded[k]] < Day[h]
        BY <3>2, <4>1 DEF ReadsInOrder
      <4> QED BY <3>2, <4>2, BackfillConstants
    <3> QED BY <3>3, <3>6, <3>7 DEF ReadsInOrder
  <2> QED BY <2>2, <2>3
<1>2. CASE Yield
  <2> DEFINE h == Min(stream.todo)
  <2>1. /\ h \in stream.todo /\ \A g \in stream.todo : h <= g
        /\ stream'.todo = stream.todo \ {h}
        /\ stream'.yielded = Append(stream.yielded, h)
        /\ stream'.pc = "query"
        /\ stream'.start = stream.start /\ stream'.day = stream.day
        /\ Read' = Read
        /\ UNCHANGED <<tip, touched>>
    BY <1>2, YieldFacts
  <2> HIDE DEF h
  <2>2. DOMAIN stream'.yielded = 1 .. Len(stream.yielded) + 1
        /\ stream'.yielded[Len(stream.yielded) + 1] = h
        /\ \A k \in 1 .. Len(stream.yielded) :
             stream'.yielded[k] = stream.yielded[k]
    BY <1>0, <2>1, AppendFacts DEF StreamStates
  <2>3. \A g \in Read' : g >= stream'.start /\ Touched(g)' /\ Day[g] < stream'.day
    BY <2>1 DEF ReadsInOrder, Touched
  <2>4. ASSUME NEW k \in DOMAIN stream'.yielded, NEW g \in stream'.todo
        PROVE  stream'.yielded[k] < g
    <3>1. g \in stream.todo /\ g \in 1 .. tip /\ h \in 1 .. tip /\ h < g
      BY <2>1
    <3>2. CASE k = Len(stream.yielded) + 1
      BY <2>2, <3>1, <3>2
    <3>3. CASE k \in 1 .. Len(stream.yielded)
      BY <2>2, <3>1, <3>3 DEF ReadsInOrder
    <3> QED BY <2>2, <3>2, <3>3
  <2>5. ASSUME NEW k \in DOMAIN stream'.yielded, NEW j \in 1 .. k - 1
        PROVE  stream'.yielded[j] < stream'.yielded[k]
    <3>1. j \in 1 .. Len(stream.yielded)
          /\ stream'.yielded[j] = stream.yielded[j]
      BY <2>2
    <3>2. CASE k = Len(stream.yielded) + 1
      BY <2>1, <2>2, <3>1, <3>2 DEF ReadsInOrder
    <3>3. CASE k \in 1 .. Len(stream.yielded)
      BY <2>2, <3>1, <3>3 DEF ReadsInOrder
    <3> QED BY <2>2, <3>2, <3>3
  <2> QED BY <2>1, <2>3, <2>4, <2>5 DEF ReadsInOrder
<1>3. CASE StartStream \/ Probe
  <2>1. stream.pc \in {"none", "probe"} /\ stream'.pc # "none"
    BY <1>0, <1>3 DEF StartStream, Probe, StreamStates
  <2>2. stream.yielded = <<>> /\ stream.todo = {}
    BY <2>1 DEF ReadsInOrder
  <2>3. stream'.yielded = <<>> /\ stream'.todo = {}
    BY <1>3, <2>2, OtherSteps
  <2>4. Read' = {} /\ DOMAIN stream'.yielded = {}
    BY <2>3 DEF Read, Range
  <2> QED BY <2>3, <2>4 DEF ReadsInOrder
<1>4. CASE Produce \/ ExecuteNext \/ Restart \/ RequestFails
           \/ UNCHANGED backfillVars
  <2>1. /\ UNCHANGED <<stream.yielded, stream.todo, Read>>
        /\ \A h : Touched(h) => Touched(h)'
    BY <1>4, OtherSteps
  <2>2. /\ UNCHANGED <<stream.start, stream.day>>
        /\ \/ UNCHANGED stream.pc
           \/ stream.todo = {} /\ stream'.pc = "ended"
    BY <1>0, <1>4 DEF Produce, ExecuteNext, Restart, RequestFails, backfillVars,
       StreamStates
  <2> QED BY <2>1, <2>2 DEF ReadsInOrder
<1> QED BY <1>1, <1>2, <1>3, <1>4 DEF BackfillNext

(* A height that was not executed when the stream asks is of the last day  *)
(* and comes after all that was executed.                                  *)
LEMMA NotExecuted ==
  ASSUME BackfillTypeOK, StartsBehind, LeavesNoGap, ReadsInTime,
         stream.pc # "none",
         NEW h \in stream.start .. tip, h \notin executed
  PROVE  Day[h] = Day[Tip] /\ \A g \in executed : g < h
<1>1. /\ tip \in Nat /\ tip <= Tip /\ executed \subseteq 1 .. tip
      /\ tip >= StreamsFrom /\ stream.start \in StartHeights
      /\ stream.start \in 1 .. Tip
  BY BackfillConstants DEF BackfillTypeOK, StartsBehind
<1>2. IndexedFrom <= h /\ h \in 1 .. tip
  BY <1>1, BackfillConstants DEF ReadsInTime
<1>3. h > tip - MaxLag
  BY <1>1, <1>2, BackfillConstants DEF LeavesNoGap
<1>4. h \in Heights /\ h > StreamsFrom - MaxLag
  BY <1>1, <1>2, <1>3, BackfillConstants DEF Heights
<1>5. ASSUME NEW g \in executed, ~(g < h) PROVE FALSE
  <2>1. h \in IndexedFrom .. g
    BY <1>1, <1>2, <1>5, BackfillConstants
  <2> QED BY <2>1 DEF LeavesNoGap
<1> QED BY <1>4, <1>5 DEF ReadsInTime

(* A height that no stream could have seen is of the last day, and comes   *)
(* after all that was read.                                                *)
LEMMA NotProduced ==
  ASSUME BackfillTypeOK, StartsBehind, ReadsInTime, stream.pc # "none",
         tip < Tip
  PROVE  Day[tip + 1] = Day[Tip] /\ \A g \in Read : g < tip + 1
<1>1. tip \in Nat /\ tip + 1 > StreamsFrom - MaxLag /\ tip + 1 \in Heights
  BY BackfillConstants DEF BackfillTypeOK, StartsBehind, Heights
<1>2. \A g \in Read : g < tip + 1
  BY <1>1, ReadFacts
<1> QED BY <1>1, <1>2 DEF ReadsInTime

LEMMA ReadsAllNext ==
  ASSUME BackfillTypeOK, BlocksTouch, StartsBehind, LeavesNoGap, ReadsInOrder,
         ReadsInTime, ReadsAll, [BackfillNext]_backfillVars
  PROVE  ReadsAll'
<1> USE ReadFacts
<1>0. stream \in StreamStates
  BY DEF BackfillTypeOK, StreamStates
<1>a. stream.pc # "none" => stream.start \in 1 .. Tip
  BY BackfillConstants DEF StartsBehind
<1>b. \A g, h \in 1 .. Tip : g <= h => Day[g] <= Day[h]
  BY BackfillConstants
<1>1. CASE ReadDay(Listed(stream.day))
  <2>1. stream.todo = {} /\ stream.pc = "query"
        /\ UNCHANGED <<tip, touched, executed>>
    BY <1>1 DEF ReadDay
  <2>2. CASE stream.day > Day[tip]
    <3>1. stream' = [stream EXCEPT !.pc = "ended"]
      BY <1>1, <2>2 DEF ReadDay
    <3>2. stream'.pc = "ended"
          /\ UNCHANGED <<stream.yielded, stream.todo, stream.start, stream.day>>
      BY <1>0, <3>1 DEF StreamStates
    <3> QED BY <2>1, <3>2 DEF ReadsAll, Spared, Read, Touched
  <2>3. CASE ~(stream.day > Day[tip])
    <3> DEFINE new == Wanted(Listed(stream.day))
    <3>1. stream' = [stream EXCEPT !.day = @ + 1, !.todo = new]
      BY <1>1, <2>3 DEF ReadDay
    <3>2. \A h \in 1 .. tip :
            h \in new <=> /\ h \in executed /\ Day[h] = stream.day
                          /\ Touched(h) /\ h >= stream.start
      BY DEF Wanted, Listed
    <3>3. new \subseteq executed /\ new \subseteq 1 .. tip
      BY DEF Wanted, Listed, BackfillTypeOK
    <3> HIDE DEF new
    <3>4. /\ stream'.pc = "query" /\ stream'.todo = new
          /\ stream'.day = stream.day + 1
          /\ UNCHANGED <<stream.yielded, stream.start>>
      BY <1>0, <2>1, <3>1 DEF StreamStates
    <3>5. Read' = Read \cup new
      BY <2>1, <3>4 DEF Read
    <3>6. SUFFICES ASSUME NEW h \in stream.start .. tip, Touched(h)
                   PROVE  Spared(h)'
      BY <2>1, <3>4 DEF ReadsAll, Touched
    <3>7. h \in 1 .. tip /\ h \in 1 .. Tip /\ Day[h] \in Nat
          /\ tip \in 1 .. Tip /\ Day[tip] <= Day[Tip] /\ stream.day \in Nat
      BY <1>a, <1>b, <2>1, BackfillConstants
    <3>8. CASE h \in Read \/ Day[h] >= stream.day + 1
      BY <3>4, <3>5, <3>8 DEF Spared
    <3>9. CASE Day[h] < stream.day /\ h \notin Read
      <4>1. Day[h] = Day[Tip]
        BY <2>1, <3>6, <3>7, <3>9 DEF ReadsAll, Spared
      <4>2. Day[tip] \in Nat /\ Day[Tip] \in Nat
        BY <3>7, BackfillConstants
      <4> QED BY <2>3, <3>7, <3>9, <4>1, <4>2
    <3>10. CASE Day[h] = stream.day /\ h \in executed
      <4>1. h \in new
        BY <3>2, <3>6, <3>7, <3>10
      <4> QED BY <3>5, <4>1 DEF Spared
    <3>11. CASE Day[h] = stream.day /\ h \notin executed
      <4>1. Day[h] = Day[Tip] /\ \A g \in executed : g < h
        BY <2>1, <3>11, NotExecuted
      <4>2. ASSUME NEW g \in Read, ~(g < h) PROVE FALSE
        <5>1. g \in 1 .. tip /\ g \in 1 .. Tip /\ Day[g] \in Nat
              /\ Day[g] < stream.day
          BY DEF ReadsInOrder
        <5>2. Day[h] <= Day[g]
          BY <1>b, <3>7, <4>2, <5>1
        <5> QED BY <3>7, <3>11, <5>1, <5>2
      <4> QED BY <3>3, <3>5, <4>1, <4>2 DEF Spared
    <3> QED BY <3>7, <3>8, <3>9, <3>10, <3>11
  <2> QED BY <2>2, <2>3
<1>2. CASE Yield
  <2>1. /\ stream'.pc = "query" /\ stream.pc = "query"
        /\ stream'.start = stream.start /\ stream'.day = stream.day
        /\ Read' = Read /\ UNCHANGED <<tip, touched>>
    BY <1>2, YieldFacts
  <2> QED BY <2>1 DEF ReadsAll, Spared, Touched
<1>3. CASE StartStream
  <2>1. stream.yielded = <<>> /\ stream.pc = "none"
    BY <1>3 DEF StartStream, ReadsInOrder
  <2>2. PICK h \in StartHeights :
          stream' = [stream EXCEPT !.pc = "probe", !.start = h, !.probe = h,
                                   !.tries = 1]
    BY <1>3 DEF StartStream
  <2>3. h \in Nat /\ stream'.pc = "probe" /\ stream'.start = h /\ stream'.probe = h
        /\ stream'.yielded = <<>>
    BY <1>0, <2>1, <2>2, BackfillConstants DEF StreamStates
  <2> QED BY <2>3 DEF ReadsAll
<1>4. CASE Probe
  <2>1. stream.yielded = <<>> /\ stream.todo = {} /\ stream.pc = "probe"
        /\ UNCHANGED <<tip, touched>>
    BY <1>4 DEF Probe, ReadsInOrder
  <2>2. stream'.yielded = <<>> /\ stream'.todo = {}
        /\ stream'.start = stream.start
    BY <1>0, <1>4, <2>1 DEF Probe, StreamStates
  <2>3. Read' = {}
    BY <2>2 DEF Read, Range
  <2>4. stream.probe >= stream.start /\ stream.start \in Nat
    BY <1>a, <2>1 DEF StartsBehind
  <2>5. CASE Exists(stream.probe)
    <3>1. stream'.pc = "query" /\ stream'.day = Day[stream.probe]
      BY <1>0, <1>4, <2>5 DEF Probe, StreamStates
    <3>2. SUFFICES ASSUME NEW h \in stream.start .. tip, Touched(h)
                   PROVE  Spared(h)'
      BY <2>1, <2>2, <3>1 DEF ReadsAll, Touched
    <3>3. h \in 1 .. Tip /\ stream.probe \in 1 .. Tip
      BY <1>a, <2>1, <2>4, <2>5 DEF Exists
    <3>4. CASE h >= stream.probe
      <4>1. Day[h] >= Day[stream.probe]
        BY <1>b, <3>3, <3>4, BackfillConstants
      <4> QED BY <3>1, <4>1 DEF Spared
    <3>5. CASE h < stream.probe
      <4>1. h \in stream.start .. stream.probe - 1
        BY <2>4, <3>5
      <4>2. Day[h] = Day[Tip]
        BY <2>1, <3>2, <4>1 DEF ReadsAll
      <4> QED BY <2>3, <4>2 DEF Spared
    <3> QED BY <2>4, <3>3, <3>4, <3>5
  <2>6. CASE ~Exists(stream.probe) /\ stream.tries + 1 > MaxRetries
    <3>1. stream' = [stream EXCEPT !.pc = "ended"]
      BY <1>4, <2>6 DEF Probe
    <3>2. stream'.pc = "ended"
      BY <1>0, <3>1 DEF StreamStates
    <3> QED BY <2>2, <3>2 DEF ReadsAll
  <2>7. CASE ~Exists(stream.probe) /\ ~(stream.tries + 1 > MaxRetries)
    <3>1. stream' = [stream EXCEPT !.probe = @ + 1, !.tries = @ + 1]
      BY <1>4, <2>7 DEF Probe
    <3>2. stream'.pc = "probe" /\ stream'.probe = stream.probe + 1
      BY <1>0, <2>1, <3>1 DEF StreamStates
    <3>3. ~Touched(stream.probe)
      <4>1. stream.probe > tip \/ stream.probe \in Missing
        BY <2>7 DEF Exists
      <4>2. ASSUME NEW r \in Receivers, <<r, stream.probe>> \in touched
            PROVE  FALSE
        <5>1. stream.probe \in 1 .. tip
          BY <4>2 DEF BackfillTypeOK
        <5> QED BY <4>1, <4>2, <5>1 DEF BlocksTouch
      <4> QED BY <4>2 DEF Touched
    <3>4. ASSUME NEW h \in stream'.start .. stream'.probe - 1, Touched(h)'
          PROVE  Day[h] = Day[Tip]
      <4>1. Touched(h)
        BY <2>1, <3>4 DEF Touched
      <4>2. h # stream.probe
        BY <3>3, <4>1
      <4>3. h \in stream.start .. stream.probe - 1
        BY <2>2, <2>4, <3>2, <4>2
      <4> QED BY <2>1, <4>1, <4>3 DEF ReadsAll
    <3> QED BY <2>2, <3>2, <3>4 DEF ReadsAll
  <2> QED BY <2>5, <2>6, <2>7
<1>5. CASE Produce
  <2>1. UNCHANGED stream /\ tip' = tip + 1 /\ tip < Tip
    BY <1>5 DEF Produce
  <2>2. Read' = Read
    BY <2>1 DEF Read
  <2>3. \A h \in 1 .. tip : Touched(h)' => Touched(h)
    BY <1>5 DEF Produce, Touched
  <2>4. ASSUME NEW h \in Nat, h > tip + 1 PROVE ~Touched(h)'
    <3>1. ASSUME NEW r \in Receivers, <<r, h>> \in touched' PROVE FALSE
      <4>1. <<r, h>> \in touched \/ h = tip + 1
        BY <1>5, <3>1 DEF Produce
      <4>2. h \in 1 .. tip \/ h = tip + 1
        BY <4>1 DEF BackfillTypeOK
      <4> QED BY <2>4, <4>2
    <3> QED BY <3>1 DEF Touched
  <2>5. ASSUME stream.pc = "probe",
               NEW h \in stream.start .. stream.probe - 1, Touched(h)'
        PROVE  Day[h] = Day[Tip]
    <3>1. h \in Nat /\ h >= 1
      BY <1>a, <2>5
    <3>2. CASE h \in 1 .. tip
      BY <2>3, <2>5, <3>2 DEF ReadsAll
    <3>3. CASE h = tip + 1
      BY <2>1, <2>5, <3>3, NotProduced
    <3> QED BY <2>4, <2>5, <3>1, <3>2, <3>3
  <2>6. ASSUME stream.pc = "query" \/ stream.yielded # <<>>,
               NEW h \in stream.start .. tip + 1, Touched(h)'
        PROVE  Spared(h)'
    <3>1. stream.pc # "none" /\ stream.start \in 1 .. Tip
      BY <1>a, <2>6 DEF ReadsInOrder
    <3>2. CASE h \in stream.start .. tip
      BY <2>1, <2>2, <2>3, <2>6, <3>1, <3>2 DEF ReadsAll, Spared
    <3>3. CASE h = tip + 1
      BY <2>1, <2>2, <3>1, <3>3, NotProduced DEF Spared
    <3> QED BY <3>1, <3>2, <3>3
  <2> QED BY <2>1, <2>5, <2>6 DEF ReadsAll
<1>6. CASE ExecuteNext \/ Restart \/ UNCHANGED backfillVars
  <2>1. UNCHANGED <<stream, tip, touched>>
    BY <1>6 DEF ExecuteNext, Restart, backfillVars
  <2> QED BY <2>1 DEF ReadsAll, Spared, Read, Touched
<1>7. CASE RequestFails
  <2>1. stream' = [stream EXCEPT !.pc = "ended"] /\ UNCHANGED <<tip, touched>>
    BY <1>7 DEF RequestFails
  <2>2. stream'.pc = "ended"
        /\ UNCHANGED <<stream.yielded, stream.todo, stream.start, stream.day>>
    BY <1>0, <2>1 DEF StreamStates
  <2> QED BY <2>1, <2>2 DEF ReadsAll, Spared, Read, Touched
<1> QED BY <1>1, <1>2, <1>3, <1>4, <1>5, <1>6, <1>7 DEF BackfillNext

LEMMA BackfillIInvNext ==
  BackfillIInv /\ [BackfillNext]_backfillVars => BackfillIInv'
  BY BackfillType, BlocksTouchNext, StartsBehindNext, LeavesNoGapNext,
     ReadsInOrderNext, ReadsAllNext DEF BackfillIInv, ReadsInTime

LEMMA BackfillInvFollows == BackfillIInv => BackfillInv
<1> SUFFICES ASSUME BackfillIInv PROVE BackfillInv
  OBVIOUS
<1>1. BackfillTypeOK /\ StartsBehind /\ ReadsInOrder
  BY DEF BackfillIInv
<1> USE <1>1, ReadFacts
<1>2. \A k \in DOMAIN stream.yielded : stream.yielded[k] \in Read
  BY DEF Read, Range
<1>3. YieldsInOrder
  BY <1>2 DEF YieldsInOrder, ReadsInOrder
<1>4. BackfillSkipsNothing
  <2> SUFFICES ASSUME ReadsInTime,
                      NEW h \in stream.start .. tip, Touched(h),
                      NEW g \in Range(stream.yielded), h < g
               PROVE  h \in Range(stream.yielded)
    BY DEF BackfillSkipsNothing
  <2>1. stream.yielded # <<>> /\ g \in Read
    BY DEF Range, Read
  <2>2. stream.start \in 1 .. Tip
    BY <2>1, BackfillConstants DEF StartsBehind, ReadsInOrder
  <2>3. h \in 1 .. Tip /\ g \in 1 .. Tip /\ g \in Nat /\ h \in Nat
    BY <2>1, <2>2
  <2>4. Spared(h)
    BY <2>1 DEF BackfillIInv, ReadsAll
  <2>5. Day[h] <= Day[g] /\ Day[g] < stream.day
        /\ Day[h] \in Nat /\ Day[g] \in Nat
    BY <2>1, <2>3, BackfillConstants DEF ReadsInOrder
  <2>6. h \in Read
    BY <2>1, <2>3, <2>4, <2>5 DEF Spared
  <2>7. h \notin stream.todo
    <3>1. PICK k \in DOMAIN stream.yielded : stream.yielded[k] = g
      BY DEF Range
    <3> QED BY <2>3, <3>1 DEF ReadsInOrder
  <2> QED BY <2>6, <2>7 DEF Read
<1> QED BY <1>3, <1>4 DEF BackfillInv

(* What a stream has yielded touches its accounts, comes in the order of   *)
(* the chain, and leaves out nothing before its last height.               *)
THEOREM BackfillCorrect == BackfillSpec => []BackfillInv
<1>1. BackfillSpec => []BackfillIInv
  BY BackfillStart, BackfillIInvNext, PTL DEF BackfillSpec
<1> QED BY <1>1, BackfillInvFollows, PTL

-----------------------------------------------------------------------------
(***************************************************************************)
(* The codec of the index, for every bitmap: what the recursive functions  *)
(* of the model compute, that the decoder finds what was coded, whether a  *)
(* row was coded at once or extended in place, and that merging unites.    *)
(***************************************************************************)
LEMMA LeastNat ==
  ASSUME NEW T \in SUBSET Nat, T # {}
  PROVE  \E n \in T : \A m \in T : n <= m
BY LeastHeight

(* The function that f defines by recursion over the natural numbers. *)
Recurs(g, a, f) ==
  g[0] = a /\ \A n \in Nat : g[n + 1] = f[<<n + 1, g[n]>>]

(* There is one, whatever it begins with and goes on by.                   *)
LEMMA Recursion ==
  ASSUME NEW V, NEW a \in V, NEW f \in [Nat \X V -> V]
  PROVE  \E g \in [Nat -> V] : Recurs(g, a, f)
<1> DEFINE Begins(n) ==
      {h \in [0 .. n -> V] :
         h[0] = a /\ \A k \in 0 .. n - 1 : h[k + 1] = f[<<k + 1, h[k]>>]}
<1>1. ASSUME NEW n \in Nat PROVE Begins(n) # {}
  <2> DEFINE T == {m \in Nat : Begins(m) = {}}
  <2> SUFFICES ASSUME T # {} PROVE FALSE
    BY <1>1
  <2>1. PICK m \in T : \A k \in T : m <= k
    BY LeastNat
  <2>2. CASE m = 0
    <3>1. [k \in 0 .. 0 |-> a] \in Begins(0)
      OBVIOUS
    <3> QED BY <3>1, <2>2
  <2>3. CASE m > 0
    <3>1. m - 1 \in Nat /\ ~(m - 1 \in T)
      <4>1. m \in Nat
        OBVIOUS
      <4> HIDE DEF T
      <4> QED BY <4>1, <2>1, <2>3
    <3>2. PICK h : h \in Begins(m - 1)
      <4> HIDE DEF Begins
      <4> QED BY <3>1
    <3> DEFINE e == [k \in 0 .. m |-> IF k = m THEN f[<<m, h[m - 1]>>] ELSE h[k]]
    <3>3. e \in [0 .. m -> V]
      <4>1. h \in [0 .. m - 1 -> V]
        BY <3>2
      <4>2. h[m - 1] \in V
        BY <4>1, <3>1
      <4>3. f[<<m, h[m - 1]>>] \in V
        BY <4>2
      <4> QED BY <4>1, <4>3
    <3>4. ASSUME NEW k \in 0 .. m - 1 PROVE e[k + 1] = f[<<k + 1, e[k]>>]
      <4>1. e[k] = h[k]
        OBVIOUS
      <4>2. CASE k = m - 1
        <5>1. k + 1 = m
          BY <4>2
        <5>2. e[k + 1] = f[<<m, h[m - 1]>>]
          BY <5>1
        <5> QED BY <5>1, <5>2, <4>1, <4>2
      <4>3. CASE k # m - 1
        <5>1. k \in 0 .. (m - 1) - 1 /\ k + 1 \in 0 .. m /\ k + 1 # m
          BY <4>3
        <5>2. h[k + 1] = f[<<k + 1, h[k]>>]
          BY <5>1, <3>2
        <5>3. e[k + 1] = h[k + 1]
          BY <5>1
        <5> QED BY <5>2, <5>3, <4>1
      <4> QED BY <4>2, <4>3
    <3>5. e[0] = a
      BY <3>2, <2>3
    <3>6. e \in Begins(m)
      <4> HIDE DEF e
      <4> QED BY <3>3, <3>4, <3>5
    <3> QED BY <3>6
  <2> QED BY <2>2, <2>3
<1>2. ASSUME NEW m \in Nat, NEW n \in Nat, NEW h \in Begins(m),
             NEW e \in Begins(n), NEW k \in Nat, k <= m, k <= n
      PROVE  h[k] = e[k]
  <2> DEFINE T == {l \in Nat : l <= m /\ l <= n /\ h[l] # e[l]}
  <2> SUFFICES ASSUME T # {} PROVE FALSE
    BY <1>2
  <2>1. PICK l \in T : \A i \in T : l <= i
    BY LeastNat
  <2>2. l # 0
    BY <1>2
  <2>3. l - 1 \in Nat /\ ~(l - 1 \in T)
    BY <2>1, <2>2
  <2>4. h[l - 1] = e[l - 1]
    BY <2>3
  <2>5. h[(l - 1) + 1] = f[<<(l - 1) + 1, h[l - 1]>>]
    <3>1. l - 1 \in 0 .. m - 1
      BY <2>3
    <3> QED BY <3>1, <1>2
  <2>6. e[(l - 1) + 1] = f[<<(l - 1) + 1, e[l - 1]>>]
    <3>1. l - 1 \in 0 .. n - 1
      BY <2>3
    <3> QED BY <3>1, <1>2
  <2>7. (l - 1) + 1 = l
    OBVIOUS
  <2> QED BY <2>4, <2>5, <2>6, <2>7
<1> DEFINE h(n) == CHOOSE e : e \in Begins(n)
<1>3. ASSUME NEW n \in Nat PROVE h(n) \in Begins(n)
  BY <1>1
<1> DEFINE g == [n \in Nat |-> h(n)[n]]
<1>4. ASSUME NEW n \in Nat PROVE h(n)[n] \in V
  <2> HIDE DEF h
  <2>1. h(n) \in [0 .. n -> V]
    BY <1>3
  <2>2. n \in 0 .. n
    OBVIOUS
  <2> QED BY <2>1, <2>2
<1>5. h(0)[0] = a
  <2> HIDE DEF h
  <2> QED BY <1>3
<1>6. ASSUME NEW n \in Nat PROVE h(n + 1)[n + 1] = f[<<n + 1, h(n)[n]>>]
  <2>1. n + 1 \in Nat /\ n \in 0 .. (n + 1) - 1
    OBVIOUS
  <2>2. h(n + 1) \in Begins(n + 1) /\ h(n) \in Begins(n)
    BY <1>3, <2>1
  <2> HIDE DEF h
  <2>3. h(n + 1)[n + 1] = f[<<n + 1, h(n + 1)[n]>>]
    BY <2>1, <2>2
  <2> HIDE DEF Begins
  <2>4. h(n + 1)[n] = h(n)[n]
    BY <1>2, <2>1, <2>2
  <2> QED BY <2>3, <2>4
<1>7. g \in [Nat -> V] /\ Recurs(g, a, f)
  <2> HIDE DEF h
  <2> QED BY <1>4, <1>5, <1>6 DEF Recurs
<1> QED BY <1>7

-----------------------------------------------------------------------------
(* The powers of two.                                                      *)
LEMMA PowerFacts ==
  /\ Power \in [Nat -> Nat \ {0}]
  /\ Power[0] = 1
  /\ \A n \in Nat : Power[n + 1] = 2 * Power[n]
<1> DEFINE V == Nat \ {0}
           f == [p \in Nat \X V |-> 2 * p[2]]
<1>1. f \in [Nat \X V -> V] /\ 1 \in V
  OBVIOUS
<1>2. PICK g \in [Nat -> V] : Recurs(g, 1, f)
  <2> HIDE DEF f, V
  <2> QED BY <1>1, Recursion
<1>3. ASSUME NEW n \in Nat \ {0} PROVE g[n] = 2 * g[n - 1]
  <2>1. n - 1 \in Nat /\ (n - 1) + 1 = n
    OBVIOUS
  <2>2. g[(n - 1) + 1] = f[<<(n - 1) + 1, g[n - 1]>>]
    <3> HIDE DEF f
    <3> QED BY <1>2, <2>1 DEF Recurs
  <2> QED BY <2>1, <2>2
<1>4. g = [n \in Nat |-> IF n = 0 THEN 1 ELSE 2 * g[n - 1]]
  <2> HIDE DEF f
  <2> QED BY <1>2, <1>3 DEF Recurs
<1>5. Power = [n \in Nat |-> IF n = 0 THEN 1 ELSE 2 * Power[n - 1]]
  <2> HIDE DEF f
  <2> QED BY <1>4 DEF Power
<1>6. ASSUME NEW n \in Nat PROVE Power[n] = g[n]
  <2> DEFINE T == {m \in Nat : Power[m] # g[m]}
  <2> SUFFICES ASSUME T # {} PROVE FALSE
    BY <1>6
  <2>1. PICK m \in T : \A k \in T : m <= k
    BY LeastNat
  <2>2. m # 0
    <3> HIDE DEF f
    <3> QED BY <1>2, <1>5 DEF Recurs
  <2>3. m - 1 \in Nat /\ ~(m - 1 \in T)
    BY <2>1, <2>2
  <2>4. Power[m - 1] = g[m - 1]
    BY <2>3
  <2>5. Power[m] = 2 * Power[m - 1]
    BY <2>2, <1>5
  <2> QED BY <2>2, <2>4, <2>5, <1>3
<1>7. ASSUME NEW n \in Nat PROVE Power[n + 1] = 2 * Power[n]
  <2>1. n + 1 \in Nat /\ n + 1 # 0 /\ (n + 1) - 1 = n
    OBVIOUS
  <2> QED BY <2>1, <1>5
<1>8. Power = [n \in Nat |-> Power[n]]
  BY <1>5
<1>9. \A n \in Nat : Power[n] \in Nat \ {0}
  BY <1>6, <1>2
<1>10. Power[0] = 1
  BY <1>5
<1> QED BY <1>7, <1>8, <1>9, <1>10

(* So a number is below some power of two,                                 *)
LEMMA PowerGrows ==
  ASSUME NEW n \in Nat
  PROVE  n < Power[n]
<1> DEFINE T == {m \in Nat : ~(m < Power[m])}
<1> SUFFICES ASSUME T # {} PROVE FALSE
  OBVIOUS
<1>1. PICK m \in T : \A k \in T : m <= k
  BY LeastNat
<1>2. m # 0
  BY PowerFacts
<1>3. m - 1 \in Nat /\ ~(m - 1 \in T) /\ (m - 1) + 1 = m
  BY <1>1, <1>2
<1>4. m - 1 < Power[m - 1] /\ Power[m - 1] \in Nat
  BY <1>3, PowerFacts
<1>5. Power[m] = 2 * Power[m - 1]
  BY <1>3, PowerFacts
<1> QED BY <1>3, <1>4, <1>5

(* and lies between two of them.                                           *)
LEMMA Log2Facts ==
  ASSUME NEW x \in Nat \ {0}
  PROVE  /\ Log2(x) \in 0 .. x
         /\ Power[Log2(x)] <= x /\ x < Power[Log2(x) + 1]
<1> DEFINE T == {n \in Nat : x < Power[n + 1]}
<1>1. x \in T
  <2>1. x + 1 \in Nat /\ x + 1 < Power[x + 1]
    BY PowerGrows
  <2> QED BY <2>1, PowerFacts
<1>2. PICK n \in T : \A m \in T : n <= m
  BY <1>1, LeastNat
<1>3. Power[n] <= x
  <2>1. CASE n = 0
    BY <2>1, PowerFacts
  <2>2. CASE n # 0
    <3>1. n - 1 \in Nat /\ ~(n - 1 \in T) /\ (n - 1) + 1 = n
      BY <1>2, <2>2
    <3> QED BY <3>1, PowerFacts
  <2> QED BY <2>1, <2>2
<1>4. n \in 0 .. x
  BY <1>1, <1>2
<1> QED BY <1>2, <1>3, <1>4 DEF Log2

(* A factor of both sides.                                                 *)
LEMMA Cancels ==
  ASSUME NEW p \in Nat \ {0}, NEW u \in Int, NEW v \in Int, p * u < p * v
  PROVE  u < v
<1> SUFFICES ASSUME v <= u PROVE FALSE
  OBVIOUS
<1>1. u - v \in Nat /\ p * (u - v) >= 0
  OBVIOUS
<1>2. p * (u - v) = p * u - p * v
  OBVIOUS
<1> QED BY <1>1, <1>2

(* What div is, and that it halves bit by bit.                             *)
LEMMA Division ==
  ASSUME NEW x \in Nat, NEW p \in Nat \ {0}
  PROVE  /\ x \div p \in Nat
         /\ p * (x \div p) <= x /\ x < p * (x \div p + 1)
OBVIOUS

LEMMA Halving ==
  ASSUME NEW x \in Nat, NEW p \in Nat \ {0}
  PROVE  x \div p = 2 * (x \div (2 * p)) + ((x \div p) % 2)
<1> DEFINE q == x \div p
           a == x \div (2 * p)
<1>1. q \in Nat /\ p * q <= x /\ x < p * (q + 1)
  BY Division
<1>2. 2 * p \in Nat \ {0}
  OBVIOUS
<1>3. a \in Nat /\ (2 * p) * a <= x /\ x < (2 * p) * (a + 1)
  BY <1>2, Division
<1> HIDE DEF q, a
<1>4. p * (2 * a) < p * (q + 1)
  BY <1>1, <1>3
<1>5. p * q < p * (2 * a + 2)
  BY <1>1, <1>3
<1>6. 2 * a < q + 1 /\ q < 2 * a + 2
  <2>1. 2 * a \in Int /\ q + 1 \in Int /\ q \in Int /\ 2 * a + 2 \in Int
    BY <1>1, <1>3
  <2> QED BY <2>1, <1>4, <1>5, Cancels
<1>7. q = 2 * a \/ q = 2 * a + 1
  BY <1>1, <1>3, <1>6
<1>8. q = 2 * a + (q % 2)
  <2>1. CASE q = 2 * a
    <3>1. q % 2 = 0
      BY <2>1, <1>3
    <3> QED BY <2>1, <3>1, <1>1, <1>3
  <2>2. CASE q = 2 * a + 1
    <3>1. q % 2 = 1
      BY <2>2, <1>3
    <3> QED BY <2>2, <3>1, <1>1, <1>3
  <2> QED BY <1>7, <2>1, <2>2
<1> QED BY <1>8 DEF q, a

(* The elements of a concatenation.                                        *)
LEMMA ConcatFacts ==
  ASSUME NEW S, NEW s \in Seq(S), NEW t \in Seq(S)
  PROVE  /\ s \o t \in Seq(S) /\ Len(s \o t) = Len(s) + Len(t)
         /\ \A k \in 1 .. Len(s) : (s \o t)[k] = s[k]
         /\ \A k \in 1 .. Len(t) : (s \o t)[Len(s) + k] = t[k]
OBVIOUS

-----------------------------------------------------------------------------
Binary == {0, 1}

(* What EliasGamma writes. *)
LEMMA GammaFacts ==
  ASSUME NEW x \in Nat \ {0}
  PROVE  /\ Log2(x) \in Nat
         /\ EliasGamma(x) \in Seq(Binary)
         /\ Len(EliasGamma(x)) = 2 * Log2(x) + 1
         /\ \A k \in 1 .. Log2(x) : EliasGamma(x)[k] = 0
         /\ EliasGamma(x)[Log2(x) + 1] = 1
         /\ \A k \in 1 .. Log2(x) :
              EliasGamma(x)[Log2(x) + 1 + k] = (x \div Power[Log2(x) - k]) % 2
<1> DEFINE N == Log2(x)
           rest == [k \in 1 .. N |-> (x \div Power[N - k]) % 2]
<1>1. N \in Nat
  BY Log2Facts
<1> HIDE DEF N
<1>2. \A k \in 1 .. N : (x \div Power[N - k]) % 2 \in Binary
  <2> TAKE k \in 1 .. N
  <2>1. N - k \in Nat
    BY <1>1
  <2>2. Power[N - k] \in Nat \ {0}
    BY <2>1, PowerFacts
  <2>3. x \div Power[N - k] \in Nat
    BY <2>2, Division
  <2> QED BY <2>3 DEF Binary
<1>3. rest \in Seq(Binary) /\ Len(rest) = N
  <2>1. rest \in [1 .. N -> Binary]
    BY <1>2
  <2> QED BY <2>1, <1>1
<1>4. Zeros(N) \in Seq(Binary) /\ Len(Zeros(N)) = N
      /\ \A k \in 1 .. N : Zeros(N)[k] = 0
  <2>1. Zeros(N) \in [1 .. N -> Binary]
    BY DEF Zeros, Binary
  <2>2. \A k \in 1 .. N : Zeros(N)[k] = 0
    BY DEF Zeros
  <2> QED BY <1>1, <2>1, <2>2
<1>5. \A k \in 1 .. N : rest[k] = (x \div Power[N - k]) % 2
  OBVIOUS
<1>6. EliasGamma(x) = Append(Zeros(N), 1) \o rest
  BY DEF EliasGamma, N
<1> HIDE DEF rest
<1> DEFINE front == Append(Zeros(N), 1)
<1>7. front \in Seq(Binary) /\ Len(front) = N + 1 /\ front[N + 1] = 1
      /\ \A k \in 1 .. N : front[k] = 0
  <2>1. 1 \in Binary
    BY DEF Binary
  <2> HIDE DEF Binary
  <2> QED BY <1>1, <1>4, <2>1
<1> HIDE DEF front
<1>8. EliasGamma(x) = front \o rest
  BY <1>6 DEF front
<1>9. EliasGamma(x) \in Seq(Binary) /\ Len(EliasGamma(x)) = 2 * N + 1
      /\ (\A k \in 1 .. N + 1 : EliasGamma(x)[k] = front[k])
      /\ \A k \in 1 .. N : EliasGamma(x)[N + 1 + k] = rest[k]
  <2> HIDE DEF Binary
  <2>1. front \in Seq(Binary) /\ rest \in Seq(Binary)
    BY <1>3, <1>7
  <2>2. /\ front \o rest \in Seq(Binary)
        /\ Len(front \o rest) = Len(front) + Len(rest)
        /\ \A k \in 1 .. Len(front) : (front \o rest)[k] = front[k]
        /\ \A k \in 1 .. Len(rest) : (front \o rest)[Len(front) + k] = rest[k]
    BY ONLY <2>1
  <2> QED BY <1>1, <1>3, <1>7, <1>8, <2>2
<1>10. \A k \in 1 .. N : EliasGamma(x)[k] = 0
  <2> TAKE k \in 1 .. N
  <2>1. k \in 1 .. N + 1
    BY <1>1
  <2> QED BY <2>1, <1>7, <1>9
<1>11. EliasGamma(x)[N + 1] = 1
  <2>1. N + 1 \in 1 .. N + 1
    BY <1>1
  <2> QED BY <2>1, <1>7, <1>9
<1>12. \A k \in 1 .. N : EliasGamma(x)[N + 1 + k] = (x \div Power[N - k]) % 2
  BY <1>5, <1>9
<1> QED BY <1>1, <1>9, <1>10, <1>11, <1>12 DEF N

(* The number that the loop of ReadIntegerFromBinary has after k bits. *)
Number(bits, first) ==
  CHOOSE number : number = [k \in Nat |->
    IF k = 0 THEN 0
    ELSE 2 * number[k - 1] + (IF GetBit(bits, first + k - 1) THEN 1 ELSE 0)]

(* The number that the decoder reads, bit by bit.                          *)
LEMMA NumberFacts ==
  ASSUME NEW bits, NEW first
  PROVE  /\ \A k \in Nat : Number(bits, first)[k] \in Nat
         /\ Number(bits, first)[0] = 0
         /\ \A k \in Nat : Number(bits, first)[k + 1] =
              2 * Number(bits, first)[k]
                + (IF GetBit(bits, first + (k + 1) - 1) THEN 1 ELSE 0)
<1> DEFINE d == [k \in Nat |-> IF GetBit(bits, first + k - 1) THEN 1 ELSE 0]
           f == [p \in Nat \X Nat |-> 2 * p[2] + d[p[1]]]
<1>1. d \in [Nat -> Nat]
  OBVIOUS
<1>2. \A k \in Nat : d[k] = IF GetBit(bits, first + k - 1) THEN 1 ELSE 0
  OBVIOUS
<1> HIDE DEF d
<1>3. f \in [Nat \X Nat -> Nat] /\ 0 \in Nat
  BY <1>1
<1>4. \A k, v \in Nat : f[<<k, v>>] = 2 * v + d[k]
  OBVIOUS
<1> HIDE DEF f
<1>5. PICK g \in [Nat -> Nat] : Recurs(g, 0, f)
  BY <1>3, Recursion
<1>6. g[0] = 0 /\ \A k \in Nat : g[k + 1] = 2 * g[k] + d[k + 1]
  <2>1. ASSUME NEW k \in Nat PROVE g[k + 1] = 2 * g[k] + d[k + 1]
    <3>1. k + 1 \in Nat /\ g[k] \in Nat
      OBVIOUS
    <3>2. f[<<k + 1, g[k]>>] = 2 * g[k] + d[k + 1]
      BY <3>1, <1>4
    <3>3. g[k + 1] = f[<<k + 1, g[k]>>]
      BY <1>5 DEF Recurs
    <3> QED BY <3>2, <3>3
  <2> QED BY <2>1, <1>5 DEF Recurs
<1>7. \A k \in Nat \ {0} : g[k] = 2 * g[k - 1] + d[k]
  <2> TAKE k \in Nat \ {0}
  <2>1. k - 1 \in Nat /\ (k - 1) + 1 = k
    OBVIOUS
  <2> QED BY <2>1, <1>6
<1>8. g = [k \in Nat |->
        IF k = 0 THEN 0
        ELSE 2 * g[k - 1] + (IF GetBit(bits, first + k - 1) THEN 1 ELSE 0)]
  BY <1>2, <1>6, <1>7
<1> DEFINE number == Number(bits, first)
<1>9. number = [k \in Nat |->
        IF k = 0 THEN 0
        ELSE 2 * number[k - 1] + (IF GetBit(bits, first + k - 1) THEN 1 ELSE 0)]
  BY <1>8 DEF Number
<1> HIDE DEF number
<1>10. number[0] = 0
  BY <1>9
<1>11. \A k \in Nat : number[k + 1] = 2 * number[k]
                + (IF GetBit(bits, first + (k + 1) - 1) THEN 1 ELSE 0)
  <2> TAKE k \in Nat
  <2>1. k + 1 \in Nat /\ k + 1 # 0 /\ (k + 1) - 1 = k
    OBVIOUS
  <2> DEFINE j == k + 1
  <2>2. number[j] = 2 * number[j - 1] + (IF GetBit(bits, first + j - 1) THEN 1 ELSE 0)
    <3> HIDE DEF j
    <3>1. j \in Nat /\ j # 0
      BY <2>1 DEF j
    <3> QED BY <3>1, <1>9
  <2> QED BY <2>1, <2>2
<1>12. ASSUME NEW k \in Nat PROVE number[k] \in Nat
  <2> DEFINE T == {m \in Nat : ~(number[m] \in Nat)}
  <2> SUFFICES ASSUME T # {} PROVE FALSE
    BY <1>12
  <2>1. PICK m \in T : \A l \in T : m <= l
    BY LeastNat
  <2>2. m # 0
    BY <1>10
  <2>3. m - 1 \in Nat /\ ~(m - 1 \in T) /\ (m - 1) + 1 = m
    BY <2>1, <2>2
  <2>4. number[m - 1] \in Nat
    BY <2>3
  <2>5. number[m] = 2 * number[m - 1]
          + (IF GetBit(bits, first + m - 1) THEN 1 ELSE 0)
    BY <2>3, <1>11
  <2> QED BY <2>4, <2>5
<1> QED BY <1>10, <1>11, <1>12 DEF number

LEMMA ReadsNumber ==
  ASSUME NEW bits, NEW first, NEW last
  PROVE  ReadIntegerFromBinary(bits, first, last) =
           Number(bits, first)[last - first + 1]
BY DEF ReadIntegerFromBinary, Number

(* The least and the greatest, where there is one.                         *)
LEMMA MinIs ==
  ASSUME NEW T \in SUBSET Int, NEW m \in T, \A k \in T : m <= k
  PROVE  Min(T) = m
<1>1. Min(T) = CHOOSE k \in T : \A j \in T : k <= j
  BY DEF Min
<1>2. \A k \in T : (\A j \in T : k <= j) => k = m
  OBVIOUS
<1> QED BY <1>1, <1>2

LEMMA MaxIs ==
  ASSUME NEW T \in SUBSET Int, NEW m \in T, \A k \in T : k <= m
  PROVE  Max(T) = m
<1>1. Max(T) = CHOOSE k \in T : \A j \in T : k >= j
  BY DEF Max
<1>2. \A k \in T : (\A j \in T : k >= j) => k = m
  OBVIOUS
<1> QED BY <1>1, <1>2

(* The decoder reads the number that was written. *)
LEMMA DecodesGamma ==
  ASSUME NEW bits \in Seq(Binary), NEW st \in Nat, NEW x \in Nat \ {0},
         st + Len(EliasGamma(x)) <= Len(bits),
         \A k \in 1 .. Len(EliasGamma(x)) : bits[st + k] = EliasGamma(x)[k]
  PROVE  DecodeEliasGammaEntry(bits, st) =
           [value |-> x, last |-> st + Len(EliasGamma(x)) - 1]
<1> DEFINE N == Log2(x)
           S == SetBitsFrom(bits, st)
           P(k) == Power[k]
<1>1. /\ N \in Nat /\ Len(EliasGamma(x)) = 2 * N + 1
      /\ \A k \in 1 .. N : bits[st + k] = 0
      /\ bits[st + N + 1] = 1
      /\ \A k \in 1 .. N : bits[st + N + 1 + k] = (x \div P(N - k)) % 2
  <2>1. N \in Nat /\ Len(EliasGamma(x)) = 2 * N + 1
    BY GammaFacts
  <2> DEFINE g == EliasGamma(x)
  <2>2. \A k \in 1 .. 2 * N + 1 : bits[st + k] = g[k]
    BY <2>1
  <2>3. /\ \A k \in 1 .. N : g[k] = 0
        /\ g[N + 1] = 1
        /\ \A k \in 1 .. N : g[N + 1 + k] = (x \div P(N - k)) % 2
    BY GammaFacts
  <2> HIDE DEF g, N, P
  <2>4. \A k \in 1 .. N : bits[st + k] = 0
    <3> TAKE k \in 1 .. N
    <3>1. k \in 1 .. 2 * N + 1
      BY <2>1
    <3>2. bits[st + k] = g[k] /\ g[k] = 0
      BY <3>1, <2>2, <2>3
    <3> QED BY <3>2
  <2>5. bits[st + (N + 1)] = 1
    BY <2>1, <2>2, <2>3
  <2>6. \A k \in 1 .. N : bits[st + (N + 1 + k)] = (x \div P(N - k)) % 2
    BY <2>1, <2>2, <2>3
  <2>7. st + (N + 1) = st + N + 1
        /\ \A k \in 1 .. N : st + (N + 1 + k) = st + N + 1 + k
    BY <2>1
  <2>8. bits[st + N + 1] = 1
    BY <2>5, <2>7
  <2>9. \A k \in 1 .. N : bits[st + N + 1 + k] = (x \div P(N - k)) % 2
    BY <2>6, <2>7
  <2>10. Len(EliasGamma(x)) = 2 * N + 1
    BY <2>1
  <2> QED BY <2>1, <2>10, <2>4, <2>8, <2>9
<1>2. Len(bits) \in Nat /\ st + 2 * N + 1 <= Len(bits)
  BY <1>1
<1>3. /\ Power \in [Nat -> Nat \ {0}] /\ P(0) = 1
      /\ \A k \in Nat : P(k + 1) = 2 * P(k)
      /\ P(N) <= x /\ x < P(N + 1)
  BY PowerFacts, Log2Facts
<1>4. \A k \in Nat : P(k) \in Nat \ {0}
  BY <1>3
<1> HIDE DEF N, P
<1>5. st + N \in S
  <2>1. st + N \in 0 .. Len(bits) - 1 /\ st + N >= st
    BY <1>1, <1>2
  <2>2. GetBit(bits, st + N)
    BY <1>1 DEF GetBit
  <2> QED BY <2>1, <2>2 DEF SetBitsFrom, Ones
<1>6. \A k \in S : k \in Nat /\ st + N <= k
  <2> TAKE k \in S
  <2>1. k \in 0 .. Len(bits) - 1 /\ k >= st /\ bits[k + 1] = 1
    BY DEF SetBitsFrom, Ones, GetBit
  <2>2. CASE k < st + N
    <3>1. k + 1 - st \in 1 .. N /\ st + (k + 1 - st) = k + 1
      BY <1>1, <2>1, <2>2
    <3>2. bits[k + 1] = 0
      BY <3>1, <1>1
    <3> QED BY <2>1, <3>2
  <2> QED BY <1>1, <1>2, <2>1, <2>2
<1> HIDE DEF S
<1>7. Min(S) = st + N
  BY <1>5, <1>6, MinIs
<1> DEFINE number == Number(bits, st + N + 1)
<1>8. /\ \A k \in Nat : number[k] \in Nat
      /\ number[0] = 0
      /\ \A k \in Nat : number[k + 1] =
           2 * number[k] + (IF bits[st + N + 1 + (k + 1) - 1 + 1] = 1 THEN 1 ELSE 0)
  BY NumberFacts DEF GetBit
<1> HIDE DEF number
<1>9. x \div P(N) = 1
  <2> DEFINE q == x \div P(N)
  <2>1. q \in Nat /\ P(N) * q <= x /\ x < P(N) * (q + 1)
    BY <1>1, <1>4, Division
  <2>2. P(N + 1) = P(N) * 2
    BY <1>1, <1>3, <1>4
  <2> HIDE DEF q
  <2>3. P(N) * q < P(N) * 2 /\ P(N) * 1 < P(N) * (q + 1)
    <3>4. P(N) \in Nat
      BY <1>1, <1>4
    <3>5. \A a \in Nat : a * 1 = a
      OBVIOUS
    <3>1. P(N) \in Nat /\ P(N) * 1 = P(N)
      BY <3>4, <3>5
    <3>2. P(N) * q \in Nat /\ P(N) * (q + 1) \in Nat
      BY <3>1, <2>1
    <3>3. P(N) * q <= x /\ x < P(N) * 2 /\ P(N) <= x /\ x < P(N) * (q + 1)
      BY <1>3, <2>1, <2>2
    <3> QED BY <3>1, <3>2, <3>3
  <2>4. q < 2 /\ 1 < q + 1
    <3>1. P(N) \in Nat \ {0} /\ q \in Int /\ q + 1 \in Int
      BY <1>1, <1>4, <2>1
    <3> QED BY <3>1, <2>3, Cancels
  <2>5. q = 1
    BY <2>1, <2>4
  <2> QED BY <2>5 DEF q
<1>10. ASSUME NEW k \in 1 .. N, number[k - 1] = (x \div P(N - (k - 1))) - P(k - 1)
       PROVE  number[k] = (x \div P(N - k)) - P(k)
  <2> DEFINE y == x \div P(N - k)
             z == x \div P(N - (k - 1))
  <2>1. k - 1 \in Nat /\ (k - 1) + 1 = k /\ N - k \in Nat
        /\ (N - k) + 1 = N - (k - 1) /\ st + N + 1 + k - 1 + 1 = st + N + 1 + k
    BY <1>1
  <2>2. P(k) = 2 * P(k - 1) /\ P(N - (k - 1)) = 2 * P(N - k)
    BY <2>1, <1>3
  <2>3. P(N - k) \in Nat \ {0} /\ P(k - 1) \in Nat \ {0} /\ P(N - (k - 1)) \in Nat \ {0}
    BY <1>4, <2>1, <2>2
  <2>4. y \in Nat /\ z \in Nat
    BY <2>3, Division
  <2>5. y = 2 * z + (y % 2)
    <3>1. x \div P(N - k) = 2 * (x \div (2 * P(N - k))) + ((x \div P(N - k)) % 2)
      BY <2>3, Halving
    <3> QED BY <3>1, <2>2
  <2>6. bits[st + N + 1 + k] = y % 2
    BY <1>1
  <2>7. number[k] = 2 * number[k - 1] + (IF bits[st + N + 1 + k] = 1 THEN 1 ELSE 0)
    <3>1. number[(k - 1) + 1] = 2 * number[k - 1]
            + (IF bits[st + N + 1 + ((k - 1) + 1) - 1 + 1] = 1 THEN 1 ELSE 0)
      BY <1>8, <2>1
    <3> QED BY <3>1, <2>1
  <2> HIDE DEF y, z
  <2>8. number[k - 1] = z - P(k - 1)
    BY <1>10 DEF z
  <2>9. y % 2 \in {0, 1}
    BY <2>4
  <2>10. number[k] = 2 * (z - P(k - 1)) + (y % 2)
    BY <2>6, <2>7, <2>8, <2>9
  <2> DEFINE m == y % 2
             p == P(k - 1)
  <2>12. m \in Nat /\ p \in Nat /\ y = 2 * z + m /\ P(k) = 2 * p
         /\ number[k] = 2 * (z - p) + m
    BY <2>2, <2>3, <2>5, <2>9, <2>10
  <2> HIDE DEF m, p
  <2>11. number[k] = y - P(k)
    BY <2>4, <2>12
  <2> QED BY <2>11 DEF y
<1>11. \A k \in 0 .. N : number[k] = (x \div P(N - k)) - P(k)
  <2> DEFINE T == {k \in 0 .. N : number[k] # (x \div P(N - k)) - P(k)}
  <2> SUFFICES ASSUME T # {} PROVE FALSE
    OBVIOUS
  <2>1. T \in SUBSET Nat
    BY <1>1
  <2>2. PICK k \in T : \A j \in T : k <= j
    BY <2>1, LeastNat
  <2>3. k # 0
    <3>1. N - 0 = N /\ number[0] = 0 /\ x \div P(N) = 1 /\ P(0) = 1
      BY <1>1, <1>3, <1>8, <1>9
    <3>2. number[0] = (x \div P(N - 0)) - P(0)
      BY <3>1
    <3> QED BY <3>2
  <2>4. k \in 1 .. N /\ k - 1 \in 0 .. N /\ ~(k <= k - 1)
    BY <1>1, <2>3
  <2>5. ~(k - 1 \in T)
    <3> HIDE DEF T
    <3> QED BY <2>2, <2>4
  <2>6. number[k - 1] = (x \div P(N - (k - 1))) - P(k - 1)
    BY <2>4, <2>5
  <2> QED BY <2>4, <2>6, <1>10
<1>12. number[N] = x - P(N)
  <2>1. N \in 0 .. N /\ N - N = 0
    BY <1>1
  <2>2. x \div 1 = x
    OBVIOUS
  <2> QED BY <1>3, <1>11, <2>1, <2>2
<1>13. ReadIntegerFromBinary(bits, st + N + 1, st + N + N) = number[N]
  <2>1. (st + N + N) - (st + N + 1) + 1 = N
    BY <1>1
  <2> QED BY <2>1, ReadsNumber DEF number
<1>14. DecodeEliasGammaEntry(bits, st) =
         [value |-> P(N) + (x - P(N)), last |-> st + N + N]
  <2>1. Min(S) - st = N
    BY <1>1, <1>7
  <2>2. S # {}
    BY <1>5
  <2> QED BY <1>7, <1>12, <1>13, <2>1, <2>2 DEF DecodeEliasGammaEntry, S, P
<1> QED BY <1>1, <1>4, <1>14

(* Where no bit is set there is no entry. *)
LEMMA DecodesNothing ==
  ASSUME NEW bits, NEW st, \A k \in Ones(bits) : ~(k >= st)
  PROVE  DecodeEliasGammaEntry(bits, st).value = 0
BY DEF DecodeEliasGammaEntry, SetBitsFrom, NoEntry

(* Whatever the bits are, what is read of them are numbers.                *)
LEMMA EntryType ==
  ASSUME NEW bits \in Seq(Binary), NEW st \in Nat
  PROVE  /\ DecodeEliasGammaEntry(bits, st).value \in Nat
         /\ DecodeEliasGammaEntry(bits, st).last \in Nat
<1> DEFINE S == SetBitsFrom(bits, st)
           decoded == DecodeEliasGammaEntry(bits, st)
<1>1. CASE S = {}
  BY <1>1 DEF DecodeEliasGammaEntry, NoEntry
<1>2. CASE S # {}
  <2>1. S \in SUBSET Nat
    BY DEF SetBitsFrom, Ones
  <2>2. PICK first \in S : \A k \in S : first <= k
    BY <1>2, <2>1, LeastNat
  <2>3. Min(S) = first
    <3> HIDE DEF S
    <3> QED BY <2>1, <2>2, MinIs
  <2>4. first \in Nat /\ first >= st
    BY DEF SetBitsFrom, Ones
  <2> DEFINE N == first - st
  <2>5. N \in Nat /\ (first + N) - (first + 1) + 1 = N
    BY <2>4
  <2>6. ReadIntegerFromBinary(bits, first + 1, first + N) \in Nat
    BY <2>5, ReadsNumber, NumberFacts
  <2>7. Power[N] \in Nat
    BY <2>5, PowerFacts
  <2>8. decoded = [value |-> Power[N] + ReadIntegerFromBinary(bits, first + 1, first + N),
                 last |-> first + N]
    BY <1>2, <2>3 DEF DecodeEliasGammaEntry
  <2> HIDE DEF decoded, N
  <2>9. decoded.value \in Nat /\ decoded.last \in Nat
    BY <2>4, <2>5, <2>6, <2>7, <2>8
  <2> QED BY <2>9 DEF decoded
<1> QED BY <1>1, <1>2

(* Whole bytes reach the bits asked for,                                   *)
LEMMA RoundUpFacts ==
  ASSUME NEW n \in Nat
  PROVE  /\ RoundUp(n) \in Nat /\ n <= RoundUp(n) /\ RoundUp(n) < n + Byte
         /\ RoundUp(n) % Byte = 0
BY DEF RoundUp, Byte

LEMMA ReachingFacts ==
  ASSUME NEW bits \in Seq(Binary), NEW last \in Int, last >= -1
  PROVE  /\ Reaching(bits, last) \in Nat
         /\ Len(bits) <= Reaching(bits, last)
         /\ last < Reaching(bits, last)
<1> DEFINE a == Len(bits)
           b == RoundUp(last + 1)
<1>1. a \in Nat /\ b \in Nat /\ last + 1 <= b
  <2>1. last + 1 \in Nat
    OBVIOUS
  <2> QED BY <2>1, RoundUpFacts
<1> HIDE DEF a, b
<1>2. CASE a <= b
  <2>1. Max({a, b}) = b
    <3>1. {a, b} \in SUBSET Int /\ b \in {a, b} /\ \A k \in {a, b} : k <= b
      BY <1>1, <1>2
    <3> QED BY <3>1, MaxIs
  <2> QED BY <1>1, <1>2, <2>1 DEF Reaching, a, b
<1>3. CASE b <= a
  <2>1. Max({a, b}) = a
    <3>1. {a, b} \in SUBSET Int /\ a \in {a, b} /\ \A k \in {a, b} : k <= a
      BY <1>1, <1>3
    <3> QED BY <3>1, MaxIs
  <2> QED BY <1>1, <1>3, <2>1 DEF Reaching, a, b
<1> QED BY <1>1, <1>2, <1>3

(* and setting bits adds them to the ones.                                 *)
LEMMA SetBitsFacts ==
  ASSUME NEW bits \in Seq(Binary), NEW last \in Int, last >= -1,
         NEW ones \in SUBSET (0 .. last)
  PROVE  /\ SetBits(bits, last, ones) \in Seq(Binary)
         /\ Ones(SetBits(bits, last, ones)) = Ones(bits) \cup ones
<1> DEFINE n == Reaching(bits, last)
           s == [k \in 1 .. n |-> IF k - 1 \in ones THEN 1
                                  ELSE IF k <= Len(bits) THEN bits[k] ELSE 0]
<1>1. n \in Nat /\ Len(bits) <= n /\ last < n
  BY ReachingFacts
<1>2. s = SetBits(bits, last, ones)
  BY DEF SetBits
<1> HIDE DEF n
<1>3. s \in [1 .. n -> Binary]
  BY <1>1 DEF Binary
<1>4. s \in Seq(Binary) /\ Len(s) = n
  BY <1>1, <1>3
<1>5. \A k \in 0 .. n - 1 : s[k + 1] = IF k \in ones THEN 1
                              ELSE IF k + 1 <= Len(bits) THEN bits[k + 1] ELSE 0
  <2> TAKE k \in 0 .. n - 1
  <2>1. k + 1 \in 1 .. n /\ (k + 1) - 1 = k
    BY <1>1
  <2> QED BY <2>1
<1> HIDE DEF s
<1>6. Ones(s) = Ones(bits) \cup ones
  <2>1. ASSUME NEW k \in Ones(s) PROVE k \in Ones(bits) \cup ones
    <3>1. k \in 0 .. n - 1 /\ s[k + 1] = 1
      BY <1>4 DEF Ones, GetBit
    <3>2. CASE k + 1 <= Len(bits)
      BY <1>1, <1>5, <3>1, <3>2 DEF Ones, GetBit
    <3> QED BY <1>5, <3>1, <3>2
  <2>2. ASSUME NEW k \in Ones(bits) \cup ones PROVE k \in Ones(s)
    <3>1. CASE k \in ones
      BY <1>1, <1>4, <1>5, <3>1 DEF Ones, GetBit
    <3>2. CASE k \in Ones(bits)
      <4>1. k \in 0 .. Len(bits) - 1 /\ bits[k + 1] = 1
        BY <3>2 DEF Ones, GetBit
      <4>2. Len(bits) \in Nat
        OBVIOUS
      <4>3. k \in 0 .. n - 1 /\ k + 1 <= Len(bits)
        BY <1>1, <4>1, <4>2
      <4>4. s[k + 1] = 1
        BY <1>5, <4>1, <4>3
      <4> QED BY <1>4, <4>3, <4>4 DEF Ones, GetBit
    <3> QED BY <3>1, <3>2
  <2> QED BY <2>1, <2>2
<1> QED BY <1>2, <1>4, <1>6

-----------------------------------------------------------------------------
(* What the loop of the decoder remembers. *)
Stage == [at : Nat \ {0}, bit : Binary, index : Nat, done : Seq(Binary)]

(* A turn of the loop keeps the types.                                     *)
LEMMA DecodeRunType ==
  ASSUME NEW bits \in Seq(Binary), NEW s \in Stage
  PROVE  DecodeRun(bits, s) \in Stage
<1> DEFINE decoded == DecodeEliasGammaEntry(bits, s.at)
           next == s.index + decoded.value
<1>1. s.at \in Nat /\ s.bit \in Binary /\ s.index \in Nat /\ s.done \in Seq(Binary)
  BY DEF Stage
<1>2. decoded.value \in Nat /\ decoded.last \in Nat
  BY <1>1, EntryType
<1>3. CASE s.at >= Len(bits) \/ decoded.value = 0
  BY <1>3 DEF DecodeRun
<1>4. CASE ~(s.at >= Len(bits) \/ decoded.value = 0)
  <2> DEFINE done == IF s.bit = 1
                     THEN SetBits(s.done, next - 1, s.index .. next - 1)
                     ELSE s.done
  <2>1. DecodeRun(bits, s) =
          [at |-> decoded.last + 1, bit |-> 1 - s.bit, index |-> next, done |-> done]
    BY <1>4 DEF DecodeRun
  <2> HIDE DEF decoded
  <2>2. next - 1 \in Int /\ next - 1 >= -1 /\ next \in Nat
        /\ s.index .. next - 1 \in SUBSET (0 .. next - 1)
    BY <1>1, <1>2
  <2>3. done \in Seq(Binary)
    BY <1>1, <2>2, SetBitsFacts
  <2>4. 1 - s.bit \in Binary
    BY <1>1 DEF Binary
  <2> HIDE DEF done, next
  <2> QED BY <1>2, <2>1, <2>2, <2>3, <2>4 DEF Stage
<1> QED BY <1>3, <1>4

FirstStage(bits) == [at |-> 1, bit |-> bits[1], index |-> 0, done |-> <<>>]

(* The loop is what the recursive function says.                           *)
LEMMA DecodingFacts ==
  ASSUME NEW bits \in Seq(Binary), bits # <<>>
  PROVE  /\ Decoding(bits)[0] = FirstStage(bits)
         /\ \A n \in Nat : Decoding(bits)[n] \in Stage
         /\ \A n \in Nat : Decoding(bits)[n + 1] =
                             DecodeRun(bits, Decoding(bits)[n])
<1> DEFINE a == FirstStage(bits)
           f == [p \in Nat \X Stage |-> DecodeRun(bits, p[2])]
           runs == Decoding(bits)
<1>1. a \in Stage
  <2>1. bits[1] \in Binary
    OBVIOUS
  <2>2. <<>> \in Seq(Binary)
    OBVIOUS
  <2> QED BY <2>1, <2>2 DEF FirstStage, Stage
<1>2. f \in [Nat \X Stage -> Stage]
  BY DecodeRunType
<1>3. \A k \in Nat, v \in Stage : f[<<k, v>>] = DecodeRun(bits, v)
  OBVIOUS
<1> HIDE DEF f, a
<1>4. PICK g \in [Nat -> Stage] : Recurs(g, a, f)
  BY <1>1, <1>2, Recursion
<1>5. \A k \in Nat : g[k] \in Stage
  OBVIOUS
<1>6. ASSUME NEW k \in Nat \ {0} PROVE g[k] = DecodeRun(bits, g[k - 1])
  <2>1. k - 1 \in Nat /\ (k - 1) + 1 = k
    OBVIOUS
  <2>2. g[(k - 1) + 1] = f[<<(k - 1) + 1, g[k - 1]>>]
    BY <1>4, <2>1 DEF Recurs
  <2>3. f[<<k, g[k - 1]>>] = DecodeRun(bits, g[k - 1])
    BY <1>3, <1>5, <2>1
  <2> QED BY <2>1, <2>2, <2>3
<1>7. g[0] = a
  BY <1>4 DEF Recurs
<1>8. g = [n \in Nat |-> IF n = 0 THEN FirstStage(bits) ELSE DecodeRun(bits, g[n - 1])]
  BY <1>6, <1>7 DEF a
<1>9. runs = [n \in Nat |-> IF n = 0 THEN FirstStage(bits) ELSE DecodeRun(bits, runs[n - 1])]
  BY <1>8 DEF Decoding, FirstStage
<1> HIDE DEF runs
<1>10. runs[0] = a
  BY <1>9 DEF a
<1>11. ASSUME NEW n \in Nat PROVE runs[n + 1] = DecodeRun(bits, runs[n])
  <2>1. n + 1 \in Nat /\ n + 1 # 0 /\ (n + 1) - 1 = n
    OBVIOUS
  <2> DEFINE m == n + 1
  <2>2. runs[m] = DecodeRun(bits, runs[m - 1])
    <3> HIDE DEF m
    <3>1. m \in Nat /\ m # 0
      BY <2>1 DEF m
    <3> QED BY <1>9, <3>1
  <2> QED BY <2>1, <2>2
<1>12. ASSUME NEW n \in Nat PROVE runs[n] \in Stage
  <2> DEFINE T == {m \in Nat : ~(runs[m] \in Stage)}
  <2> SUFFICES ASSUME T # {} PROVE FALSE
    BY <1>12
  <2>1. PICK m \in T : \A k \in T : m <= k
    BY LeastNat
  <2>2. m # 0
    BY <1>1, <1>10
  <2>3. m - 1 \in Nat /\ ~(m - 1 \in T) /\ (m - 1) + 1 = m
    BY <2>1, <2>2
  <2>4. runs[m - 1] \in Stage
    BY <2>3
  <2>5. runs[m] = DecodeRun(bits, runs[m - 1])
    BY <2>3, <1>11
  <2> QED BY <2>4, <2>5, DecodeRunType
<1> QED BY <1>10, <1>11, <1>12 DEF runs, a

(* A number takes a bit at least.                                          *)
LEMMA GammaLength ==
  ASSUME NEW x \in Nat \ {0}
  PROVE  EliasGamma(x) \in Seq(Binary) /\ Len(EliasGamma(x)) \in Nat \ {0}
<1>1. Log2(x) \in Nat /\ Len(EliasGamma(x)) = 2 * Log2(x) + 1
      /\ EliasGamma(x) \in Seq(Binary)
  BY GammaFacts
<1>2. 2 * Log2(x) + 1 \in Nat \ {0}
  BY <1>1
<1> QED BY <1>1, <1>2

(* The bits begin with those of p. *)
Begins(bits, p) ==
  Len(p) <= Len(bits) /\ \A k \in 1 .. Len(p) : bits[k] = p[k]

(* Of any bits that begin with p the decoder gets through p, to where a    *)
(* run of `bit` is next, from `index`, and has found `ones`.               *)
Reaches(p, bit, index, ones) ==
  \A bits \in Seq(Binary) : Begins(bits, p) =>
    \E n \in Nat :
      /\ n < Len(p)
      /\ Decoding(bits)[n].at = Len(p)
      /\ Decoding(bits)[n].bit = bit
      /\ Decoding(bits)[n].index = index
      /\ Ones(Decoding(bits)[n].done) = ones

(* Before the first run.                                                   *)
LEMMA ReachesFirst ==
  ASSUME NEW bit \in Binary
  PROVE  <<bit>> \in Seq(Binary) /\ Reaches(<<bit>>, bit, 0, {})
<1> DEFINE p == <<bit>>
<1>1. p \in Seq(Binary) /\ Len(p) = 1 /\ p[1] = bit
  BY DEF Binary
<1> HIDE DEF p
<1>2. ASSUME NEW bits \in Seq(Binary), Begins(bits, p)
      PROVE  /\ 0 \in Nat /\ 0 < Len(p)
             /\ Decoding(bits)[0].at = Len(p)
             /\ Decoding(bits)[0].bit = bit
             /\ Decoding(bits)[0].index = 0
             /\ Ones(Decoding(bits)[0].done) = {}
  <2>1. 1 <= Len(bits) /\ bits[1] = bit
    BY <1>1, <1>2 DEF Begins
  <2>2. bits # <<>>
    BY <2>1
  <2>3. Decoding(bits)[0] = FirstStage(bits)
    BY <2>2, DecodingFacts
  <2>4. Ones(<<>>) = {}
    BY DEF Ones
  <2> QED BY <1>1, <2>1, <2>3, <2>4 DEF FirstStage
<1>3. Reaches(p, bit, 0, {})
  BY <1>2 DEF Reaches
<1> QED BY <1>1, <1>3 DEF p

(* There is a bit at least, the first.                                     *)
LEMMA ReachesNotEmpty ==
  ASSUME NEW p \in Seq(Binary), NEW bit, NEW index, NEW ones,
         Reaches(p, bit, index, ones)
  PROVE  Len(p) \in Nat \ {0}
<1>1. Begins(p, p)
  BY DEF Begins
<1>2. PICK n \in Nat : n < Len(p)
  BY <1>1 DEF Reaches
<1> QED BY <1>2

(* A number behind it is read as the length of the next run. *)
LEMMA ReachesRun ==
  ASSUME NEW p \in Seq(Binary), NEW bit \in Binary, NEW index \in Nat, NEW ones,
         Reaches(p, bit, index, ones), NEW x \in Nat \ {0}
  PROVE  /\ p \o EliasGamma(x) \in Seq(Binary)
         /\ Len(p \o EliasGamma(x)) = Len(p) + Len(EliasGamma(x))
         /\ Reaches(p \o EliasGamma(x), 1 - bit, index + x,
                    IF bit = 1 THEN ones \cup index .. index + x - 1 ELSE ones)
<1> DEFINE g == EliasGamma(x)
           q == p \o g
<1>1. g \in Seq(Binary) /\ Len(g) \in Nat \ {0}
  BY GammaLength
<1>2. Len(p) \in Nat \ {0}
  BY ReachesNotEmpty
<1> HIDE DEF g
<1>3. /\ q \in Seq(Binary) /\ Len(q) = Len(p) + Len(g)
      /\ \A k \in 1 .. Len(p) : q[k] = p[k]
      /\ \A k \in 1 .. Len(g) : q[Len(p) + k] = g[k]
  BY ONLY <1>1, p \in Seq(Binary)
<1> HIDE DEF q
<1>4. ASSUME NEW bits \in Seq(Binary), Begins(bits, q)
      PROVE  \E n \in Nat :
               /\ n < Len(q)
               /\ Decoding(bits)[n].at = Len(q)
               /\ Decoding(bits)[n].bit = 1 - bit
               /\ Decoding(bits)[n].index = index + x
               /\ Ones(Decoding(bits)[n].done) =
                    IF bit = 1 THEN ones \cup index .. index + x - 1 ELSE ones
  <2>1. Len(q) <= Len(bits) /\ \A k \in 1 .. Len(q) : bits[k] = q[k]
    BY <1>4 DEF Begins
  <2>2. Begins(bits, p)
    <3>1. ASSUME NEW k \in 1 .. Len(p) PROVE bits[k] = p[k]
      <4>1. k \in 1 .. Len(q)
        BY <1>1, <1>2, <1>3
      <4> QED BY <4>1, <1>3, <2>1
    <3> QED BY <3>1, <1>1, <1>2, <1>3, <2>1 DEF Begins
  <2>3. PICK n \in Nat : /\ n < Len(p)
                         /\ Decoding(bits)[n].at = Len(p)
                         /\ Decoding(bits)[n].bit = bit
                         /\ Decoding(bits)[n].index = index
                         /\ Ones(Decoding(bits)[n].done) = ones
    BY <2>2 DEF Reaches
  <2> DEFINE s == Decoding(bits)[n]
  <2>4. bits # <<>>
    BY <1>1, <1>2, <1>3, <2>1
  <2>5. s \in Stage /\ Decoding(bits)[n + 1] = DecodeRun(bits, s)
    BY <2>4, DecodingFacts
  <2>6. s.at = Len(p) /\ s.bit = bit /\ s.index = index /\ Ones(s.done) = ones
        /\ s.done \in Seq(Binary)
    BY <2>3, <2>5 DEF Stage
  <2>7. DecodeEliasGammaEntry(bits, Len(p)) =
          [value |-> x, last |-> Len(p) + Len(g) - 1]
    <3>1. ASSUME NEW k \in 1 .. Len(g) PROVE bits[Len(p) + k] = g[k]
      <4>1. Len(p) + k \in 1 .. Len(q)
        BY <1>1, <1>2, <1>3
      <4> QED BY <4>1, <1>3, <2>1
    <3>2. Len(p) + Len(g) <= Len(bits)
      BY <1>3, <2>1
    <3>3. Len(p) \in Nat
      BY <1>2
    <3> QED BY <3>1, <3>2, <3>3, DecodesGamma DEF g
  <2>8. ~(s.at >= Len(bits) \/ x = 0)
    BY <1>1, <1>2, <1>3, <2>1, <2>6
  <2> HIDE DEF s
  <2>9. DecodeRun(bits, s) =
          [at |-> Len(p) + Len(g), bit |-> 1 - bit, index |-> index + x,
           done |-> IF bit = 1
                    THEN SetBits(s.done, index + x - 1, index .. index + x - 1)
                    ELSE s.done]
    <3>1. (Len(p) + Len(g) - 1) + 1 = Len(p) + Len(g)
      BY <1>1, <1>2
    <3>2. DecodeEliasGammaEntry(bits, s.at).value = x
          /\ DecodeEliasGammaEntry(bits, s.at).last = Len(p) + Len(g) - 1
      BY <2>6, <2>7
    <3> QED BY <3>1, <3>2, <2>6, <2>8 DEF DecodeRun
  <2>10. Ones(DecodeRun(bits, s).done) =
           IF bit = 1 THEN ones \cup index .. index + x - 1 ELSE ones
    <3>1. CASE bit = 1
      <4>1. DecodeRun(bits, s).done =
              SetBits(s.done, index + x - 1, index .. index + x - 1)
        BY <2>9, <3>1
      <4>2. index + x - 1 \in Int /\ index + x - 1 >= -1
            /\ index .. index + x - 1 \in SUBSET (0 .. index + x - 1)
        OBVIOUS
      <4>3. Ones(SetBits(s.done, index + x - 1, index .. index + x - 1)) =
              Ones(s.done) \cup index .. index + x - 1
        BY <2>6, <4>2, SetBitsFacts
      <4> QED BY <2>6, <3>1, <4>1, <4>3
    <3>2. CASE bit # 1
      BY <2>6, <2>9, <3>2
    <3> QED BY <3>1, <3>2
  <2>11. n + 1 \in Nat /\ n + 1 < Len(q)
    BY <1>1, <1>2, <1>3, <2>3
  <2>12. /\ DecodeRun(bits, s).at = Len(q)
         /\ DecodeRun(bits, s).bit = 1 - bit
         /\ DecodeRun(bits, s).index = index + x
    BY <1>3, <2>9
  <2>13. Decoding(bits)[n + 1] = DecodeRun(bits, s)
    BY <2>5
  <2> QED BY <2>10, <2>11, <2>12, <2>13
<1>5. Reaches(q, 1 - bit, index + x,
              IF bit = 1 THEN ones \cup index .. index + x - 1 ELSE ones)
  BY <1>4 DEF Reaches
<1> QED BY <1>3, <1>5 DEF q, g

(* Behind it nothing but padding: the decoder is done. *)
LEMMA ReachesEnd ==
  ASSUME NEW p \in Seq(Binary), NEW bit, NEW index, NEW ones,
         Reaches(p, bit, index, ones),
         NEW bits \in Seq(Binary), Begins(bits, p),
         \A k \in Len(p) + 1 .. Len(bits) : bits[k] = 0
  PROVE  bits # <<>> /\ Ones(Decompressed(bits)) = ones
<1>1. Len(p) \in Nat \ {0} /\ Len(p) <= Len(bits) /\ Len(bits) \in Nat
  BY ReachesNotEmpty DEF Begins
<1>2. bits # <<>>
  BY <1>1
<1>3. PICK n \in Nat : /\ n < Len(p)
                       /\ Decoding(bits)[n].at = Len(p)
                       /\ Ones(Decoding(bits)[n].done) = ones
  BY DEF Reaches
<1> DEFINE s == Decoding(bits)[n]
<1>4. DecodeRun(bits, s) = s
  <2>1. ASSUME NEW k \in Ones(bits) PROVE ~(k >= Len(p))
    <3>1. k \in 0 .. Len(bits) - 1 /\ bits[k + 1] = 1
      BY DEF Ones, GetBit
    <3>2. CASE k >= Len(p)
      <4>1. k + 1 \in Len(p) + 1 .. Len(bits)
        BY <1>1, <3>1, <3>2
      <4> QED BY <3>1, <4>1
    <3> QED BY <3>2
  <2>2. DecodeEliasGammaEntry(bits, s.at).value = 0
    BY <1>3, <2>1, DecodesNothing
  <2> HIDE DEF s
  <2> QED BY <2>2 DEF DecodeRun
<1>5. \A m \in Nat : m >= n => Decoding(bits)[m] = s
  <2> DEFINE T == {m \in Nat : m >= n /\ Decoding(bits)[m] # s}
  <2> HIDE DEF s
  <2> SUFFICES ASSUME T # {} PROVE FALSE
    OBVIOUS
  <2>1. PICK m \in T : \A k \in T : m <= k
    BY LeastNat
  <2>2. m # n
    BY DEF s
  <2>3. m - 1 \in Nat /\ m - 1 >= n /\ ~(m - 1 \in T) /\ (m - 1) + 1 = m
    BY <2>1, <2>2
  <2>4. Decoding(bits)[m - 1] = s
    BY <2>3
  <2>5. Decoding(bits)[(m - 1) + 1] = DecodeRun(bits, Decoding(bits)[m - 1])
    BY <1>2, <2>3, DecodingFacts
  <2>6. Decoding(bits)[m] = s
    BY <1>4, <2>3, <2>4, <2>5
  <2> QED BY <2>1, <2>6
<1>6. Decoding(bits)[Len(bits)] = s
  <2>1. Len(bits) \in Nat /\ Len(bits) >= n
    BY <1>1, <1>3
  <2> QED BY <1>5, <2>1
<1> QED BY <1>2, <1>3, <1>6 DEF Decompressed

(* Padding fills the last byte with zeros.                                 *)
LEMMA PaddedFacts ==
  ASSUME NEW p \in Seq(Binary)
  PROVE  /\ Padded(p) \in Seq(Binary) /\ Len(Padded(p)) % Byte = 0
         /\ Begins(Padded(p), p)
         /\ \A k \in Len(p) + 1 .. Len(Padded(p)) : Padded(p)[k] = 0
<1> DEFINE n == RoundUp(Len(p)) - Len(p)
           z == Zeros(n)
<1>1. n \in Nat /\ Len(p) \in Nat /\ (Len(p) + n) % Byte = 0
  <2>1. Len(p) \in Nat
    OBVIOUS
  <2>2. RoundUp(Len(p)) \in Nat /\ Len(p) <= RoundUp(Len(p))
        /\ RoundUp(Len(p)) % Byte = 0
    BY <2>1, RoundUpFacts
  <2>3. Len(p) + n = RoundUp(Len(p)) /\ n \in Nat
    BY <2>1, <2>2
  <2> QED BY <2>1, <2>2, <2>3
<1> HIDE DEF n
<1>2. z \in Seq(Binary) /\ Len(z) = n /\ \A k \in 1 .. n : z[k] = 0
  <2>1. z \in [1 .. n -> Binary]
    BY DEF Zeros, Binary
  <2>2. \A k \in 1 .. n : z[k] = 0
    BY DEF Zeros
  <2> QED BY <1>1, <2>1, <2>2
<1>3. Padded(p) = p \o z
  BY DEF Padded, n
<1> HIDE DEF z
<1>4. z \in Seq(Binary)
  BY <1>2
<1>5. /\ p \o z \in Seq(Binary) /\ Len(p \o z) = Len(p) + Len(z)
      /\ \A k \in 1 .. Len(p) : (p \o z)[k] = p[k]
      /\ \A k \in 1 .. Len(z) : (p \o z)[Len(p) + k] = z[k]
  BY ONLY <1>4, p \in Seq(Binary)
<1> DEFINE b == Padded(p)
<1>6. /\ b \in Seq(Binary) /\ Len(b) = Len(p) + n
      /\ \A k \in 1 .. Len(p) : b[k] = p[k]
      /\ \A k \in 1 .. n : b[Len(p) + k] = 0
  <2> DEFINE pz == p \o z
  <2>1. /\ pz \in Seq(Binary) /\ Len(pz) = Len(p) + Len(z)
        /\ \A k \in 1 .. Len(p) : pz[k] = p[k]
        /\ \A k \in 1 .. Len(z) : pz[Len(p) + k] = z[k]
    BY <1>5
  <2>2. b = pz
    BY <1>3
  <2> HIDE DEF pz, b
  <2> QED BY <1>2, <2>1, <2>2
<1> HIDE DEF b
<1>7. ASSUME NEW k \in Len(p) + 1 .. Len(b) PROVE b[k] = 0
  <2>1. k - Len(p) \in 1 .. n /\ Len(p) + (k - Len(p)) = k
    BY <1>1, <1>6
  <2>2. b[Len(p) + (k - Len(p))] = 0
    BY <1>6, <2>1
  <2> QED BY <2>1, <2>2
<1>8. Begins(b, p)
  BY <1>1, <1>6 DEF Begins
<1> QED BY <1>1, <1>6, <1>7, <1>8 DEF b

(* A row that codes `ones`: its last run, of ones, is coded at lastStart   *)
(* and ends with maxIndex; nothing but padding is behind it.               *)
Parts(row, p, x, index, before) ==
  /\ Reaches(p, 1, index, before)
  /\ \A k \in before : k < index
  /\ row.bits = Padded(p \o EliasGamma(x))
  /\ row.lastStart = Len(p)
  /\ row.maxIndex = index + x - 1

Tidy(row, ones) ==
  \E p \in Seq(Binary), x \in Nat \ {0}, index \in Nat, before \in SUBSET Nat :
    /\ Parts(row, p, x, index, before)
    /\ ones = before \cup index .. index + x - 1

(* What begins with p has it as its first part.                            *)
LEMMA BeginsSub ==
  ASSUME NEW bits \in Seq(Binary), NEW p \in Seq(Binary), Begins(bits, p)
  PROVE  SubSeq(bits, 1, Len(p)) = p
<1>1. Len(p) \in Nat /\ Len(bits) \in Nat /\ Len(p) <= Len(bits)
      /\ \A k \in 1 .. Len(p) : bits[k] = p[k]
  BY DEF Begins
<1> DEFINE s == SubSeq(bits, 1, Len(p))
<1>2. s = [k \in 1 .. Len(p) |-> bits[k]]
  BY <1>1
<1>3. p = [k \in 1 .. Len(p) |-> p[k]]
  OBVIOUS
<1> HIDE DEF s
<1>4. s = [k \in 1 .. Len(p) |-> p[k]]
  BY <1>1, <1>2
<1> QED BY <1>3, <1>4 DEF s

(* What the row of the definition is made of. *)
LEMMA TidyParts ==
  ASSUME NEW row, NEW p \in Seq(Binary), NEW x \in Nat \ {0},
         NEW index \in Nat, NEW before \in SUBSET Nat,
         Parts(row, p, x, index, before)
  PROVE  /\ row.bits \in Seq(Binary) /\ row.bits # <<>>
         /\ Len(row.bits) % Byte = 0
         /\ Len(p) \in Nat /\ Len(p) < Len(row.bits)
         /\ SubSeq(row.bits, 1, Len(p)) = p
         /\ DecodeEliasGammaEntry(row.bits, Len(p)) =
              [value |-> x, last |-> Len(p) + Len(EliasGamma(x)) - 1]
         /\ SubSeq(row.bits, 1, Len(p) + Len(EliasGamma(x))) = p \o EliasGamma(x)
         /\ Decompress(row.bits) = before \cup index .. index + x - 1
<1> DEFINE g == EliasGamma(x)
           q == p \o g
           b == row.bits
<1>1. g \in Seq(Binary) /\ Len(g) \in Nat \ {0} /\ Len(p) \in Nat
  BY GammaLength
<1>2. 1 \in Binary
  BY DEF Binary
<1>3. q \in Seq(Binary) /\ Len(q) = Len(p) + Len(g)
      /\ Reaches(q, 0, index + x, before \cup index .. index + x - 1)
  <2>1. 1 - 1 = 0 /\ Reaches(p, 1, index, before)
    BY DEF Parts
  <2>2. /\ q \in Seq(Binary) /\ Len(q) = Len(p) + Len(g)
        /\ Reaches(q, 1 - 1, index + x,
                   IF 1 = 1 THEN before \cup index .. index + x - 1 ELSE before)
    BY ONLY <1>2, <2>1, ReachesRun, p \in Seq(Binary), index \in Nat,
       x \in Nat \ {0}
  <2> QED BY <2>1, <2>2
<1> HIDE DEF g
<1>4. g \in Seq(Binary)
  BY <1>1
<1>5. /\ \A k \in 1 .. Len(p) : q[k] = p[k]
      /\ \A k \in 1 .. Len(g) : q[Len(p) + k] = g[k]
  BY ONLY <1>4, p \in Seq(Binary)
<1>6. b = Padded(q)
  BY DEF g, Parts
<1> HIDE DEF q, b
<1>7. b \in Seq(Binary) /\ Len(b) % Byte = 0 /\ Begins(b, q)
      /\ \A k \in Len(q) + 1 .. Len(b) : b[k] = 0
  BY <1>3, <1>6, PaddedFacts
<1>8. Len(b) \in Nat /\ Len(q) <= Len(b) /\ \A k \in 1 .. Len(q) : b[k] = q[k]
  BY <1>7 DEF Begins
<1>9. Begins(b, p)
  <2>1. ASSUME NEW k \in 1 .. Len(p) PROVE b[k] = p[k]
    <3>1. k \in 1 .. Len(q)
      BY <1>1, <1>3
    <3> QED BY <3>1, <1>5, <1>8
  <2> QED BY <2>1, <1>1, <1>3, <1>8 DEF Begins
<1>10. SubSeq(b, 1, Len(p)) = p /\ SubSeq(b, 1, Len(q)) = q
  BY <1>3, <1>7, <1>9, BeginsSub
<1>11. DecodeEliasGammaEntry(b, Len(p)) = [value |-> x, last |-> Len(p) + Len(g) - 1]
  <2>1. ASSUME NEW k \in 1 .. Len(g) PROVE b[Len(p) + k] = g[k]
    <3>1. Len(p) + k \in 1 .. Len(q)
      BY <1>1, <1>3
    <3> QED BY <3>1, <1>5, <1>8
  <2>2. Len(p) + Len(g) <= Len(b)
    BY <1>3, <1>8
  <2> QED BY <1>1, <1>7, <2>1, <2>2, DecodesGamma DEF g
<1>12. b # <<>> /\ Ones(Decompressed(b)) = before \cup index .. index + x - 1
  BY <1>3, <1>7, ReachesEnd
<1>13. Decompress(b) = before \cup index .. index + x - 1
  BY <1>12 DEF Decompress
<1>14. Len(p) < Len(b)
  BY <1>1, <1>3, <1>8
<1>15. SubSeq(b, 1, Len(p) + Len(g)) = q
  BY <1>3, <1>10
<1> QED BY <1>1, <1>7, <1>10, <1>11, <1>12, <1>13, <1>14, <1>15 DEF b, q, g

(* Both decoders find what is coded. *)
LEMMA TidyFacts ==
  ASSUME NEW row, NEW ones, Tidy(row, ones)
  PROVE  /\ row.bits \in Seq(Binary) /\ row.bits # <<>>
         /\ Len(row.bits) % Byte = 0
         /\ row.lastStart \in 0 .. Len(row.bits) - 1
         /\ row.maxIndex \in Nat /\ row.maxIndex \in ones
         /\ ones \in SUBSET Nat /\ \A k \in ones : k <= row.maxIndex
         /\ Decompress(row.bits) = ones
<1>1. PICK p \in Seq(Binary), x \in Nat \ {0}, index \in Nat, before \in SUBSET Nat :
        /\ Parts(row, p, x, index, before)
        /\ ones = before \cup index .. index + x - 1
  BY DEF Tidy
<1>0. /\ Reaches(p, 1, index, before)
      /\ \A k \in before : k < index
      /\ row.bits = Padded(p \o EliasGamma(x))
      /\ row.lastStart = Len(p)
      /\ row.maxIndex = index + x - 1
  BY <1>1 DEF Parts
<1>2. /\ row.bits \in Seq(Binary) /\ row.bits # <<>>
      /\ Len(row.bits) % Byte = 0
      /\ Len(p) \in Nat /\ Len(p) < Len(row.bits)
      /\ Decompress(row.bits) = before \cup index .. index + x - 1
  BY <1>1, TidyParts
<1>3. row.lastStart \in 0 .. Len(row.bits) - 1
  <2>1. Len(row.bits) \in Nat
    BY <1>2
  <2> QED BY <1>0, <1>1, <1>2, <2>1
<1>4. row.maxIndex \in Nat /\ row.maxIndex \in ones
      /\ ones \in SUBSET Nat /\ \A k \in ones : k <= row.maxIndex
  BY <1>0, <1>1
<1> QED BY <1>1, <1>2, <1>3, <1>4

(* A later index makes the last run longer or begins another one.          *)
LEMMA AddsLast ==
  ASSUME NEW row, NEW ones, Tidy(row, ones), NEW h \in Nat, row.maxIndex < h
  PROVE  Tidy(AddIndexCompressedLast(row, h), ones \cup {h})
<1>1. PICK p \in Seq(Binary), x \in Nat \ {0}, index \in Nat, before \in SUBSET Nat :
        /\ Parts(row, p, x, index, before)
        /\ ones = before \cup index .. index + x - 1
  BY DEF Tidy
<1>0. /\ Reaches(p, 1, index, before)
      /\ \A k \in before : k < index
      /\ row.bits = Padded(p \o EliasGamma(x))
      /\ row.lastStart = Len(p)
      /\ row.maxIndex = index + x - 1
  BY <1>1 DEF Parts
<1>2. /\ Len(p) \in Nat
      /\ SubSeq(row.bits, 1, Len(p)) = p
      /\ DecodeEliasGammaEntry(row.bits, Len(p)) =
           [value |-> x, last |-> Len(p) + Len(EliasGamma(x)) - 1]
      /\ SubSeq(row.bits, 1, Len(p) + Len(EliasGamma(x))) = p \o EliasGamma(x)
  BY <1>1, TidyParts
<1> DEFINE gap == h - row.maxIndex - 1
           new == AddIndexCompressedLast(row, h)
<1>3. gap \in Nat /\ h = index + x + gap
  BY <1>0
<1>4. CASE gap = 0
  <2>1. h = index + x /\ x + 1 \in Nat \ {0} /\ h = index + (x + 1) - 1
    BY <1>3, <1>4
  <2>2. new = [bits |-> Padded(p \o EliasGamma(x + 1)),
               lastStart |-> Len(p), maxIndex |-> h]
    <3> DEFINE decoded == DecodeEliasGammaEntry(row.bits, row.lastStart)
    <3>1. decoded.value = x
      BY <1>0, <1>2
    <3> HIDE DEF decoded
    <3>2. new = [bits |-> Padded(SubSeq(row.bits, 1, row.lastStart)
                             \o EliasGamma(decoded.value + 1)),
                 lastStart |-> row.lastStart, maxIndex |-> h]
      BY <1>4 DEF AddIndexCompressedLast, decoded
    <3> QED BY <1>0, <1>2, <3>1, <3>2
  <2>3. ones \cup {h} = before \cup index .. index + (x + 1) - 1
    BY <1>1, <2>1
  <2> HIDE DEF new
  <2>4. /\ new.bits = Padded(p \o EliasGamma(x + 1))
        /\ new.lastStart = Len(p)
        /\ new.maxIndex = index + (x + 1) - 1
    BY <2>1, <2>2
  <2>5. Tidy(new, ones \cup {h})
    <3>1. Parts(new, p, x + 1, index, before)
      BY <1>0, <2>4 DEF Parts
    <3> QED BY <2>1, <2>3, <3>1 DEF Tidy
  <2> QED BY <2>5 DEF new
<1>5. CASE gap # 0
  <2> DEFINE q == p \o EliasGamma(x)
             zeros == EliasGamma(gap)
             r == q \o zeros
  <2>1. gap \in Nat \ {0} /\ index + x \in Nat
    BY <1>3, <1>5
  <2>2. 1 \in Binary /\ 0 \in Binary /\ 1 - 1 = 0 /\ 1 - 0 = 1
    BY DEF Binary
  <2>3. q \in Seq(Binary) /\ Len(q) = Len(p) + Len(EliasGamma(x))
        /\ Reaches(q, 0, index + x, ones)
    <3>1. /\ q \in Seq(Binary) /\ Len(q) = Len(p) + Len(EliasGamma(x))
          /\ Reaches(q, 1 - 1, index + x,
                     IF 1 = 1 THEN before \cup index .. index + x - 1 ELSE before)
      BY ONLY <1>0, <2>2, ReachesRun, p \in Seq(Binary), index \in Nat,
         x \in Nat \ {0}
    <3> QED BY <1>1, <2>2, <3>1
  <2> HIDE DEF q, gap
  <2>4. r \in Seq(Binary) /\ Len(r) = Len(q) + Len(zeros)
        /\ Reaches(r, 1, index + x + gap, ones)
    <3>1. /\ r \in Seq(Binary) /\ Len(r) = Len(q) + Len(zeros)
          /\ Reaches(r, 1 - 0, index + x + gap,
                     IF 0 = 1 THEN ones \cup index + x .. index + x + gap - 1
                     ELSE ones)
      BY ONLY <2>1, <2>2, <2>3, ReachesRun
    <3> QED BY <2>2, <3>1
  <2> HIDE DEF r, zeros
  <2>5. Len(EliasGamma(x)) \in Nat
    BY GammaLength
  <2>6. (Len(p) + Len(EliasGamma(x)) - 1) + 1 = Len(q)
    BY <1>2, <2>3, <2>5
  <2>7. SubSeq(row.bits, 1, Len(q)) = q
    BY <1>2, <2>3 DEF q
  <2>8. new = [bits |-> Padded(r \o EliasGamma(1)),
               lastStart |-> Len(q) + Len(zeros), maxIndex |-> h]
    <3> DEFINE decoded == DecodeEliasGammaEntry(row.bits, row.lastStart)
    <3>1. decoded.last + 1 = Len(q)
      BY <1>0, <1>2, <2>6
    <3> HIDE DEF decoded
    <3>2. new = [bits |-> Padded(SubSeq(row.bits, 1, decoded.last + 1)
                             \o EliasGamma(gap) \o EliasGamma(1)),
                 lastStart |-> decoded.last + 1 + Len(EliasGamma(gap)),
                 maxIndex |-> h]
      BY <1>5 DEF AddIndexCompressedLast, decoded, gap
    <3> QED BY <2>7, <3>1, <3>2 DEF zeros, r
  <2>9. ones \in SUBSET Nat /\ \A k \in ones : k < h
    BY <1>0, <1>1, <1>3, <2>1
  <2>10. ones \cup {h} = ones \cup h .. h + 1 - 1
    BY <2>9
  <2>11. Reaches(r, 1, h, ones)
    BY <1>3, <2>4
  <2> HIDE DEF new
  <2>12. /\ new.bits = Padded(r \o EliasGamma(1))
         /\ new.lastStart = Len(r)
         /\ new.maxIndex = h + 1 - 1
    BY <2>4, <2>8
  <2>13. 1 \in Nat \ {0}
    OBVIOUS
  <2>14. Tidy(new, ones \cup {h})
    <3>1. Parts(new, r, 1, h, ones)
      BY <2>9, <2>11, <2>12 DEF Parts
    <3> QED BY <2>4, <2>9, <2>10, <2>13, <3>1 DEF Tidy
  <2> QED BY <2>14 DEF new
<1> QED BY <1>4, <1>5

(* What the loop of the encoder remembers. *)
Writing ==
  [bits : Seq(Binary), bit : Binary, stretch : Nat, lastStart : Int, maxIndex : Int]

(* Writing a run keeps the types, as does reading a bit.                   *)
LEMMA FlushedType ==
  ASSUME NEW s \in Writing, NEW at \in Int
  PROVE  /\ Flushed(s, at) \in Writing
         /\ Flushed(s, at).bits = s.bits \o EliasGamma(s.stretch)
         /\ s.bit = 1 => Flushed(s, at).lastStart = Len(s.bits)
                         /\ Flushed(s, at).maxIndex = at - 1
<1> DEFINE g == EliasGamma(s.stretch)
<1>1. /\ s.bits \in Seq(Binary) /\ s.bit \in Binary /\ s.stretch \in Nat
      /\ s.lastStart \in Int /\ s.maxIndex \in Int
  BY DEF Writing
<1>2. g \in Seq(Binary)
  <2>1. CASE s.stretch = 0
    <3>1. g = <<>>
      BY <2>1 DEF EliasGamma
    <3>2. <<>> \in Seq(Binary)
      OBVIOUS
    <3> QED BY <3>1, <3>2
  <2>2. CASE s.stretch # 0
    BY <1>1, <2>2, GammaLength
  <2> QED BY <2>1, <2>2
<1> HIDE DEF g
<1>3. s.bits \o g \in Seq(Binary)
  BY <1>1, <1>2
<1>4. Len(s.bits) \in Int /\ at - 1 \in Int
  BY <1>1
<1> DEFINE l == IF s.bit = 1 THEN Len(s.bits) ELSE s.lastStart
           m == IF s.bit = 1 THEN at - 1 ELSE s.maxIndex
<1>5. Flushed(s, at) = [s EXCEPT !.bits = s.bits \o g, !.lastStart = l, !.maxIndex = m]
  BY DEF Flushed, g
<1>6. l \in Int /\ m \in Int
  BY <1>1, <1>4
<1>7. Flushed(s, at) = [bits |-> s.bits \o g, bit |-> s.bit, stretch |-> s.stretch,
                        lastStart |-> l, maxIndex |-> m]
  BY <1>5 DEF Writing
<1>8. Flushed(s, at) \in Writing
  <2> HIDE DEF l, m
  <2> QED BY <1>1, <1>3, <1>6, <1>7 DEF Writing
<1>9. /\ Flushed(s, at).bits = s.bits \o g
      /\ Flushed(s, at).lastStart = l /\ Flushed(s, at).maxIndex = m
  <2> HIDE DEF l, m
  <2> QED BY <1>7
<1>10. s.bit = 1 => l = Len(s.bits) /\ m = at - 1
  OBVIOUS
<1> HIDE DEF l, m
<1> QED BY <1>8, <1>9, <1>10 DEF g

LEMMA ReadBitType ==
  ASSUME NEW s \in Writing, NEW at \in Int, NEW bit \in Binary
  PROVE  /\ ReadBit(s, at, bit) \in Writing
         /\ bit = s.bit => ReadBit(s, at, bit) = [s EXCEPT !.stretch = s.stretch + 1]
         /\ bit # s.bit => ReadBit(s, at, bit) =
              [Flushed(s, at) EXCEPT !.bit = bit, !.stretch = 1]
<1> DEFINE f == Flushed(s, at)
<1>1. f \in Writing
  BY FlushedType
<1> HIDE DEF f
<1>2. CASE bit = s.bit
  <2>1. ReadBit(s, at, bit) = [s EXCEPT !.stretch = s.stretch + 1]
    BY <1>2 DEF ReadBit
  <2> QED BY <1>2, <2>1 DEF Writing
<1>3. CASE bit # s.bit
  <2>1. ReadBit(s, at, bit) = [f EXCEPT !.bit = bit, !.stretch = 1]
    BY <1>3 DEF ReadBit, f
  <2>2. [f EXCEPT !.bit = bit, !.stretch = 1] \in Writing
    BY <1>1 DEF Writing
  <2> QED BY <1>3, <2>1, <2>2 DEF f
<1> QED BY <1>2, <1>3

FirstWriting(ones) ==
  [bits |-> <<Bit(ones, 0)>>, bit |-> Bit(ones, 0), stretch |-> 0,
   lastStart |-> 1, maxIndex |-> 0]

(* The loop is what the recursive function says.                           *)
LEMMA EncodingFacts ==
  ASSUME NEW ones
  PROVE  /\ Encoding(ones)[0] = FirstWriting(ones)
         /\ \A n \in Nat : Encoding(ones)[n] \in Writing
         /\ \A n \in Nat : Encoding(ones)[n + 1] =
                             ReadBit(Encoding(ones)[n], n, Bit(ones, n))
<1> DEFINE a == FirstWriting(ones)
           f == [p \in Nat \X Writing |-> ReadBit(p[2], p[1] - 1, Bit(ones, p[1] - 1))]
           read == Encoding(ones)
<1>0. \A k \in Int : Bit(ones, k) \in Binary
  BY DEF Bit, Binary
<1>1. a \in Writing
  <2>1. Bit(ones, 0) \in Binary
    BY <1>0
  <2>2. <<Bit(ones, 0)>> \in Seq(Binary)
    BY <2>1
  <2> QED BY <2>1, <2>2 DEF FirstWriting, Writing
<1>2. \A k \in Nat, v \in Writing : ReadBit(v, k - 1, Bit(ones, k - 1)) \in Writing
  <2> TAKE k \in Nat, v \in Writing
  <2>1. k - 1 \in Int
    OBVIOUS
  <2> QED BY <1>0, <2>1, ReadBitType
<1>3. \A k \in Nat, v \in Writing : f[<<k, v>>] = ReadBit(v, k - 1, Bit(ones, k - 1))
  OBVIOUS
<1>4. f \in [Nat \X Writing -> Writing]
  BY <1>2
<1> HIDE DEF f, a
<1>5. PICK g \in [Nat -> Writing] : Recurs(g, a, f)
  BY <1>1, <1>4, Recursion
<1>6. \A k \in Nat : g[k] \in Writing
  OBVIOUS
<1>7. ASSUME NEW k \in Nat \ {0}
      PROVE  g[k] = ReadBit(g[k - 1], k - 1, Bit(ones, k - 1))
  <2>1. k - 1 \in Nat /\ (k - 1) + 1 = k
    OBVIOUS
  <2>2. g[(k - 1) + 1] = f[<<(k - 1) + 1, g[k - 1]>>]
    BY <1>5, <2>1 DEF Recurs
  <2>3. f[<<k, g[k - 1]>>] = ReadBit(g[k - 1], k - 1, Bit(ones, k - 1))
    BY <1>3, <1>6, <2>1
  <2> QED BY <2>1, <2>2, <2>3
<1>8. g[0] = a
  BY <1>5 DEF Recurs
<1>9. g = [n \in Nat |-> IF n = 0 THEN FirstWriting(ones)
                         ELSE ReadBit(g[n - 1], n - 1, Bit(ones, n - 1))]
  BY <1>7, <1>8 DEF a
<1>10. read = [n \in Nat |-> IF n = 0 THEN FirstWriting(ones)
                             ELSE ReadBit(read[n - 1], n - 1, Bit(ones, n - 1))]
  BY <1>9 DEF Encoding, FirstWriting
<1> HIDE DEF read
<1>11. read[0] = a
  BY <1>10 DEF a
<1>12. ASSUME NEW n \in Nat PROVE read[n + 1] = ReadBit(read[n], n, Bit(ones, n))
  <2>1. n + 1 \in Nat /\ n + 1 # 0 /\ (n + 1) - 1 = n
    OBVIOUS
  <2> DEFINE m == n + 1
  <2>2. read[m] = ReadBit(read[m - 1], m - 1, Bit(ones, m - 1))
    <3> HIDE DEF m
    <3>1. m \in Nat /\ m # 0
      BY <2>1 DEF m
    <3> QED BY <1>10, <3>1
  <2> QED BY <2>1, <2>2
<1>13. ASSUME NEW n \in Nat PROVE read[n] \in Writing
  <2> DEFINE T == {m \in Nat : ~(read[m] \in Writing)}
  <2> SUFFICES ASSUME T # {} PROVE FALSE
    BY <1>13
  <2>1. PICK m \in T : \A k \in T : m <= k
    BY LeastNat
  <2>2. m # 0
    BY <1>1, <1>11
  <2>3. m - 1 \in Nat /\ ~(m - 1 \in T) /\ (m - 1) + 1 = m /\ m - 1 \in Int
    BY <2>1, <2>2
  <2>4. read[m - 1] \in Writing
    BY <2>3
  <2>5. read[m] = ReadBit(read[m - 1], m - 1, Bit(ones, m - 1))
    BY <2>3, <1>12
  <2>6. ReadBit(read[m - 1], m - 1, Bit(ones, m - 1)) \in Writing
    BY <1>0, <2>3, <2>4, ReadBitType
  <2> QED BY <2>5, <2>6
<1> QED BY <1>11, <1>12, <1>13 DEF read, a

-----------------------------------------------------------------------------
Below(ones, n) == {k \in ones : k < n}
RowOf(s) == [bits |-> Padded(s.bits), lastStart |-> s.lastStart,
             maxIndex |-> s.maxIndex]

(* After n bits: the run under way has not been written, all before it is. *)
Encodes(s, ones, n) ==
  /\ s.stretch <= n /\ (s.stretch = 0 => n = 0)
  /\ n = 0 => s.bit = Bit(ones, 0)
  /\ Reaches(s.bits, s.bit, n - s.stretch, Below(ones, n - s.stretch))
  /\ \A k \in n - s.stretch .. n - 1 : Bit(ones, k) = s.bit
  /\ s.bit = 0 /\ Below(ones, n) # {} => Tidy(RowOf(s), Below(ones, n))

(* When a run of ones is written the row is tidy. *)
LEMMA FlushedIsTidy ==
  ASSUME NEW ones \in SUBSET Nat, NEW s \in Writing, NEW n \in Nat \ {0},
         Encodes(s, ones, n)
  PROVE  /\ s.stretch \in Nat \ {0}
         /\ Reaches(s.bits \o EliasGamma(s.stretch), 1 - s.bit, n, Below(ones, n))
         /\ s.bit = 1 => Tidy(RowOf(Flushed(s, n)), Below(ones, n))
<1> DEFINE c == s.stretch
           at == n - c
<1>1. s.bits \in Seq(Binary) /\ s.bit \in Binary /\ c \in Nat \ {0}
      /\ at \in Nat /\ at + c = n
  BY DEF Writing, Encodes
<1>2. /\ Reaches(s.bits, s.bit, at, Below(ones, at))
      /\ \A k \in at .. n - 1 : Bit(ones, k) = s.bit
  BY DEF Encodes
<1> HIDE DEF c, at
<1>3. Below(ones, n) =
        IF s.bit = 1 THEN Below(ones, at) \cup at .. at + c - 1 ELSE Below(ones, at)
  <2>1. at + c - 1 = n - 1 /\ at <= n
    BY <1>1
  <2>2. CASE s.bit = 1
    <3>1. \A k \in at .. n - 1 : k \in ones
      BY <1>2, <2>2 DEF Bit
    <3>2. \A k \in ones : k < n <=> k < at \/ k \in at .. n - 1
      BY <1>1
    <3>3. Below(ones, n) = Below(ones, at) \cup at .. n - 1
      BY <1>1, <3>1, <3>2 DEF Below
    <3> QED BY <2>1, <2>2, <3>3
  <2>3. CASE s.bit # 1
    <3>1. \A k \in at .. n - 1 : ~(k \in ones)
      BY <1>1, <1>2, <2>3 DEF Bit, Binary
    <3>2. \A k \in ones : k < n <=> k < at \/ k \in at .. n - 1
      BY <1>1
    <3>3. Below(ones, n) = Below(ones, at)
      BY <3>1, <3>2 DEF Below
    <3> QED BY <2>3, <3>3
  <2> QED BY <2>2, <2>3
<1>4. Reaches(s.bits \o EliasGamma(c), 1 - s.bit, n, Below(ones, n))
  <2>1. Reaches(s.bits \o EliasGamma(c), 1 - s.bit, at + c,
                IF s.bit = 1 THEN Below(ones, at) \cup at .. at + c - 1
                ELSE Below(ones, at))
    BY ONLY <1>1, <1>2, ReachesRun
  <2> QED BY <1>1, <1>3, <2>1
<1>5. ASSUME s.bit = 1 PROVE Tidy(RowOf(Flushed(s, n)), Below(ones, n))
  <2> DEFINE row == RowOf(Flushed(s, n))
  <2>1. n \in Int
    OBVIOUS
  <2>2. /\ row.bits = Padded(s.bits \o EliasGamma(c))
        /\ row.lastStart = Len(s.bits)
        /\ row.maxIndex = at + c - 1
    <3> DEFINE f == Flushed(s, n)
    <3>1. /\ f.bits = s.bits \o EliasGamma(s.stretch)
          /\ s.bit = 1 => f.lastStart = Len(s.bits) /\ f.maxIndex = n - 1
      BY <2>1, FlushedType
    <3> HIDE DEF f
    <3>2. row = [bits |-> Padded(f.bits), lastStart |-> f.lastStart,
                 maxIndex |-> f.maxIndex]
      BY DEF RowOf, f
    <3>3. at + c - 1 = n - 1
      BY <1>1
    <3> HIDE DEF row
    <3> QED BY <1>5, <3>1, <3>2, <3>3 DEF c
  <2> HIDE DEF row
  <2>3. Below(ones, at) \in SUBSET Nat /\ \A k \in Below(ones, at) : k < at
    BY DEF Below
  <2>4. Parts(row, s.bits, c, at, Below(ones, at))
    BY <1>2, <1>5, <2>2, <2>3 DEF Parts
  <2>5. Below(ones, n) = Below(ones, at) \cup at .. at + c - 1
    BY <1>3, <1>5
  <2>6. Tidy(row, Below(ones, n))
    BY <1>1, <2>3, <2>4, <2>5 DEF Tidy
  <2> QED BY <2>6 DEF row
<1> QED BY <1>1, <1>4, <1>5 DEF c

(* Reading one more bit, of the same run or of a new one.                  *)
LEMMA EncodesNext ==
  ASSUME NEW ones \in SUBSET Nat, NEW s \in Writing, NEW n \in Nat,
         Encodes(s, ones, n)
  PROVE  Encodes(ReadBit(s, n, Bit(ones, n)), ones, n + 1)
<1> DEFINE t == ReadBit(s, n, Bit(ones, n))
<1>1. s.bits \in Seq(Binary) /\ s.bit \in Binary /\ s.stretch \in Nat
      /\ n \in Int /\ Bit(ones, n) \in Binary
  BY DEF Writing, Bit, Binary
<1>2. CASE Bit(ones, n) = s.bit
  <2>1. t = [s EXCEPT !.stretch = s.stretch + 1]
    BY <1>1, <1>2, ReadBitType
  <2>2. /\ t.bits = s.bits /\ t.bit = s.bit /\ t.stretch = s.stretch + 1
        /\ t.lastStart = s.lastStart /\ t.maxIndex = s.maxIndex
    BY <2>1 DEF Writing
  <2> HIDE DEF t
  <2>3. (n + 1) - t.stretch = n - s.stretch /\ t.stretch <= n + 1 /\ t.stretch # 0
        /\ n + 1 # 0 /\ (n + 1) - 1 = n
    BY <1>1, <2>2 DEF Encodes
  <2>4. Reaches(t.bits, t.bit, (n + 1) - t.stretch, Below(ones, (n + 1) - t.stretch))
    BY <2>2, <2>3 DEF Encodes
  <2>5. \A k \in (n + 1) - t.stretch .. (n + 1) - 1 : Bit(ones, k) = t.bit
    <3> TAKE k \in (n + 1) - t.stretch .. (n + 1) - 1
    <3>1. k = n \/ k \in n - s.stretch .. n - 1
      BY <1>1, <2>3
    <3>2. ASSUME k \in n - s.stretch .. n - 1 PROVE Bit(ones, k) = t.bit
      BY <2>2, <3>2 DEF Encodes
    <3> QED BY <1>2, <2>2, <3>1, <3>2
  <2>6. ASSUME t.bit = 0, Below(ones, n + 1) # {}
        PROVE  Tidy(RowOf(t), Below(ones, n + 1))
    <3>1. ~(n \in ones)
      BY <1>2, <2>2, <2>6 DEF Bit
    <3>4. \A k \in ones : k < n + 1 <=> k < n
      BY <3>1
    <3>2. Below(ones, n + 1) = Below(ones, n)
      BY <3>4 DEF Below
    <3>3. RowOf(t) = RowOf(s)
      BY <2>2 DEF RowOf
    <3> QED BY <2>2, <2>6, <3>2, <3>3 DEF Encodes
  <2>7. Encodes(t, ones, n + 1)
    BY <2>3, <2>4, <2>5, <2>6 DEF Encodes
  <2> QED BY <2>7 DEF t
<1>3. CASE Bit(ones, n) # s.bit
  <2>1. n \in Nat \ {0}
    BY <1>3 DEF Encodes
  <2>2. /\ s.stretch \in Nat \ {0}
        /\ Reaches(s.bits \o EliasGamma(s.stretch), 1 - s.bit, n, Below(ones, n))
        /\ s.bit = 1 => Tidy(RowOf(Flushed(s, n)), Below(ones, n))
    BY <2>1, FlushedIsTidy
  <2> DEFINE f == Flushed(s, n)
  <2>3. f \in Writing /\ f.bits = s.bits \o EliasGamma(s.stretch)
    BY <1>1, FlushedType
  <2>4. t = [f EXCEPT !.bit = Bit(ones, n), !.stretch = 1]
    <3>1. ReadBit(s, n, Bit(ones, n)) =
            [Flushed(s, n) EXCEPT !.bit = Bit(ones, n), !.stretch = 1]
      BY <1>3 DEF ReadBit
    <3> QED BY <3>1
  <2> HIDE DEF f, t
  <2>5. /\ t.bits = f.bits /\ t.bit = Bit(ones, n) /\ t.stretch = 1
        /\ t.lastStart = f.lastStart /\ t.maxIndex = f.maxIndex
    BY <2>3, <2>4 DEF Writing
  <2>6. t.bit = 1 - s.bit /\ (t.bit = 0 => s.bit = 1)
    BY <1>1, <1>3, <2>5 DEF Binary
  <2>7. (n + 1) - t.stretch = n /\ t.stretch <= n + 1 /\ t.stretch # 0
        /\ n + 1 # 0 /\ (n + 1) - 1 = n
    BY <2>5
  <2>8. Reaches(t.bits, t.bit, (n + 1) - t.stretch, Below(ones, (n + 1) - t.stretch))
    BY <2>2, <2>3, <2>5, <2>6, <2>7
  <2>9. \A k \in (n + 1) - t.stretch .. (n + 1) - 1 : Bit(ones, k) = t.bit
    <3> TAKE k \in (n + 1) - t.stretch .. (n + 1) - 1
    <3>1. k = n
      BY <2>7
    <3> QED BY <2>5, <3>1
  <2>10. ASSUME t.bit = 0 PROVE Tidy(RowOf(t), Below(ones, n + 1))
    <3>1. ~(n \in ones)
      BY <2>5, <2>10 DEF Bit
    <3>4. \A k \in ones : k < n + 1 <=> k < n
      BY <3>1
    <3>2. Below(ones, n + 1) = Below(ones, n)
      BY <3>4 DEF Below
    <3>3. RowOf(t) = RowOf(f)
      BY <2>5 DEF RowOf
    <3> QED BY <2>2, <2>6, <2>10, <3>2, <3>3 DEF f
  <2>11. Encodes(t, ones, n + 1)
    BY <2>7, <2>8, <2>9, <2>10 DEF Encodes
  <2> QED BY <2>11 DEF t
<1> QED BY <1>2, <1>3

(* Before the first bit nothing is encoded.                                *)
LEMMA EncodesFirst ==
  ASSUME NEW ones \in SUBSET Nat
  PROVE  Encodes(FirstWriting(ones), ones, 0)
<1> DEFINE s == FirstWriting(ones)
           b == Bit(ones, 0)
<1>1. b \in Binary
  BY DEF Bit, Binary
<1>2. s.bits = <<b>> /\ s.bit = b /\ s.stretch = 0
  BY DEF FirstWriting
<1>3. Reaches(<<b>>, b, 0, {})
  BY <1>1, ReachesFirst
<1>4. Below(ones, 0) = {}
  <2>1. \A k \in ones : ~(k < 0)
    OBVIOUS
  <2> QED BY <2>1 DEF Below
<1> HIDE DEF s, b
<1>5. 0 - s.stretch = 0
  BY <1>2
<1>6. Reaches(s.bits, s.bit, 0 - s.stretch, Below(ones, 0 - s.stretch))
  BY <1>2, <1>3, <1>4, <1>5
<1>7. \A k \in 0 - s.stretch .. 0 - 1 : Bit(ones, k) = s.bit
  BY <1>5
<1>8. s.bit = Bit(ones, 0)
  BY <1>2 DEF b
<1>9. Encodes(s, ones, 0)
  BY <1>2, <1>4, <1>6, <1>7, <1>8 DEF Encodes
<1> QED BY <1>9 DEF s

(* Coding a whole bitmap gives a tidy row. *)
LEMMA CompressIsTidy ==
  ASSUME NEW ones \in SUBSET Nat, NEW m \in ones, \A k \in ones : k <= m
  PROVE  Tidy(Compress(ones), ones)
<1> DEFINE length == RoundUp(Max(ones) + 1)
           read == Encoding(ones)[length]
           end == IF read.bit = 1 THEN Flushed(read, length) ELSE read
<1>1. Max(ones) = m
  <2>1. ones \in SUBSET Int
    OBVIOUS
  <2> QED BY <2>1, MaxIs
<1>2. length \in Nat \ {0} /\ m < length
  <2>1. m + 1 \in Nat \ {0}
    OBVIOUS
  <2>2. RoundUp(m + 1) \in Nat /\ m + 1 <= RoundUp(m + 1)
    BY <2>1, RoundUpFacts
  <2> QED BY <1>1, <2>1, <2>2
<1> HIDE DEF length
<1>3. \A n \in Nat : Encodes(Encoding(ones)[n], ones, n)
  <2> DEFINE T == {n \in Nat : ~Encodes(Encoding(ones)[n], ones, n)}
  <2> SUFFICES ASSUME T # {} PROVE FALSE
    OBVIOUS
  <2>1. PICK n \in T : \A k \in T : n <= k
    BY LeastNat
  <2>2. n # 0
    BY EncodingFacts, EncodesFirst
  <2>3. n - 1 \in Nat /\ ~(n - 1 \in T) /\ (n - 1) + 1 = n
    BY <2>1, <2>2
  <2>4. Encodes(Encoding(ones)[n - 1], ones, n - 1)
    BY <2>3
  <2>5. Encoding(ones)[n - 1] \in Writing
    BY <2>3, EncodingFacts
  <2>6. Encodes(ReadBit(Encoding(ones)[n - 1], n - 1, Bit(ones, n - 1)), ones, (n - 1) + 1)
    BY <2>3, <2>4, <2>5, EncodesNext
  <2>7. Encoding(ones)[(n - 1) + 1] =
          ReadBit(Encoding(ones)[n - 1], n - 1, Bit(ones, n - 1))
    BY <2>3, EncodingFacts
  <2>8. Encodes(Encoding(ones)[n], ones, n)
    BY <2>3, <2>6, <2>7
  <2> QED BY <2>1, <2>8
<1>4. Encodes(read, ones, length) /\ read \in Writing
  BY <1>2, <1>3, EncodingFacts
<1>5. Compress(ones) = RowOf(end)
  BY DEF Compress, RowOf, length
<1> HIDE DEF read
<1>6. Below(ones, length) = ones
  <2>1. \A k \in ones : k < length
    BY <1>2
  <2> QED BY <2>1 DEF Below
<1>7. CASE read.bit = 1
  <2>1. Tidy(RowOf(Flushed(read, length)), Below(ones, length))
    BY <1>2, <1>4, <1>7, FlushedIsTidy
  <2> QED BY <1>5, <1>6, <1>7, <2>1
<1>8. CASE read.bit # 1
  <2>1. read.bit = 0
    BY <1>4, <1>8 DEF Writing, Binary
  <2>2. Tidy(RowOf(read), Below(ones, length))
    BY <1>4, <1>6, <2>1 DEF Encodes
  <2> QED BY <1>5, <1>6, <1>8, <2>2
<1> QED BY <1>7, <1>8

(* Whatever index is added to a row, in place behind the last or by coding *)
(* the whole again, the row codes that index and those it had.             *)
THEOREM IndexIsAdded ==
  ASSUME NEW row, NEW ones, Tidy(row, ones), NEW h \in Nat
  PROVE  /\ Tidy(AddIndexCompressed(row, h), ones \cup {h})
         /\ Decompress(AddIndexCompressed(row, h).bits) = ones \cup {h}
<1> SUFFICES Tidy(AddIndexCompressed(row, h), ones \cup {h})
  BY TidyFacts
<1>1. /\ row.maxIndex \in Nat /\ row.maxIndex \in ones
      /\ ones \in SUBSET Nat /\ \A k \in ones : k <= row.maxIndex
      /\ Decompress(row.bits) = ones
  BY TidyFacts
<1>2. CASE h <= row.maxIndex
  <2> DEFINE all == ones \cup {h}
  <2>1. AddIndexCompressed(row, h) = Compress(all)
    <3>1. {h} \cap Nat = {h}
      OBVIOUS
    <3> QED BY <1>1, <1>2, <3>1 DEF AddIndexCompressed, AddIndexCompressedFull
  <2>2. all \in SUBSET Nat /\ row.maxIndex \in all /\ \A k \in all : k <= row.maxIndex
    BY <1>1, <1>2
  <2> HIDE DEF all
  <2>3. Tidy(Compress(all), all)
    BY <2>2, CompressIsTidy
  <2> QED BY <2>1, <2>3 DEF all
<1>3. CASE ~(h <= row.maxIndex)
  <2>1. AddIndexCompressed(row, h) = AddIndexCompressedLast(row, h)
    BY <1>1, <1>3 DEF AddIndexCompressed
  <2>2. row.maxIndex < h
    BY <1>1, <1>3
  <2> QED BY <2>1, <2>2, AddsLast
<1> QED BY <1>2, <1>3

(* The first index of a row that is empty.                                 *)
LEMMA AddsFirst == Tidy(AddIndexCompressed(NoRow, 0), {0})
<1>1. AddIndexCompressed(NoRow, 0) = Compress({0})
  <2>1. NoRow.bits = <<>> /\ NoRow.maxIndex = -1
    BY DEF NoRow
  <2>2. Decompress(<<>>) = {}
    BY DEF Decompress
  <2>3. {} \cup ({0} \cap Nat) = {0} /\ -1 < 0
    OBVIOUS
  <2> QED BY <2>1, <2>2, <2>3 DEF AddIndexCompressed, AddIndexCompressedFull
<1>2. {0} \in SUBSET Nat /\ 0 \in {0} /\ \A k \in {0} : k <= 0
  OBVIOUS
<1> QED BY <1>1, <1>2, CompressIsTidy

Bitmaps == [start : Nat, bits : Seq(Binary)]

(* The ones and heights of a bitmap.                                       *)
LEMMA OnesAreNumbers ==
  ASSUME NEW bits \in Seq(Binary)
  PROVE  /\ Ones(bits) \in SUBSET Nat
         /\ \A k \in Ones(bits) : k <= Len(bits) - 1
<1>1. Len(bits) \in Nat
  OBVIOUS
<1> QED BY <1>1 DEF Ones

LEMMA HeightsIff ==
  ASSUME NEW bitmap \in Bitmaps, NEW h \in Int
  PROVE  h \in HeightsOf(bitmap) <=> h - bitmap.start \in Ones(bitmap.bits)
<1>1. bitmap.start \in Nat /\ bitmap.bits \in Seq(Binary)
  BY DEF Bitmaps
<1>2. Ones(bitmap.bits) \in SUBSET Nat
  BY <1>1, OnesAreNumbers
<1>3. ASSUME NEW k \in Ones(bitmap.bits)
      PROVE  h = bitmap.start + k <=> k = h - bitmap.start
  BY <1>1, <1>2
<1> QED BY <1>3 DEF HeightsOf

LEMMA HeightsType ==
  ASSUME NEW bitmap \in Bitmaps
  PROVE  HeightsOf(bitmap) \in SUBSET Nat
<1>1. bitmap.start \in Nat /\ bitmap.bits \in Seq(Binary)
  BY DEF Bitmaps
<1>2. Ones(bitmap.bits) \in SUBSET Nat
  BY <1>1, OnesAreNumbers
<1> QED BY <1>1, <1>2 DEF HeightsOf

(* Merging unites the heights of two bitmaps, whichever starts first.      *)
LEMMA MergeFacts ==
  ASSUME NEW one \in Bitmaps, NEW other \in Bitmaps
  PROVE  /\ Merge(one, other) \in Bitmaps
         /\ HeightsOf(Merge(one, other)) = HeightsOf(one) \cup HeightsOf(other)
<1> DEFINE first == First(one, other)
           second == Second(one, other)
           shift == second.start - first.start
           ones == {shift + k : k \in Ones(second.bits)}
           last == shift + Len(second.bits) - 1
           m == [first EXCEPT !.bits = SetBits(first.bits, last, ones)]
<1>1. Merge(one, other) = m
  BY DEF Merge
<1>2. /\ one.start \in Nat /\ other.start \in Nat
      /\ first \in Bitmaps /\ second \in Bitmaps
      /\ first.start <= second.start
      /\ HeightsOf(first) \cup HeightsOf(second) =
           HeightsOf(one) \cup HeightsOf(other)
  <2>1. one.start \in Nat /\ other.start \in Nat
    BY DEF Bitmaps
  <2>2. CASE other.start < one.start
    BY <2>1, <2>2 DEF First, Second
  <2>3. CASE ~(other.start < one.start)
    BY <2>1, <2>3 DEF First, Second
  <2> QED BY <2>2, <2>3
<1> HIDE DEF first, second
<1>3. /\ first.start \in Nat /\ first.bits \in Seq(Binary)
      /\ second.start \in Nat /\ second.bits \in Seq(Binary)
      /\ first = [start |-> first.start, bits |-> first.bits]
  BY <1>2 DEF Bitmaps
<1>4. shift \in Nat /\ second.start = first.start + shift
  BY <1>2, <1>3
<1> HIDE DEF shift
<1>5. last \in Int /\ last >= -1 /\ ones \in SUBSET (0 .. last)
  <2>1. Len(second.bits) \in Nat
    BY <1>3
  <2>2. Ones(second.bits) \in SUBSET Nat
        /\ \A k \in Ones(second.bits) : k <= Len(second.bits) - 1
    BY <1>3, OnesAreNumbers
  <2> QED BY <1>4, <2>1, <2>2
<1> HIDE DEF last, ones
<1>6. /\ SetBits(first.bits, last, ones) \in Seq(Binary)
      /\ Ones(SetBits(first.bits, last, ones)) = Ones(first.bits) \cup ones
  BY <1>3, <1>5, SetBitsFacts
<1> DEFINE bits == SetBits(first.bits, last, ones)
<1> HIDE DEF bits
<1>7. m = [start |-> first.start, bits |-> bits]
  BY <1>3 DEF bits
<1>8. m \in Bitmaps /\ m.start = first.start /\ Ones(m.bits) = Ones(first.bits) \cup ones
  BY <1>3, <1>6, <1>7 DEF Bitmaps, bits
<1> HIDE DEF m
<1>9. ASSUME NEW h \in Nat
      PROVE  h \in HeightsOf(m) <=> h \in HeightsOf(first) \cup HeightsOf(second)
  <2>1. h \in HeightsOf(m) <=> h - first.start \in Ones(first.bits) \cup ones
    BY <1>8, HeightsIff
  <2>2. h \in HeightsOf(first) <=> h - first.start \in Ones(first.bits)
    BY <1>2, HeightsIff
  <2>3. h \in HeightsOf(second) <=> h - second.start \in Ones(second.bits)
    BY <1>2, HeightsIff
  <2>4. h - first.start \in ones <=> h - second.start \in Ones(second.bits)
    <3>1. Ones(second.bits) \in SUBSET Nat
      BY <1>3, OnesAreNumbers
    <3>2. \A k \in Ones(second.bits) :
            h - first.start = shift + k <=> k = h - second.start
      BY <1>3, <1>4, <3>1
    <3> QED BY <3>2 DEF ones
  <2> QED BY <2>1, <2>2, <2>3, <2>4
<1>10. HeightsOf(m) \in SUBSET Nat /\ HeightsOf(first) \in SUBSET Nat
       /\ HeightsOf(second) \in SUBSET Nat
  BY <1>2, <1>8, HeightsType
<1>11. HeightsOf(m) = HeightsOf(first) \cup HeightsOf(second)
  BY <1>9, <1>10
<1> QED BY <1>1, <1>2, <1>8, <1>11

(* Merging, in whatever order, yields the heights of all.                  *)
THEOREM MergesAll ==
  ASSUME NEW bitmap \in Bitmaps, NEW others \in Seq(Bitmaps)
  PROVE  \A h : h \in HeightsOf(MergeAll(bitmap, others)) <=>
                  \/ h \in HeightsOf(bitmap)
                  \/ \E k \in 1 .. Len(others) : h \in HeightsOf(others[k])
<1> DEFINE L == Len(others)
           Turn(n, b) == IF n \in 1 .. L THEN Merge(b, others[n]) ELSE b
           f == [p \in Nat \X Bitmaps |-> Turn(p[1], p[2])]
           merged == CHOOSE m : m = [n \in 0 .. L |->
                       IF n = 0 THEN bitmap ELSE Merge(m[n - 1], others[n])]
<1>1. L \in Nat
  OBVIOUS
<1>2. \A n \in 1 .. L : others[n] \in Bitmaps
  OBVIOUS
<1>3. MergeAll(bitmap, others) = merged[L]
  BY DEF MergeAll
<1>4. ASSUME NEW n \in Nat, NEW b \in Bitmaps PROVE Turn(n, b) \in Bitmaps
  <2>1. CASE n \in 1 .. L
    BY <1>2, <2>1, MergeFacts
  <2> QED BY <2>1
<1>5. f \in [Nat \X Bitmaps -> Bitmaps]
  BY <1>4
<1>6. \A n \in Nat, b \in Bitmaps : f[<<n, b>>] = Turn(n, b)
  OBVIOUS
<1> HIDE DEF f
<1>7. PICK g \in [Nat -> Bitmaps] : Recurs(g, bitmap, f)
  BY <1>5, Recursion
<1>8. \A k \in Nat : g[k] \in Bitmaps
  OBVIOUS
<1>9. ASSUME NEW n \in 1 .. L PROVE g[n] = Merge(g[n - 1], others[n])
  <2>1. n - 1 \in Nat /\ (n - 1) + 1 = n /\ n \in Nat
    BY <1>1
  <2>2. g[(n - 1) + 1] = f[<<(n - 1) + 1, g[n - 1]>>]
    BY <1>7, <2>1 DEF Recurs
  <2>3. f[<<n, g[n - 1]>>] = Turn(n, g[n - 1])
    BY <1>6, <1>8, <2>1
  <2>4. Turn(n, g[n - 1]) = Merge(g[n - 1], others[n])
    OBVIOUS
  <2> QED BY <2>1, <2>2, <2>3, <2>4
<1>10. g[0] = bitmap
  BY <1>7 DEF Recurs
<1> DEFINE e == [n \in 0 .. L |-> g[n]]
<1>11. e = [n \in 0 .. L |-> IF n = 0 THEN bitmap ELSE Merge(e[n - 1], others[n])]
  <2>1. ASSUME NEW n \in 0 .. L
        PROVE  e[n] = IF n = 0 THEN bitmap ELSE Merge(e[n - 1], others[n])
    <3>1. CASE n = 0
      BY <1>10, <3>1
    <3>2. CASE n # 0
      <4>1. n \in 1 .. L /\ n - 1 \in 0 .. L
        BY <1>1, <3>2
      <4>2. e[n] = g[n] /\ e[n - 1] = g[n - 1]
        BY <4>1
      <4>3. g[n] = Merge(g[n - 1], others[n])
        BY <1>9, <4>1
      <4> QED BY <3>2, <4>2, <4>3
    <3> QED BY <3>1, <3>2
  <2> QED BY <2>1
<1> HIDE DEF e
<1>12. merged = [n \in 0 .. L |-> IF n = 0 THEN bitmap ELSE Merge(merged[n - 1], others[n])]
  BY <1>11
<1> HIDE DEF merged
<1> DEFINE Good(n) ==
      /\ merged[n] \in Bitmaps
      /\ \A h : h \in HeightsOf(merged[n]) <=>
                  \/ h \in HeightsOf(bitmap)
                  \/ \E k \in 1 .. n : h \in HeightsOf(others[k])
           T == {n \in Nat : n <= L /\ ~Good(n)}
<1>13. T = {}
  <2> SUFFICES ASSUME T # {} PROVE FALSE
    OBVIOUS
  <2>1. PICK n \in T : \A k \in T : n <= k
    BY LeastNat
  <2>2. n \in Nat /\ n <= L /\ ~Good(n)
    OBVIOUS
  <2>3. CASE n = 0
    <3>1. merged[0] = bitmap
      BY <1>1, <1>12
    <3>2. Good(0)
      BY <3>1
    <3> QED BY <2>2, <2>3, <3>2
  <2>4. CASE n # 0
    <3>1. n - 1 \in Nat /\ n - 1 <= L /\ ~(n - 1 \in T) /\ n \in 1 .. L
      <4>1. n - 1 \in Nat /\ n - 1 <= L /\ n \in 1 .. L /\ ~(n <= n - 1)
        BY <1>1, <2>2, <2>4
      <4> QED BY <2>1, <4>1
    <3>2. Good(n - 1)
      BY <3>1
    <3>3. merged[n] = Merge(merged[n - 1], others[n])
      BY <1>1, <1>12, <2>4, <3>1
    <3>4. others[n] \in Bitmaps
      BY <1>2, <3>1
    <3>5. /\ merged[n] \in Bitmaps
          /\ HeightsOf(merged[n]) = HeightsOf(merged[n - 1]) \cup HeightsOf(others[n])
      BY <3>2, <3>3, <3>4, MergeFacts
    <3>6. 1 .. n = (1 .. n - 1) \cup {n}
      BY <3>1
    <3>7. Good(n)
      BY <3>2, <3>5, <3>6
    <3> QED BY <2>2, <3>7
  <2> QED BY <2>3, <2>4
<1>14. Good(L)
  <2> HIDE DEF Good
  <2> QED BY <1>1, <1>13
<1> QED BY <1>3, <1>14

-----------------------------------------------------------------------------
(***************************************************************************)
(* The rows of the index through the life of the core Indexer, for any     *)
(* accounts, chain, days, lag and restarts within what it has indexed.     *)
(***************************************************************************)
(* What was executed on a day and touches an account. *)
OnDay(r, d) == {h \in executed : <<r, h>> \in touched /\ Day[h] = d}

(* A row is empty, or starts at the first such height and codes them all. *)
Indices(first, heights) == {h - first : h \in heights}
Codes(row, heights) ==
  IF heights = {} THEN row = Row(0, NoRow)
  ELSE /\ row.first \in heights /\ \A h \in heights : row.first <= h
       /\ Tidy(row, Indices(row.first, heights))

(* The core Indexer is started again within what it has indexed: a block   *)
(* before the first of a row has no place in it.                           *)
RestartsInside == \A h \in RestartsFrom : IndexedFrom <= h

Table == \E Some : rows \in [Receivers -> [Days -> Some]]
RowsCode == \A r \in Receivers, d \in Days : Codes(rows[r][d], OnDay(r, d))

(* Every row codes what was executed, no gap is left before the next block,*)
(* and a stream that was started has a chain to look at.                   *)
RowsIInv ==
  /\ BackfillIInv /\ Table /\ RowsCode
  /\ IndexedFrom <= indexed + 1
  /\ stream.pc # "none" => tip > 0

(* Only the codec's fields count. *)
LEMMA TidyRow ==
  ASSUME NEW code, NEW ones, NEW first, Tidy(code, ones)
  PROVE  Tidy(Row(first, code), ones) /\ Row(first, code).first = first
<1>1. /\ Row(first, code).bits = code.bits
      /\ Row(first, code).lastStart = code.lastStart
      /\ Row(first, code).maxIndex = code.maxIndex
      /\ Row(first, code).first = first
  BY DEF Row
<1> QED BY <1>1 DEF Tidy, Parts

LEMMA IndicesIff ==
  ASSUME NEW first \in Nat, NEW heights \in SUBSET Nat, NEW h \in Nat
  PROVE  h \in heights <=> h - first \in Indices(first, heights)
<1>1. \A k \in heights : h - first = k - first <=> k = h
  OBVIOUS
<1> QED BY <1>1 DEF Indices

(* A block that touches the account is added to the row of its day. *)
LEMMA UpdatedCodes ==
  ASSUME NEW row, NEW heights \in SUBSET Nat, Codes(row, heights),
         NEW h \in Nat, \A k \in heights : k <= h \/ h \in heights
  PROVE  Codes(Updated(row, h), heights \cup {h})
<1>1. CASE heights = {}
  <2>1. row.bits = <<>>
    BY <1>1 DEF Codes, Row, NoRow
  <2>2. Updated(row, h) = Row(h, AddIndexCompressed(NoRow, 0))
    BY <2>1 DEF Updated
  <2>3. /\ Tidy(Row(h, AddIndexCompressed(NoRow, 0)), {0})
        /\ Row(h, AddIndexCompressed(NoRow, 0)).first = h
    BY AddsFirst, TidyRow
  <2>4. Indices(h, {h}) = {0}
    <3>1. h - h = 0
      OBVIOUS
    <3> QED BY <3>1 DEF Indices
  <2>5. heights \cup {h} = {h} /\ h <= h
    BY <1>1
  <2> QED BY <2>2, <2>3, <2>4, <2>5 DEF Codes
<1>2. CASE heights # {}
  <2> DEFINE f == row.first
             ones == Indices(f, heights)
  <2>1. f \in heights /\ (\A k \in heights : f <= k) /\ Tidy(row, ones)
    BY <1>2 DEF Codes
  <2>2. row.bits # <<>>
    BY <2>1, TidyFacts
  <2>3. Updated(row, h) = Row(f, AddIndexCompressed(row, h - f))
    BY <2>2 DEF Updated
  <2>4. f \in Nat /\ f <= h /\ h - f \in Nat
    <3> HIDE DEF f, ones
    <3>1. f \in Nat /\ (f <= h \/ h \in heights)
      BY <2>1
    <3>2. f <= h
      BY <2>1, <3>1
    <3> QED BY <3>1, <3>2
  <2>5. Tidy(AddIndexCompressed(row, h - f), ones \cup {h - f})
    BY <2>1, <2>4, IndexIsAdded
  <2>6. /\ Tidy(Row(f, AddIndexCompressed(row, h - f)), ones \cup {h - f})
        /\ Row(f, AddIndexCompressed(row, h - f)).first = f
    BY <2>5, TidyRow
  <2>7. Indices(f, heights \cup {h}) = ones \cup {h - f}
    BY DEF Indices
  <2> HIDE DEF f, ones
  <2>8. heights \cup {h} # {} /\ f \in heights \cup {h}
        /\ \A k \in heights \cup {h} : f <= k
    BY <2>1, <2>4
  <2> QED BY <2>3, <2>6, <2>7, <2>8 DEF Codes
<1> QED BY <1>1, <1>2

(* SetToSeq lists every element of a finite set.                           *)
LEMMA SetToSeqFacts ==
  ASSUME NEW S, IsFiniteSet(S)
  PROVE  SetToSeq(S) \in Seq(S) /\ \A x \in S : \E k \in 1 .. Len(SetToSeq(S)) :
           SetToSeq(S)[k] = x
<1> DEFINE n == Cardinality(S)
           f == SetToSeq(S)
<1>1. n \in Nat /\ ExistsBijection(1 .. n, S)
  BY FS_CardinalityType
<1>2. PICK g \in Bijection(1 .. n, S) : TRUE
  BY <1>1 DEF ExistsBijection
<1>3. g \in [1 .. n -> S] /\ IsInjective(g)
  BY <1>2 DEF Bijection, Injection
<1>4. f \in [1 .. n -> S] /\ IsInjective(f)
  BY <1>3 DEF SetToSeq
<1> HIDE DEF f
<1>5. f \in Injection(1 .. n, S)
  BY <1>4 DEF Injection
<1>6. f \in Surjection(1 .. n, S)
  <2>1. IsFiniteSet(1 .. n) /\ Cardinality(1 .. n) = n
    <3>1. IsFiniteSet(1 .. n) /\ Cardinality(1 .. n) = IF 1 > n THEN 0 ELSE n - 1 + 1
      BY <1>1, FS_Interval
    <3> QED BY <1>1, <3>1
  <2> QED BY <1>5, <2>1, FS_Injection
<1>7. \A x \in S : \E k \in 1 .. n : f[k] = x
  BY <1>6 DEF Surjection
<1>8. f \in Seq(S) /\ Len(f) = n
  BY <1>1, <1>4
<1> QED BY <1>7, <1>8 DEF f

(* The decoded row of an account lists what was executed.                  *)
LEMMA DecodedRow ==
  ASSUME NEW row, NEW heights \in SUBSET Nat, Codes(row, heights)
  PROVE  /\ row.bits = <<>> <=> heights = {}
         /\ {row.first + k : k \in Decompress(row.bits)} = heights
         /\ heights # {} => /\ Bitmap(row) \in Bitmaps
                            /\ HeightsOf(Bitmap(row)) = heights
<1>1. CASE heights = {}
  <2>1. row.bits = <<>>
    BY <1>1 DEF Codes, Row, NoRow
  <2> QED BY <1>1, <2>1 DEF Decompress
<1>2. CASE heights # {}
  <2> DEFINE f == row.first
             ones == Indices(f, heights)
  <2>1. f \in heights /\ (\A k \in heights : f <= k) /\ Tidy(row, ones)
    BY <1>2 DEF Codes
  <2>2. row.bits \in Seq(Binary) /\ row.bits # <<>> /\ Decompress(row.bits) = ones
    BY <2>1, TidyFacts
  <2>3. Decompressed(row.bits) \in Seq(Binary)
    <3>1. Len(row.bits) \in Nat
      BY <2>2
    <3>2. Decoding(row.bits)[Len(row.bits)] \in Stage
      BY <2>2, <3>1, DecodingFacts
    <3> QED BY <3>2 DEF Decompressed, Stage
  <2>4. Ones(Decompressed(row.bits)) = ones
    BY <2>2 DEF Decompress
  <2>5. f \in Nat
    BY <2>1
  <2>6. {f + k : k \in ones} = heights
    <3> HIDE DEF f
    <3>1. \A k \in heights : f + (k - f) = k
      BY <2>5
    <3> QED BY <3>1 DEF Indices
  <2>7. Bitmap(row) = [start |-> f, bits |-> Decompressed(row.bits)]
    BY DEF Bitmap
  <2>8. Bitmap(row) \in Bitmaps
    BY <2>3, <2>5, <2>7 DEF Bitmaps
  <2>9. HeightsOf(Bitmap(row)) = heights
    <3>1. Bitmap(row).start = f /\ Bitmap(row).bits = Decompressed(row.bits)
      BY <2>7
    <3> QED BY <2>4, <2>6, <3>1 DEF HeightsOf
  <2> QED BY <1>2, <2>2, <2>6, <2>8, <2>9
<1> QED BY <1>1, <1>2

(* The bitmap that merging begins with has no heights.                     *)
LEMMA EmptyBitmapFacts ==
  ASSUME NEW start \in Nat
  PROVE  EmptyBitmap(start) \in Bitmaps /\ HeightsOf(EmptyBitmap(start)) = {}
<1>1. <<>> \in Seq(Binary) /\ Len(<<>>) = 0
  OBVIOUS
<1>2. Ones(<<>>) = {}
  BY DEF Ones
<1> QED BY <1>1, <1>2 DEF EmptyBitmap, Bitmaps, HeightsOf

(* Whatever order they are merged in, the rows of a day list together what *)
(* was executed of it and touches an account.                              *)
LEMMA MergedDay ==
  ASSUME NEW d,
         \A r \in Receivers :
           OnDay(r, d) \in SUBSET Nat /\ Codes(rows[r][d], OnDay(r, d))
  PROVE  \A h : h \in Merged(d) <=> \E r \in Receivers : h \in OnDay(r, d)
<1> DEFINE listed == {r \in Receivers : rows[r][d].bits # <<>>}
           f == [r \in listed |-> Bitmap(rows[r][d])]
           bitmaps == {Bitmap(row) : row \in QueryBase64Bitmaps(d)}
           starts == {b.start : b \in bitmaps}
<1>1. \A r \in Receivers : r \in listed <=> OnDay(r, d) # {}
  BY DecodedRow
<1>2. \A r \in listed : r \in Receivers /\ f[r] \in Bitmaps /\ HeightsOf(f[r]) = OnDay(r, d)
  <2> TAKE r \in listed
  <2>1. r \in Receivers /\ f[r] = Bitmap(rows[r][d])
    OBVIOUS
  <2>2. OnDay(r, d) # {} /\ OnDay(r, d) \in SUBSET Nat /\ Codes(rows[r][d], OnDay(r, d))
    BY <1>1, <2>1
  <2> QED BY <2>1, <2>2, DecodedRow
<1>3. \A b : b \in bitmaps <=> \E r \in listed : b = f[r]
  BY DEF QueryBase64Bitmaps
<1>4. IsFiniteSet(bitmaps)
  <2>1. IsFiniteSet(listed)
    <3>1. IsFiniteSet(Receivers)
      BY BackfillAssumption
    <3>2. listed \subseteq Receivers
      OBVIOUS
    <3> HIDE DEF listed
    <3> QED BY <3>1, <3>2, FS_Subset
  <2>2. f \in Surjection(listed, bitmaps)
    <3>1. f \in [listed -> bitmaps]
      BY <1>3
    <3> HIDE DEF listed, f, bitmaps
    <3> QED BY <1>3, <3>1 DEF Surjection
  <2> HIDE DEF listed, f, bitmaps
  <2> QED BY <2>1, <2>2, FS_Surjection
<1> HIDE DEF listed, f, bitmaps
<1>5. bitmaps \in SUBSET Bitmaps
  BY <1>2, <1>3
<1>6. ASSUME bitmaps = {}
      PROVE  \A h : h \in Merged(d) <=> \E r \in Receivers : h \in OnDay(r, d)
  <2>1. Merged(d) = {}
    BY <1>6 DEF Merged, bitmaps
  <2>2. listed = {}
    BY <1>3, <1>6
  <2> QED BY <1>1, <2>1, <2>2
<1>7. ASSUME bitmaps # {}
      PROVE  \A h : h \in Merged(d) <=> \E r \in Receivers : h \in OnDay(r, d)
  <2> DEFINE start == Min(starts)
             others == SetToSeq(bitmaps)
  <2>1. Merged(d) = HeightsOf(MergeAll(EmptyBitmap(start), others))
    BY <1>7 DEF Merged, bitmaps
  <2>2. starts \in SUBSET Nat /\ starts # {}
    BY <1>5, <1>7 DEF Bitmaps
  <2> HIDE DEF starts
  <2>3. start \in Nat
    <3>1. PICK n \in starts : \A m \in starts : n <= m
      BY <2>2, LeastNat
    <3>2. starts \in SUBSET Int
      BY <2>2
    <3> QED BY <2>2, <3>1, <3>2, MinIs
  <2> HIDE DEF start
  <2>4. /\ others \in Seq(bitmaps)
        /\ \A b \in bitmaps : \E k \in 1 .. Len(others) : others[k] = b
    BY <1>4, SetToSeqFacts
  <2> HIDE DEF others
  <2>5. others \in Seq(Bitmaps) /\ \A k \in 1 .. Len(others) : others[k] \in bitmaps
    BY <1>5, <2>4
  <2>6. /\ EmptyBitmap(start) \in Bitmaps /\ HeightsOf(EmptyBitmap(start)) = {}
    BY <2>3, EmptyBitmapFacts
  <2>7. \A h : h \in Merged(d) <=>
                 \E k \in 1 .. Len(others) : h \in HeightsOf(others[k])
    BY <2>1, <2>5, <2>6, MergesAll
  <2>8. \A h : h \in Merged(d) <=> \E b \in bitmaps : h \in HeightsOf(b)
    BY <2>4, <2>5, <2>7
  <2>9. \A h : h \in Merged(d) <=> \E r \in listed : h \in OnDay(r, d)
    BY <1>2, <1>3, <2>8
  <2>10. \A r \in listed : r \in Receivers
    BY <1>2
  <2> QED BY <1>1, <2>9, <2>10
<1> QED BY <1>6, <1>7

(* What the blocks that touch an account are, day by day.                  *)
LEMMA OnDayType ==
  ASSUME BackfillTypeOK, NEW r, NEW d
  PROVE  /\ OnDay(r, d) \in SUBSET (1 .. Tip)
         /\ OnDay(r, d) \in SUBSET Nat
<1>1. executed \in SUBSET (1 .. Tip)
  <2>1. tip \in 0 .. Tip /\ executed \in SUBSET (1 .. tip)
    BY DEF BackfillTypeOK
  <2>2. Tip \in Nat
    BY BackfillConstants
  <2>3. \A h \in 1 .. tip : h \in 1 .. Tip
    BY <2>1, <2>2
  <2> QED BY <2>1, <2>3
<1>2. OnDay(r, d) \subseteq executed
  BY DEF OnDay
<1>3. \A h \in 1 .. Tip : h \in Nat
  BY BackfillConstants
<1> QED BY <1>1, <1>2, <1>3

(* What the stream is told is what Backfill says.                          *)
LEMMA TellsListed ==
  ASSUME BackfillTypeOK, NEW d,
         \A r \in Receivers : Codes(rows[r][d], OnDay(r, d))
  PROVE  Merged(d) = Listed(d)
<1>1. \A h : h \in Merged(d) <=> \E r \in Receivers : h \in OnDay(r, d)
  BY OnDayType, MergedDay
<1>2. \A h : h \in Listed(d) <=> \E r \in Receivers : h \in OnDay(r, d)
  BY DEF Listed, OnDay, Touched
<1> QED BY <1>1, <1>2

(* What the days of the table are. *)
LEMMA DaysFacts ==
  /\ \A h \in 1 .. Tip : Day[h] \in Days
  /\ \A d \in Nat : \A h \in 1 .. Tip : d <= Day[h] => d \in Days
<1>1. /\ Tip \in 1 .. Tip /\ Day[Tip] \in Nat
      /\ \A h \in 1 .. Tip : Day[h] \in Nat /\ Day[h] <= Day[Tip]
  <2>1. Tip \in Nat /\ Tip > 0
    BY BackfillConstants
  <2>2. Tip \in 1 .. Tip /\ \A h \in 1 .. Tip : h <= Tip
    BY <2>1
  <2> QED BY <2>2, BackfillConstants
<1> QED BY <1>1 DEF Days

(* Nothing is executed at first, and no row has a bit.                     *)
LEMMA RowsStart == RowsInit => RowsIInv
<1> SUFFICES ASSUME RowsInit PROVE RowsIInv
  OBVIOUS
<1>1. BackfillIInv
  BY BackfillStart DEF RowsInit
<1>2. IndexedFrom <= indexed + 1
  <2>1. IndexedFrom \in Int /\ indexed = IndexedFrom - 1
    BY BackfillConstants DEF RowsInit, BackfillInit
  <2> QED BY <2>1
<1>3. rows \in [Receivers -> [Days -> {Row(0, NoRow)}]]
  BY DEF RowsInit
<1>4. ASSUME NEW r \in Receivers, NEW d \in Days
      PROVE  Codes(rows[r][d], OnDay(r, d))
  <2>1. OnDay(r, d) = {}
    BY DEF OnDay, RowsInit, BackfillInit
  <2>2. rows[r][d] = Row(0, NoRow)
    BY DEF RowsInit
  <2> QED BY <2>1, <2>2 DEF Codes
<1>5. stream.pc = "none"
  BY DEF RowsInit, BackfillInit, NotStarted
<1> QED BY <1>1, <1>2, <1>3, <1>4, <1>5 DEF RowsIInv, Table, RowsCode

(* What one row becomes. *)
LEMMA IndexedRow ==
  ASSUME Table, Index, NEW r \in Receivers, NEW d \in Days
  PROVE  rows'[r][d] = IF <<r, indexed + 1>> \in touched /\ Day[indexed + 1] = d
                       THEN Updated(rows[r][d], indexed + 1) ELSE rows[r][d]
<1> DEFINE h == indexed + 1
           new == [rows[r] EXCEPT ![Day[h]] =
                     IF <<r, h>> \in touched THEN Updated(rows[r][Day[h]], h)
                     ELSE rows[r][Day[h]]]
<1>1. PICK Some : rows \in [Receivers -> [Days -> Some]]
  BY DEF Table
<1>2. rows[r] \in [Days -> Some]
  BY <1>1
<1>3. rows'[r] = new
  BY DEF Index
<1>4. new[d] = IF <<r, h>> \in touched /\ Day[h] = d
               THEN Updated(rows[r][d], h) ELSE rows[r][d]
  BY <1>2
<1> QED BY <1>3, <1>4

(* The table stays one row per account and day.                            *)
LEMMA IndexedTable ==
  ASSUME Table, Index
  PROVE  Table'
<1> DEFINE h == indexed + 1
           new(r) == [rows[r] EXCEPT ![Day[h]] =
                        IF <<r, h>> \in touched THEN Updated(rows[r][Day[h]], h)
                        ELSE rows[r][Day[h]]]
<1>1. PICK Some : rows \in [Receivers -> [Days -> Some]]
  BY DEF Table
<1> DEFINE More == Some \cup {Updated(rows[r][Day[h]], h) : r \in Receivers}
                      \cup {rows[r][Day[h]] : r \in Receivers}
<1>2. \A r \in Receivers : new(r) \in [Days -> More]
  BY <1>1
<1>3. rows' = [r \in Receivers |-> new(r)]
  BY DEF Index
<1> HIDE DEF More, new
<1>4. rows' \in [Receivers -> [Days -> More]]
  BY <1>2, <1>3
<1> QED BY <1>4 DEF Table

(* The next block is added to the rows it touches, in its own place or     *)
(* once more.                                                              *)
LEMMA IndexCodes ==
  ASSUME RowsIInv, Index
  PROVE  RowsCode'
<1> DEFINE h == indexed + 1
<1>1. BackfillTypeOK /\ LeavesNoGap /\ Table /\ RowsCode /\ IndexedFrom <= h
  BY DEF RowsIInv, BackfillIInv
<1>2. /\ h \in 1 .. Tip /\ h \in Nat /\ IndexedFrom \in Nat
      /\ executed' = executed \cup {h} /\ touched' = touched
      /\ executed \in SUBSET Nat
  <2>1. indexed \in 0 .. Tip /\ tip \in 0 .. Tip /\ executed \in SUBSET (1 .. tip)
        /\ Tip \in Nat /\ IndexedFrom \in 1 .. Tip
    BY <1>1, BackfillConstants DEF BackfillTypeOK
  <2>2. indexed < tip /\ executed' = executed \cup {h} /\ touched' = touched
    BY DEF Index, ExecuteNext
  <2>3. executed \in SUBSET Nat
    BY <2>1
  <2>4. h \in 1 .. Tip /\ h \in Nat /\ IndexedFrom \in Nat
    BY <2>1, <2>2
  <2> QED BY <2>2, <2>3, <2>4
<1> HIDE DEF h
<1> SUFFICES ASSUME NEW r \in Receivers, NEW d \in Days
             PROVE  Codes(rows'[r][d], OnDay(r, d)')
  BY DEF RowsCode
<1>3. Codes(rows[r][d], OnDay(r, d)) /\ OnDay(r, d) \in SUBSET Nat
  BY <1>1, OnDayType DEF RowsCode
<1>4. rows'[r][d] = IF <<r, h>> \in touched /\ Day[h] = d
                    THEN Updated(rows[r][d], h) ELSE rows[r][d]
  BY <1>1, IndexedRow DEF h
<1>5. CASE <<r, h>> \in touched /\ Day[h] = d
  <2>1. OnDay(r, d)' = OnDay(r, d) \cup {h}
    BY <1>2, <1>5 DEF OnDay
  <2>2. ASSUME NEW k \in OnDay(r, d) PROVE k <= h \/ h \in OnDay(r, d)
    <3>1. k \in executed /\ k \in Nat
      BY <1>2 DEF OnDay
    <3>2. CASE h < k
      <4>1. h \in IndexedFrom .. k
        BY <1>1, <1>2, <3>1, <3>2
      <4>2. h \in executed
        BY <1>1, <3>1, <4>1 DEF LeavesNoGap
      <4> QED BY <1>5, <4>2 DEF OnDay
    <3> QED BY <1>2, <3>1, <3>2
  <2>3. Codes(Updated(rows[r][d], h), OnDay(r, d) \cup {h})
    BY <1>2, <1>3, <2>2, UpdatedCodes
  <2> QED BY <1>4, <1>5, <2>1, <2>3
<1>6. CASE ~(<<r, h>> \in touched /\ Day[h] = d)
  <2>1. OnDay(r, d)' = OnDay(r, d)
    BY <1>2, <1>6 DEF OnDay
  <2> QED BY <1>3, <1>4, <1>6, <2>1
<1> QED BY <1>5, <1>6

(* Every other step leaves the rows, and what they code, as they are.      *)
LEMMA OthersCode ==
  ASSUME RowsIInv, UNCHANGED <<rows, executed>>,
         \/ Produce \/ UNCHANGED touched
  PROVE  RowsCode' /\ Table'
<1>1. BackfillTypeOK /\ Table /\ RowsCode
  BY DEF RowsIInv, BackfillIInv
<1>2. ASSUME NEW r \in Receivers, NEW d PROVE OnDay(r, d)' = OnDay(r, d)
  <2>1. ASSUME NEW h \in executed
        PROVE  <<r, h>> \in touched' <=> <<r, h>> \in touched
    <3>1. CASE Produce
      <4>1. h # tip + 1
        BY <1>1 DEF BackfillTypeOK
      <4>2. PICK receivers \in SUBSET Receivers :
              touched' = touched \cup receivers \X {tip + 1}
        BY <3>1 DEF Produce
      <4> QED BY <4>1, <4>2
    <3> QED BY <3>1
  <2> QED BY <2>1 DEF OnDay
<1>3. RowsCode'
  BY <1>1, <1>2 DEF RowsCode
<1>4. Table'
  BY <1>1 DEF Table
<1> QED BY <1>3, <1>4

(* A request for a day answers with what Backfill lists of it.             *)
LEMMA QueriesListed ==
  ASSUME RowsIInv, QueryDay
  PROVE  ReadDay(Listed(stream.day))
<1>1. BackfillTypeOK /\ RowsCode /\ (stream.pc # "none" => tip > 0)
  BY DEF RowsIInv, BackfillIInv
<1>2. ReadDay(Merged(stream.day)) /\ stream.pc = "query"
  BY DEF QueryDay, ReadDay
<1>3. CASE stream.day > Day[tip]
  BY <1>2, <1>3 DEF ReadDay
<1>4. CASE ~(stream.day > Day[tip])
  <2>1. tip \in 1 .. Tip /\ stream.day \in Nat /\ Day[tip] \in Nat
    <3>1. tip \in 0 .. Tip /\ Tip \in Nat /\ stream.day \in Nat
      BY <1>1, BackfillConstants DEF BackfillTypeOK
    <3>2. tip \in 1 .. Tip
      BY <1>1, <1>2, <3>1
    <3> QED BY <3>1, <3>2, BackfillConstants
  <2>2. stream.day \in Days
    BY <1>4, <2>1, DaysFacts
  <2>3. Merged(stream.day) = Listed(stream.day)
    BY <1>1, <2>2, TellsListed DEF RowsCode
  <2> QED BY <1>2, <2>3
<1> QED BY <1>3, <1>4

(* Every step is one of Backfill's.                                        *)
LEMMA RowsStep ==
  RowsIInv /\ [RowsNext]_rowsVars => [BackfillNext]_backfillVars
BY QueriesListed DEF RowsNext, rowsVars, backfillVars, Index, BackfillNext

(* The invariant is inductive.                                             *)
LEMMA RowsIInvNext ==
  RestartsInside /\ RowsIInv /\ [RowsNext]_rowsVars => RowsIInv'
<1> SUFFICES ASSUME RestartsInside, RowsIInv, [RowsNext]_rowsVars
             PROVE  RowsIInv'
  OBVIOUS
<1>1. BackfillIInv'
  BY RowsStep, BackfillIInvNext DEF RowsIInv
<1>2. RowsCode' /\ Table'
  <2>1. CASE Index
    BY <2>1, IndexCodes, IndexedTable DEF RowsIInv
  <2>2. CASE ~Index
    <3>1. UNCHANGED <<rows, executed>> /\ (Produce \/ UNCHANGED touched)
      BY <2>2 DEF RowsNext, rowsVars, backfillVars, QueryDay, ReadDay, Produce,
         Restart, StartStream, Probe, RequestFails, Yield
    <3> QED BY <3>1, OthersCode
  <2> QED BY <2>1, <2>2
<1>3. (IndexedFrom <= indexed + 1)'
  <2>1. IndexedFrom <= indexed + 1 /\ IndexedFrom \in Nat /\ indexed \in Nat
        /\ RestartsFrom \in SUBSET Nat
    BY BackfillConstants DEF RowsIInv, BackfillIInv, BackfillTypeOK
  <2>2. CASE Restart
    BY <2>1, <2>2 DEF Restart, RestartsInside
  <2>3. CASE indexed' = indexed + 1
    BY <2>1, <2>3
  <2>4. CASE indexed' = indexed
    BY <2>1, <2>4
  <2>5. Restart \/ indexed' = indexed + 1 \/ indexed' = indexed
    BY DEF RowsNext, rowsVars, backfillVars, QueryDay, ReadDay, Produce, Index,
       ExecuteNext, StartStream, Probe, RequestFails, Yield
  <2> QED BY <2>2, <2>3, <2>4, <2>5
<1>4. (stream.pc # "none" => tip > 0)'
  <2>1. tip \in Nat /\ StartHeights \in SUBSET (1 .. Tip)
    BY BackfillConstants DEF RowsIInv, BackfillIInv, BackfillTypeOK
  <2>2. CASE StartStream
    BY <2>1, <2>2 DEF StartStream
  <2>3. CASE tip' = tip + 1
    BY <2>1, <2>3
  <2>4. CASE tip' = tip /\ (stream'.pc # "none" => stream.pc # "none")
    BY <2>4 DEF RowsIInv
  <2>5. StartStream \/ tip' = tip + 1 \/ (tip' = tip /\ stream' = stream)
        \/ (tip' = tip /\ stream.pc # "none")
    BY DEF RowsNext, rowsVars, backfillVars, QueryDay, ReadDay, Produce, Index,
       ExecuteNext, Restart, Probe, RequestFails, Yield
  <2> QED BY <2>2, <2>3, <2>4, <2>5
<1> QED BY <1>1, <1>2, <1>3, <1>4 DEF RowsIInv

(* What the invariant says of each row is what the runs check.             *)
LEMMA RowsInvFollows == RowsIInv => RowsInv
<1> SUFFICES ASSUME RowsIInv PROVE RowsInv
  OBVIOUS
<1>1. BackfillTypeOK /\ RowsCode
  BY DEF RowsIInv, BackfillIInv
<1>2. ASSUME NEW r \in Receivers, NEW d \in Days
      PROVE  LET row == rows[r][d] IN
             /\ Len(row.bits) % Byte = 0
             /\ row.lastStart \in -1 .. Len(row.bits) - 1
             /\ row.maxIndex \in -1 .. Tip - 1
             /\ {row.first + k : k \in Decompress(row.bits)} = OnDay(r, d)
  <2> DEFINE row == rows[r][d]
             heights == OnDay(r, d)
  <2>1. heights \in SUBSET (1 .. Tip) /\ heights \in SUBSET Nat
    BY <1>1, OnDayType
  <2>2. Codes(row, heights)
    BY <1>1 DEF RowsCode
  <2>3. Tip \in Nat /\ Tip > 0
    BY BackfillConstants
  <2> HIDE DEF row, heights
  <2>4. {row.first + k : k \in Decompress(row.bits)} = heights
    BY <2>1, <2>2, DecodedRow
  <2>5. CASE heights = {}
    <3>1. row.bits = <<>> /\ row.lastStart = -1 /\ row.maxIndex = -1
      BY <2>2, <2>5 DEF Codes, Row, NoRow
    <3>2. Len(<<>>) = 0 /\ 0 % Byte = 0 /\ -1 \in -1 .. 0 - 1
      BY DEF Byte
    <3>3. -1 \in -1 .. Tip - 1
      BY <2>3
    <3>4. Len(row.bits) = 0 /\ Len(row.bits) % Byte = 0
          /\ row.lastStart \in -1 .. Len(row.bits) - 1
      BY <3>1, <3>2
    <3> QED BY <2>4, <3>1, <3>3, <3>4 DEF row, heights
  <2>6. CASE heights # {}
    <3> DEFINE f == row.first
               ones == Indices(f, heights)
    <3>1. f \in heights /\ Tidy(row, ones)
      BY <2>2, <2>6 DEF Codes
    <3>2. /\ row.bits \in Seq(Binary) /\ Len(row.bits) % Byte = 0
          /\ row.lastStart \in 0 .. Len(row.bits) - 1
          /\ row.maxIndex \in Nat /\ row.maxIndex \in ones
      BY <3>1, TidyFacts
    <3>3. PICK h \in heights : row.maxIndex = h - f
      BY <3>2 DEF Indices
    <3>4. h \in 1 .. Tip /\ f \in 1 .. Tip
      BY <2>1, <3>1, <3>3
    <3> HIDE DEF f, ones
    <3>5. row.maxIndex \in -1 .. Tip - 1
      BY <2>3, <3>2, <3>3, <3>4
    <3>6. Len(row.bits) \in Nat
      BY <3>2
    <3>7. row.lastStart \in -1 .. Len(row.bits) - 1
      BY <3>2, <3>6
    <3> QED BY <2>4, <3>2, <3>5, <3>7 DEF row, heights
  <2> QED BY <2>5, <2>6
<1>3. RowsTypeOK
  BY <1>2 DEF RowsTypeOK
<1>4. DecodesExactly
  BY <1>2 DEF DecodesExactly, OnDay
<1> QED BY <1>3, <1>4 DEF RowsInv

(* Coded in place, decoded by another program and merged across accounts,  *)
(* the rows tell the stream what Backfill says, whenever it asks.          *)
THEOREM RowsImplement ==
  ASSUME RestartsInside
  PROVE  RowsSpec => ImplementsBackfill
<1>1. RowsSpec => []RowsIInv
  BY RestartsInside, RowsStart, RowsIInvNext, PTL DEF RowsSpec
<1>2. RowsInit => BackfillInit
  BY DEF RowsInit
<1> QED BY <1>1, <1>2, RowsStep, PTL DEF RowsSpec, BackfillSpec, ImplementsBackfill

(* Every row fills its bytes and decodes to exactly the heights of its day *)
(* that were executed and touch its account, however often they were.      *)
THEOREM RowsCorrect ==
  ASSUME RestartsInside
  PROVE  RowsSpec => []RowsInv
<1>1. RowsSpec => []RowsIInv
  BY RestartsInside, RowsStart, RowsIInvNext, PTL DEF RowsSpec
<1> QED BY <1>1, RowsInvFollows, PTL

-----------------------------------------------------------------------------
(***************************************************************************)
(* The rules, for any accounts, filters and blocks.                        *)
(***************************************************************************)
(* A strict suffix is the end of the longer sequence.                      *)
LEMMA SuffixFacts ==
  ASSUME NEW S, NEW s \in Seq(S), NEW t \in Seq(S), IsStrictSuffix(s, t)
  PROVE  /\ Len(s) < Len(t)
         /\ \A k \in 1 .. Len(s) : s[k] = t[Len(t) - Len(s) + k]
<1> DEFINE m == Len(s)
           n == Len(t)
<1>1. m \in Nat /\ n \in Nat
  OBVIOUS
<1>2. /\ Reverse(s) \in Seq(S) /\ Len(Reverse(s)) = m
      /\ \A k \in 1 .. m : Reverse(s)[k] = s[m - k + 1]
  <2>1. \A k \in 1 .. m : s[m - k + 1] \in S
    BY ElementOfSeq
  <2> QED BY <1>1, <2>1, IsASeq DEF Reverse
<1>3. /\ Reverse(t) \in Seq(S) /\ Len(Reverse(t)) = n
      /\ \A k \in 1 .. n : Reverse(t)[k] = t[n - k + 1]
  <2>1. \A k \in 1 .. n : t[n - k + 1] \in S
    BY ElementOfSeq
  <2> QED BY <1>1, <2>1, IsASeq DEF Reverse
<1>4. m <= n /\ SubSeq(Reverse(s), 1, m) = SubSeq(Reverse(t), 1, m) /\ s # t
  BY <1>2, <1>3 DEF IsStrictSuffix, IsSuffix, IsPrefix
<1>5. ASSUME NEW k \in 1 .. m PROVE s[k] = t[n - m + k]
  <2>1. m - k + 1 \in 1 .. m /\ m - k + 1 \in 1 .. n
    BY <1>1, <1>4
  <2>2. SubSeq(Reverse(s), 1, m)[m - k + 1] = Reverse(s)[m - k + 1]
        /\ SubSeq(Reverse(t), 1, m)[m - k + 1] = Reverse(t)[m - k + 1]
    BY <1>1, <1>2, <1>3, <1>4, <2>1, SubSeqProperties
  <2>3. Reverse(s)[m - k + 1] = s[m - (m - k + 1) + 1]
        /\ Reverse(t)[m - k + 1] = t[n - (m - k + 1) + 1]
    BY <1>2, <1>3, <2>1
  <2>4. m - (m - k + 1) + 1 = k /\ n - (m - k + 1) + 1 = n - m + k
    BY <1>1
  <2> QED BY <1>4, <2>2, <2>3, <2>4
<1>6. m # n
  <2> SUFFICES ASSUME m = n PROVE FALSE
    OBVIOUS
  <2>1. \A k \in 1 .. m : s[k] = t[k]
    BY <1>1, <1>5
  <2> QED BY <1>4, <2>1, SeqEqual
<1> QED BY <1>1, <1>4, <1>5, <1>6

(* So it is found in the name without its first label; a single label is   *)
(* the root account.                                                       *)
LEMMA SuffixIsFound ==
  ASSUME NEW S, NEW s \in Seq(S), NEW t \in Seq(S), IsStrictSuffix(s, t)
  PROVE  /\ s \in SubSeqs(Tail(t))
         /\ Len(s) = 1 => s = Root(t)
<1> DEFINE m == Len(s)
           n == Len(t)
<1>1. /\ m \in Nat /\ n \in Nat /\ m < n
      /\ \A k \in 1 .. m : s[k] = t[n - m + k]
  BY SuffixFacts
<1>2. /\ Tail(t) \in Seq(S) /\ Len(Tail(t)) = n - 1
      /\ \A k \in 1 .. n - 1 : Tail(t)[k] = t[k + 1]
  BY <1>1, HeadTailProperties
<1> DEFINE i == n - 1 - m
           end == SubSeq(Tail(t), i + 1, n - 1)
<1>3. i \in 0 .. n - 1 /\ n - 1 \in 0 .. n - 1
  BY <1>1
<1>4. /\ end \in Seq(S) /\ Len(end) = m
      /\ \A k \in 1 .. m : end[k] = s[k]
  <2>1. i + 1 \in 1 .. Len(Tail(t)) + 1 /\ n - 1 \in i .. Len(Tail(t))
    BY <1>1, <1>2
  <2>2. /\ end \in Seq(S) /\ Len(end) = m
        /\ \A k \in 1 .. m : end[k] = Tail(t)[i + k]
    BY <1>1, <1>2, <2>1, SubSeqProperties
  <2>3. \A k \in 1 .. m : Tail(t)[i + k] = t[n - m + k]
    BY <1>1, <1>2
  <2> QED BY <1>1, <2>2, <2>3
<1>5. end = s
  BY <1>4, SeqEqual
<1>6. s \in SubSeqs(Tail(t))
  <2>1. s = SubSeq(Tail(t), i + 1, n - 1)
    BY <1>5
  <2>2. i \in 0 .. Len(Tail(t)) /\ n - 1 \in 0 .. Len(Tail(t))
    BY <1>2, <1>3
  <2>3. \A x, y \in 0 .. Len(Tail(t)) : SubSeq(Tail(t), x + 1, y) \in SubSeqs(Tail(t))
    BY DEF SubSeqs
  <2> HIDE DEF i
  <2> QED BY <2>1, <2>2, <2>3
<1>7. ASSUME m = 1 PROVE s = Root(t)
  <2>1. s[1] = t[n]
    BY <1>1, <1>7
  <2> QED BY <1>7, <2>1 DEF Root, Last
<1> QED BY <1>6, <1>7

LEMMA Labelled ==
  /\ \A a \in Accounts : a \in Seq(Labels) /\ a # <<>>
  /\ \A e \in Elements : e.account \in Seq(Labels) /\ e.wildcard \in BOOLEAN
<1>1. \A a \in Accounts : a \in Seq(Labels) /\ a # <<>>
  BY MatchingRulesAssumption
<1>2. ASSUME NEW e \in Elements
      PROVE  e.account \in Seq(Labels) /\ e.wildcard \in BOOLEAN
  <2>1. PICK a \in Seq(Labels), w \in BOOLEAN :
          e = [wildcard |-> w, account |-> a]
    <3>1. <<>> \in Seq(Labels)
      OBVIOUS
    <3>2. \/ \E a \in Accounts : e = [wildcard |-> FALSE, account |-> a]
          \/ \E a \in Accounts : e = [wildcard |-> TRUE, account |-> a]
          \/ e = [wildcard |-> TRUE, account |-> <<>>]
      BY DEF Elements, Exact, Under, All
    <3> QED BY <1>1, <3>1, <3>2
  <2>2. e.wildcard = w /\ e.account = a
    BY <2>1
  <2> QED BY <2>2
<1> QED BY <1>1, <1>2

(* For every filter and block: where a receipt matches, to an account that *)
(* the filter names, the history has the block.                            *)
THEOREM NamedIsInHistory ==
  ASSUME NEW rule \in ActionAny(SUBSET Elements), NEW block,
         NEW i \in DOMAIN block, NEW k \in DOMAIN block[i],
         block[i][k].receiver \in Accounts,
         Matches(rule, block[i][k]),
         NamesReceiver(rule.filter, block[i][k])
  PROVE  InHistory(rule, block)
<1> DEFINE outcome == block[i][k]
           r == outcome.receiver
           outcomes == UNION {Range(block[j]) : j \in DOMAIN block}
<1>1. rule.filter \subseteq Elements /\ rule.kind = "ActionAny"
  BY DEF ActionAny
<1>2. CASE ~UsesBitmap(rule)
  <2>1. k \in Matching(rule, block[i])
    BY DEF Matching
  <2>2. i \in DOMAIN IndexerRuleMatches(rule, block)
    BY <2>1 DEF IndexerRuleMatches
  <2> QED BY <1>2, <2>2 DEF InHistory, InLake
<1>3. CASE UsesBitmap(rule)
  <2>1. outcome \in outcomes
    BY DEF Range
  <2>2. r \in AllReceivers(outcomes) /\ Root(r) \in AllReceivers(outcomes)
    BY <2>1 DEF AllReceivers
  <2>3. PICK e \in rule.filter : WildMatches(e, r)
    BY DEF NamesReceiver
  <2>4. e \in Elements /\ e # All /\ e.account \in Seq(Labels)
        /\ r \in Seq(Labels) /\ Stripped(e) \in Cleaned(rule.filter)
    BY <1>1, <1>3, <2>3, Labelled DEF UsesBitmap, Cleaned
  <2> DEFINE elements == Cleaned(rule.filter)
             receivers == AllReceivers(outcomes)
  <2> HIDE DEF outcome, r, outcomes, elements, receivers
  <2>5. \E q \in receivers :
          /\ Found(Stripped(e), q)
          /\ ~Stripped(e).wildcard => q = Stripped(e).account
    <3>1. CASE ~e.wildcard
      <4>1. Stripped(e) = e /\ r = e.account
        BY <2>3, <3>1 DEF Stripped, WildMatches
      <4>2. r \in SubSeqs(r)
        <5>1. SubSeq(r, 0 + 1, Len(r)) = r /\ Len(r) \in Nat
          BY <2>4, SubSeqFull
        <5> QED BY <5>1 DEF SubSeqs
      <4> QED BY <2>2, <3>1, <4>1, <4>2 DEF Found, receivers
    <3>2. CASE e.wildcard
      <4>1. IsStrictSuffix(e.account, r)
        BY <2>3, <2>4, <3>2 DEF WildMatches
      <4>2. /\ e.account \in SubSeqs(Tail(r))
            /\ Len(e.account) = 1 => e.account = Root(r)
        BY <2>4, <4>1, SuffixIsFound
      <4>3. CASE Stripped(e) = e
        BY <2>2, <3>2, <4>2, <4>3 DEF Found, receivers
      <4>4. CASE Stripped(e) = Exact(e.account) /\ Len(e.account) = 1
        <5>1. e.account \in SubSeqs(e.account)
          <6>1. SubSeq(e.account, 0 + 1, Len(e.account)) = e.account
            BY <2>4, SubSeqFull
          <6> QED BY <4>4, <6>1 DEF SubSeqs
        <5> QED BY <2>2, <4>2, <4>4, <5>1 DEF Found, Exact, receivers
      <4> QED BY <4>3, <4>4 DEF Stripped
    <3> QED BY <2>4, <3>1, <3>2, Labelled
  <2>6. Selected(rule.filter, block) =
          IF \E element \in elements : element.wildcard
          THEN GetBitmapsWildcard(elements, receivers)
          ELSE GetBitmapsExact(elements, receivers)
    BY DEF Selected, elements, receivers, outcomes
  <2>7. Selected(rule.filter, block) # {}
    BY <2>4, <2>5, <2>6 DEF GetBitmapsWildcard, GetBitmapsExact, elements
  <2> QED BY <1>3, <2>7 DEF InHistory
<1> QED BY <1>2, <1>3

(* The index has what the rules find, for any constants.                   *)
THEOREM HistoryReceives == BackfillSpec => []HistoryHasReceived
<1>1. ReceivedIsInHistory
  <2> SUFFICES ASSUME NEW rule \in ActionAny(Filters),
                      NEW outcome \in Outcomes({{}}, {<<>>}),
                      Matches(rule, outcome),
                      NamesReceiver(rule.filter, outcome)
               PROVE  InHistory(rule, <<<<outcome>>>>)
    BY DEF ReceivedIsInHistory
  <2> DEFINE block == <<<<outcome>>>>
  <2>1. rule \in ActionAny(SUBSET Elements)
    BY DEF ActionAny, Filters, kSubset
  <2>2. 1 \in DOMAIN block /\ 1 \in DOMAIN block[1] /\ block[1][1] = outcome
    OBVIOUS
  <2>3. outcome.receiver \in Accounts
    BY DEF Outcomes
  <2> HIDE DEF block
  <2>4. InHistory(rule, block)
    BY <2>1, <2>2, <2>3, NamedIsInHistory
  <2> QED BY <2>4 DEF block
<1>2. HistoryHasReceived
  BY <1>1 DEF HistoryHasReceived
<1> QED BY <1>1, PTL DEF HistoryHasReceived

(* For every rule and block: a shard with a match is published with the    *)
(* first of them, and never without the event that made it match.          *)
AnyRule ==
  ActionAny(SUBSET Elements) \cup ActionFunctionCall(SUBSET Elements)
  \cup EventRule(SUBSET Elements)
AnyShard == Seq(Outcomes(SUBSET Names, Seq(Events \cup {OtherLog})))

LEMMA FitsAlone ==
  ASSUME NEW rule \in AnyRule,
         NEW outcome \in Outcomes(SUBSET Names, Seq(Events \cup {OtherLog})),
         Matches(rule, outcome), rule.kind = "Event"
  PROVE  LET i == Min(FittingEvents(rule, outcome)) IN
         /\ FittingEvents(rule, outcome) # {}
         /\ Matches(rule, [outcome EXCEPT !.logs = <<outcome.logs[i]>>])
<1> DEFINE fitting == FittingEvents(rule, outcome)
           i == Min(fitting)
<1>1. outcome.logs \in Seq(Events \cup {OtherLog})
  BY DEF Outcomes
<1>2. fitting # {} /\ fitting \in SUBSET Nat
  BY <1>1 DEF Matches, MatchEvent, FittingEvents
<1>3. i \in fitting
  BY <1>2, LeastHeight
<1> HIDE DEF i
<1>4. i \in DOMAIN outcome.logs
      /\ \E e \in FromLog(outcome.logs[i]) :
           /\ NameMatches(rule.event, e.event)
           /\ NameMatches(rule.standard, e.standard)
           /\ NameMatches(rule.version, e.version)
  BY <1>3 DEF FittingEvents
<1> DEFINE log == outcome.logs[i]
           alone == [outcome EXCEPT !.logs = <<log>>]
<1> HIDE DEF log
<1>5. /\ alone.logs = <<log>> /\ alone.receiver = outcome.receiver
      /\ alone.predecessor = outcome.predecessor
  BY DEF Outcomes
<1> HIDE DEF alone
<1>6. MatchEvent(rule, alone)
  <2>1. DOMAIN alone.logs = {1} /\ alone.logs[1] = log
    BY <1>5
  <2> QED BY <1>4, <2>1 DEF MatchEvent, log
<1>7. MatchAccount(rule.filter, alone)
  BY <1>5 DEF Matches, MatchAccount
<1>8. Matches(rule, alone)
  BY <1>6, <1>7 DEF Matches
<1> QED BY <1>2, <1>8 DEF alone, log, i

(* For every rule and block: a shard with a match is published, with its   *)
(* first match and never without the event that made it match.             *)
THEOREM EveryPayloadFits ==
  ASSUME NEW rule \in AnyRule, NEW block,
         \A i \in DOMAIN block : block[i] \in AnyShard
  PROVE  PayloadsFit(rule, block)
<1> DEFINE matches == IndexerRuleMatches(rule, block)
<1>1. ASSUME NEW i \in DOMAIN block
      PROVE  i \in DOMAIN matches <=>
               \E k \in DOMAIN block[i] : Matches(rule, block[i][k])
  BY DEF IndexerRuleMatches, Matching
<1>2. ASSUME NEW i \in DOMAIN block, i \in DOMAIN matches
      PROVE  /\ matches[i] # Panics
             /\ \E k \in DOMAIN block[i] :
                  /\ matches[i].receipt = block[i][k]
                  /\ Matches(rule, block[i][k])
                  /\ \A j \in 1 .. k - 1 : ~Matches(rule, block[i][j])
             /\ rule.kind = "Event" =>
                  Matches(rule, [matches[i].receipt EXCEPT
                                   !.logs = <<matches[i].event>>])
  <2> DEFINE k == Min(Matching(rule, block[i]))
             outcome == block[i][k]
  <2>1. Matching(rule, block[i]) # {} /\ matches[i] = Payload(rule, outcome)
    BY <1>2 DEF IndexerRuleMatches
  <2>2. Matching(rule, block[i]) \in SUBSET Nat
        /\ DOMAIN block[i] = 1 .. Len(block[i]) /\ Len(block[i]) \in Nat
    BY DEF Matching, AnyShard
  <2>3. k \in Matching(rule, block[i])
        /\ \A j \in Matching(rule, block[i]) : k <= j
    BY <2>1, <2>2, LeastHeight
  <2> HIDE DEF k, matches
  <2>4. k \in DOMAIN block[i] /\ Matches(rule, outcome)
    BY <2>3 DEF Matching
  <2>5. outcome \in Outcomes(SUBSET Names, Seq(Events \cup {OtherLog}))
    BY <2>2, <2>4, ElementOfSeq DEF AnyShard
  <2>6. \A j \in 1 .. k - 1 : ~Matches(rule, block[i][j])
    <3> SUFFICES ASSUME NEW j \in 1 .. k - 1, Matches(rule, block[i][j])
                 PROVE  FALSE
      OBVIOUS
    <3>1. j \in Matching(rule, block[i])
      BY <2>2, <2>4 DEF Matching
    <3> QED BY <2>2, <2>3, <2>4, <3>1
  <2> HIDE DEF outcome
  <2>7. CASE rule.kind # "Event"
    <3>1. matches[i] = [receipt |-> outcome]
      BY <2>1, <2>7 DEF Payload
    <3>2. matches[i] # Panics /\ matches[i].receipt = outcome
      BY <3>1 DEF Panics
    <3> QED BY <2>4, <2>6, <2>7, <3>2 DEF outcome
  <2>8. CASE rule.kind = "Event"
    <3> DEFINE e == outcome.logs[Min(FittingEvents(rule, outcome))]
    <3>1. FittingEvents(rule, outcome) # {}
          /\ Matches(rule, [outcome EXCEPT !.logs = <<e>>])
      BY <2>4, <2>5, <2>8, FitsAlone
    <3>2. matches[i] = [receipt |-> outcome, event |-> e]
      BY <2>1, <2>8, <3>1 DEF Payload
    <3> HIDE DEF e
    <3>3. matches[i] # Panics /\ matches[i].receipt = outcome
          /\ matches[i].event = e
      BY <3>2 DEF Panics
    <3> QED BY <2>4, <2>6, <3>1, <3>3 DEF outcome
  <2> QED BY <2>7, <2>8
<1> HIDE DEF matches
<1> QED BY <1>1, <1>2 DEF PayloadsFit, matches

(* The two copies of the matching of events agree, for any constants.      *)
THEOREM ReportsFit == BackfillSpec => []ReportsMatches
<1>1. MatchesHavePayloads
  <2> DEFINE called == {{}} \cup {{n} : n \in Names}
             filters == {{Exact(a)} : a \in Accounts}
  <2> SUFFICES ASSUME NEW rule \in ActionFunctionCall(filters)
                                   \cup EventRule(filters),
                      NEW outcome \in Outcomes(called, Logs)
               PROVE  PayloadsFit(rule,
                        << <<[outcome EXCEPT !.logs = Reverse(@), !.called = {},
                                             !.succeeded = ~@], outcome>>,
                           <<outcome>> >>)
    BY Zenon DEF MatchesHavePayloads
  <2> DEFINE other == [outcome EXCEPT !.logs = Reverse(@), !.called = {},
                                      !.succeeded = ~@]
             AllOutcomes == Outcomes(SUBSET Names, Seq(Events \cup {OtherLog}))
  <2>1. rule \in AnyRule
    BY DEF AnyRule, ActionFunctionCall, EventRule, Elements
  <2>2. outcome.logs \in Seq(Events \cup {OtherLog})
    BY IsASeq DEF Outcomes, Logs, BoundedSeq, SeqOf
  <2>3. Reverse(outcome.logs) \in Seq(Events \cup {OtherLog})
    <3>1. \A k \in 1 .. Len(outcome.logs) :
            outcome.logs[Len(outcome.logs) - k + 1] \in Events \cup {OtherLog}
      BY <2>2, ElementOfSeq
    <3> QED BY <2>2, <3>1, IsASeq DEF Reverse
  <2>4. outcome \in AllOutcomes /\ other \in AllOutcomes
    BY <2>2, <2>3 DEF Outcomes
  <2> HIDE DEF other, AllOutcomes
  <2>5. <<other, outcome>> \in Seq(AllOutcomes) /\ <<outcome>> \in Seq(AllOutcomes)
    BY <2>4
  <2> DEFINE block == << <<other, outcome>>, <<outcome>> >>
  <2>6. \A i \in DOMAIN block : block[i] \in AnyShard
    <3>1. DOMAIN block = {1, 2} /\ block[1] = <<other, outcome>>
          /\ block[2] = <<outcome>>
      OBVIOUS
    <3> QED BY <2>5, <3>1 DEF AnyShard, AllOutcomes
  <2> HIDE DEF block
  <2>7. PayloadsFit(rule, block)
    BY <2>1, <2>6, EveryPayloadFits
  <2> QED BY <2>7 DEF block, other
<1> QED BY <1>1, PTL DEF ReportsMatches

(* What the runs check of the stream, over the rows that are coded.        *)
THEOREM RowsServeBackfill ==
  ASSUME RestartsInside
  PROVE  RowsSpec => [](BackfillInv /\ HistoryHasReceived /\ ReportsMatches)
<1>1. RowsSpec => BackfillSpec
  BY RestartsInside, RowsImplement DEF ImplementsBackfill
<1> QED BY <1>1, BackfillCorrect, HistoryReceives, ReportsFit, PTL
=============================================================================
