------------------------- MODULE BlockStreamProofs -------------------------
(***************************************************************************)
(* Proofs about BlockStream for every chain, index, limit and number of    *)
(* stops, errors and updates.                                              *)
(***************************************************************************)
EXTENDS BlockStream, FiniteSetTheorems, TLAPS

(* A block in hand is a block of the chain. *)
InHand == pc \in {"note", "cache", "room", "add"} => height \in Heights

TypeInv == TypeOK /\ InHand

-----------------------------------------------------------------------------
(* The constants are numbers and sets of heights.                          *)
LEMMA Bounds ==
  /\ Tip \in Nat /\ Tip >= 1 /\ NoBlock = -1
  /\ RegistryVersion \in Heights
  /\ MaxStreamSize \in Nat /\ MaxStreamSize >= 1
  /\ MaxStops \in Nat /\ MaxErrors \in Nat /\ MaxUpdates \in Nat
  /\ \A h \in Touching \cup Blocks : h \in Heights
  BY BlockStreamAssumption DEF NoBlock, Heights

(* Adding and removing blocks keeps the Redis stream one of heights, and   *)
(* changes its length by one.                                              *)
LEMMA QueueOps ==
  ASSUME NEW q \in Seq(Heights)
  PROVE  /\ Len(q) \in Nat /\ <<>> \in Seq(Heights)
         /\ Len(<<>>) = 0
         /\ \A h \in Heights : Append(q, h) \in Seq(Heights)
         /\ \A h : Len(Append(q, h)) = Len(q) + 1
         /\ q # <<>> => /\ Tail(q) \in Seq(Heights) /\ Head(q) \in Heights
                       /\ Len(Tail(q)) < Len(q)
  OBVIOUS

Monitors == [pc : {"none", "asleep", "judge"}, last : NoBlock .. Tip,
             new : NoBlock .. Tip, stale : BOOLEAN]

(* A round of the monitor leaves it a monitor.                             *)
LEMMA MonitorOps ==
  ASSUME TypeOK
  PROVE  /\ monitor \in Monitors
         /\ [monitor EXCEPT !.pc = "judge", !.new = cursor] \in Monitors
         /\ [monitor EXCEPT !.pc = "asleep", !.stale = TRUE] \in Monitors
         /\ [monitor EXCEPT !.pc = "asleep", !.last = monitor.new,
                            !.stale = FALSE] \in Monitors
  <1>1. monitor \in Monitors /\ cursor \in NoBlock .. Tip
    BY Bounds DEF TypeOK, Monitors, Heights
  <1>2. [monitor EXCEPT !.pc = "judge", !.new = cursor] \in Monitors
    BY <1>1 DEF Monitors
  <1>3. [monitor EXCEPT !.pc = "asleep", !.stale = TRUE] \in Monitors
    BY <1>1 DEF Monitors
  <1>4. [monitor EXCEPT !.pc = "asleep", !.last = monitor.new,
                        !.stale = FALSE] \in Monitors
    BY <1>1 DEF Monitors
  <1> QED BY <1>1, <1>2, <1>3, <1>4

(* What a start sets: it leaves a monitor and does not touch the cursor.   *)
LEMMA Starting ==
  ASSUME NEW h \in Heights \cup {Tip + 1}, StartFrom(h)
  PROVE  /\ pc = "none" /\ pc' = "next" /\ source' \in {"bitmap", "lake"}
         /\ from' = h /\ height' = h - 1 /\ last' = h
         /\ health' = "Idle" /\ monitor' \in Monitors /\ cursor' = cursor
  <1>1. [NoMonitor EXCEPT !.pc = "asleep", !.last = h - 1] \in Monitors
    <2>1. h - 1 \in NoBlock .. Tip
      BY Bounds DEF Heights
    <2>2. NoMonitor \in Monitors
      BY Bounds DEF NoMonitor, Monitors
    <2> QED BY <2>1, <2>2 DEF Monitors
  <1>2. source' \in {"bitmap", "lake"}
    <2>1. source' = IF UsesBitmap THEN "bitmap" ELSE "lake"
      BY ZenonT(20) DEF StartFrom
    <2> QED BY <2>1
  <1> QED BY <1>1, <1>2, ZenonT(20) DEF StartFrom

(* Init has the types. *)
LEMMA TypeInit == Init => TypeInv
  BY Bounds, BlockStreamAssumption
  DEF Init, TypeInv, TypeOK, InHand, Steps, HealthStates, NoMonitor, NoBlock

(* Every step of the task keeps them. *)
LEMMA TypeTask == TypeInv /\ Task => TypeInv'
  <1> SUFFICES ASSUME TypeInv, Task PROVE TypeInv'
    OBVIOUS
  <1> USE Bounds DEF TypeInv, TypeOK, InHand, Steps, Heights, Local, task,
        history, counters, Error, Fails, SetLastProcessedBlock, Xadd,
        GetStreamLength, ListCommonPrefixes
  <1>1. CASE NextFromBitmap
    BY <1>1 DEF NextFromBitmap, Ahead
  <1>2. CASE BitmapEnds
    BY <1>2 DEF BitmapEnds
  <1>3. CASE NextFromLake
    BY <1>3 DEF NextFromLake
  <1>4. CASE LakeEnds
    BY <1>4 DEF LakeEnds
  <1>5. CASE Note
    BY <1>5 DEF Note
  <1>6. CASE NoteFails
    BY <1>6 DEF NoteFails
  <1>7. CASE Cache
    BY <1>7 DEF Cache
  <1>8. CASE CacheFails
    BY <1>8 DEF CacheFails
  <1>9. CASE Room
    BY <1>9 DEF Room
  <1>10. CASE RoomFails
    BY <1>10 DEF RoomFails
  <1>11. CASE Add
    BY <1>11, QueueOps DEF Add, Published
  <1>12. CASE AddFails
    <2>1. queue' \in Seq(Heights) /\ published' \subseteq Heights
      BY <1>12, QueueOps DEF AddFails, Published
    <2> QED BY <1>12, <2>1 DEF AddFails
  <1> QED
    BY <1>1, <1>2, <1>3, <1>4, <1>5, <1>6, <1>7, <1>8, <1>9, <1>10, <1>11,
       <1>12 DEF Task

(* So do the monitor, the Coordinator and the Runner. *)
LEMMA TypeOthers == TypeInv /\ (Monitor \/ Coordinator \/ Consume) => TypeInv'
  <1> SUFFICES ASSUME TypeInv, Monitor \/ Coordinator \/ Consume PROVE TypeInv'
    OBVIOUS
  <1> USE Bounds DEF TypeInv, TypeOK, InHand, Steps, Heights, HealthStates,
        task, history, counters, Error, NoMonitor, SetLastProcessedBlock,
        GetLastProcessedBlock, GetStreamLength, Xadd
  <1>1. CASE MonitorRead
    <2>1. monitor' \in Monitors
      BY <1>1, MonitorOps DEF MonitorRead
    <2> QED BY <1>1, <2>1 DEF MonitorRead, Monitors
  <1>2. CASE MonitorSkips
    <2>1. monitor' \in Monitors
      BY <1>2, MonitorOps DEF MonitorSkips
    <2>2. errors' \in 0 .. MaxErrors
      <3>1. errors < MaxErrors /\ errors' = errors + 1
        BY <1>2 DEF MonitorSkips
      <3>2. errors \in 0 .. MaxErrors /\ MaxErrors \in Nat
        BY BlockStreamAssumption
      <3> HIDE DEF TypeInv, TypeOK
      <3> QED
        BY <3>1, <3>2
    <2> QED BY <1>2, <2>1, <2>2 DEF MonitorSkips, Monitors
  <1>3. CASE MonitorJudges
    <2>1. monitor' \in Monitors
      BY <1>3, MonitorOps DEF MonitorJudges
    <2> QED BY <1>3, <2>1 DEF MonitorJudges, Judged, Monitors
  <1>4. ASSUME NEW h \in StartHeights \cup {RegistryVersion}, StartNew(h)
        PROVE  TypeInv'
    <2>1. h \in 1 .. Tip
      BY BlockStreamAssumption
    <2>2. /\ queue' = <<>> /\ origin' = h /\ published' = {} /\ taken' = NoBlock
          /\ stops' = stops /\ errors' = errors
      BY <1>4 DEF StartNew
    <2>3. StartFrom(h)
      BY <1>4 DEF StartNew
    <2>4. \/ updates' = updates
          \/ updates < MaxUpdates /\ updates' = updates + 1
      BY <1>4 DEF StartNew
    <2>5. /\ pc' = "next" /\ source' \in {"bitmap", "lake"}
          /\ from' = h /\ height' = h - 1 /\ last' = h
          /\ health' = "Idle" /\ monitor' \in Monitors /\ cursor' = cursor
      BY <2>1, <2>3, Starting
    <2>6. queue' \in Seq(Heights)
      BY <2>2, QueueOps
    <2>7. updates' \in 0 .. MaxUpdates
      BY <2>4, BlockStreamAssumption
    <2> QED BY <2>1, <2>2, <2>5, <2>6, <2>7, SMTT(30) DEF Monitors
  <1>5. CASE Resume
    <2>1. PICK h \in Heights \cup {Tip + 1} : StartFrom(h)
      BY <1>5 DEF Resume, GetLastPublishedBlock
    <2>2. UNCHANGED <<queue, history, counters>>
      BY <1>5 DEF Resume, GetLastPublishedBlock
    <2> QED BY <2>1, <2>2, Starting DEF Monitors
  <1>6. CASE Stop
    <2>1. /\ queue' \in Seq(Heights) /\ published' \subseteq Heights
          /\ cursor' \in Heights \cup {NoBlock}
      BY <1>6, QueueOps DEF Stop, InFlight, Published
    <2> QED BY <1>6, <2>1 DEF Stop
  <1>7. CASE Consume
    BY <1>7, QueueOps DEF Consume
  <1> QED
    BY <1>1, <1>2, <1>3, <1>4, <1>5, <1>6, <1>7 DEF Monitor, Coordinator

(* TypeInv is inductive. *)
LEMMA TypeNext == TypeInv /\ [Next]_vars => TypeInv'
  <1>1. TypeInv /\ UNCHANGED vars => TypeInv'
    BY DEF vars, TypeInv, TypeOK, InHand
  <1> QED BY <1>1, TypeTask, TypeOthers DEF Next

(* Every variable keeps its type; in particular no block outside the chain *)
(* is ever published and no cursor written for one.                        *)
THEOREM StreamTypeCorrect == Spec => []TypeOK
  <1>1. TypeInv => TypeOK
    BY DEF TypeInv
  <1> QED BY <1>1, TypeInit, TypeNext, PTL DEF Spec

-----------------------------------------------------------------------------
(* Room is kept between the check of publish_block and its XADD: nobody    *)
(* else adds, whatever stops the task and starts another in between.       *)
BoundInv ==
  /\ TypeInv
  /\ QueueBounded
  /\ pc = "add" => Len(queue) < MaxStreamSize

(* BoundInv is inductive. *)
LEMMA BoundNext == BoundInv /\ [Next]_vars => BoundInv'
  <1> SUFFICES ASSUME BoundInv, [Next]_vars PROVE BoundInv'
    OBVIOUS
  <1>1. TypeInv'
    BY TypeNext DEF BoundInv
  <1> USE Bounds DEF BoundInv, QueueBounded, TypeInv, TypeOK, GetStreamLength,
        Xadd
  <1>2. CASE UNCHANGED <<queue, pc>>
    BY <1>1, <1>2
  <1>3. CASE Task
    <2>1. CASE Add \/ AddFails
      <3>1. /\ pc = "add" /\ pc' # "add"
            /\ Len(queue') \in {Len(queue), Len(queue) + 1}
        BY <2>1, QueueOps DEF Add, AddFails, Published, Fails
      <3>2. Len(queue) < MaxStreamSize /\ Len(queue) \in Nat
        BY <3>1, QueueOps
      <3>3. Len(queue') <= MaxStreamSize
        <4> HIDE DEF BoundInv, QueueBounded, TypeInv, TypeOK
        <4> QED BY <3>1, <3>2
      <3> HIDE DEF TypeInv, TypeOK
      <3> QED BY <1>1, <3>1, <3>3
    <2>2. CASE ~Add /\ ~AddFails
      BY <1>1, <1>3, <2>2
      DEF Task, NextFromBitmap, BitmapEnds, NextFromLake, LakeEnds, Note,
          NoteFails, Cache, CacheFails, Room, RoomFails, Local, Fails
    <2> QED BY <2>1, <2>2
  <1>4. CASE Monitor
    BY <1>2, <1>4 DEF Monitor, MonitorRead, MonitorSkips, MonitorJudges, task
  <1>5. ASSUME NEW h, StartNew(h) PROVE BoundInv'
    BY <1>1, <1>5, QueueOps DEF StartNew, StartFrom
  <1>6. CASE Resume
    BY <1>1, <1>6 DEF Resume, GetLastPublishedBlock, StartFrom
  <1>7. CASE Stop
    BY <1>1, <1>7, QueueOps DEF Stop, InFlight, Published
  <1>8. CASE Consume
    BY <1>1, <1>8, QueueOps DEF Consume, task
  <1> QED
    BY <1>2, <1>3, <1>4, <1>5, <1>6, <1>7, <1>8 DEF Next, Coordinator, vars

(* Back-pressure holds for every limit: the Redis stream never outgrows    *)
(* MAX_STREAM_SIZE.                                                        *)
THEOREM BackPressure == Spec => []QueueBounded
  <1>1. Init => BoundInv
    BY TypeInit, Bounds DEF Init, BoundInv, QueueBounded
  <1>2. BoundInv => QueueBounded
    BY DEF BoundInv
  <1> QED BY <1>1, <1>2, BoundNext, PTL DEF Spec

-----------------------------------------------------------------------------
(* How far the cursor may be ahead of the block the task turns to next:    *)
(* not at all, but for the seam where Lake delivers the last bitmap block  *)
(* again.  An update ends that, hence the hypothesis.                      *)
Behind ==
  updates = 0 =>
  /\ source = "bitmap" /\ pc \notin {"none", "ended"} =>
       cursor <= height /\ cursor <= last
  /\ source = "lake" /\ pc = "next" => cursor <= height + 1
  /\ source = "lake" /\ pc \in {"note", "cache", "room", "add"} =>
       cursor <= height
  /\ origin = NoBlock => cursor = NoBlock /\ pc = "none"

ForwardInv == TypeInv /\ Behind

(* ForwardInv is inductive, and no step moves the cursor back until an     *)
(* update supersedes the stream.                                           *)
LEMMA ForwardNext ==
  ASSUME ForwardInv, [Next]_vars
  PROVE  ForwardInv' /\ (updates' = 0 => cursor' >= cursor)
  <1> DEFINE Goal == Behind' /\ (updates' = 0 => cursor' >= cursor)
  <1>1. TypeInv'
    BY TypeNext DEF ForwardInv
  <1>2. SUFFICES Goal
    BY <1>1 DEF ForwardInv
  <1> USE Bounds DEF ForwardInv, Behind, TypeInv, TypeOK, InHand, Heights,
        Local, task, history, counters, Fails, vars, SetLastProcessedBlock,
        ListCommonPrefixes
  <1>3. CASE UNCHANGED <<pc, source, height, last, cursor, origin, updates>>
    BY <1>3
  <1>4. CASE NextFromBitmap
    BY <1>4 DEF NextFromBitmap, Ahead
  <1>5. CASE BitmapEnds
    BY <1>5 DEF BitmapEnds
  <1>6. CASE NextFromLake
    BY <1>6 DEF NextFromLake
  <1>7. CASE LakeEnds
    BY <1>7 DEF LakeEnds
  <1>8. CASE Note
    BY <1>8 DEF Note
  <1>9. CASE NoteFails
    BY <1>9 DEF NoteFails
  <1>10. CASE Cache \/ CacheFails
    BY <1>10 DEF Cache, CacheFails
  <1>11. CASE Room \/ RoomFails
    BY <1>11 DEF Room, RoomFails
  <1>12. CASE Add \/ AddFails
    BY <1>12 DEF Add, AddFails
  <1>13. CASE Monitor \/ Consume
    BY <1>3, <1>13
    DEF Monitor, MonitorRead, MonitorSkips, MonitorJudges, Consume
  <1>14. ASSUME NEW h \in StartHeights \cup {RegistryVersion}, StartNew(h)
        PROVE  Goal
    <2>1. h \in 1 .. Tip
      BY BlockStreamAssumption
    <2>2. updates' = 0 => updates = 0 /\ origin = NoBlock
      BY <1>14 DEF StartNew
    <2>3. StartFrom(h) /\ origin' = h
      BY <1>14 DEF StartNew
    <2>4. /\ pc' = "next" /\ height' = h - 1 /\ last' = h /\ cursor' = cursor
      BY <2>1, <2>3, Starting
    <2> QED BY <2>1, <2>2, <2>3, <2>4
  <1>15. CASE Resume
    <2>1. PICK h \in Heights \cup {Tip + 1} :
            StartFrom(h) /\ (cursor # NoBlock => h = cursor + 1)
      BY <1>15 DEF Resume, GetLastPublishedBlock
    <2>2. origin # NoBlock /\ UNCHANGED <<origin, updates>>
      BY <1>15 DEF Resume, GetLastPublishedBlock
    <2> QED BY <2>1, <2>2, Starting
  <1>16. CASE Stop
    BY <1>16 DEF Stop, InFlight
  <1> QED
    BY <1>3, <1>4, <1>5, <1>6, <1>7, <1>8, <1>9, <1>10, <1>11, <1>12, <1>13,
       <1>14, <1>15, <1>16 DEF Next, Task, Coordinator

(* Until an update supersedes the stream, the cursor never decreases:      *)
(* not at the seam of the two phases, not by a resume, and not by a write  *)
(* that lands after its task was cancelled.                                *)
THEOREM CursorMonotone == Spec => CursorNeverDecreases
  <1>1. Init => ForwardInv
    BY TypeInit DEF Init, ForwardInv, Behind
  <1>2. ForwardInv /\ [Next]_vars => ForwardInv'
    BY ForwardNext
  <1>3. ForwardInv /\ [Next]_vars => [updates' = 0 => cursor' >= cursor]_vars
    BY ForwardNext
  <1> QED BY <1>1, <1>2, <1>3, PTL DEF Spec, CursorNeverDecreases

-----------------------------------------------------------------------------
(***************************************************************************)
(* What a run of the stream has dealt with.  Covered(b): from its start to *)
(* b every matching block is published.                                    *)
(***************************************************************************)
Running == pc \notin {"none", "ended"}
InBitmap == Running /\ source = "bitmap"
InLake == Running /\ source = "lake"
Covered(b) == \A h \in Matching : from <= h /\ h <= b => h \in published

Progress ==
  /\ origin = NoBlock =>
       /\ pc = "none" /\ cursor = NoBlock
       /\ queue = <<>> /\ taken = NoBlock /\ published = {}
  /\ Running => Covered(last - 1)
  /\ InBitmap => /\ UsesBitmap /\ from <= height + 1
                 /\ pc \in {"next", "room", "add", "note"}
                 /\ Covered(IF pc \in {"next", "note"} THEN height ELSE height - 1)
  /\ InLake => Covered(IF pc = "next" THEN height ELSE height - 1)

(* Updates are counted, never forgotten.                                   *)
LEMMA UpdatesCount ==
  ASSUME TypeOK, [Next]_vars, updates' = 0
  PROVE  updates = 0
  <1> USE DEF TypeOK, counters, Local, Fails
  <1>1. ASSUME NEW h, StartNew(h) PROVE updates = 0
    BY <1>1 DEF StartNew
  <1>2. CASE Task
    BY <1>2 DEF Task, NextFromBitmap, BitmapEnds, NextFromLake, LakeEnds, Note,
       NoteFails, Cache, CacheFails, Room, RoomFails, Add, AddFails
  <1>3. CASE Monitor
    BY <1>3 DEF Monitor, MonitorRead, MonitorSkips, MonitorJudges
  <1>4. CASE Resume \/ Stop \/ Consume
    BY <1>4 DEF Resume, Stop, Consume
  <1> QED BY <1>1, <1>2, <1>3, <1>4 DEF Next, Coordinator, vars

(* Until an update, a start of a new stream is the first.                  *)
LEMMA FirstStart ==
  ASSUME TypeOK, NEW h \in StartHeights \cup {RegistryVersion}, StartNew(h),
         updates' = 0
  PROVE  /\ origin = NoBlock /\ origin' = h /\ h \in Heights
         /\ queue' = <<>> /\ published' = {} /\ taken' = NoBlock
         /\ UNCHANGED <<stops, errors>>
  <1>1. h \in Heights
    BY BlockStreamAssumption
  <1> QED BY <1>1 DEF StartNew, TypeOK

(* A resume starts behind the cursor, or at the registry version.          *)
ResumesFrom == IF cursor = NoBlock THEN RegistryVersion ELSE cursor + 1

LEMMA Resuming ==
  ASSUME TypeOK, Resume
  PROVE  /\ origin # NoBlock /\ ResumesFrom \in Heights \cup {Tip + 1}
         /\ StartFrom(ResumesFrom) /\ ResumesFrom' = ResumesFrom
         /\ UNCHANGED <<queue, history, counters>>
  <1>1. /\ origin # NoBlock /\ StartFrom(ResumesFrom)
        /\ UNCHANGED <<queue, history, counters>>
    BY DEF Resume, GetLastPublishedBlock, ResumesFrom
  <1>2. ResumesFrom \in Heights \cup {Tip + 1}
    BY Bounds DEF TypeOK, Heights, ResumesFrom
  <1>3. UNCHANGED cursor
    BY <1>1 DEF StartFrom
  <1> QED BY <1>1, <1>2, <1>3 DEF ResumesFrom

(* A run that has just started has nothing behind it.                      *)
LEMMA EmptyRun ==
  ASSUME NEW h \in Heights \cup {Tip + 1}, StartFrom(h), origin' # NoBlock
  PROVE  Progress'
  <1>1. /\ pc' = "next" /\ source' \in {"bitmap", "lake"}
        /\ from' = h /\ height' = h - 1 /\ last' = h
    BY Starting
  <1>2. source' = "bitmap" => UsesBitmap
    <2>1. source' = IF UsesBitmap THEN "bitmap" ELSE "lake"
      BY ZenonT(20) DEF StartFrom
    <2> QED BY <2>1
  <1>3. \A g \in Matching : ~(h <= g /\ g <= h - 1)
    BY BlockStreamAssumption, Bounds DEF Heights
  <1> QED BY <1>1, <1>2, <1>3, Bounds
    DEF Progress, Running, InBitmap, InLake, Covered, Heights

(* The bitmaps yield no block behind a matching one they have yet to.      *)
LEMMA BitmapAhead ==
  ASSUME IndexCovers, UsesBitmap, height \in Int, NextFromBitmap
  PROVE  /\ height' \in Touching /\ height' > height /\ height' >= from
         /\ \A h \in Matching : height < h /\ from <= h => height' <= h
  <1>1. height' \in Ahead /\ \A g \in Ahead : height' <= g
    BY DEF NextFromBitmap
  <1>2. height' <= Indexed /\ Indexed \in Int
    BY <1>1, BlockStreamAssumption DEF Ahead
  <1>3. ASSUME NEW h \in Matching, height < h, from <= h, h < height'
        PROVE  FALSE
    <2>1. h \in Int /\ height' \in Int
      BY <1>1, BlockStreamAssumption DEF Ahead, Heights
    <2>2. h <= Indexed
      BY <1>2, <1>3, <2>1
    <2>3. h \in Ahead
      BY <1>3, <2>1, <2>2 DEF IndexCovers, Ahead
    <2> QED BY <1>1, <1>3, <2>1, <2>3
  <1>4. Matching \subseteq Int /\ height' \in Int
    BY <1>1, BlockStreamAssumption DEF Ahead, Heights
  <1> QED BY <1>1, <1>3, <1>4 DEF Ahead

(* Progress is kept by every step of a stream that was not updated.        *)
LEMMA ProgressNext ==
  ASSUME TypeInv, Progress, IndexCovers, [Next]_vars, updates' = 0
  PROVE  Progress'
  <1>m. Matching \subseteq Blocks /\ Blocks \subseteq Heights
    BY BlockStreamAssumption
  <1> USE Bounds DEF Progress, Running, InBitmap, InLake, Covered, TypeInv,
        TypeOK, InHand, Heights
  <1>1. CASE UNCHANGED <<pc, source, from, height, last, cursor, queue, origin,
                         published, taken>>
    BY <1>1
  <1>2. CASE NextFromBitmap
    <2>1. /\ pc = "next" /\ source = "bitmap" /\ height' \in Ahead
          /\ \A g \in Ahead : height' <= g
          /\ pc' = "room" /\ UNCHANGED <<source, from, last, cursor, queue,
                                         origin, published, taken>>
      BY <1>2 DEF NextFromBitmap, Local, history
    <2>2. \A h \in Matching : from <= h /\ h <= height' - 1 => h \in published
      BY <1>m, <1>2, <2>1, BitmapAhead
    <2>3. from' <= height' + 1 /\ from' = from
      BY <2>1 DEF Ahead
    <2> QED BY <2>1, <2>2, <2>3
  <1>3. CASE BitmapEnds
    BY <1>3 DEF BitmapEnds, Local, history
  <1>4. CASE NextFromLake
    BY <1>m, <1>4 DEF NextFromLake, ListCommonPrefixes, Local, history
  <1>5. CASE LakeEnds
    BY <1>5 DEF LakeEnds, Fails
  <1>6. CASE Note
    BY <1>m, <1>6 DEF Note, SetLastProcessedBlock, history
  <1>7. CASE NoteFails \/ CacheFails \/ RoomFails \/ AddFails
    BY <1>7 DEF NoteFails, CacheFails, RoomFails, AddFails, Fails
  <1>8. CASE Cache \/ Room
    BY <1>8 DEF Cache, Room, Local, history
  <1>9. CASE Add
    BY <1>m, <1>9 DEF Add, Published, Xadd
  <1>10. CASE Monitor
    BY <1>1, <1>10
    DEF Monitor, MonitorRead, MonitorSkips, MonitorJudges, task, history
  <1>11. ASSUME NEW h \in StartHeights \cup {RegistryVersion}, StartNew(h)
         PROVE  Progress'
    <2>1. /\ origin' = h /\ h \in Heights
          /\ queue' = <<>> /\ published' = {} /\ taken' = NoBlock
      BY <1>11, FirstStart
    <2>2. StartFrom(h)
      BY <1>11 DEF StartNew
    <2> QED BY <2>1, <2>2, EmptyRun, Bounds
  <1>12. CASE Resume
    <2>1. /\ origin' # NoBlock /\ ResumesFrom \in Heights \cup {Tip + 1}
          /\ StartFrom(ResumesFrom)
      BY <1>12, Resuming DEF history
    <2> HIDE DEF ResumesFrom
    <2> QED BY <2>1, EmptyRun
  <1>13. CASE Stop
    BY <1>13 DEF Stop, InFlight
  <1>14. CASE Consume
    BY <1>14 DEF Consume, task
  <1> QED
    BY <1>1, <1>2, <1>3, <1>4, <1>5, <1>6, <1>7, <1>8, <1>9, <1>10, <1>11,
       <1>12, <1>13, <1>14 DEF Next, Task, Coordinator, vars

-----------------------------------------------------------------------------
(***************************************************************************)
(* How much of what the user asked for is lost.  Gap: what the cursor has  *)
(* passed in this run and nobody has published; it is the block in hand    *)
(* between the note of a Lake block and its publication, and nothing else. *)
(***************************************************************************)
LostBelow(b) ==
  {h \in Matching : origin <= h /\ RegistryVersion <= h /\ h < b} \ published
Gap == {h \in Matching : from <= h /\ h <= cursor} \ published

Bounded ==
  /\ Running => \/ Gap = {}
                \/ pc \in {"cache", "room", "add"} /\ Gap \subseteq {height}
  /\ pc # "none" => Cardinality(LostBelow(from)) <= stops + errors
  /\ ~Running /\ origin # NoBlock =>
       Cardinality(LostBelow(ResumesFrom)) <= stops + errors
  /\ stops + errors = 0 /\ origin # NoBlock => Running /\ from = origin

(* Sets of heights are finite, and one more block adds at most one.        *)
LEMMA Lost ==
  ASSUME NEW S, NEW T, NEW x, T \subseteq Matching, S \subseteq T \cup {x}
  PROVE  /\ Cardinality(S) \in Nat /\ Cardinality(T) \in Nat
         /\ Cardinality(S) <= Cardinality(T) + 1
         /\ S \subseteq T => Cardinality(S) <= Cardinality(T)
  <1>1. IsFiniteSet(T)
    <2>1. T \subseteq 1 .. Tip /\ 1 \in Int /\ Tip \in Int
      BY BlockStreamAssumption DEF Heights
    <2> QED BY <2>1, FS_Interval, FS_Subset
  <1>2. /\ IsFiniteSet(T \cup {x})
        /\ Cardinality(T \cup {x}) =
             IF x \in T THEN Cardinality(T) ELSE Cardinality(T) + 1
    BY <1>1, FS_AddElement
  <1>3. Cardinality(T) \in Nat /\ Cardinality(S) \in Nat
    BY <1>1, <1>2, FS_Subset, FS_CardinalityType
  <1>4. Cardinality(S) <= Cardinality(T \cup {x})
    BY <1>2, FS_Subset
  <1>5. S \subseteq T => Cardinality(S) <= Cardinality(T)
    BY <1>1, FS_Subset
  <1> QED BY <1>2, <1>3, <1>4, <1>5

(* A cut loses at most the block in hand.                                  *)
LEMMA CutLoses ==
  ASSUME TypeInv, Progress, Bounded, Running, UNCHANGED <<origin, from>>,
         published \subseteq published',
         cursor' = cursor \/ (pc = "note" /\ cursor' = height)
  PROVE  LostBelow(ResumesFrom)' \subseteq LostBelow(from) \cup {height}
  <1>t. from \in Int /\ \A h \in Matching : h \in Int
    BY Bounds, BlockStreamAssumption DEF TypeInv, TypeOK, Heights
  <1> SUFFICES ASSUME NEW h \in Matching,
                      origin <= h, RegistryVersion <= h, h < ResumesFrom',
                      h \notin published', from <= h, h # height
               PROVE  FALSE
    <2>1. ASSUME NEW h \in LostBelow(ResumesFrom)', h \notin LostBelow(from)
          PROVE  /\ h \in Matching /\ origin <= h /\ RegistryVersion <= h
                 /\ h < ResumesFrom' /\ h \notin published' /\ from <= h
      BY <1>t, <2>1 DEF LostBelow
    <2> QED BY <2>1
  <1>1. /\ h \in Heights /\ Heights \subseteq Int
        /\ cursor \in Int /\ height \in Int /\ RegistryVersion \in Int
    BY Bounds, BlockStreamAssumption DEF TypeInv, TypeOK, Heights
  <1>2. cursor' # NoBlock /\ h <= cursor'
    BY <1>1 DEF ResumesFrom
  <1>3. CASE cursor' = cursor
    BY <1>1, <1>2, <1>3 DEF Gap, Bounded
  <1>4. CASE pc = "note" /\ cursor' = height
    <2>1. h <= height - 1
      BY <1>1, <1>2, <1>4
    <2>2. h \in published
      <3>1. InBitmap \/ InLake
        BY DEF InBitmap, InLake, TypeInv, TypeOK
      <3>2. Covered(height) \/ Covered(height - 1)
        BY <1>4, <3>1 DEF Progress
      <3> QED BY <1>1, <2>1, <3>2 DEF Covered
    <2> QED BY <2>2
  <1> QED BY <1>3, <1>4

(* The counts of stops and errors are numbers. *)
LEMMA Counts == TypeOK => stops \in Nat /\ errors \in Nat /\ stops + errors \in Nat
  BY BlockStreamAssumption DEF TypeOK

(* A step that keeps the run loses nothing, if the gap stays small.        *)
LEMMA RunGoesOn ==
  ASSUME TypeInv, Bounded, Running, Running', UNCHANGED <<origin, from, stops>>,
         errors' \in {errors, errors + 1}, published \subseteq published',
         Gap' = {} \/ (pc' \in {"cache", "room", "add"} /\ Gap' \subseteq {height'})
  PROVE  Bounded'
  <1>1. LostBelow(from)' \subseteq LostBelow(from)
    BY DEF LostBelow
  <1>2. LostBelow(from) \subseteq Matching
    BY DEF LostBelow
  <1>3. /\ Cardinality(LostBelow(from)') <= Cardinality(LostBelow(from))
        /\ Cardinality(LostBelow(from)') \in Nat
        /\ Cardinality(LostBelow(from)) \in Nat
    BY <1>1, <1>2, Lost
  <1>4. Cardinality(LostBelow(from)) <= stops + errors
    BY DEF Bounded, Running
  <1>5. Cardinality(LostBelow(from)') <= stops' + errors'
    BY <1>3, <1>4, Counts DEF TypeInv
  <1>6. stops' + errors' = 0 => stops + errors = 0
    BY Counts DEF TypeInv
  <1> QED BY <1>5, <1>6 DEF Bounded, Running

(* A step that ends the run, and is counted, loses the block in hand.      *)
LEMMA RunIsCut ==
  ASSUME TypeInv, Progress, Bounded, Running, ~Running', origin # NoBlock,
         pc' # "none" => UNCHANGED source,
         UNCHANGED <<origin, from>>, published \subseteq published',
         cursor' = cursor \/ (pc = "note" /\ cursor' = height),
         \/ stops' = stops + 1 /\ errors' = errors
         \/ errors' = errors + 1 /\ stops' = stops
  PROVE  Bounded'
  <1>1. LostBelow(from) \subseteq Matching /\ LostBelow(from)' \subseteq Matching
    BY DEF LostBelow
  <1>2. LostBelow(ResumesFrom)' \subseteq LostBelow(from) \cup {height}
    BY CutLoses
  <1>3. LostBelow(from)' \subseteq LostBelow(from)
    BY DEF LostBelow
  <1>4. /\ Cardinality(LostBelow(ResumesFrom)') <= Cardinality(LostBelow(from)) + 1
        /\ Cardinality(LostBelow(from)') <= Cardinality(LostBelow(from))
        /\ Cardinality(LostBelow(ResumesFrom)') \in Nat
        /\ Cardinality(LostBelow(from)) \in Nat
        /\ Cardinality(LostBelow(from)') \in Nat
    BY <1>1, <1>2, <1>3, Lost
  <1>5. Cardinality(LostBelow(from)) <= stops + errors
    BY DEF Bounded, Running
  <1>6. stops' + errors' = stops + errors + 1 /\ stops + errors \in Nat
    BY Counts DEF TypeInv
  <1>7. /\ Cardinality(LostBelow(ResumesFrom)') <= stops' + errors'
        /\ Cardinality(LostBelow(from)') <= stops' + errors'
        /\ stops' + errors' # 0
    BY <1>4, <1>5, <1>6
  <1> QED BY <1>7 DEF Bounded

(* A run that starts where the old one would have gone on loses nothing.   *)
LEMMA RunStarts ==
  ASSUME TypeInv, Progress, Bounded, updates' = 0,
         Resume \/ \E h \in StartHeights \cup {RegistryVersion} : StartNew(h)
  PROVE  Bounded'
  <1>1. CASE Resume
    <2>1. /\ origin # NoBlock /\ StartFrom(ResumesFrom) /\ pc = "none"
          /\ ResumesFrom \in Heights \cup {Tip + 1}
          /\ UNCHANGED <<queue, history, counters>>
      BY <1>1, Resuming DEF TypeInv, StartFrom
    <2>2. pc' = "next" /\ from' = ResumesFrom /\ cursor' = cursor
      BY <2>1, Starting
    <2>3. LostBelow(from)' = LostBelow(ResumesFrom)
      BY <2>1, <2>2 DEF LostBelow, history
    <2>t. \A h \in Matching : h \in Int /\ h >= 1
      BY BlockStreamAssumption DEF Heights
    <2>4. Gap' = {}
      <3>1. cursor \in Int /\ (cursor = NoBlock => cursor = -1)
        BY Bounds DEF TypeInv, TypeOK, Heights
      <3>2. \A h \in Matching : ~(from' <= h /\ h <= cursor')
        BY <2>t, <2>2, <3>1 DEF ResumesFrom
      <3> QED BY <3>2 DEF Gap
    <2>5. stops' + errors' = stops + errors
      BY <2>1 DEF counters
    <2>6. stops + errors # 0
      BY <2>1 DEF Bounded, Running
    <2>7. Cardinality(LostBelow(ResumesFrom)) <= stops + errors
      BY <2>1 DEF Bounded, Running
    <2> QED BY <2>2, <2>3, <2>4, <2>5, <2>6, <2>7 DEF Bounded, Running
  <1>2. ASSUME NEW h \in StartHeights \cup {RegistryVersion}, StartNew(h)
        PROVE  Bounded'
    <2>1. /\ origin = NoBlock /\ origin' = h /\ h \in Heights
          /\ UNCHANGED <<stops, errors>> /\ StartFrom(h)
      BY <1>2, FirstStart DEF TypeInv, StartNew
    <2>2. pc' = "next" /\ from' = h /\ cursor' = NoBlock
      BY <2>1, Starting DEF Progress
    <2>t. \A g \in Matching : g \in Int /\ g >= 1
      BY BlockStreamAssumption DEF Heights
    <2>3. LostBelow(from)' = {}
      <3>1. \A g \in Matching : ~(origin' <= g /\ g < from')
        BY <2>1, <2>2, <2>t DEF Heights
      <3> QED BY <3>1 DEF LostBelow
    <2>4. Gap' = {}
      <3>1. \A g \in Matching : ~(g <= cursor')
        BY <2>2, <2>t, Bounds
      <3> QED BY <3>1 DEF Gap
    <2>5. Cardinality(LostBelow(from)') = 0
      BY <2>3, FS_EmptySet
    <2>6. stops' + errors' \in Nat
      BY <2>1, Counts DEF TypeInv
    <2> QED BY <2>1, <2>2, <2>4, <2>5, <2>6 DEF Bounded, Running
  <1> QED BY <1>1, <1>2

(* Bounded is kept by every step of a stream that was not updated.         *)
LEMMA BoundedNext ==
  ASSUME TypeInv, Progress, Bounded, [Next]_vars, updates' = 0
  PROVE  Bounded'
  <1> USE DEF Running
  <1>m. \A h \in Matching : h \in Int
    BY BlockStreamAssumption DEF Heights
  <1>e. Error => errors' \in {errors, errors + 1}
    BY DEF Error
  <1>1. CASE Monitor \/ Consume \/ UNCHANGED vars
    <2>1. /\ UNCHANGED <<pc, source, from, height, cursor, origin, published, stops>>
          /\ errors' \in {errors, errors + 1}
      BY <1>1, <1>e DEF Monitor, MonitorRead, MonitorSkips, MonitorJudges, Consume,
         vars, task, history, counters
    <2>2. /\ Gap' = Gap /\ LostBelow(from)' = LostBelow(from)
          /\ LostBelow(ResumesFrom)' = LostBelow(ResumesFrom)
      BY <2>1 DEF Gap, LostBelow, ResumesFrom
    <2>3. LostBelow(from) \subseteq Matching /\ LostBelow(ResumesFrom) \subseteq Matching
      BY DEF LostBelow
    <2>4. /\ Cardinality(LostBelow(from)) \in Nat
          /\ Cardinality(LostBelow(ResumesFrom)) \in Nat
      BY <2>3, Lost
    <2>5. /\ stops + errors <= stops' + errors'
          /\ stops + errors \in Nat /\ stops' + errors' \in Nat
      BY <2>1, Counts DEF TypeInv
    <2>6. ASSUME NEW c \in Nat, c <= stops + errors PROVE c <= stops' + errors'
      BY <2>5, <2>6
    <2>7. stops' + errors' = 0 => stops + errors = 0
      BY <2>5
    <2> QED BY <2>1, <2>2, <2>4, <2>6, <2>7 DEF Bounded
  <1>2. CASE NextFromBitmap \/ BitmapEnds \/ NextFromLake \/ Cache \/ Room
    <2>1. /\ UNCHANGED <<from, cursor, origin, published, stops>>
          /\ errors' \in {errors, errors + 1}
          /\ Running /\ Running'
          /\ \/ pc = "next"
             \/ pc' \in {"cache", "room", "add"} /\ height' = height
      BY <1>2, <1>e DEF NextFromBitmap, BitmapEnds, NextFromLake, Cache, Room,
         Local, history
    <2>2. Gap' = Gap
      BY <2>1 DEF Gap
    <2>3. Gap' = {} \/ (pc' \in {"cache", "room", "add"} /\ Gap' \subseteq {height'})
      BY <2>1, <2>2 DEF Bounded
    <2> QED BY <2>1, <2>3, RunGoesOn
  <1>3. CASE Note
    <2>1. /\ UNCHANGED <<source, from, height, origin, published, stops, errors>>
          /\ cursor' = height /\ Running /\ Running' /\ pc = "note"
          /\ pc' = IF source = "lake" /\ height \in Matching THEN "cache" ELSE "next"
      BY <1>3 DEF Note, SetLastProcessedBlock, history, counters
    <2>2. height \in Int /\ from \in Int
      BY Bounds DEF TypeInv, TypeOK, Heights
    <2>3. CASE source = "bitmap"
      <3>1. Covered(height)
        BY <2>1, <2>3 DEF Progress, InBitmap
      <3>2. Gap' = {}
        BY <2>1, <3>1 DEF Gap, Covered
      <3> QED BY <2>1, <3>2, RunGoesOn
    <2>4. CASE source = "lake"
      <3>1. Covered(height - 1)
        BY <2>1, <2>4 DEF Progress, InLake
      <3>2. Gap' \subseteq {height} \cap Matching
        BY <1>m, <2>1, <2>2, <3>1 DEF Gap, Covered
      <3> QED BY <2>1, <2>4, <3>2, RunGoesOn
    <2> QED BY <2>3, <2>4 DEF TypeInv, TypeOK
  <1>4. CASE Add
    <2>1. /\ UNCHANGED <<from, cursor, origin, stops, errors>>
          /\ published' = published \cup {height} /\ Running /\ Running'
      BY <1>4 DEF Add, Published, counters
    <2>2. Gap' = {}
      BY <2>1 DEF Gap, Bounded
    <2> QED BY <2>1, <2>2, RunGoesOn
  <1>5. CASE LakeEnds \/ NoteFails \/ CacheFails \/ RoomFails \/ AddFails
    <2>1. /\ pc' = "ended" /\ Running /\ UNCHANGED <<source, from, origin, stops>>
          /\ errors' = errors + 1
      BY <1>5 DEF LakeEnds, NoteFails, CacheFails, RoomFails, AddFails, Fails, Error
    <2>2. /\ published \subseteq published'
          /\ cursor' = cursor \/ (pc = "note" /\ cursor' = height)
      BY <1>5 DEF LakeEnds, NoteFails, CacheFails, RoomFails, AddFails, Published,
         SetLastProcessedBlock
    <2>3. origin # NoBlock
      BY <2>1 DEF Progress
    <2> QED BY <2>1, <2>2, <2>3, RunIsCut
  <1>6. CASE Stop
    <2>1. /\ pc' = "none" /\ pc # "none" /\ UNCHANGED <<from, origin, errors>>
          /\ IF pc = "ended" THEN stops' = stops ELSE stops' = stops + 1
      BY <1>6 DEF Stop
    <2>2. /\ published \subseteq published'
          /\ cursor' = cursor \/ (pc = "note" /\ cursor' = height)
          /\ pc = "ended" => UNCHANGED <<cursor, published>>
      BY <1>6 DEF Stop, InFlight, Published, SetLastProcessedBlock
    <2>3. origin # NoBlock
      BY <2>1 DEF Progress
    <2>4. CASE pc = "ended"
      <3>1. LostBelow(ResumesFrom)' = LostBelow(ResumesFrom)
        BY <2>1, <2>2, <2>4 DEF LostBelow, ResumesFrom
      <3> QED BY <2>1, <2>3, <2>4, <3>1 DEF Bounded
    <2>5. CASE pc # "ended"
      BY <2>1, <2>2, <2>3, <2>5, RunIsCut
    <2> QED BY <2>4, <2>5
  <1>7. CASE Resume \/ \E h \in StartHeights \cup {RegistryVersion} : StartNew(h)
    BY <1>7, RunStarts
  <1> QED
    BY <1>1, <1>2, <1>3, <1>4, <1>5, <1>6, <1>7 DEF Next, Task, Coordinator

SkipInv == TypeInv /\ (IndexCovers /\ updates = 0 => Progress /\ Bounded)

LEMMA SkipInit == Init => SkipInv
  <1> SUFFICES ASSUME Init PROVE Progress /\ Bounded
    BY TypeInit DEF SkipInv
  <1>1. origin = NoBlock /\ pc = "none" /\ ~Running /\ Progress
    BY DEF Init, Progress, Running, InBitmap, InLake
  <1> QED BY <1>1 DEF Bounded

LEMMA SkipNext == SkipInv /\ [Next]_vars => SkipInv'
  <1> SUFFICES ASSUME SkipInv, [Next]_vars, IndexCovers, updates' = 0
               PROVE  Progress' /\ Bounded'
    BY TypeNext DEF SkipInv, IndexCovers
  <1>1. updates = 0
    BY UpdatesCount DEF SkipInv, TypeInv
  <1> QED BY <1>1, ProgressNext, BoundedNext DEF SkipInv

(* Whatever height a stream was started at, on any chain and with any      *)
(* number of cancelled, failing and crashing runs: it loses at most the    *)
(* block in hand with every cut, of those from the registered version on;  *)
(* and one that was never cut loses nothing.                               *)
THEOREM LosesOnePerCut == Spec => []SkipsOnePerCut
  <1>1. SkipInv => SkipsOnePerCut
    <2> SUFFICES ASSUME SkipInv, Progress, Bounded, pc # "none"
                 PROVE  /\ Cardinality({h \in Skipped : h >= RegistryVersion})
                             <= stops + errors
                        /\ Skipped # {} => stops + errors > 0
      BY DEF SkipInv, SkipsOnePerCut
    <2>1. origin # NoBlock
      BY DEF Progress
    <2>2. {h \in Skipped : h >= RegistryVersion} = LostBelow(from)
      BY Bounds, BlockStreamAssumption DEF Skipped, LostBelow, Heights
    <2>3. stops + errors \in Nat
      BY Counts DEF SkipInv, TypeInv
    <2>4. CASE stops + errors = 0
      <3>1. from = origin /\ origin \in Int
        BY <2>1, <2>4, Bounds DEF Bounded, SkipInv, TypeInv, TypeOK, Heights
      <3>2. \A h \in Matching : h \in Int
        BY BlockStreamAssumption DEF Heights
      <3>3. Skipped = {}
        BY <3>1, <3>2 DEF Skipped
      <3> QED BY <2>2, <3>3 DEF Bounded
    <2>5. CASE stops + errors # 0
      BY <2>2, <2>3, <2>5 DEF Bounded
    <2> QED BY <2>4, <2>5
  <1> QED BY <1>1, SkipInit, SkipNext, PTL DEF Spec

-----------------------------------------------------------------------------
(***************************************************************************)
(* The order of delivery.  Follow(b): no block that may yet be delivered   *)
(* from b on lies behind one that was given to the Runner already.  While  *)
(* a task runs it follows its block in hand; when it is gone, the cursor.  *)
(***************************************************************************)
Deliverable ==
  Matching \cup (IF UsesBitmap THEN {h \in Touching : h <= Indexed} ELSE {})
Given == {queue[i] : i \in DOMAIN queue} \cup {taken}
Follow(b) == \A h \in Deliverable : b <= h => \A g \in Given : g <= h

Sorted ==
  /\ \A i \in DOMAIN queue : queue[i] >= taken
  /\ \A i, j \in DOMAIN queue : i < j => queue[i] <= queue[j]

Ordered ==
  /\ Sorted
  /\ origin # NoBlock => Follow(ResumesFrom)
  /\ InBitmap /\ pc = "next" => /\ Follow(last) /\ height < ResumesFrom
                                /\ last <= height + 1
  /\ InBitmap /\ pc # "next" =>
       /\ height \in Deliverable /\ Follow(height)
       /\ \A h \in Deliverable : ResumesFrom <= h => height <= h
  /\ InLake /\ pc = "next" => Follow(height + 1)
  /\ InLake /\ pc # "next" => Follow(height)
  /\ InLake /\ pc \in {"cache", "room", "add"} =>
       cursor = height /\ height \in Matching

(* What may be delivered are heights; what was given are heights or none.  *)
LEMMA DeliverableHeights ==
  ASSUME TypeOK
  PROVE  /\ \A h \in Deliverable : h \in Heights /\ h \in Int /\ h >= 1
         /\ \A g \in Given : g \in Int
         /\ Matching \subseteq Deliverable
  <1>1. \A h \in Deliverable : h \in Heights /\ h \in Int /\ h >= 1
    BY BlockStreamAssumption DEF Deliverable, Heights
  <1>2. \A i \in DOMAIN queue : queue[i] \in Int
    BY BlockStreamAssumption DEF TypeOK, Heights
  <1>3. taken \in Int
    BY BlockStreamAssumption, Bounds DEF TypeOK, Heights
  <1> QED BY <1>1, <1>2, <1>3 DEF Given, Deliverable

(* To follow from further on is easier.                                    *)
LEMMA FollowLater ==
  ASSUME TypeOK, NEW b \in Int, NEW c \in Int, b <= c, Follow(b)
  PROVE  Follow(c)
  BY DeliverableHeights DEF Follow

(* Adding a block that follows what was given keeps the order.             *)
LEMMA AddInOrder ==
  ASSUME TypeOK, Sorted, height \in Heights, Published, UNCHANGED taken,
         \A g \in Given : g <= height
  PROVE  Sorted' /\ Given' \subseteq Given \cup {height}
  <1>1. queue \in Seq(Heights) /\ queue' = Append(queue, height)
    BY DEF TypeOK, Published, Xadd
  <1>2. /\ DOMAIN queue = 1 .. Len(queue) /\ Len(queue) \in Nat
        /\ DOMAIN queue' = 1 .. Len(queue) + 1
        /\ \A i \in DOMAIN queue : queue'[i] = queue[i]
        /\ queue'[Len(queue) + 1] = height
    BY <1>1
  <1>3. Given' \subseteq Given \cup {height}
    <2>1. \A i \in DOMAIN queue' : i \in DOMAIN queue \/ queue'[i] = height
      BY <1>2
    <2> QED BY <1>2, <2>1 DEF Given
  <1>4. \A i \in DOMAIN queue : queue[i] <= height
    BY DEF Given
  <1>5. taken <= height
    BY DEF Given
  <1>6. \A i \in DOMAIN queue' : queue'[i] >= taken'
    <2> TAKE i \in DOMAIN queue'
    <2>1. CASE i \in DOMAIN queue
      BY <1>2, <2>1 DEF Sorted
    <2>2. CASE i = Len(queue) + 1
      BY <1>2, <1>5, <2>2, DeliverableHeights DEF Given, Heights
    <2> QED BY <1>2, <2>1, <2>2
  <1>7. ASSUME NEW i \in DOMAIN queue', NEW j \in DOMAIN queue', i < j
        PROVE  queue'[i] <= queue'[j]
    <2>1. i \in DOMAIN queue
      BY <1>2, <1>7
    <2>2. CASE j \in DOMAIN queue
      BY <1>2, <1>7, <2>1, <2>2 DEF Sorted
    <2>3. CASE j = Len(queue) + 1
      BY <1>2, <1>4, <2>1, <2>3
    <2> QED BY <1>2, <2>2, <2>3
  <1> QED BY <1>3, <1>6, <1>7 DEF Sorted

(* So does removing the first one.                                         *)
LEMMA ConsumeInOrder ==
  ASSUME TypeOK, Sorted, Consume
  PROVE  Sorted' /\ Given' \subseteq Given
  <1>1. /\ queue \in Seq(Heights) /\ queue # <<>>
        /\ taken' = Head(queue) /\ queue' = Tail(queue)
    BY DEF TypeOK, Consume
  <1>2. /\ DOMAIN queue = 1 .. Len(queue) /\ Len(queue) \in Nat /\ Len(queue) >= 1
        /\ DOMAIN queue' = 1 .. Len(queue) - 1
        /\ taken' = queue[1] /\ 1 \in DOMAIN queue
    BY <1>1
  <1>3. \A i \in DOMAIN queue' : i + 1 \in DOMAIN queue /\ queue'[i] = queue[i + 1]
    BY <1>1, <1>2
  <1>4. Given' \subseteq Given
    BY <1>2, <1>3 DEF Given
  <1>5. \A i \in DOMAIN queue' : queue'[i] >= taken'
    <2> TAKE i \in DOMAIN queue'
    <2>1. i + 1 \in DOMAIN queue /\ 1 < i + 1
      BY <1>2, <1>3
    <2>2. queue[1] <= queue[i + 1]
      BY <1>2, <2>1 DEF Sorted
    <2>3. queue[1] \in Int /\ queue[i + 1] \in Int
      BY <1>2, <2>1, DeliverableHeights DEF Given
    <2> QED BY <1>2, <1>3, <2>2, <2>3
  <1>6. ASSUME NEW i \in DOMAIN queue', NEW j \in DOMAIN queue', i < j
        PROVE  queue'[i] <= queue'[j]
    <2>1. /\ i + 1 \in DOMAIN queue /\ j + 1 \in DOMAIN queue /\ i + 1 < j + 1
      BY <1>2, <1>3, <1>6
    <2>2. queue[i + 1] <= queue[j + 1]
      BY <2>1 DEF Sorted
    <2> QED BY <1>3, <2>2
  <1> QED BY <1>4, <1>5, <1>6 DEF Sorted

(* Where the blocks in hand lie. *)
LEMMA Numbers ==
  ASSUME TypeInv
  PROVE  /\ height \in Int /\ last \in Int /\ from \in Int /\ cursor \in Int
         /\ ResumesFrom \in Int /\ RegistryVersion \in Int /\ NoBlock = -1
         /\ pc \in {"note", "cache", "room", "add"} => height \in Heights
         /\ Heights \subseteq Int
         /\ source = "bitmap" \/ source = "lake"
  <1>1. /\ height \in Int /\ last \in Int /\ from \in Int /\ cursor \in Int
        /\ RegistryVersion \in Int /\ NoBlock = -1 /\ Heights \subseteq Int
    BY Bounds DEF TypeInv, TypeOK, Heights
  <1>2. source = "bitmap" \/ source = "lake"
    BY DEF TypeInv, TypeOK
  <1> QED BY <1>1, <1>2 DEF ResumesFrom, TypeInv, InHand

(* A step that gives nothing follows what was followed.                    *)
LEMMA FollowKept ==
  ASSUME Given' \subseteq Given, NEW b, Follow(b)
  PROVE  \A h \in Deliverable : b <= h => \A g \in Given' : g <= h
  BY DEF Follow

(* What the block in hand may do to the order when it is handed over.      *)
LEMMA HandOver ==
  ASSUME TypeInv, Progress, Ordered, pc = "add", Published, UNCHANGED taken
  PROVE  /\ Sorted'
         /\ \A h \in Deliverable : ResumesFrom <= h => \A g \in Given' : g <= h
         /\ \A h \in Deliverable : height <= h => \A g \in Given' : g <= h
  <1>1. height \in Heights /\ Running
    BY Numbers DEF Running
  <1>2. Follow(height) /\ height \in Deliverable
    BY <1>1, Numbers, DeliverableHeights DEF Ordered, InBitmap, InLake, TypeInv
  <1>3. \A g \in Given : g <= height
    BY <1>1, <1>2, Numbers DEF Follow
  <1>4. Sorted' /\ Given' \subseteq Given \cup {height}
    BY <1>1, <1>3, AddInOrder DEF Ordered, TypeInv
  <1>5. \A h \in Deliverable : ResumesFrom <= h => height <= h
    <2>1. CASE InBitmap
      BY <2>1 DEF Ordered
    <2>2. CASE InLake
      <3>1. cursor = height /\ height # NoBlock
        BY <1>1, <2>2, Numbers DEF Ordered, Heights
      <3> QED BY <3>1, Numbers, DeliverableHeights DEF ResumesFrom, TypeInv
    <2> QED BY <1>1, <2>1, <2>2, Numbers DEF InBitmap, InLake
  <1>6. Follow(ResumesFrom)
    BY <1>1 DEF Ordered, Progress, Running
  <1> QED BY <1>2, <1>4, <1>5, <1>6 DEF Follow

(* The start of a run follows what the cursor promises.                    *)
LEMMA StartsInOrder ==
  ASSUME TypeInv, NEW h \in Heights \cup {Tip + 1}, StartFrom(h),
         Sorted', h <= ResumesFrom,
         \A d \in Deliverable : h <= d => \A g \in Given' : g <= d,
         \A d \in Deliverable : ResumesFrom <= d => \A g \in Given' : g <= d
  PROVE  Ordered'
  <1>1. /\ pc' = "next" /\ source' \in {"bitmap", "lake"} /\ from' = h
        /\ height' = h - 1 /\ last' = h /\ cursor' = cursor
    BY Starting
  <1>2. ResumesFrom' = ResumesFrom
    BY <1>1 DEF ResumesFrom
  <1>3. h \in Int /\ ResumesFrom \in Int
    BY Bounds, Numbers DEF Heights
  <1>4. Follow(ResumesFrom)'
    BY <1>2 DEF Follow
  <1>5. height' < ResumesFrom' /\ last' <= height' + 1 /\ height' + 1 = h
    BY <1>1, <1>2, <1>3
  <1>6. Follow(last)' /\ Follow(height + 1)'
    BY <1>1, <1>5 DEF Follow
  <1> QED BY <1>1, <1>4, <1>5, <1>6 DEF Ordered, InBitmap, InLake

(* A run that ends, whatever it still does, is followed by the cursor.     *)
LEMMA EndsInOrder ==
  ASSUME TypeInv, Progress, Ordered, pc # "none", ~Running', UNCHANGED taken, InFlight
  PROVE  Ordered'
  <1>1. origin # NoBlock
    BY DEF Progress
  <1>2. Follow(ResumesFrom)
    BY <1>1 DEF Ordered
  <1>3. CASE UNCHANGED <<cursor, queue, published>>
    <2>1. Sorted' /\ Given' = Given /\ ResumesFrom' = ResumesFrom
      BY <1>3 DEF Sorted, Given, ResumesFrom, Ordered
    <2> QED BY <1>2, <2>1 DEF Ordered, Follow, InBitmap, InLake
  <1>4. CASE pc = "note" /\ cursor' = height /\ UNCHANGED <<queue, published>>
    <2>1. Sorted' /\ Given' = Given
      BY <1>4 DEF Sorted, Given, Ordered
    <2>2. height \in Heights /\ Running /\ height # NoBlock
      BY <1>4, Numbers DEF Running, Heights
    <2>3. Follow(height) /\ ResumesFrom' = height + 1
      BY <1>4, <2>2, Numbers DEF Ordered, InBitmap, InLake, ResumesFrom
    <2>4. Follow(height + 1)
      BY <2>3, Numbers, FollowLater DEF TypeInv
    <2> QED BY <2>1, <2>3, <2>4 DEF Ordered, Follow, InBitmap, InLake
  <1>5. CASE pc = "add" /\ Published /\ UNCHANGED cursor
    <2>1. /\ Sorted' /\ ResumesFrom' = ResumesFrom
          /\ \A h \in Deliverable : ResumesFrom <= h => \A g \in Given' : g <= h
      BY <1>5, HandOver DEF ResumesFrom
    <2> QED BY <2>1 DEF Ordered, Follow, InBitmap, InLake
  <1> QED BY <1>3, <1>4, <1>5 DEF InFlight, SetLastProcessedBlock

(* The bitmaps yield in order. *)
LEMMA BitmapInOrder ==
  ASSUME TypeInv, Progress, Ordered, IndexCovers, NextFromBitmap
  PROVE  Ordered'
  <1>1. /\ pc = "next" /\ source = "bitmap" /\ pc' = "room" /\ source' = source
        /\ UNCHANGED <<queue, taken, cursor, origin, from>>
    BY DEF NextFromBitmap, Local, history
  <1>2. /\ Follow(last) /\ height < ResumesFrom /\ last <= height + 1
        /\ from <= height + 1 /\ UsesBitmap
        /\ origin # NoBlock => Follow(ResumesFrom)
    BY <1>1 DEF Ordered, Progress, InBitmap, Running
  <1>3. /\ height' \in Touching /\ height' > height /\ height' \in Int
        /\ \A h \in Matching : height < h /\ from <= h => height' <= h
    BY <1>2, BitmapAhead, Numbers, BlockStreamAssumption DEF Heights
  <1>4. /\ height' <= Indexed /\ \A g \in Ahead : height' <= g
    BY DEF NextFromBitmap, Ahead
  <1>5. height' \in Deliverable
    BY <1>2, <1>3, <1>4 DEF Deliverable
  <1>6. \A h \in Deliverable : ResumesFrom <= h => height' <= h
    <2> SUFFICES ASSUME NEW h \in Deliverable, ResumesFrom <= h PROVE height' <= h
      OBVIOUS
    <2>1. h \in Int /\ height < h /\ from <= h
      BY <1>2, Numbers, DeliverableHeights DEF TypeInv
    <2>2. h \in Matching \/ (h \in Touching /\ h <= Indexed)
      BY DEF Deliverable
    <2> QED BY <1>3, <1>4, <2>1, <2>2 DEF Ahead
  <1>7. Sorted' /\ Given' = Given /\ ResumesFrom' = ResumesFrom
    BY <1>1 DEF Sorted, Given, ResumesFrom, Ordered
  <1>8. Follow(height')
    BY <1>2, <1>3, Numbers, FollowLater DEF TypeInv
  <1>9. Follow(height)' /\ (origin # NoBlock => Follow(ResumesFrom)')
    BY <1>2, <1>7, <1>8 DEF Follow
  <1> QED BY <1>1, <1>5, <1>6, <1>7, <1>9
    DEF Ordered, InBitmap, InLake, Running

(* Ordered is kept by every step of a stream that was not updated and was  *)
(* not asked for ahead of the registry version.                            *)
LEMMA OrderedNext ==
  ASSUME TypeInv, Progress, origin <= RegistryVersion => Ordered, IndexCovers,
         [Next]_vars, updates' = 0, origin' <= RegistryVersion
  PROVE  Ordered'
  <1>1. ASSUME NEW h \in StartHeights \cup {RegistryVersion}, StartNew(h)
        PROVE  Ordered'
    <2>1. /\ origin = NoBlock /\ origin' = h /\ h \in Heights /\ StartFrom(h)
          /\ queue' = <<>> /\ taken' = NoBlock
      BY <1>1, FirstStart DEF TypeInv, StartNew
    <2>2. h <= ResumesFrom
      BY <2>1 DEF Progress, ResumesFrom
    <2>3. Given' = {NoBlock} /\ Sorted'
      BY <2>1 DEF Given, Sorted
    <2>4. \A d \in Deliverable : \A g \in Given' : g <= d
      BY <2>3, Numbers, DeliverableHeights DEF TypeInv
    <2> QED BY <2>1, <2>2, <2>3, <2>4, StartsInOrder
  <1>o. ASSUME \A h \in StartHeights \cup {RegistryVersion} : ~StartNew(h)
        PROVE  Ordered /\ UNCHANGED origin
    <2>1. UNCHANGED origin
      BY <1>o DEF Next, Task, Coordinator, vars, NextFromBitmap, BitmapEnds,
         NextFromLake, LakeEnds, Note, NoteFails, Cache, CacheFails, Room,
         RoomFails, Add, AddFails, Monitor, MonitorRead, MonitorSkips,
         MonitorJudges, Resume, Stop, Consume, Local, Fails, history
    <2> QED BY <2>1
  <1> SUFFICES ASSUME Ordered, UNCHANGED origin,
                      ~\E h \in StartHeights \cup {RegistryVersion} : StartNew(h)
               PROVE  Ordered'
    BY <1>1, <1>o
  <1>2. CASE UNCHANGED <<pc, source, from, height, last, cursor, queue, taken>>
    BY <1>2
    DEF Ordered, Sorted, Follow, Given, InBitmap, InLake, Running, ResumesFrom
  <1>3. CASE NextFromBitmap
    BY <1>3, BitmapInOrder
  <1>4. CASE BitmapEnds
    <2>1. /\ pc = "next" /\ source = "bitmap" /\ source' = "lake"
          /\ height' = last - 1 /\ UNCHANGED <<pc, queue, taken, cursor>>
      BY <1>4 DEF BitmapEnds, Local, history
    <2>2. Sorted' /\ Given' = Given /\ ResumesFrom' = ResumesFrom
      BY <2>1 DEF Sorted, Given, ResumesFrom, Ordered
    <2>3. Follow(last) /\ height' + 1 = last
      BY <2>1, Numbers DEF Ordered, InBitmap, Running
    <2> QED BY <2>1, <2>2, <2>3 DEF Ordered, Follow, InBitmap, InLake, Running
  <1>5. CASE NextFromLake
    <2>1. /\ pc = "next" /\ source = "lake" /\ pc' = "note"
          /\ height' > height /\ height' \in Heights
          /\ UNCHANGED <<source, queue, taken, cursor>>
      BY <1>5, BlockStreamAssumption
      DEF NextFromLake, ListCommonPrefixes, Local, history
    <2>2. Sorted' /\ Given' = Given /\ ResumesFrom' = ResumesFrom
      BY <2>1 DEF Sorted, Given, ResumesFrom, Ordered
    <2>3. Follow(height + 1) /\ height + 1 \in Int /\ height + 1 <= height'
          /\ height' \in Int
      BY <2>1, Numbers DEF Ordered, InLake, Running
    <2>4. Follow(height')
      BY <2>3, FollowLater DEF TypeInv
    <2> QED BY <2>1, <2>2, <2>4 DEF Ordered, Follow, InBitmap, InLake, Running
  <1>6. CASE Note
    <2>1. /\ pc = "note" /\ cursor' = height
          /\ UNCHANGED <<source, height, queue, taken>>
          /\ pc' = IF source = "lake" /\ height \in Matching THEN "cache" ELSE "next"
          /\ source = "bitmap" => last' = height
      BY <1>6 DEF Note, SetLastProcessedBlock, history
    <2>2. Sorted' /\ Given' = Given
      BY <2>1 DEF Sorted, Given, Ordered
    <2>3. height \in Int /\ height # NoBlock /\ Running
      BY <2>1, Numbers DEF Running, Heights
    <2>4. Follow(height)
      BY <2>1, <2>3, Numbers DEF Ordered, InBitmap, InLake
    <2>5. Follow(height + 1) /\ ResumesFrom' = height + 1
      BY <2>1, <2>3, <2>4, FollowLater DEF TypeInv, ResumesFrom
    <2>6. /\ height < height + 1 /\ height <= height + 1
      BY <2>3
    <2>7. CASE source = "bitmap"
      BY <2>1, <2>2, <2>4, <2>5, <2>6, <2>7
      DEF Ordered, Follow, InBitmap, InLake, Running
    <2>8. CASE source = "lake"
      BY <2>1, <2>2, <2>4, <2>5, <2>8
      DEF Ordered, Follow, InBitmap, InLake, Running
    <2> QED BY <2>7, <2>8, Numbers
  <1>7. CASE Cache \/ Room
    <2>1. /\ pc \in {"cache", "room"} /\ pc' \in {"room", "add"}
          /\ UNCHANGED <<source, from, height, last, cursor, queue, taken>>
      BY <1>7 DEF Cache, Room, Local, history
    <2>2. Sorted' /\ Given' = Given /\ ResumesFrom' = ResumesFrom
      BY <2>1 DEF Sorted, Given, ResumesFrom, Ordered
    <2> QED BY <2>1, <2>2 DEF Ordered, Follow, InBitmap, InLake, Running
  <1>8. CASE Add
    <2>1. /\ pc = "add" /\ Published /\ UNCHANGED <<source, height, cursor, taken>>
          /\ pc' = IF source = "bitmap" THEN "note" ELSE "next"
      BY <1>8 DEF Add
    <2>2. /\ Sorted' /\ ResumesFrom' = ResumesFrom
          /\ \A h \in Deliverable : ResumesFrom <= h => \A g \in Given' : g <= h
          /\ \A h \in Deliverable : height <= h => \A g \in Given' : g <= h
      BY <2>1, HandOver DEF ResumesFrom
    <2>3. Follow(ResumesFrom)' /\ Follow(height)'
      BY <2>1, <2>2 DEF Follow
    <2>4. CASE source = "bitmap"
      BY <2>1, <2>2, <2>3, <2>4 DEF Ordered, InBitmap, InLake, Running
    <2>5. CASE source = "lake"
      <3>1. \A h \in Deliverable : height + 1 <= h => height <= h
        BY Numbers, DeliverableHeights DEF TypeInv
      <3>2. Follow(height + 1)'
        BY <2>1, <2>2, <3>1 DEF Follow
      <3> QED BY <2>1, <2>2, <2>3, <2>5, <3>2 DEF Ordered, InBitmap, InLake, Running
    <2> QED BY <2>4, <2>5, Numbers
  <1>9. CASE LakeEnds \/ NoteFails \/ CacheFails \/ RoomFails \/ AddFails
    <2>1. pc # "none" /\ ~Running' /\ UNCHANGED taken /\ InFlight
      BY <1>9 DEF LakeEnds, NoteFails, CacheFails, RoomFails, AddFails, Fails,
         Running, InFlight
    <2> QED BY <2>1, EndsInOrder
  <1>10. CASE Stop
    <2>1. pc # "none" /\ ~Running' /\ UNCHANGED taken /\ InFlight
      BY <1>10 DEF Stop, Running
    <2> QED BY <2>1, EndsInOrder
  <1>11. CASE Resume
    <2>1. /\ origin # NoBlock /\ ResumesFrom \in Heights \cup {Tip + 1}
          /\ StartFrom(ResumesFrom) /\ UNCHANGED <<queue, taken>>
      BY <1>11, Resuming DEF TypeInv, history
    <2>2. Sorted' /\ Given' = Given /\ Follow(ResumesFrom)
      BY <2>1 DEF Sorted, Given, Ordered
    <2>3. \A d \in Deliverable : ResumesFrom <= d => \A g \in Given' : g <= d
      BY <2>2 DEF Follow
    <2>4. ResumesFrom <= ResumesFrom
      BY Numbers
    <2> HIDE DEF ResumesFrom
    <2> QED BY <2>1, <2>2, <2>3, <2>4, StartsInOrder
  <1>12. CASE Consume
    <2>1. UNCHANGED <<pc, source, from, height, last, cursor>>
      BY <1>12 DEF Consume, task
    <2>2. Sorted' /\ Given' \subseteq Given /\ ResumesFrom' = ResumesFrom
      BY <1>12, <2>1, ConsumeInOrder DEF TypeInv, ResumesFrom, Ordered
    <2> QED BY <2>1, <2>2 DEF Ordered, Follow, InBitmap, InLake, Running
  <1>13. CASE Monitor \/ UNCHANGED vars
    BY <1>2, <1>13
    DEF Monitor, MonitorRead, MonitorSkips, MonitorJudges, task, history, vars
  <1> QED
    BY <1>3, <1>4, <1>5, <1>6, <1>7, <1>8, <1>9, <1>10, <1>11, <1>12, <1>13
    DEF Next, Task, Coordinator

OrderInv ==
  /\ TypeInv
  /\ IndexCovers /\ updates = 0 =>
       Progress /\ (origin <= RegistryVersion => Ordered)

LEMMA OrderInit == Init => OrderInv
  <1> SUFFICES ASSUME Init PROVE Progress /\ Ordered
    BY TypeInit DEF OrderInv
  <1>1. /\ origin = NoBlock /\ pc = "none" /\ queue = <<>> /\ ~Running /\ Progress
    BY DEF Init, Progress, Running, InBitmap, InLake
  <1>2. Sorted
    BY <1>1 DEF Sorted
  <1> QED BY <1>1, <1>2 DEF Ordered, InBitmap, InLake

LEMMA OrderNext == OrderInv /\ [Next]_vars => OrderInv'
  <1> SUFFICES ASSUME OrderInv, [Next]_vars, IndexCovers, updates' = 0
               PROVE  Progress' /\ (origin' <= RegistryVersion => Ordered')
    BY TypeNext DEF OrderInv, IndexCovers
  <1>1. updates = 0
    BY UpdatesCount DEF OrderInv, TypeInv
  <1> QED BY <1>1, ProgressNext, OrderedNext DEF OrderInv

(* On any chain, with any limit and any number of cancelled, failing and   *)
(* crashing runs, the Redis stream holds blocks in the order of the chain  *)
(* and nothing behind what the Runner took.                                *)
THEOREM DeliversInOrder == Spec => []QueueInOrder
  <1>1. OrderInv => QueueInOrder
    <2>1. TypeOK => DOMAIN queue = 1 .. Len(queue)
      BY DEF TypeOK
    <2> QED BY <2>1 DEF OrderInv, TypeInv, QueueInOrder, Ordered, Sorted
  <1> QED BY <1>1, OrderInit, OrderNext, PTL DEF Spec
=============================================================================
