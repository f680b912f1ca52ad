---------------------------- MODULE BlockStream ----------------------------
(***************************************************************************)
(* One block stream of the Block Streamer: the task that fills the Redis   *)
(* stream from the bitmap index and then from NEAR Lake, the monitor that  *)
(* reports its health, and the Coordinator that starts, stops, resumes and *)
(* reconfigures it.  Every await of the task is a step of its own: it may  *)
(* be cancelled there, fail, or die with its process while a command that  *)
(* was already sent still takes effect.                                    *)
(***************************************************************************)
EXTENDS Integers, Sequences, FiniteSets

CONSTANTS
  Tip,              \* the highest block of the chain
  Blocks,           \* the heights that have a block
  Touching,         \* blocks with a receiver the filter names (the bitmaps)
  Matching,         \* blocks with an action the rule matches
  Indexed,          \* the bitmap index has reached this height
  UsesBitmap,       \* ActionAny without a '*' filter
  RegistryVersion,  \* the height an update was registered at
  StartHeights,     \* what a user may ask for with StartBlock::Height
  MaxStreamSize,    \* MAX_STREAM_SIZE
  MaxStops,         \* cancellations and crashes
  MaxErrors,        \* failing or lost calls
  MaxUpdates        \* updates that supersede the stream

Heights == 1 .. Tip

ASSUME BlockStreamAssumption ==
  /\ Tip \in Nat
  /\ Tip \in Blocks /\ Blocks \subseteq Heights
  /\ Matching \subseteq Blocks /\ Touching \subseteq Blocks
  /\ Indexed \in 0 .. Tip
  /\ UsesBitmap \in BOOLEAN
  /\ RegistryVersion \in Heights
  /\ StartHeights \subseteq Heights
  /\ MaxStreamSize \in Nat \ {0}
  /\ MaxStops \in Nat /\ MaxErrors \in Nat /\ MaxUpdates \in Nat

VARIABLES
  pc,         \* where the task stands; "none": no stream in the service
  source,     \* where it gets its blocks from
  from,       \* start_block_height of this run
  height,     \* the block in hand, or the last one handled
  last,       \* last_published_block_height of the bitmap phase
  cursor,     \* the last_published_block key, NoBlock when unset
  queue,      \* the Redis stream
  health,     \* what GetStream reports
  monitor,    \* the monitor: where it stands, the blocks it compares, and
              \* whether it has missed a round since it last judged
  origin,     \* the height the user asked for last
  published,  \* every block added since then
  taken,      \* the last block the Runner removed since then
  stops, errors, updates

vars == <<pc, source, from, height, last, cursor, queue, health, monitor,
          origin, published, taken, stops, errors, updates>>
task == <<pc, source, from, height, last>>
history == <<origin, published, taken>>
counters == <<stops, errors, updates>>

NoBlock == -1
Steps == {"none", "next", "note", "cache", "room", "add", "ended"}
HealthStates == {"Idle", "Running", "Waiting", "Stalled"}
NoMonitor == [pc |-> "none", last |-> NoBlock, new |-> NoBlock, stale |-> FALSE]
Error == errors < MaxErrors /\ errors' = errors + 1

(* A step of the task that touches neither Redis nor the monitor. *)
Local ==
  UNCHANGED <<from, cursor, queue, health, monitor, history, stops, updates>>

(* `?` in the task: it ends, its entry and its monitor stay. *)
Fails ==
  /\ Error
  /\ pc' = "ended"
  /\ UNCHANGED <<source, from, height, last, health, monitor, origin, taken,
                 stops, updates>>

-----------------------------------------------------------------------------
(* The commands of the Redis client. *)
SetLastProcessedBlock(h) == cursor' = h
GetLastProcessedBlock == cursor
(* The Coordinator's own client, which builds the same key by itself. *)
GetLastPublishedBlock == cursor
GetStreamLength == Len(queue)
Xadd(h) == queue' = Append(queue, h)

-----------------------------------------------------------------------------
(***************************************************************************)
(* Where the next block comes from.                                        *)
(***************************************************************************)
(* What stream_matching_block_heights has yet to yield. *)
Ahead == {h \in Touching : h <= Indexed /\ h >= from /\ h > height}

NextFromBitmap ==
  /\ pc = "next" /\ source = "bitmap"
  /\ \E h \in Ahead :
       /\ \A g \in Ahead : h <= g
       /\ height' = h
  /\ pc' = "room"
  /\ Local
  /\ UNCHANGED <<source, last, errors>>

(* Slip: Lake continues after the last published block. *)
BitmapEndsPastLast ==
  /\ pc = "next" /\ source = "bitmap"
  /\ \/ Ahead = {} /\ UNCHANGED errors
     \/ Error
  /\ source' = "lake"
  /\ height' = last
  /\ Local
  /\ UNCHANGED <<pc, last>>

(* The bitmaps are exhausted, or fetching them failed, which is logged.    *)
(* Lake starts at the last published block, which it delivers again.       *)
BitmapEnds ==
  /\ pc = "next" /\ source = "bitmap"
  /\ \/ Ahead = {} /\ UNCHANGED errors
     \/ Error
  /\ source' = "lake"
  /\ height' = last - 1
  /\ Local
  /\ UNCHANGED <<pc, last>>

(* What near-lake-framework finds behind a height; it asks until there is  *)
(* something.                                                              *)
ListCommonPrefixes(after) == {h \in Blocks : h > after}

NextFromLake ==
  /\ pc = "next" /\ source = "lake"
  /\ \E h \in ListCommonPrefixes(height) :
       /\ \A g \in ListCommonPrefixes(height) : h <= g
       /\ height' = h
  /\ pc' = "note"
  /\ Local
  /\ UNCHANGED <<source, last, errors>>

LakeEnds ==
  /\ pc = "next" /\ source = "lake"
  /\ Fails
  /\ UNCHANGED <<cursor, queue, published>>

(***************************************************************************)
(* set_last_processed_block: after the publication of a bitmap block, but  *)
(* before the publication of a Lake block.                                 *)
(***************************************************************************)
Note ==
  /\ pc = "note"
  /\ SetLastProcessedBlock(height)
  /\ pc' = IF source = "lake" /\ height \in Matching THEN "cache" ELSE "next"
  /\ last' = IF source = "bitmap" THEN height ELSE last
  /\ UNCHANGED <<source, from, height, queue, health, monitor, history,
                 counters>>

NoteFails ==
  /\ pc = "note"
  /\ Fails
  /\ UNCHANGED cursor \/ SetLastProcessedBlock(height)
  /\ UNCHANGED <<queue, published>>

(* The message is cached if the stream is short; a failing XLEN is ignored.*)
Cache ==
  /\ pc = "cache"
  /\ pc' = "room"
  /\ UNCHANGED errors \/ Error
  /\ Local
  /\ UNCHANGED <<source, height, last>>

CacheFails ==
  /\ pc = "cache"
  /\ GetStreamLength <= MaxStreamSize
  /\ Fails
  /\ UNCHANGED <<cursor, queue, published>>

(***************************************************************************)
(* publish_block: poll until the stream has room, then XADD.               *)
(***************************************************************************)
(* Slip: one block too many. *)
RoomOffByOne ==
  /\ pc = "room"
  /\ GetStreamLength <= MaxStreamSize
  /\ pc' = "add"
  /\ Local
  /\ UNCHANGED <<source, height, last, errors>>

Room ==
  /\ pc = "room"
  /\ GetStreamLength < MaxStreamSize
  /\ pc' = "add"
  /\ Local
  /\ UNCHANGED <<source, height, last, errors>>

RoomFails ==
  /\ pc = "room"
  /\ Fails
  /\ UNCHANGED <<cursor, queue, published>>

Published ==
  /\ Xadd(height)
  /\ published' = published \cup {height}

Add ==
  /\ pc = "add"
  /\ Published
  /\ pc' = IF source = "bitmap" THEN "note" ELSE "next"
  /\ UNCHANGED <<source, from, height, last, cursor, health, monitor, origin,
                 taken, counters>>

AddFails ==
  /\ pc = "add"
  /\ Fails
  /\ Published \/ UNCHANGED <<queue, published>>
  /\ UNCHANGED cursor

Task ==
  \/ NextFromBitmap \/ BitmapEnds \/ NextFromLake \/ LakeEnds
  \/ Note \/ NoteFails \/ Cache \/ CacheFails
  \/ Room \/ RoomFails \/ Add \/ AddFails

-----------------------------------------------------------------------------
(***************************************************************************)
(* start_health_monitoring_task: every two minutes read the cursor, then   *)
(* the length of the stream, and judge.  A failing read skips a round, and *)
(* what was judged before is then too old (180 s) until the next one.      *)
(***************************************************************************)
MonitorRead ==
  /\ monitor.pc = "asleep"
  /\ monitor' = [monitor EXCEPT !.pc = "judge", !.new = GetLastProcessedBlock]
  /\ UNCHANGED <<task, cursor, queue, health, history, counters>>

MonitorSkips ==
  /\ monitor.pc # "none"
  /\ Error
  /\ monitor' = [monitor EXCEPT !.pc = "asleep", !.stale = TRUE]
  /\ UNCHANGED <<task, cursor, queue, health, history, stops, updates>>

(* Slip: a stream that made no progress keeps its last state. *)
JudgedKeepingState ==
  IF monitor.new > monitor.last THEN "Running"
  ELSE IF monitor.new < monitor.last THEN "Stalled"
  ELSE IF GetStreamLength >= MaxStreamSize THEN "Waiting"
  ELSE health

Judged ==
  IF monitor.new > monitor.last THEN "Running"
  ELSE IF monitor.new < monitor.last THEN "Stalled"
  ELSE IF GetStreamLength >= MaxStreamSize THEN "Waiting"
  ELSE "Stalled"

MonitorJudges ==
  /\ monitor.pc = "judge"
  /\ health' = Judged
  /\ monitor' = [monitor EXCEPT !.pc = "asleep", !.last = monitor.new,
                                !.stale = FALSE]
  /\ UNCHANGED <<task, cursor, queue, history, counters>>

Monitor == MonitorRead \/ MonitorSkips \/ MonitorJudges

-----------------------------------------------------------------------------
(***************************************************************************)
(* The Coordinator.                                                        *)
(***************************************************************************)
StartFrom(h) ==
  /\ pc = "none"
  /\ pc' = "next"
  /\ source' = IF UsesBitmap THEN "bitmap" ELSE "lake"
  /\ from' = h
  /\ height' = h - 1
  /\ last' = h
  /\ health' = "Idle"
  /\ monitor' = [NoMonitor EXCEPT !.pc = "asleep", !.last = h - 1]
  /\ UNCHANGED cursor

(* Slip: the cursor is ignored. *)
ResumeAtRegistration ==
  /\ origin # NoBlock
  /\ StartFrom(RegistryVersion)
  /\ UNCHANGED <<queue, history, counters>>

(* resume, restart and reconfigure with Continue. *)
Resume ==
  /\ origin # NoBlock
  /\ StartFrom(IF GetLastPublishedBlock = NoBlock THEN RegistryVersion
               ELSE GetLastPublishedBlock + 1)
  /\ UNCHANGED <<queue, history, counters>>

(* start_new_block_stream, or reconfigure with Height or Latest, which     *)
(* clears the Redis stream but not the cursor.                             *)
StartNew(h) ==
  /\ \/ origin = NoBlock /\ UNCHANGED updates
     \/ origin # NoBlock /\ updates < MaxUpdates /\ updates' = updates + 1
  /\ StartFrom(h)
  /\ queue' = <<>>
  /\ origin' = h
  /\ published' = {}
  /\ taken' = NoBlock
  /\ UNCHANGED <<stops, errors>>

(* What a command already sent does although its caller is gone. *)
InFlight ==
  \/ UNCHANGED <<cursor, queue, published>>
  \/ pc = "note" /\ SetLastProcessedBlock(height) /\ UNCHANGED <<queue, published>>
  \/ pc = "add" /\ Published /\ UNCHANGED cursor

(* stop_stream cancels task and monitor; a crash takes both down.  Ending  *)
(* a task that failed is not counted.                                      *)
Stop ==
  /\ pc # "none"
  /\ IF pc = "ended" THEN UNCHANGED stops
     ELSE stops < MaxStops /\ stops' = stops + 1
  /\ pc' = "none"
  /\ InFlight
  /\ health' = "Idle"
  /\ monitor' = NoMonitor
  /\ UNCHANGED <<source, from, height, last, origin, taken, errors, updates>>

(* The health of StreamInfo, and what the Coordinator makes of it: a       *)
(* stream that is stalled, or was not judged lately, is restarted.         *)
Health == [processingState |-> health, stale |-> monitor.stale]
IsHealthy == ~Health.stale /\ Health.processingState # "Stalled"

Restart == ~IsHealthy /\ Stop

Coordinator ==
  \/ \E h \in StartHeights \cup {RegistryVersion} : StartNew(h)
  \/ Resume \/ Stop

(* The Runner removes a block it has executed. *)
Consume ==
  /\ queue # <<>>
  /\ taken' = Head(queue)
  /\ queue' = Tail(queue)
  /\ UNCHANGED <<task, cursor, health, monitor, origin, published, counters>>

-----------------------------------------------------------------------------
Init ==
  /\ pc = "none" /\ source = "lake"
  /\ from = 1 /\ height = 0 /\ last = 1
  /\ cursor = NoBlock
  /\ queue = <<>>
  /\ health = "Idle" /\ monitor = NoMonitor
  /\ origin = NoBlock /\ published = {} /\ taken = NoBlock
  /\ stops = 0 /\ errors = 0 /\ updates = 0

Next == Task \/ Monitor \/ Coordinator \/ Consume

Spec == Init /\ [][Next]_vars

(* Tokio polls the task and its monitor; the lifecycle manager restarts a  *)
(* stalled stream and resumes one that is gone; the Runner keeps up.       *)
FairSpec ==
  /\ Spec
  /\ WF_vars(Task) /\ WF_vars(Monitor)
  /\ WF_vars(Restart) /\ WF_vars(Resume)
  /\ WF_vars(Consume)

-----------------------------------------------------------------------------
TypeOK ==
  /\ pc \in Steps /\ source \in {"bitmap", "lake"}
  /\ from \in 1 .. Tip + 1 /\ height \in 0 .. Tip /\ last \in 1 .. Tip + 1
  /\ cursor \in Heights \cup {NoBlock}
  /\ queue \in Seq(Heights)
  /\ health \in HealthStates
  /\ monitor \in [pc : {"none", "asleep", "judge"},
                  last : NoBlock .. Tip, new : NoBlock .. Tip, stale : BOOLEAN]
  /\ origin \in Heights \cup {NoBlock} /\ taken \in Heights \cup {NoBlock}
  /\ published \subseteq Heights
  /\ stops \in 0 .. MaxStops /\ errors \in 0 .. MaxErrors
  /\ updates \in 0 .. MaxUpdates

(* publish_block checks the length and adds in two calls, and yet no       *)
(* cancellation, error or restart in between lets the stream outgrow its   *)
(* limit.                                                                  *)
QueueBounded == Len(queue) <= MaxStreamSize

(* As far as it has got, the index lists every matching block.  Where it   *)
(* does not (MatchingRules says when) the two phases deliver different     *)
(* blocks, and neither order nor completeness can be expected.             *)
IndexCovers ==
  UsesBitmap => \A h \in Matching : h <= Indexed => h \in Touching

(* Until an update supersedes the stream, and unless the height asked for  *)
(* lies ahead of the registry version a cut may fall back to, the Runner   *)
(* is handed blocks in the order of the chain: duplicates at the seam of   *)
(* the two phases or after a restart follow one another.                   *)
QueueInOrder ==
  IndexCovers /\ updates = 0 /\ origin <= RegistryVersion =>
  /\ \A i \in 1 .. Len(queue) : queue[i] >= taken
  /\ \A i, j \in 1 .. Len(queue) : i < j => queue[i] <= queue[j]

(* "Last processed block should not decrease" (the monitor's error).  It   *)
(* does not until an update supersedes the stream: not at the seam of the  *)
(* two phases, by a resume, or by a write that outlives its task.          *)
CursorNeverDecreases == [][updates' = 0 => cursor' >= cursor]_vars

(* What the running stream will never deliver, being past it.              *)
Skipped == {h \in Matching : origin <= h /\ h < from} \ published

(* StartBlock::Continue: "Resumes indexing from the block immediately      *)
(* following the last one successfully indexed".                           *)
SkipsNothing == pc # "none" => Skipped = {}

(* Weaker, what the order of set_last_processed_block and publish_block    *)
(* leaves of a first stream: whatever height it was asked for, the ones    *)
(* from the registered version on lose at most the block in hand with      *)
(* every interruption.  The ones before it may all be lost: a cut before   *)
(* the first write of the cursor resumes at the version.  After an update  *)
(* the cursor of the old stream does the like to any height.               *)
SkipsOnePerCut ==
  IndexCovers /\ pc # "none" /\ updates = 0 =>
    /\ Cardinality({h \in Skipped : h >= RegistryVersion}) <= stops + errors
    /\ Skipped \cap 1 .. RegistryVersion - 1 # {} => stops + errors > 0

(* After finitely many stops and errors the stream has processed every     *)
(* block up to the tip, past back-pressure and restarts.                   *)
ReachesTip == origin # NoBlock ~> cursor = Tip
=============================================================================
