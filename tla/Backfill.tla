------------------------------ MODULE Backfill ------------------------------
(***************************************************************************)
(* What the backfill of a block stream rests on: the chain grows, the core *)
(* Indexer follows it and executes blocks again when it is restarted, and  *)
(* the stream asks for what was executed, day by day, held back between    *)
(* two heights for as long as its Redis stream is full.  How the index     *)
(* remembers what was executed is left to ReceiverBlocks, which implements *)
(* this.                                                                   *)
(***************************************************************************)
EXTENDS Integers, SequencesExt

CONSTANTS
  Receivers,      \* the accounts of the stream's filter
  Tip,            \* the last height of the chain
  Day,            \* the day of each height
  Missing,        \* heights without a block
  IndexedFrom,    \* where the core Indexer starts
  RestartsFrom,   \* heights it may be restarted from
  MaxRestarts,
  MaxLag,         \* how far it is behind the chain
  StartHeights,   \* where the stream may start
  StreamsFrom,    \* the height of the chain when it does
  MaxRetries      \* MAX_S3_RETRY_COUNT

Heights == 1 .. Tip

ASSUME BackfillAssumption ==
  /\ IsFiniteSet(Receivers)
  /\ {Tip, MaxLag, MaxRetries} \subseteq Nat \ {0}
  /\ Day \in [Heights -> Nat]
  /\ \A g, h \in Heights : g <= h => Day[g] <= Day[h]
  /\ IndexedFrom \in Heights /\ MaxRestarts \in Nat
  /\ RestartsFrom \cup StartHeights \cup Missing \subseteq Heights
  /\ StreamsFrom \in Nat

VARIABLES
  tip, touched,      \* the chain, and who is touched where in it
  indexed, executed, \* the last height the core Indexer is through, all it did
  restarts,
  stream             \* stream_matching_block_heights

backfillVars == <<tip, touched, indexed, executed, restarts, stream>>

Exists(h) == h <= tip /\ h \notin Missing
Touched(h) == \E r \in Receivers : <<r, h>> \in touched

-----------------------------------------------------------------------------
(* A block, or a height that is passed over; the clock moves with it. *)
Produce ==
  /\ tip < Tip /\ tip - indexed < MaxLag
  /\ tip' = tip + 1
  /\ \E receivers \in SUBSET Receivers :
       /\ tip + 1 \in Missing => receivers = {}
       /\ touched' = touched \cup receivers \X {tip + 1}
  /\ UNCHANGED <<indexed, executed, restarts, stream>>

(* The core Indexer executes the next block. *)
ExecuteNext ==
  /\ indexed < tip
  /\ indexed' = indexed + 1
  /\ executed' = executed \cup {indexed + 1}
  /\ UNCHANGED <<tip, touched, restarts, stream>>

(* It is started again, or a message it did not delete is delivered again. *)
Restart ==
  /\ restarts < MaxRestarts /\ restarts' = restarts + 1
  /\ \E h \in RestartsFrom : h <= indexed /\ indexed' = h - 1
  /\ UNCHANGED <<tip, touched, executed, stream>>

-----------------------------------------------------------------------------
NotStarted ==
  [pc |-> "none", start |-> 0, probe |-> 0, tries |-> 0, day |-> 0,
   todo |-> {}, yielded |-> <<>>]

StartStream ==
  /\ stream.pc = "none" /\ tip >= StreamsFrom
  /\ \E h \in StartHeights :
       /\ h <= tip
       /\ stream' = [stream EXCEPT !.pc = "probe", !.start = h, !.probe = h,
                                   !.tries = 1]
  /\ UNCHANGED <<tip, touched, indexed, executed, restarts>>

(* get_nearest_block_date: the date of the first block from there on. *)
Probe ==
  /\ stream.pc = "probe"
  /\ stream' =
       IF Exists(stream.probe)
       THEN [stream EXCEPT !.pc = "query", !.day = Day[stream.probe]]
       ELSE IF stream.tries + 1 > MaxRetries
       THEN [stream EXCEPT !.pc = "ended"]
       ELSE [stream EXCEPT !.probe = @ + 1, !.tries = @ + 1]
  /\ UNCHANGED <<tip, touched, indexed, executed, restarts>>

Wanted(listed) == {h \in listed : h >= stream.start}

(* One request per day, up to the present one, for the heights it lists. *)
ReadDay(listed) ==
  /\ stream.pc = "query" /\ stream.todo = {}
  /\ stream' = IF stream.day > Day[tip]
               THEN [stream EXCEPT !.pc = "ended"]
               ELSE [stream EXCEPT !.day = @ + 1, !.todo = Wanted(listed)]
  /\ UNCHANGED <<tip, touched, indexed, executed, restarts>>

(* A request to S3 or Hasura that fails ends the stream;                   *)
(* process_bitmap_indexer_blocks goes on with Lake.                        *)
RequestFails ==
  /\ stream.pc \in {"probe", "query"} /\ stream.todo = {}
  /\ stream' = [stream EXCEPT !.pc = "ended"]
  /\ UNCHANGED <<tip, touched, indexed, executed, restarts>>

(* The height is published before the stream is asked for another one. *)
Yield ==
  /\ stream.pc = "query" /\ stream.todo # {}
  /\ LET h == Min(stream.todo) IN
     stream' = [stream EXCEPT !.todo = @ \ {h}, !.yielded = Append(@, h)]
  /\ UNCHANGED <<tip, touched, indexed, executed, restarts>>

(* What the index should list: what was executed and touches an account.   *)
Listed(day) == {h \in executed : Day[h] = day /\ Touched(h)}

BackfillInit ==
  /\ tip = 0 /\ touched = {}
  /\ indexed = IndexedFrom - 1 /\ executed = {}
  /\ restarts = 0
  /\ stream = NotStarted

BackfillNext ==
  \/ Produce \/ ExecuteNext \/ Restart
  \/ StartStream \/ Probe \/ ReadDay(Listed(stream.day)) \/ RequestFails
  \/ Yield

BackfillSpec == BackfillInit /\ [][BackfillNext]_backfillVars

-----------------------------------------------------------------------------
BackfillTypeOK ==
  /\ tip \in 0 .. Tip /\ touched \subseteq Receivers \X (1 .. tip)
  /\ indexed \in 0 .. Tip /\ executed \subseteq 1 .. tip
  /\ restarts \in 0 .. MaxRestarts
  /\ stream \in [pc : {"none", "probe", "query", "ended"},
                 start : StartHeights \cup {0}, probe : Nat,
                 tries : 0 .. MaxRetries, day : Nat,
                 todo : SUBSET (1 .. tip), yielded : Seq(1 .. tip)]

(* The stream yields heights that touch its accounts, from its start on,   *)
(* in the order of the chain across accounts and days.                     *)
YieldsInOrder ==
  \A k \in DOMAIN stream.yielded :
    LET h == stream.yielded[k] IN
    /\ h >= stream.start /\ Touched(h)
    /\ k > 1 => stream.yielded[k - 1] < h

(* The index begins no later than the stream, and midnight does not pass   *)
(* once it has started: the last day has begun, and the core Indexer is    *)
(* through all the others.                                                 *)
ReadsInTime ==
  /\ \A h \in StartHeights : IndexedFrom <= h
  /\ \A h \in Heights : h > StreamsFrom - MaxLag => Day[h] = Day[Tip]

(* Lake goes on from the last height yielded: all before it were yielded,  *)
(* although blocks are executed again and days are read while they grow.   *)
BackfillSkipsNothing ==
  LET yielded == Range(stream.yielded) IN
  ReadsInTime =>
    \A h \in stream.start .. tip :
      Touched(h) /\ (\E g \in yielded : h < g) => h \in yielded

(* What the stream has yielded touches an account, comes in order, and     *)
(* leaves out nothing before its last height.                              *)
BackfillInv == BackfillTypeOK /\ YieldsInOrder /\ BackfillSkipsNothing
=============================================================================
