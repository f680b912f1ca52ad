------------------------ MODULE BlockStreamerService ------------------------
(***************************************************************************)
(* The gRPC service of the Block Streamer and its map of block streams,    *)
(* for one Indexer.  Handlers run on several threads; a std Mutex guards   *)
(* each access to the map, but start_stream lets go of it between its look *)
(* and its insert.  A BlockStream that is overwritten or dropped is not    *)
(* cancelled: its tasks are detached and run on.  A stream is named after  *)
(* the request that started it.                                            *)
(***************************************************************************)
EXTENDS Naturals, FiniteSets

CONSTANTS
  MaxRequests,  \* requests the Coordinator sends
  MaxAbandoned  \* requests it gives up on, restarting before the answer

ASSUME ServiceAssumption == MaxRequests \in Nat /\ MaxAbandoned \in Nat

Requests == 1 .. MaxRequests
NoStream == 0

VARIABLES
  entry,      \* block_streams: the one entry, or NoStream
  tasks,      \* the stream tasks that run
  cancelled,  \* the streams whose token is cancelled
  pc,         \* per request: where its handler stands
  victim,     \* per request: the stream a stop removed
  abandoned   \* requests whose client is gone

vars == <<entry, tasks, cancelled, pc, victim, abandoned>>

Answers == {"started", "exists", "stopped", "notFound", "dropped"}
Steps == {"idle", "checked", "spawned", "removed", "joining"} \cup Answers
Answered(r) == pc[r] \in Answers
Goto(r, step) == pc' = [pc EXCEPT ![r] = step]

(* The Coordinator's manager sends one request after the other, unless it  *)
(* died in between.                                                        *)
Sends(r) ==
  /\ pc[r] = "idle"
  /\ \A q \in Requests : q < r => Answered(q) \/ q \in abandoned
  /\ \A q \in Requests : q > r => pc[q] = "idle"

Abandon(r) ==
  /\ pc[r] # "idle" /\ ~Answered(r)
  /\ r \notin abandoned
  /\ Cardinality(abandoned) < MaxAbandoned
  /\ abandoned' = abandoned \cup {r}
  /\ UNCHANGED <<entry, tasks, cancelled, pc, victim>>

-----------------------------------------------------------------------------
(***************************************************************************)
(* start_stream: look, let go of the lock, spawn the tasks, insert.        *)
(***************************************************************************)
StartChecks(r) ==
  /\ Sends(r)
  /\ Goto(r, IF entry # NoStream THEN "exists" ELSE "checked")
  /\ UNCHANGED <<entry, tasks, cancelled, victim, abandoned>>

StartSpawns(r) ==
  /\ pc[r] = "checked"
  /\ tasks' = tasks \cup {r}
  /\ Goto(r, "spawned")
  /\ UNCHANGED <<entry, cancelled, victim, abandoned>>

StartInserts(r) ==
  /\ pc[r] = "spawned"
  /\ entry' = r
  /\ Goto(r, "started")
  /\ UNCHANGED <<tasks, cancelled, victim, abandoned>>

(***************************************************************************)
(* stop_stream: remove under the lock, cancel the token, await the task.   *)
(***************************************************************************)
StopRemoves(r) ==
  /\ Sends(r)
  /\ victim' = [victim EXCEPT ![r] = entry]
  /\ entry' = NoStream
  /\ Goto(r, IF entry = NoStream THEN "notFound" ELSE "removed")
  /\ UNCHANGED <<tasks, cancelled, abandoned>>

(* Slip: the task is aborted but not awaited. *)
StopCancelsOnly(r) ==
  /\ pc[r] = "removed"
  /\ cancelled' = cancelled \cup {victim[r]}
  /\ Goto(r, "stopped")
  /\ UNCHANGED <<entry, tasks, victim, abandoned>>

(* Slip: the token is not cancelled. *)
StopWaits(r) ==
  /\ pc[r] = "removed"
  /\ Goto(r, "joining")
  /\ UNCHANGED <<entry, tasks, cancelled, victim, abandoned>>

StopCancels(r) ==
  /\ pc[r] = "removed"
  /\ cancelled' = cancelled \cup {victim[r]}
  /\ Goto(r, "joining")
  /\ UNCHANGED <<entry, tasks, victim, abandoned>>

StopJoins(r) ==
  /\ pc[r] = "joining"
  /\ victim[r] \notin tasks
  /\ Goto(r, "stopped")
  /\ UNCHANGED <<entry, tasks, cancelled, victim, abandoned>>

(* The only await of the handlers: with its client gone, the future of the *)
(* handler may be dropped here.                                            *)
StopDropped(r) ==
  /\ pc[r] = "joining"
  /\ r \in abandoned
  /\ Goto(r, "dropped")
  /\ UNCHANGED <<entry, tasks, cancelled, victim, abandoned>>

(* A task sees its token, or ends with an error of its own. *)
TaskObeys(s) ==
  /\ s \in tasks \cap cancelled
  /\ tasks' = tasks \ {s}
  /\ UNCHANGED <<entry, cancelled, pc, victim, abandoned>>

TaskEnds(s) ==
  /\ s \in tasks
  /\ tasks' = tasks \ {s}
  /\ UNCHANGED <<entry, cancelled, pc, victim, abandoned>>

(* get_stream and list_streams answer from the map alone. *)
ListStreams == {entry} \ {NoStream}

Handler(r) ==
  \/ StartSpawns(r) \/ StartInserts(r) \/ StopCancels(r) \/ StopJoins(r)

Init ==
  /\ entry = NoStream /\ tasks = {} /\ cancelled = {}
  /\ pc = [r \in Requests |-> "idle"]
  /\ victim = [r \in Requests |-> NoStream]
  /\ abandoned = {}

Next ==
  \E r \in Requests :
    \/ StartChecks(r) \/ StopRemoves(r) \/ Handler(r)
    \/ StopDropped(r) \/ Abandon(r) \/ TaskObeys(r) \/ TaskEnds(r)

Spec == Init /\ [][Next]_vars
FairSpec ==
  Spec /\ \A r \in Requests : WF_vars(Handler(r)) /\ WF_vars(TaskObeys(r))

-----------------------------------------------------------------------------
TypeOK ==
  /\ entry \in {NoStream} \cup Requests
  /\ tasks \subseteq Requests /\ cancelled \subseteq Requests
  /\ pc \in [Requests -> Steps]
  /\ victim \in [Requests -> {NoStream} \cup Requests]
  /\ abandoned \subseteq Requests

(* Somebody is on the way to insert or to cancel stream s. *)
Handled(s) ==
  \/ pc[s] = "spawned"
  \/ \E r \in Requests : pc[r] = "removed" /\ victim[r] = s

(* ListStreams: "Lists all current BlockStream processes".  No task runs   *)
(* on that the map does not know and nobody is about to end.  Not so when  *)
(* two starts pass the look at the map before either inserts.              *)
Known(s) == s \in ListStreams \/ s \in cancelled \/ Handled(s)
NoLeak == \A s \in tasks : Known(s)

(* That is the only way a task is lost: its entry was replaced by that of  *)
(* another start, one of the two from a Coordinator that died.  Stops that *)
(* overlap starts and each other, and are dropped, lose none.              *)
OnlyStartsLeak ==
  \A s \in tasks :
    Known(s) \/ (/\ pc[s] = "started"
                /\ \E r \in Requests \ {s} :
                     pc[r] = "started" /\ {r, s} \cap abandoned # {})

(* When StopStream has answered, the stream's task has written its last    *)
(* block: the Coordinator clears the Redis stream right after the answer.  *)
StopEndsTask ==
  \A r \in Requests : pc[r] = "stopped" => victim[r] \notin tasks

(* A stream of the map is one whose handler has answered, so two entries   *)
(* never stand for the same task and a removed stream does not come back.  *)
EntryIsStarted ==
  entry # NoStream => pc[entry] = "started" /\ entry \notin cancelled

(* What holds of map, tasks and handlers in every state: an answered stop  *)
(* has ended its task, an entry is a stream nobody has stopped, and a task *)
(* is lost only between two starts.                                        *)
StreamsInv == TypeOK /\ StopEndsTask /\ EntryIsStarted /\ OnlyStartsLeak

(* A handler waits for no task that does not end: each request is answered *)
(* although stop_stream waits without a time limit.                        *)
AlwaysAnswers ==
  \A r \in Requests : pc[r] # "idle" ~> Answered(r)
=============================================================================
