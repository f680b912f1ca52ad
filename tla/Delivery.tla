------------------------------- MODULE Delivery -------------------------------
(***************************************************************************)
(* What the Redis stream of an Indexer and its executor promise together,  *)
(* whatever either of them does in between: every message published is     *)
(* begun after the older ones have succeeded, leaves the stream once it    *)
(* has succeeded itself, and is not lost unless an update supersedes it,   *)
(* which the code of the update never gets to see.                         *)
(***************************************************************************)
EXTENDS Naturals

VARIABLES
  published,   \* how many messages were ever published; their ids count up
  waiting,     \* the messages of the stream
  superseded,  \* those an update cleared before they were deleted
  begun,       \* those an execution of which was begun
  succeeded,   \* those an execution of which succeeded
  version,     \* of the stream
  code         \* the version of the code that executes

vars == <<published, waiting, superseded, begun, succeeded, version, code>>

Messages == 1 .. published

Publish ==
  /\ published' = published + 1
  /\ waiting' = waiting \cup {published'}
  /\ UNCHANGED <<superseded, begun, succeeded, version, code>>

(* "Start from latest block and Start from block height supersede the      *)
(* existing process": the stream is cleared before its successor starts.   *)
Supersede ==
  /\ superseded' = superseded \cup waiting
  /\ waiting' = {}
  /\ version' = version + 1
  /\ UNCHANGED <<published, begun, succeeded, code>>

(* The executor is given the code of the stream. *)
Replace ==
  /\ code' = version
  /\ UNCHANGED <<published, waiting, superseded, begun, succeeded, version>>

(* In order, and superseded messages by superseded code only. *)
Begin(id) ==
  /\ id \in Messages
  /\ \A older \in 1 .. id - 1 : older \in succeeded \cup superseded
  /\ id \in superseded => code < version
  /\ begun' = begun \cup {id}
  /\ UNCHANGED <<published, waiting, superseded, succeeded, version, code>>

Succeed(id) ==
  /\ id \in begun
  /\ succeeded' = succeeded \cup {id}
  /\ UNCHANGED <<published, waiting, superseded, begun, version, code>>

Remove(id) ==
  /\ id \in succeeded
  /\ waiting' = waiting \ {id}
  /\ UNCHANGED <<published, superseded, begun, succeeded, version, code>>

Init ==
  /\ published = 0
  /\ waiting = {} /\ superseded = {}
  /\ begun = {} /\ succeeded = {}
  /\ version = 0 /\ code = 0

Next ==
  \/ Publish \/ Supersede \/ Replace
  \/ \E id \in Messages : Begin(id) \/ Succeed(id) \/ Remove(id)

Spec == Init /\ [][Next]_vars

(* Nothing is lost: what has left the stream was executed or superseded.   *)
NothingLost == Messages \subseteq waiting \cup succeeded \cup superseded
=============================================================================
