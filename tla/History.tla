------------------------------ MODULE History ------------------------------
(* The history of an Indexer: which blocks it is to have, by its rule, and *)
(* the walk of a stream through them.  What holds of the rules for all     *)
(* blocks is looked at once, before the chain begins.                      *)
EXTENDS Backfill, MatchingRules

(* No filter, cleaned or compiled to an expression, loses a block whose    *)
(* receiver it names.                                                      *)
HistoryHasReceived == tip = 0 => ReceivedIsInHistory

(* The two copies of the matching of events agree on every block. *)
ReportsMatches == tip = 0 => MatchesHavePayloads
=============================================================================
