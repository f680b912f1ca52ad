---------------------------- MODULE MatchingRules ----------------------------
(***************************************************************************)
(* Three programs decide whether a block concerns an Indexer: the rules of *)
(* the Block Streamer, which judge a block of NEAR Lake; the receivers the *)
(* core Indexer indexes; and the pattern a block stream asks the index     *)
(* with.  They are compared on what each makes of the same receipts.       *)
(*                                                                         *)
(* An account is the sequence of its labels, <<"pool", "near">>; no label  *)
(* of an instance contains another.                                        *)
(***************************************************************************)
EXTENDS Naturals, SequencesExt, FiniteSetsExt

CONSTANTS
  Accounts,      \* receivers and predecessors of receipts
  PlainLabels,   \* of letters and digits only
  MaxElements,   \* accounts and wildcards in a filter
  Names,         \* of functions, and of events, their standards and versions
  MaxLogs        \* log lines of a receipt

Labels == UNION {Range(a) : a \in Accounts}

ASSUME MatchingRulesAssumption ==
  /\ Accounts \subseteq Seq(Labels) \ {<<>>}
  /\ MaxElements \in Nat /\ MaxLogs \in Nat
  /\ "*" \notin Names

(* An element of a comma-separated filter: an account, "*.account", "*".   *)
Exact(a) == [wildcard |-> FALSE, account |-> a]
Under(a) == [wildcard |-> TRUE, account |-> a]
All == Under(<<>>)

Elements == {Exact(a) : a \in Accounts} \cup {Under(a) : a \in Accounts}
            \cup {All}
Filters ==
  UNION {kSubset(n, Elements) : n \in 1 .. MaxElements}

(* The rules over the given filters. *)
Patterns == Names \cup {"*"}
Statuses == {"Any", "Success", "Fail"}
ActionAny(filters) ==
  [kind : {"ActionAny"}, filter : filters, status : Statuses]
ActionFunctionCall(filters) ==
  [kind : {"ActionFunctionCall"}, filter : filters, status : Statuses,
   function : Patterns]
EventRule(filters) ==
  [kind : {"Event"}, filter : filters, event : Patterns,
   standard : Patterns, version : Patterns]

(* A log line is an event if it has the prefix and its JSON all the fields.*)
Events == [event : Names, standard : Names, version : Names]
OtherLog == [text |-> TRUE]
FromLog(log) == {log} \ {OtherLog}
Logs == BoundedSeq(Events \cup {OtherLog}, MaxLogs)

(* What a receipt did: functions called, statuses, log lines. *)
Outcomes(called, logs) ==
  [receiver : Accounts, predecessor : Accounts, succeeded : BOOLEAN,
   called : called, logs : logs]

-----------------------------------------------------------------------------
(* The rules.                                                              *)

(* wildmatch over the whole name: "*.near" is not "near". *)
WildMatches(element, account) ==
  IF ~element.wildcard THEN account = element.account
  ELSE element = All \/ IsStrictSuffix(element.account, account)

NameMatches(pattern, name) == pattern \in {"*", name}

MatchAccount(filter, outcome) ==
  \E element \in filter :
    \/ WildMatches(element, outcome.receiver)
    \/ WildMatches(element, outcome.predecessor)

MatchStatus(status, outcome) ==
  \/ status = "Any"
  \/ status = "Success" /\ outcome.succeeded
  \/ status = "Fail" /\ ~outcome.succeeded

(* Slip: the version is not looked at. *)
MatchEventAnyVersion(rule, outcome) ==
  \E i \in DOMAIN outcome.logs : \E e \in FromLog(outcome.logs[i]) :
    /\ NameMatches(rule.event, e.event)
    /\ NameMatches(rule.standard, e.standard)

MatchEvent(rule, outcome) ==
  \E i \in DOMAIN outcome.logs : \E e \in FromLog(outcome.logs[i]) :
    /\ NameMatches(rule.event, e.event)
    /\ NameMatches(rule.standard, e.standard)
    /\ NameMatches(rule.version, e.version)

Matches(rule, outcome) ==
  /\ MatchAccount(rule.filter, outcome)
  /\ rule.kind # "Event" => MatchStatus(rule.status, outcome)
  /\ rule.kind = "ActionFunctionCall" =>
       \E name \in outcome.called : NameMatches(rule.function, name)
  /\ rule.kind = "Event" => MatchEvent(rule, outcome)

(* The logs with an event that fits, written out a second time in          *)
(* build_indexer_rule_match_payload, which expects there to be a first.    *)
FittingEvents(rule, outcome) ==
  {i \in DOMAIN outcome.logs : \E e \in FromLog(outcome.logs[i]) :
     /\ NameMatches(rule.event, e.event)
     /\ NameMatches(rule.standard, e.standard)
     /\ NameMatches(rule.version, e.version)}

Panics == [panics |-> TRUE]
Payload(rule, outcome) ==
  IF rule.kind # "Event" THEN [receipt |-> outcome]
  ELSE IF FittingEvents(rule, outcome) = {} THEN Panics
  ELSE [receipt |-> outcome,
        event |-> outcome.logs[Min(FittingEvents(rule, outcome))]]

(* reduce_indexer_rule_matches: the first match of every shard that has    *)
(* one.  A block is the sequence of its shards, a shard of its receipts.   *)
Matching(rule, shard) == {k \in DOMAIN shard : Matches(rule, shard[k])}
IndexerRuleMatches(rule, block) ==
  [i \in {i \in DOMAIN block : Matching(rule, block[i]) # {}} |->
     Payload(rule, block[i][Min(Matching(rule, block[i]))])]

(* What a stream that reads NEAR Lake publishes. *)
InLake(rule, block) == DOMAIN IndexerRuleMatches(rule, block) # {}

-----------------------------------------------------------------------------
(* The index.                                                              *)

Root(account) == <<Last(account)>>

(* Slip: a root account is indexed only for receipts of its own. *)
ReceiversOnly(outcomes) == {o.receiver : o \in outcomes}

AllReceivers(outcomes) ==
  UNION {{o.receiver, Root(o.receiver)} : o \in outcomes}

(* strip_wildcard_if_root_account. *)
Stripped(element) ==
  IF /\ element.wildcard /\ Len(element.account) = 1
     /\ element.account[1] \in PlainLabels
  THEN Exact(element.account) ELSE element

Cleaned(filter) == {Stripped(element) : element \in filter}

(* The elements as one regular expression: "_regex" of Hasura searches for *)
(* it anywhere in the name.                                                *)
Found(element, receiver) ==
  IF element.wildcard THEN element.account \in SubSeqs(Tail(receiver))
  ELSE element.account \in SubSeqs(receiver)

(* The queries of GraphQLClient: _regex and _in. *)
GetBitmapsWildcard(elements, receivers) ==
  {r \in receivers : \E element \in elements : Found(element, r)}
GetBitmapsExact(elements, receivers) ==
  {r \in receivers : \E element \in elements : r = element.account}

(* query_base_64_bitmaps *)
Selected(filter, block) ==
  LET elements == Cleaned(filter)
      receivers == AllReceivers(UNION {Range(block[i]) : i \in DOMAIN block})
  IN IF \E element \in elements : element.wildcard
     THEN GetBitmapsWildcard(elements, receivers)
     ELSE GetBitmapsExact(elements, receivers)

(* process_bitmap_indexer_blocks asks the index only then. *)
UsesBitmap(rule) == rule.kind = "ActionAny" /\ All \notin rule.filter

(* What a stream publishes of a block that the index has reached. *)
InHistory(rule, block) ==
  IF UsesBitmap(rule) THEN Selected(rule.filter, block) # {}
  ELSE InLake(rule, block)

-----------------------------------------------------------------------------
NamesReceiver(filter, outcome) ==
  \E element \in filter : WildMatches(element, outcome.receiver)

(* Whatever the filter, however it is cleaned and whether it is asked for  *)
(* by name or by expression: no block with a matching receipt to an        *)
(* account of the filter is missing from the history.                      *)
ReceivedIsInHistory ==
  \A rule \in ActionAny(Filters), outcome \in Outcomes({{}}, {<<>>}) :
    Matches(rule, outcome) /\ NamesReceiver(rule.filter, outcome)
    => InHistory(rule, <<<<outcome>>>>)

(* A shard is published if a receipt of it matches, with the first one     *)
(* that does; the event published with it, alone, would match.             *)
PayloadsFit(rule, block) ==
  LET matches == IndexerRuleMatches(rule, block) IN
  \A i \in DOMAIN block :
    /\ i \in DOMAIN matches <=>
         \E k \in DOMAIN block[i] : Matches(rule, block[i][k])
    /\ i \in DOMAIN matches =>
         /\ matches[i] # Panics
         /\ \E k \in DOMAIN block[i] :
              /\ matches[i].receipt = block[i][k]
              /\ Matches(rule, block[i][k])
              /\ \A j \in 1 .. k - 1 : ~Matches(rule, block[i][j])
         /\ rule.kind = "Event" =>
              Matches(rule, [matches[i].receipt EXCEPT
                               !.logs = <<matches[i].event>>])

(* The matcher and the builder of payloads agree: nothing that matches is  *)
(* without a payload, and its event is one the rule asks for.              *)
MatchesHavePayloads ==
  LET filters == {{Exact(a)} : a \in Accounts}
      rules == ActionFunctionCall(filters) \cup EventRule(filters)
      outcomes == {o \in Outcomes({{}} \cup {{n} : n \in Names}, Logs) :
                     o.receiver = o.predecessor}
  IN \A rule \in rules, outcome \in outcomes :
       LET other == [outcome EXCEPT !.logs = Reverse(@), !.called = {},
                                    !.succeeded = ~@]
       IN PayloadsFit(rule, << <<other, outcome>>, <<outcome>> >>)

(* An historical Indexer is executed "for all matching blocks"             *)
(* (docs/how-works.md).  Not so: a receipt from an account of the filter   *)
(* matches, and only receivers are indexed.                                *)
HistoryIsComplete ==
  \A rule \in ActionAny(Filters), outcome \in Outcomes({{}}, {<<>>}) :
    InLake(rule, <<<<outcome>>>>) => InHistory(rule, <<<<outcome>>>>)
=============================================================================
