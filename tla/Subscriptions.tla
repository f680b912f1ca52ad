---------------------------- MODULE Subscriptions ----------------------------
(***************************************************************************)
(* How a registration reaches the services that run it.  main() lists the  *)
(* registry and gives every Indexer it finds a lifecycle manager; managers *)
(* fetch single entries, and send what they fetched to the Block Streamer  *)
(* (as a gRPC message, read back into a Rule there) and to the Runner.     *)
(* Both answer with a version only: that is all the Coordinator compares.  *)
(*                                                                         *)
(* When a manager calls is the subject of IndexerLifecycle; here it may    *)
(* fetch, stop and start at any time, so every order of its calls, failed  *)
(* and abandoned ones included, is covered.                                *)
(***************************************************************************)
EXTENDS RegistryContract

CONSTANT Indexers  \* the pairs of account and function name that are followed

ASSUME IndexersAssumption == Indexers \subseteq Accounts \X Functions

VARIABLES
  managed,    \* lifecycle_tasks
  config,     \* Indexer -> the entry its manager fetched last
  streams,    \* Indexer -> the Block Streamer's entry, or Absent
  executors   \* Indexer -> the Runner's entry, or Absent

coordinator == <<managed, config>>
allVars == <<vars, coordinator, streams, executors>>

Absent == [version |-> None]

(* The contract's views.  A removed entry is not listed, but still read.   *)
Live(c) == c # Unregistered /\ c.deleted = None
ListByAccount(contract, account) ==
  {f \in Functions : Live(contract[account][f])}
ListAll(contract) ==
  {i \in Accounts \X Functions : i[2] \in ListByAccount(contract, i[1])}

(* Slip: the filter of the lists. *)
ReadListedFunction(contract, account, function) ==
  IF Live(contract[account][function]) THEN contract[account][function]
  ELSE Unregistered

ReadIndexerFunction(contract, account, function) == contract[account][function]

-----------------------------------------------------------------------------
(* What start() puts into a StartStreamRequest ... *)
GrpcStatus(status) ==
  CASE status = "Success" -> 1 [] status = "Fail" -> 2 [] status = "Any" -> 3

Supported(rule) == rule.kind \in {"ActionAny", "ActionFunctionCall"}

GrpcRule(rule) == [rule EXCEPT !.status = GrpcStatus(rule.status)]

(* ... and what start_stream makes of it. *)
MatchStatus(number) ==
  CASE number = 1 -> "Success" [] number = 2 -> "Fail" [] number = 3 -> "Any"

StreamedRule(message) == [message EXCEPT !.status = MatchStatus(message.status)]

-----------------------------------------------------------------------------
(* Both queries of the registry ask for Finality::Final.  Slip: the latest *)
(* state, in the middle of a block.                                        *)
Optimistic == registry
Final == seen
Fetched == ListAll(Final)

(* get_stream and get_executor tell the version and the health. *)
GetStream(i) == streams[i].version
GetExecutor(i) == executors[i].version

(* main() iterates over what it fetched: a manager for each without one. *)
Spawn(i) ==
  /\ i \in Fetched \ managed
  /\ managed' = managed \cup {i}
  /\ UNCHANGED <<config, streams, executors>>

FetchIndexer(i) ==
  /\ i \in managed
  /\ config' = [config EXCEPT ![i] = ReadIndexerFunction(Final, i[1], i[2])]
  /\ UNCHANGED <<managed, streams, executors>>

(* An Event rule is logged as unsupported and not sent; an id that is      *)
(* already there is answered with AlreadyExists.                           *)
StartStream(i) ==
  /\ i \in managed /\ config[i] # Unregistered
  /\ Supported(config[i].rule)
  /\ streams[i] = Absent
  /\ streams' = [streams EXCEPT ![i] =
       [version |-> Version(config[i]),
        rule |-> StreamedRule(GrpcRule(config[i].rule))]]
  /\ UNCHANGED <<coordinator, executors>>

StartExecutor(i) ==
  /\ i \in managed /\ config[i] # Unregistered
  /\ executors[i] = Absent
  /\ executors' = [executors EXCEPT ![i] =
       [version |-> Version(config[i]), content |-> config[i].content]]
  /\ UNCHANGED <<coordinator, streams>>

(* Stopped by the manager, or lost with the process of the service. *)
StopStream(i) ==
  /\ streams[i] # Absent
  /\ streams' = [streams EXCEPT ![i] = Absent]
  /\ UNCHANGED <<coordinator, executors>>

StopExecutor(i) ==
  /\ executors[i] # Absent
  /\ executors' = [executors EXCEPT ![i] = Absent]
  /\ UNCHANGED <<coordinator, streams>>

(* A manager exits once it has seen the removal. *)
Finish(i) ==
  /\ i \in managed /\ config[i].deleted # None
  /\ managed' = managed \ {i}
  /\ config' = [config EXCEPT ![i] = Unregistered]
  /\ UNCHANGED <<streams, executors>>

CoordinatorCrash ==
  /\ managed' = {}
  /\ config' = [i \in Indexers |-> Unregistered]
  /\ UNCHANGED <<streams, executors>>

Sync ==
  \/ \E i \in Indexers :
       \/ Spawn(i) \/ FetchIndexer(i) \/ Finish(i)
       \/ StartStream(i) \/ StartExecutor(i) \/ StopStream(i) \/ StopExecutor(i)
  \/ CoordinatorCrash

AllInit ==
  /\ Init
  /\ managed = {}
  /\ config = [i \in Indexers |-> Unregistered]
  /\ streams = [i \in Indexers |-> Absent]
  /\ executors = [i \in Indexers |-> Absent]

AllNext ==
  \/ Next /\ UNCHANGED <<coordinator, streams, executors>>
  \/ Sync /\ UNCHANGED vars

AllSpec == AllInit /\ [][AllNext]_allVars

-----------------------------------------------------------------------------
AllTypeOK ==
  /\ TypeOK
  /\ managed \subseteq Indexers
  /\ config \in [Indexers -> Configs \cup {Unregistered}]
  /\ streams \in [Indexers ->
       [version : Heights, rule : Rules] \cup {Absent}]
  /\ executors \in [Indexers ->
       [version : Heights, content : Contents] \cup {Absent}]

(* Status Active compares versions and nothing else.  A stream or executor *)
(* of the version the contract shows runs exactly what is registered, rule *)
(* and code: through stale fetches, several registrations in a block,      *)
(* removals and crashes, and through both conversions of the message.      *)
ActiveRunsRegistered ==
  \A i \in Indexers :
    LET c == seen[i[1]][i[2]] IN
    c # Unregistered =>
      /\ GetStream(i) = Version(c) => streams[i].rule = c.rule
      /\ GetExecutor(i) = Version(c) => executors[i].content = c.content

(* Outdated means "of another version": the handlers compare with != and   *)
(* stop or replace what differs.  They never do that to a newer one: what  *)
(* runs is at most as new as what its manager has fetched, however stale   *)
(* that is, and whoever started it, the manager's predecessors included.   *)
OutdatedIsOlder ==
  \A i \in Indexers :
    config[i] # Unregistered =>
      /\ GetStream(i) <= Version(config[i])
      /\ GetExecutor(i) <= Version(config[i])

(* What a manager is there for is found in the registry, and while it runs *)
(* it is either listed or read as removed: a removal never hides an        *)
(* Indexer from the manager that has to clean it up.                       *)
ManagedIsRead ==
  \A i \in managed :
    ReadIndexerFunction(seen, i[1], i[2]) # Unregistered
=============================================================================
