--------------------------- MODULE MCSubscriptions ---------------------------
(* A small instance: a rule for everybody, one that names accounts and one *)
(* the Block Streamer does not support, with the statuses spread over them.*)
EXTENDS Subscriptions

CONSTANTS contract, alice, f

MCRules ==
  {[kind |-> "ActionAny", affected |-> {"*.near"}, status |-> "Any"],
   [kind |-> "ActionFunctionCall", affected |-> {"app.near", "dao.near"},
    status |-> "Fail", function |-> "vote"],
   [kind |-> "Event", contract |-> "app.near", event |-> "mint"]}

MCIndexers == {<<alice, f>>}

(* Entries do not influence each other: only the followed one is explored. *)
OnlyFollowed ==
  \A i \in (Accounts \X Functions) \ Indexers :
    registry[i[1]][i[2]] = Unregistered
=============================================================================
