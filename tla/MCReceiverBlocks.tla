-------------------------- MODULE MCReceiverBlocks --------------------------
(* The history over the index that the core Indexer codes. *)
EXTENDS ReceiverBlocks, History

(* A root account, one with a hyphen, accounts under them and one two      *)
(* levels down.                                                            *)
FewAccounts ==
  {<<"near">>, <<"pool", "near">>, <<"a", "pool", "near">>, <<"x-y">>,
   <<"pool", "x-y">>}

(* Two days of three heights. *)
TwoDays == [h \in 1 .. 6 |-> (h - 1) \div 3]

(* Rows extended in place are what coding the whole bitmap gives, and      *)
(* decode to what was added, once or again, for every day.                 *)
EveryDayIsExact == tip = 0 => CodesExactly
=============================================================================
