------------------------- MODULE MCDataLayerHandler -------------------------
(* Indexers of one account are interchangeable; all properties are safety. *)
EXTENDS DataLayerHandler, TLC

Interchange == Permutations(Indexers)
=============================================================================
