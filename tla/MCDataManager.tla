--------------------------- MODULE MCDataManager ---------------------------
(* DataManager on small instances; the runs use that players are alike. *)
EXTENDS DataManagerPlacement, TLC

Symmetry == Permutations(Players)
=============================================================================
