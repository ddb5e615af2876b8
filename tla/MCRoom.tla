------------------------------ MODULE MCRoom ------------------------------
(* Room on small instances; the safety runs use that players are alike. *)
EXTENDS RoomLockstep, TLC

Symmetry == Permutations(Players)
=============================================================================
