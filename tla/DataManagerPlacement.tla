---------------------- MODULE DataManagerPlacement ----------------------
(***************************************************************************)
(* The server keeps every player at one place at a time as long as each    *)
(* connection of a player is logged out before the next one logs in.       *)
(***************************************************************************)
EXTENDS DataManager

Where(p) ==
  IF p \in lobby THEN -1
  ELSE IF SlotsOf(p) # {} THEN (CHOOSE x \in SlotsOf(p) : TRUE)[1]
  ELSE -2

Abstract == INSTANCE Placement WITH where <- [p \in Players |-> Where(p)]

(***************************************************************************)
(* Every behaviour of the server, as far as the lobby's set, the rooms'    *)
(* slots and the heap of ids go, is one of Placement, requests that come   *)
(* too late included.                                                      *)
(***************************************************************************)
ImplementsPlacement == Abstract!Spec
=============================================================================
