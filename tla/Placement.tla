---------------------------- MODULE Placement ----------------------------
(***************************************************************************)
(* What the server promises about where a player is: at one place at a     *)
(* time, which is nowhere, the lobby, or a room with space for it.  A room *)
(* exists as long as somebody is in it, and a new room gets the smallest   *)
(* number that is not in use.                                              *)
(***************************************************************************)
EXTENDS Integers, FiniteSets

CONSTANTS Players, MaxRooms, MaxSlots

VARIABLE where

RoomIds == 0 .. MaxRooms - 1
InLobby == -1
Nowhere == -2

Init == where = [p \in Players |-> Nowhere]

In(r) == {p \in Players : where[p] = r}
Moves(p, from, to) == where[p] = from /\ where' = [where EXCEPT ![p] = to]

Arrive(p) == Moves(p, Nowhere, InLobby)
Enter(p, r) == In(r) # {} /\ Cardinality(In(r)) < MaxSlots /\ Moves(p, InLobby, r)
Open(p, r) ==
  /\ In(r) = {}
  /\ \A s \in RoomIds : s < r => In(s) # {}
  /\ Moves(p, InLobby, r)
Return(p) == \E r \in RoomIds : Moves(p, r, InLobby)
Depart(p) == where' = [where EXCEPT ![p] = Nowhere]

Next ==
  \E p \in Players :
    \/ Arrive(p)
    \/ \E r \in RoomIds : Enter(p, r) \/ Open(p, r)
    \/ Return(p)
    \/ Depart(p)

Spec == Init /\ [][Next]_where
=============================================================================
