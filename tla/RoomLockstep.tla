--------------------------- MODULE RoomLockstep ---------------------------
(***************************************************************************)
(* The room implements Lockstep when its clock never steps over a frame    *)
(* and newcomers enter one at a time and once (MaxJump = 1, Allowed = {}): *)
(* the log is the history a newcomer would be sent, the members are those  *)
(* that are GAMING or just about to be again.                              *)
(***************************************************************************)
EXTENDS Room

InMatch == InState("GAMING") \cup InState("CHASE_UP")

Abstract == INSTANCE Lockstep WITH
              log <- History, members <- InMatch, got <- seen

(***************************************************************************)
(* Every behaviour of the room is one of Lockstep: members always have the *)
(* whole log, whatever way they came in and whatever messages arrive       *)
(* between their first request and the frame they start with.              *)
(***************************************************************************)
ImplementsLockstep == Abstract!Spec
=============================================================================
