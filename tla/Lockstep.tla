----------------------------- MODULE Lockstep -----------------------------
(***************************************************************************)
(* What a room promises to the players of a match, with no word of how it  *)
(* is done: there is one growing log of frames, everybody who is in the    *)
(* match has all of it, and somebody who enters is given all of it.        *)
(***************************************************************************)
EXTENDS Integers

CONSTANTS Players, Frames, Row

VARIABLES
  log,      \* the frames of the match, a set of <<frame id, commands>>
  members,  \* who is in the match
  got       \* what each player was given

vars == <<log, members, got>>

Init ==
  /\ log = {}
  /\ members = {}
  /\ got = [p \in Players |-> {}]

\* The log grows by at most one frame, which comes after all the others.
Grow ==
  \/ log' = log
  \/ \E f \in Frames, row \in Row :
       /\ \A e \in log : e[1] < f
       /\ log' = log \cup {<<f, row>>}

\* The players of `new` enter, and then the frame is published.
Play ==
  /\ Grow
  /\ \E new \in SUBSET Players : members' = members \cup new
  /\ got' = [p \in Players |-> IF p \in members' THEN log' ELSE got[p]]

Leave(p) ==
  /\ members' = members \ {p}
  /\ got' = [got EXCEPT ![p] = {}]
  /\ log' = log

\* The last player leaves and takes the match along.
Close ==
  /\ log' = {}
  /\ members' = {}
  /\ got' = [p \in Players |-> {}]
  /\ \E p \in Players : members \subseteq {p}

Next == Play \/ (\E p \in Players : Leave(p)) \/ Close

Spec == Init /\ [][Next]_vars
=============================================================================
