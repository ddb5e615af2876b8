----------------------------- MODULE Sessions -----------------------------
(***************************************************************************)
(* What the data thread may rely on: of each player it sees one session    *)
(* after the other; a session is that of one connection, starts with the   *)
(* first message of the connection, goes on with the others in the order   *)
(* they were sent, none left out, and ends with one logout.                *)
(***************************************************************************)
EXTENDS Integers

CONSTANTS Players, Sockets, MaxSent

VARIABLES
  current,   \* the connection of each player's session, or 0
  handled    \* how many messages of each connection have been seen

vars == <<current, handled>>
Over == MaxSent + 1

Init ==
  /\ current = [p \in Players |-> 0]
  /\ handled = [s \in Sockets |-> 0]

Login(p, s) ==
  /\ current[p] = 0 /\ handled[s] = 0
  /\ current' = [current EXCEPT ![p] = s]
  /\ handled' = [handled EXCEPT ![s] = 1]

Handle(p, s) ==
  /\ current[p] = s
  /\ handled' = [handled EXCEPT ![s] = @ + 1]
  /\ UNCHANGED current

Logout(p, s) ==
  /\ current[p] = s
  /\ current' = [current EXCEPT ![p] = 0]
  /\ handled' = [handled EXCEPT ![s] = Over]

Next == \E p \in Players, s \in Sockets : Login(p, s) \/ Handle(p, s) \/ Logout(p, s)

Spec == Init /\ [][Next]_vars
=============================================================================
