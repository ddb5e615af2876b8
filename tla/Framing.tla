------------------------------ MODULE Framing ------------------------------
(***************************************************************************)
(* ReceiveFromSocket (Socket/SocketServer.cpp) on one connection: how      *)
(* messages are cut out of the bytes that have arrived on a non-blocking   *)
(* socket, from which it asks for the rest of the header, and then for the *)
(* rest of the body, until recv has nothing to give.                       *)
(*                                                                         *)
(* Bytes are known by their place in the stream.                           *)
(***************************************************************************)
EXTENDS Integers, FiniteSetsExt

CONSTANTS
  Head,    \* MSG_TOTAL_HEAD_SIZE
  Body,    \* the size of the client's messages without it
  Count    \* how many messages the client sends

VARIABLES
  arrived,   \* how many bytes have arrived (environment)
  taken,     \* how many of them recv has given out
  part,      \* what ReceiveFromSocket reads: "head", "body", or "none"
  begin,     \* where this part began
  received   \* how many messages it has returned

vars == <<arrived, taken, part, begin, received>>

Start(i) == (Head + Body) * i
Ends == {Start(i) + Head : i \in 0 .. Count - 1}

Init == arrived = 0 /\ taken = 0 /\ part = "none" /\ begin = 0 /\ received = 0

Arrive ==
  /\ arrived' \in arrived + 1 .. Start(Count)
  /\ UNCHANGED <<taken, part, begin, received>>

\* The thread comes to this connection.
Visit ==
  /\ part = "none"
  /\ part' = "head" /\ begin' = taken
  /\ UNCHANGED <<arrived, taken, received>>

Length == IF part = "head" THEN Head ELSE Body

\* One call of recv, which gives as much as there is of what is missing.
Recv ==
  /\ part # "none" /\ arrived > taken
  /\ taken' = Min({arrived, begin + Length})
  /\ IF taken' < begin + Length
       THEN UNCHANGED <<part, begin, received>>
       ELSE /\ part' = IF part = "head" THEN "body" ELSE "none"
            /\ begin' = taken'
            /\ received' = IF part = "body" THEN received + 1 ELSE received
  /\ UNCHANGED arrived

\* recv returns -1: what was read of the part is given up.
GiveUp ==
  /\ part # "none" /\ arrived = taken
  /\ part' = "none"
  /\ UNCHANGED <<arrived, taken, begin, received>>

\* What comes of the size in a header that is none is left open.
Next == (part = "body" => begin \in Ends) /\ (Arrive \/ Visit \/ Recv \/ GiveUp)

Spec == Init /\ [][Next]_vars

(***************************************************************************)
(* SocketServer.cpp:258, 273: what is read as a header is the header of    *)
(* the next message, and what is read as a body is its body.               *)
(***************************************************************************)
MessagesIntact ==
  /\ part = "head" => begin = Start(received)
  /\ part = "body" => begin = Start(received) + Head
=============================================================================
