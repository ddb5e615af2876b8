--------------------------- MODULE SocketServer ---------------------------
(***************************************************************************)
(* The connections of the server (Socket/SocketServer.cpp) and the two     *)
(* message queues to and from the data thread (Socket/MessageQueue.h).     *)
(*                                                                         *)
(* The listener thread accepts connections into tempSocketSet.  The        *)
(* communication thread goes round for ever: it visits every new           *)
(* connection, then every player's connection, and reads at most one       *)
(* message from each, then it sends one message of MsgSendQueue.           *)
(* ReceiveFromTempClient holds socketSetMutex from its first visit to its  *)
(* last, so that nothing is accepted meanwhile; nobody else takes part of  *)
(* the state away from the communication thread between two of its steps.  *)
(*                                                                         *)
(* Messages arrive whole; module Framing is about those that do not.  What *)
(* the data thread does with a message, and what clients send, is up to    *)
(* the module that extends this one.                                       *)
(***************************************************************************)
EXTENDS Integers, Sequences, FiniteSetsExt

CONSTANTS
  Players,   \* the player ids, in the order of std::map
  Sockets,   \* the handles, in the order of std::set; each is used once
  MaxSent,   \* bound on the messages of one connection
  Allowed    \* what clients are allowed to do, see below

(***************************************************************************)
(* Allowed holds                                                           *)
(*   "relogin"  when a player that has given up its last connection may    *)
(*              connect anew before the server has closed that,            *)
(*   "logout"   when a client may send LOGOUT_REQ from a room (module      *)
(*              Server).                                                   *)
(***************************************************************************)
ASSUME SocketAssumption ==
  /\ Players \subseteq Nat \ {0}
  /\ Sockets \subseteq Nat \ {0}
  /\ MaxSent \in Nat \ {0}
  /\ Allowed \subseteq {"relogin", "logout"}

NoSocket == 0
Nobody == 0

VARIABLES
  conn,      \* the state of each connection (environment)
  owner,     \* the player at the other end (environment)
  sent,      \* how many messages were sent on each connection (environment)
  wire,      \* those that were not received yet
  backlog,   \* the connections that wait for accept
  temp,      \* tempSocketSet
  socketMap, \* socketMap, NoSocket for a player that has no entry
  closed,    \* the connections that closesocket was called for
  pass,      \* what the communication thread is at,
  todo,      \* and whom it has to visit yet
  recvQueue, \* MsgRecvQueue
  sendQueue  \* MsgSendQueue, the players its messages are for

network == <<conn, owner, sent, wire>>
sockets == <<backlog, temp, socketMap, closed>>
thread == <<pass, todo>>
queues == <<recvQueue, sendQueue>>

Init ==
  /\ conn = [s \in Sockets |-> "none"]
  /\ owner = [s \in Sockets |-> Nobody]
  /\ sent = [s \in Sockets |-> 0]
  /\ wire = [s \in Sockets |-> <<>>]
  /\ backlog = {} /\ temp = {} /\ closed = {}
  /\ socketMap = [p \in Players |-> NoSocket]
  /\ pass = "send" /\ todo = {}
  /\ recvQueue = <<>> /\ sendQueue = <<>>

-----------------------------------------------------------------------------
(* Clients and network. *)

Connect(p, s) ==
  /\ conn[s] = "none"
  /\ \A t \in Sockets : owner[t] = p =>
       t \in closed \/ ("relogin" \in Allowed /\ conn[t] # "open")
  /\ conn' = [conn EXCEPT ![s] = "open"]
  /\ owner' = [owner EXCEPT ![s] = p]
  /\ backlog' = backlog \cup {s}
  /\ UNCHANGED <<sent, wire, temp, socketMap, closed, thread, queues>>

\* The n-th message of a connection; r is the room of a ROOM_JOIN_REQ.
Message(s, n, type, r) == [from |-> s, n |-> n, type |-> type, room |-> r]

Send(s, type, r) ==
  /\ conn[s] = "open" /\ s \notin closed
  /\ sent[s] < MaxSent
  /\ sent' = [sent EXCEPT ![s] = @ + 1]
  /\ wire' = [wire EXCEPT ![s] = Append(@, Message(s, sent[s] + 1, type, r))]
  /\ UNCHANGED <<conn, owner, sockets, thread, queues>>

\* The client closes the connection: what it sent before can still be read.
GiveUp(s) ==
  /\ conn[s] = "open" /\ s \notin closed
  /\ conn' = [conn EXCEPT ![s] = "shut"]
  /\ UNCHANGED <<owner, sent, wire, sockets, thread, queues>>

-----------------------------------------------------------------------------
(* The listener thread: accept, AddSocketToTempSet. *)

Accept(s) ==
  /\ s \in backlog
  /\ pass # "temp"
  /\ backlog' = backlog \ {s}
  /\ temp' = temp \cup {s}
  /\ UNCHANGED <<network, socketMap, closed, thread, queues>>

-----------------------------------------------------------------------------
(* The communication thread. *)

\* What ReceiveFromSocket finds: recv is 0 at the end of a connection and -1
\* if there is nothing to read.  Connections here are closed in order, and a
\* message has a body that can be parsed.  (After a reset recv is -1 as well,
\* an empty body is taken for a close, and the result of a body that cannot be
\* parsed is used all the same.)
\* Seeded fault: the end is taken for nothing to read.
ReceivedNoEnd(s) == IF wire[s] # <<>> THEN "message" ELSE "nothing"
Received(s) ==
  CASE wire[s] # <<>> -> "message"
    [] wire[s] = <<>> /\ conn[s] = "shut" -> "closed"
    [] OTHER -> "nothing"
ReceiveFromSocket(s) ==
  /\ wire' = IF Received(s) = "message" THEN [wire EXCEPT ![s] = Tail(@)] ELSE wire
  /\ UNCHANGED <<conn, owner, sent>>

\* Seeded fault: the latest message comes first.
PushFirst(q, m) == q' = <<m>> \o q
Push(q, m) == q' = Append(q, m)

\* ClosePlayerSocket, which leaves the player's entry to its caller.
\* Seeded fault: nobody makes the player log out.
CloseQuietly(p) ==
  /\ closed' = closed \cup {socketMap[p]}
  /\ UNCHANGED recvQueue
ClosePlayerSocket(p) ==
  /\ closed' = closed \cup {socketMap[p]}
  /\ Push(recvQueue, Message(socketMap[p], 0, "LOGOUT", 0))
Forget(p) == socketMap' = [socketMap EXCEPT ![p] = NoSocket]

\* std::map::insert leaves an entry alone that is there already.
Insert(p, s) == IF socketMap[p] = NoSocket THEN [socketMap EXCEPT ![p] = s] ELSE socketMap

\* The thread goes on to the next of the given visits, if there is none to
\* the next pass; passes without a visit are skipped.
Listed == {p \in Players : socketMap'[p] # NoSocket}
Proceed(at, visits) ==
  /\ pass' = CASE visits # {} -> at
               [] visits = {} /\ at = "temp" -> IF Listed # {} THEN "player" ELSE "send"
               [] visits = {} /\ at = "player" -> "send"
  /\ todo' = IF visits = {} /\ at = "temp" THEN Listed ELSE visits

ReceiveFromTempClient ==
  /\ pass = "temp"
  /\ LET s == Min(todo)
     IN  /\ ReceiveFromSocket(s)
         /\ temp' = IF Received(s) = "nothing" THEN temp ELSE temp \ {s}
         /\ closed' = IF Received(s) = "closed" THEN closed \cup {s} ELSE closed
         /\ IF Received(s) = "message"
              THEN /\ socketMap' = Insert(owner[s], s)
                   /\ Push(recvQueue, Head(wire[s]))
              ELSE UNCHANGED <<socketMap, recvQueue>>
         /\ Proceed("temp", todo \ {s})
  /\ UNCHANGED <<backlog, sendQueue>>

ReceiveFromPlayerClient ==
  /\ pass = "player"
  /\ LET p == Min(todo)
         s == socketMap[p]
     IN  /\ ReceiveFromSocket(s)
         /\ CASE Received(s) = "closed" -> ClosePlayerSocket(p) /\ Forget(p)
              [] Received(s) = "message" -> /\ Push(recvQueue, Head(wire[s]))
                                            /\ UNCHANGED <<closed, socketMap>>
              [] OTHER -> UNCHANGED <<closed, socketMap, recvQueue>>
         /\ Proceed("player", todo \ {p})
  /\ UNCHANGED <<backlog, temp, sendQueue>>

\* send fails on a lost connection, and on one whose buffer is full.
\* Seeded fault: the player is not taken out of socketMap.
SendKeepsEntry(p) ==
  /\ \/ UNCHANGED <<closed, recvQueue>>
     \/ ClosePlayerSocket(p)
  /\ UNCHANGED socketMap
SendTo(p) ==
  \/ UNCHANGED <<closed, recvQueue, socketMap>>
  \/ ClosePlayerSocket(p) /\ Forget(p)

\* One message of the queue, if there is one, and the round is over.
SendToClient ==
  /\ pass = "send"
  /\ sendQueue' = IF sendQueue = <<>> THEN <<>> ELSE Tail(sendQueue)
  /\ IF sendQueue # <<>> /\ socketMap[Head(sendQueue)] # NoSocket
       THEN SendTo(Head(sendQueue))
       ELSE UNCHANGED <<closed, recvQueue, socketMap>>
  /\ Proceed("temp", temp)
  /\ UNCHANGED <<network, backlog, temp>>

ServerCommunicaThread ==
  ReceiveFromTempClient \/ ReceiveFromPlayerClient \/ SendToClient
=============================================================================
