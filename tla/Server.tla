------------------------------ MODULE Server ------------------------------
(***************************************************************************)
(* The whole server but for what goes on inside a room: the connections    *)
(* and the queues of SocketServer, and the data thread, which handles the  *)
(* messages that come out of them as DataManager does.                     *)
(*                                                                         *)
(* Clients follow the server's protocol, each as far as it can tell from   *)
(* what it has asked for itself.  A client waits for the answer to one     *)
(* request before it makes the next, but not before it sends input; it is  *)
(* taken to have the answer when the data thread has given it.             *)
(***************************************************************************)
EXTENDS SocketServer

CONSTANTS MaxRooms, MaxSlots   \* as in DataManager

ASSUME ServerAssumption ==
  /\ MaxRooms \in Nat \ {0}
  /\ MaxSlots \in Nat \ {0}

VARIABLES
  players, roomOf, lobby, rooms, roomIds, fault,   \* those of DataManager
  view,      \* where the client of each connection believes it is (environment)
  current,   \* history: the connection of each player's session, see Sessions
  handled    \* history: how many of its messages the data thread has handled

Data == INSTANCE DataManagerPlacement WITH
  Allowed <- {}, client <- [p \in Players |-> "off"], listed <- [p \in Players |-> {}]

data == <<players, roomOf, lobby, rooms, roomIds, fault, current, handled>>
vars == <<network, sockets, thread, queues, data, view>>

Over == MaxSent + 1

InitServer ==
  /\ Init
  /\ Data!Init
  /\ view = [s \in Sockets |-> "login"]
  /\ current = [p \in Players |-> NoSocket]
  /\ handled = [s \in Sockets |-> 0]

-----------------------------------------------------------------------------
(* What clients send. *)

\* A request, after which the client is at v.
Ask(s, type, r, v) ==
  handled[s] = sent[s] /\ Send(s, type, r) /\ view' = [view EXCEPT ![s] = v]

\* A client asks for a room that it can have heard of just now.
Request(s) ==
  \/ view[s] = "login" /\ Ask(s, "LOGIN", 0, "lobby")
  \/ view[s] = "lobby" /\ Ask(s, "CREATE", 0, "room")
  \/ /\ view[s] = "lobby"
     /\ \E r \in DOMAIN rooms : Data!Taken(r) # Data!Slots /\ Ask(s, "JOIN", r, "room")
  \/ view[s] = "room" /\ Ask(s, "EXIT", 0, "lobby")
  \/ view[s] = "room" /\ Send(s, "INPUT", 0) /\ UNCHANGED view
  \/ /\ view[s] = "lobby" \/ (view[s] = "room" /\ "logout" \in Allowed)
     /\ Ask(s, "LOGOUT", 0, "gone")

-----------------------------------------------------------------------------
(* DataManager::Tick, one message. *)

Handler(m, p) ==
  CASE m.type = "LOGIN" -> Data!CreatePlayer(p)
    [] m.type = "LOGOUT" -> Data!RemovePlayer(p)
    [] m.type = "CREATE" -> Data!CreateRoom(p)
    [] m.type = "JOIN" -> Data!MovePlayerToRoom(p, m.room)
    [] m.type = "EXIT" -> Data!MovePlayerFromRoomToLobby(p)
    [] m.type = "INPUT" -> Data!InRoomMessage(p)

\* Every message but PLAYER_INPUT_NTF is answered.
DataThread ==
  /\ recvQueue # <<>>
  /\ recvQueue' = Tail(recvQueue)
  /\ LET m == Head(recvQueue)
         p == owner[m.from]
     IN  /\ Handler(m, p)
         /\ IF m.type = "INPUT" THEN UNCHANGED sendQueue ELSE Push(sendQueue, p)
         /\ current' = CASE m.type = "LOGIN" -> [current EXCEPT ![p] = m.from]
                         [] m.n = 0 -> [current EXCEPT ![p] = NoSocket]
                         [] OTHER -> current
         /\ handled' = [handled EXCEPT ![m.from] = IF m.n = 0 THEN Over ELSE m.n]
  /\ UNCHANGED <<network, sockets, thread, view>>

-----------------------------------------------------------------------------
Client ==
  \E s \in Sockets :
    \/ (\E p \in Players : Connect(p, s)) /\ UNCHANGED <<data, view>>
    \/ Request(s) /\ UNCHANGED data
    \/ GiveUp(s) /\ UNCHANGED <<data, view>>

Listens(s) == fault = "none" /\ Accept(s) /\ UNCHANGED <<data, view>>
Communicates == fault = "none" /\ ServerCommunicaThread /\ UNCHANGED <<data, view>>
Handles == fault = "none" /\ DataThread

Next ==
  \/ fault = "none" /\ Client
  \/ \E s \in Sockets : Listens(s)
  \/ Communicates
  \/ Handles

Spec == InitServer /\ [][Next]_vars

\* The communication thread and the data thread never stop.  Nothing is
\* assumed of the listener: it waits for a mutex that the communication
\* thread takes again and again, and may never get it.
FairSpec == Spec /\ WF_vars(Communicates) /\ WF_vars(Handles)

-----------------------------------------------------------------------------
(***************************************************************************)
(* Types.                                                                  *)
(***************************************************************************)
MessageType ==
  [from : Sockets, n : 0 .. MaxSent, room : Data!RoomIds,
   type : {"LOGIN", "CREATE", "JOIN", "EXIT", "INPUT", "LOGOUT"}]
TypeOK ==
  /\ conn \in [Sockets -> {"none", "open", "shut"}]
  /\ owner \in [Sockets -> Players \cup {Nobody}]
  /\ sent \in [Sockets -> 0 .. MaxSent]
  /\ wire \in [Sockets -> Seq(MessageType)]
  /\ backlog \cup temp \cup closed \subseteq Sockets
  /\ socketMap \in [Players -> Sockets \cup {NoSocket}]
  /\ pass \in {"temp", "player", "send"}
  /\ pass = "temp" => todo # {} /\ todo \subseteq temp
  /\ pass = "player" => todo # {} /\ \A p \in todo : socketMap[p] # NoSocket
  /\ recvQueue \in Seq(MessageType)
  /\ sendQueue \in Seq(Players)
  /\ Data!TypeOK
  /\ view \in [Sockets -> {"login", "lobby", "room", "gone"}]
  /\ current \in [Players -> Sockets \cup {NoSocket}]
  /\ handled \in [Sockets -> 0 .. Over]

(***************************************************************************)
(* SocketServer.h:23, 28: a connection that was accepted is a new one, or  *)
(* in socketMap as that of its own player, or closed, and one of them      *)
(* only: none is lost, and none is used after it was closed.               *)
(***************************************************************************)
InMap == {socketMap[p] : p \in Players} \ {NoSocket}
OneHome ==
  /\ \A p \in Players : socketMap[p] # NoSocket => owner[socketMap[p]] = p
  /\ {s \in Sockets : conn[s] # "none"} = backlog \cup temp \cup InMap \cup closed
  /\ backlog \cap temp = {} /\ (backlog \cup temp) \cap (InMap \cup closed) = {}
  /\ InMap \cap closed = {}

(***************************************************************************)
(* The data thread sees proper sessions: all messages of a connection in   *)
(* order, one LOGOUT_REQ (ClosePlayerSocket), and only then another.       *)
(***************************************************************************)
Abstract == INSTANCE Sessions
ImplementsSessions == Abstract!Spec

(***************************************************************************)
(* SocketServer.cpp:193: whoever is in the lobby or in a room has a        *)
(* connection that can be lost, or its logout is on its way.               *)
(***************************************************************************)
LogsOut(p) == \E i \in DOMAIN recvQueue : owner[recvQueue[i].from] = p /\ recvQueue[i].n = 0
NoGhosts ==
  \A p \in Players : Data!Where(p) # -2 => socketMap[p] # NoSocket \/ LogsOut(p)

(***************************************************************************)
(* However requests, logins and lost connections cross, no assert fails    *)
(* but in the handler of ROOM_JOIN_REQ (DataManager.cpp:36).               *)
(***************************************************************************)
OnlyJoinsFail == [][fault' # fault => Head(recvQueue).type = "JOIN"]_vars

(***************************************************************************)
(* Room.cpp:11: a player that is looked for in a room is there.            *)
(***************************************************************************)
PlayerIsInRoom == fault # "not_in_room"

(***************************************************************************)
(* SocketServer.cpp:159, 194: when a client closes a connection that the   *)
(* listener has handed over, what was received of it is handled, its       *)
(* session ends, and the server closes the connection too, unless the      *)
(* process ends before.  Only orderly closes count: a connection that is   *)
(* reset or just falls silent is not noticed.                              *)
(***************************************************************************)
LostPlayersLeave ==
  \A s \in Sockets :
    conn[s] = "shut" /\ s \notin backlog
                     ~> \/ fault # "none"
                        \/ /\ s \in closed
                           /\ current[owner[s]] # s
                           /\ \A i \in DOMAIN recvQueue : recvQueue[i].from # s
=============================================================================
