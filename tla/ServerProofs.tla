---------------------------- MODULE ServerProofs ----------------------------
(***************************************************************************)
(* What becomes of connections and of the messages on them, for any number *)
(* of players, connections and messages, when a player connects anew only  *)
(* after the server has closed its last connection.                        *)
(***************************************************************************)
EXTENDS Server, SequenceTheorems, WellFoundedInduction, TLAPS

LEMMA MinIsIn ==
  ASSUME NEW S, S \subseteq Nat, S # {}
  PROVE  Min(S) \in S
  <1>1. PICK m \in S : \A k \in S : <<k, m>> \notin OpToRel(<, Nat)
    BY NatLessThanWellFounded, WFMin
  <1>2. \A k \in S : ~(k < m)
    BY <1>1, Zenon DEF OpToRel
  <1>3. \A k \in S : m <= k
    BY <1>2
  <1> QED
    BY <1>3 DEF Min

-----------------------------------------------------------------------------
(* Types. *)

Views == {"login", "lobby", "room", "gone"}

SocketTypes ==
  /\ conn \in [Sockets -> {"none", "open", "shut"}]
  /\ owner \in [Sockets -> Players \cup {Nobody}]
  /\ sent \in [Sockets -> 0 .. MaxSent]
  /\ wire \in [Sockets -> Seq(MessageType)]
  /\ backlog \subseteq Sockets /\ temp \subseteq Sockets /\ closed \subseteq Sockets
  /\ socketMap \in [Players -> Sockets \cup {NoSocket}]
  /\ recvQueue \in Seq(MessageType)
  /\ view \in [Sockets -> Views]
  /\ current \in [Players -> Sockets \cup {NoSocket}]
  /\ handled \in [Sockets -> 0 .. Over]

\* What the communication thread goes by.
RoundTypes ==
  /\ pass \in {"temp", "player", "send"}
  /\ pass = "temp" => todo # {} /\ todo \subseteq temp
  /\ pass = "player" =>
       todo # {} /\ todo \subseteq Players /\ \A p \in todo : socketMap[p] # NoSocket
  /\ sendQueue \in Seq(Players)

-----------------------------------------------------------------------------
(* What a step of the communication thread amounts to. *)

\* The first message on connection s is taken to the queue.
Reads(s) ==
  /\ wire[s] # <<>>
  /\ wire' = [wire EXCEPT ![s] = Tail(wire[s])]
  /\ recvQueue' = Append(recvQueue, Head(wire[s]))

NewSpeaks(s) ==
  /\ Reads(s)
  /\ temp' = temp \ {s}
  /\ socketMap' = Insert(owner[s], s)
  /\ UNCHANGED closed

NewEnds(s) ==
  /\ temp' = temp \ {s}
  /\ closed' = closed \cup {s}
  /\ UNCHANGED <<wire, recvQueue, socketMap>>

Speaks(p) ==
  /\ socketMap[p] # NoSocket
  /\ Reads(socketMap[p])
  /\ UNCHANGED <<temp, socketMap, closed>>

Ends(p) ==
  /\ socketMap[p] # NoSocket
  /\ ClosePlayerSocket(p) /\ Forget(p)
  /\ UNCHANGED <<wire, temp>>

Idles == UNCHANGED <<wire, temp, socketMap, closed, recvQueue>>

LEMMA CommunicatesDoes ==
  ASSUME SocketTypes, RoundTypes, Communicates
  PROVE  /\ UNCHANGED <<conn, owner, sent, backlog, data, view>>
         /\ \/ \E s \in temp : NewSpeaks(s) \/ NewEnds(s)
            \/ \E p \in Players : Speaks(p) \/ Ends(p)
            \/ Idles
  <1>1. CASE ReceiveFromTempClient
    <2>1. Min(todo) \in temp
      BY <1>1, MinIsIn, SocketAssumption DEF ReceiveFromTempClient, SocketTypes, RoundTypes
    <2> DEFINE s == Min(todo)
    <2>2. Received(s) \in {"message", "closed", "nothing"}
      BY DEF Received
    <2>3. Received(s) = "message" <=> wire[s] # <<>>
      BY DEF Received
    <2>4. /\ UNCHANGED <<conn, owner, sent, backlog>>
          /\ wire' = IF Received(s) = "message" THEN [wire EXCEPT ![s] = Tail(wire[s])] ELSE wire
          /\ temp' = IF Received(s) = "nothing" THEN temp ELSE temp \ {s}
          /\ closed' = IF Received(s) = "closed" THEN closed \cup {s} ELSE closed
          /\ Received(s) = "message" => /\ socketMap' = Insert(owner[s], s)
                                        /\ recvQueue' = Append(recvQueue, Head(wire[s]))
          /\ Received(s) # "message" => UNCHANGED <<socketMap, recvQueue>>
      BY <1>1 DEF ReceiveFromTempClient, ReceiveFromSocket, Push
    <2> HIDE DEF s
    <2>5. NewSpeaks(s) \/ NewEnds(s) \/ Idles
      BY <2>2, <2>3, <2>4 DEF NewSpeaks, Reads, NewEnds, Idles
    <2> QED
      BY <2>1, <2>4, <2>5 DEF Communicates, s
  <1>2. CASE ReceiveFromPlayerClient
    <2>1. Min(todo) \in Players /\ socketMap[Min(todo)] # NoSocket
      BY <1>2, MinIsIn, SocketAssumption DEF ReceiveFromPlayerClient, SocketTypes, RoundTypes
    <2> DEFINE p == Min(todo)
               s == socketMap[p]
    <2>2. Received(s) \in {"message", "closed", "nothing"}
      BY DEF Received
    <2>3. Received(s) = "message" <=> wire[s] # <<>>
      BY DEF Received
    <2>4. /\ UNCHANGED <<conn, owner, sent, backlog, temp>>
          /\ wire' = IF Received(s) = "message" THEN [wire EXCEPT ![s] = Tail(wire[s])] ELSE wire
          /\ Received(s) = "closed" => ClosePlayerSocket(p) /\ Forget(p)
          /\ Received(s) = "message" => /\ recvQueue' = Append(recvQueue, Head(wire[s]))
                                        /\ UNCHANGED <<closed, socketMap>>
          /\ Received(s) = "nothing" => UNCHANGED <<closed, socketMap, recvQueue>>
      BY <1>2, <2>2 DEF ReceiveFromPlayerClient, ReceiveFromSocket, Push
    <2> HIDE DEF p
    <2>5. Speaks(p) \/ Ends(p) \/ Idles
      BY <2>1, <2>2, <2>3, <2>4 DEF Speaks, Reads, Ends, Idles, p
    <2> QED
      BY <2>1, <2>4, <2>5 DEF Communicates, p
  <1>3. CASE SendToClient
    <2>1. /\ UNCHANGED <<conn, owner, sent, wire, backlog, temp>>
          /\ \/ UNCHANGED <<closed, recvQueue, socketMap>>
             \/ /\ sendQueue # <<>>
                /\ socketMap[Head(sendQueue)] # NoSocket
                /\ ClosePlayerSocket(Head(sendQueue)) /\ Forget(Head(sendQueue))
      BY <1>3 DEF SendToClient, SendTo, network
    <2>2. sendQueue # <<>> => Head(sendQueue) \in Players
      BY HeadTailProperties DEF RoundTypes
    <2> QED
      BY <2>1, <2>2 DEF Communicates, Idles, Ends
  <1> QED
    BY <1>1, <1>2, <1>3 DEF Communicates, ServerCommunicaThread

-----------------------------------------------------------------------------
(* The homes of connections. *)

InMapOf(s) == \E p \in Players : socketMap[p] = s

Homes ==
  /\ \A p \in Players : socketMap[p] # NoSocket => owner[socketMap[p]] = p
  /\ \A s \in Sockets :
       /\ conn[s] = "none" <=> owner[s] = Nobody
       /\ conn[s] # "none" <=> s \in backlog \cup temp \cup closed \/ InMapOf(s)
       /\ ~(s \in backlog /\ s \in temp)
       /\ s \in backlog \cup temp => s \notin closed /\ ~InMapOf(s)
       /\ ~(InMapOf(s) /\ s \in closed)

\* A player has one connection at most that the server has not closed.
OneLive ==
  \A s, t \in Sockets :
    s # t /\ owner[s] = owner[t] /\ owner[s] # Nobody => s \in closed \/ t \in closed

HomeInv == SocketTypes /\ Homes /\ OneLive

LEMMA SocketsAreSome == Sockets \subseteq Nat /\ NoSocket \notin Sockets /\ Nobody \notin Players
  BY SocketAssumption DEF NoSocket, Nobody

LEMMA HomesOneHome ==
  ASSUME SocketTypes, Homes
  PROVE  OneHome
  <1>1. \A s \in Sockets : s \in InMap <=> InMapOf(s)
    BY SocketsAreSome DEF InMap, InMapOf
  <1>2. InMap \subseteq Sockets
    BY DEF InMap, SocketTypes
  <1> QED
    BY <1>1, <1>2 DEF Homes, OneHome, SocketTypes

LEMMA HomesInit == InitServer => Homes /\ OneLive
  BY SocketsAreSome
     DEF InitServer, Init, Homes, OneLive, InMapOf

LEMMA HomesConnect ==
  ASSUME "relogin" \notin Allowed, HomeInv, NEW p \in Players, NEW s \in Sockets,
         Connect(p, s)
  PROVE  Homes' /\ OneLive'
  <1>1. /\ conn[s] = "none" /\ owner[s] = Nobody
        /\ \A t \in Sockets : owner[t] = p => t \in closed
    BY DEF Connect, HomeInv, Homes
  <1>2. /\ \A t \in Sockets : conn'[t] = IF t = s THEN "open" ELSE conn[t]
        /\ \A t \in Sockets : owner'[t] = IF t = s THEN p ELSE owner[t]
        /\ backlog' = backlog \cup {s}
        /\ UNCHANGED <<temp, socketMap, closed>>
    BY DEF Connect, HomeInv, SocketTypes
  <1>3. \A t : InMapOf(t)' <=> InMapOf(t)
    BY <1>2 DEF InMapOf
  <1>4. ~InMapOf(s) /\ s \notin backlog \cup temp \cup closed
    BY <1>1 DEF HomeInv, Homes
  <1>5. \A q \in Players : socketMap'[q] # NoSocket => owner'[socketMap'[q]] = q
    <2>1. \A q \in Players : socketMap[q] # s
      BY <1>4 DEF InMapOf
    <2> QED
      BY <1>2, <2>1 DEF HomeInv, Homes, SocketTypes
  <1>6. Homes'
    BY <1>1, <1>2, <1>3, <1>4, <1>5, SocketsAreSome DEF HomeInv, Homes
  <1> QED
    BY <1>1, <1>2, <1>6, SocketsAreSome DEF HomeInv, OneLive

LEMMA HomesNewSpeaks ==
  ASSUME HomeInv, UNCHANGED <<conn, owner, backlog>>,
         NEW s \in temp, NewSpeaks(s)
  PROVE  Homes' /\ OneLive'
  <1> DEFINE p == owner[s]
  <1>1. s \in Sockets /\ s \notin closed /\ ~InMapOf(s) /\ p \in Players /\ s \notin backlog
    BY DEF HomeInv, Homes, SocketTypes
  <1>2. socketMap[p] = NoSocket
    <2>1. SUFFICES ASSUME socketMap[p] # NoSocket
                   PROVE  FALSE
      OBVIOUS
    <2>2. /\ socketMap[p] \in Sockets /\ owner[socketMap[p]] = p
          /\ InMapOf(socketMap[p])
      BY <1>1, <2>1 DEF HomeInv, Homes, SocketTypes, InMapOf
    <2>3. socketMap[p] \notin closed /\ socketMap[p] # s
      BY <1>1, <2>2 DEF HomeInv, Homes
    <2> QED
      BY <1>1, <2>2, <2>3, SocketsAreSome DEF HomeInv, OneLive
  <1> HIDE DEF p
  <1>3. /\ \A q \in Players : socketMap'[q] = IF q = p THEN s ELSE socketMap[q]
        /\ temp' = temp \ {s} /\ UNCHANGED closed
    BY <1>1, <1>2 DEF NewSpeaks, Insert, HomeInv, SocketTypes, p
  <1>4. \A t \in Sockets : InMapOf(t)' <=> InMapOf(t) \/ t = s
    BY <1>1, <1>2, <1>3, SocketsAreSome DEF InMapOf
  <1>5. \A q \in Players : socketMap'[q] # NoSocket => owner'[socketMap'[q]] = q
    BY <1>3 DEF HomeInv, Homes, p
  <1>6. conn[s] # "none"
    BY <1>1 DEF HomeInv, Homes
  <1> QED
    BY <1>1, <1>3, <1>4, <1>5, <1>6 DEF HomeInv, Homes, OneLive

LEMMA HomesNewEnds ==
  ASSUME HomeInv, UNCHANGED <<conn, owner, backlog>>,
         NEW s \in temp, NewEnds(s)
  PROVE  Homes' /\ OneLive'
  <1>1. s \in Sockets /\ s \notin backlog /\ ~InMapOf(s) /\ conn[s] # "none"
    BY DEF HomeInv, Homes, SocketTypes
  <1>2. /\ temp' = temp \ {s} /\ closed' = closed \cup {s} /\ UNCHANGED socketMap
    BY DEF NewEnds
  <1>3. \A t : InMapOf(t)' <=> InMapOf(t)
    BY <1>2 DEF InMapOf
  <1> QED
    BY <1>1, <1>2, <1>3 DEF HomeInv, Homes, OneLive

LEMMA HomesEnds ==
  ASSUME HomeInv, UNCHANGED <<conn, owner, backlog>>,
         NEW p \in Players, Ends(p)
  PROVE  Homes' /\ OneLive'
  <1> DEFINE s == socketMap[p]
  <1>1. s \in Sockets /\ InMapOf(s) /\ s \notin backlog \cup temp /\ conn[s] # "none"
    BY DEF HomeInv, Homes, SocketTypes, InMapOf, Ends
  <1>2. /\ \A q \in Players : socketMap'[q] = IF q = p THEN NoSocket ELSE socketMap[q]
        /\ closed' = closed \cup {s} /\ UNCHANGED temp
    BY DEF Ends, ClosePlayerSocket, Forget, HomeInv, SocketTypes
  <1>3. \A q \in Players : socketMap[q] = s => q = p
    BY <1>1, SocketsAreSome DEF HomeInv, Homes
  <1> HIDE DEF s
  <1>4. \A t \in Sockets : InMapOf(t)' <=> InMapOf(t) /\ t # s
    BY <1>2, <1>3, SocketsAreSome DEF InMapOf, s
  <1>5. \A q \in Players : socketMap'[q] # NoSocket => owner'[socketMap'[q]] = q
    BY <1>2 DEF HomeInv, Homes
  <1> QED
    BY <1>1, <1>2, <1>4, <1>5 DEF HomeInv, Homes, OneLive

LEMMA HomesStep ==
  ASSUME "relogin" \notin Allowed, HomeInv, RoundTypes, [Next]_vars
  PROVE  Homes' /\ OneLive'
  <1>0. ASSUME UNCHANGED <<owner, backlog, temp, socketMap, closed>>,
               \A s \in Sockets : conn'[s] = "none" <=> conn[s] = "none"
        PROVE  Homes' /\ OneLive'
    BY <1>0 DEF HomeInv, Homes, OneLive, InMapOf
  <1>1. CASE Client
    <2>1. ASSUME NEW s \in Sockets, NEW p \in Players, Connect(p, s)
          PROVE  Homes' /\ OneLive'
      BY <2>1, HomesConnect
    <2>2. ASSUME NEW s \in Sockets, Request(s)
          PROVE  Homes' /\ OneLive'
      BY <1>0, <2>2 DEF Request, Ask, Send, sockets
    <2>3. ASSUME NEW s \in Sockets, GiveUp(s)
          PROVE  Homes' /\ OneLive'
      BY <1>0, <2>3 DEF GiveUp, sockets, HomeInv, SocketTypes
    <2> QED
      BY <1>1, <2>1, <2>2, <2>3 DEF Client
  <1>2. ASSUME NEW s \in Sockets, Listens(s)
        PROVE  Homes' /\ OneLive'
    <2>1. /\ s \in backlog /\ backlog' = backlog \ {s} /\ temp' = temp \cup {s}
          /\ UNCHANGED <<conn, owner, socketMap, closed>>
      BY <1>2 DEF Listens, Accept, network
    <2>2. \A t : InMapOf(t)' <=> InMapOf(t)
      BY <2>1 DEF InMapOf
    <2> QED
      BY <2>1, <2>2 DEF HomeInv, Homes, OneLive
  <1>3. CASE Communicates
    <2>1. /\ UNCHANGED <<conn, owner, backlog>>
          /\ \/ \E s \in temp : NewSpeaks(s) \/ NewEnds(s)
             \/ \E p \in Players : Speaks(p) \/ Ends(p)
             \/ Idles
      BY <1>3, CommunicatesDoes DEF HomeInv
    <2>2. CASE Idles \/ \E p \in Players : Speaks(p)
      BY <1>0, <2>1, <2>2 DEF Idles, Speaks
    <2> QED
      BY <2>1, <2>2, HomesNewSpeaks, HomesNewEnds, HomesEnds
  <1>4. CASE Handles \/ UNCHANGED vars
    BY <1>0, <1>4 DEF Handles, DataThread, vars, network, sockets
  <1> QED
    BY <1>1, <1>2, <1>3, <1>4 DEF Next
-----------------------------------------------------------------------------
(* Every step keeps to the types. *)

\* The ids of the rooms that a client can ask for.
RoomsHaveIds == DOMAIN rooms \subseteq Data!RoomIds

LEMMA RoomsHaveIdsStep ==
  ASSUME RoomsHaveIds, NEW m \in MessageType, NEW p, Handler(m, p)
  PROVE  RoomsHaveIds'
  <1>0. CASE UNCHANGED rooms
    BY <1>0 DEF RoomsHaveIds
  <1>1. ASSUME NEW r, Data!RemovePlayerFromRoom(r, p)
        PROVE  RoomsHaveIds'
    BY <1>1 DEF RoomsHaveIds, Data!RemovePlayerFromRoom
  <1>2. CASE Data!RemovePlayer(p) \/ Data!MovePlayerFromRoomToLobby(p)
    BY <1>0, <1>1, <1>2
       DEF Data!RemovePlayer, Data!MovePlayerFromRoomToLobby, Data!Abort, Data!server
  <1>3. ASSUME NEW r, Data!MovePlayerToRoom(p, r)
        PROVE  RoomsHaveIds'
    BY <1>0, <1>3 DEF RoomsHaveIds, Data!MovePlayerToRoom, Data!Abort, Data!server
  <1>4. CASE Data!CreateRoom(p)
    <2>1. UNCHANGED rooms \/ \E r \in Data!RoomIds : DOMAIN rooms' = DOMAIN rooms \cup {r}
      BY <1>4 DEF Data!CreateRoom, Data!OpenRoom, Data!Abort, Data!server
    <2> QED
      BY <1>0, <2>1 DEF RoomsHaveIds
  <1>5. CASE Data!CreatePlayer(p) \/ Data!InRoomMessage(p)
    BY <1>0, <1>5 DEF Data!CreatePlayer, Data!InRoomMessage, Data!Abort, Data!server
  <1> QED
    BY <1>2, <1>3, <1>4, <1>5 DEF Handler, MessageType

\* Whoever a message is from has logged in under some name.
Signed == \A i \in 1 .. Len(recvQueue) : owner[recvQueue[i].from] # Nobody

LEMMA RequestMessage ==
  ASSUME RoomsHaveIds, NEW s \in Sockets, Request(s)
  PROVE  \E type \in {"LOGIN", "CREATE", "JOIN", "EXIT", "INPUT", "LOGOUT"},
            r \in Data!RoomIds : Send(s, type, r)
  <1>1. 0 \in Data!RoomIds
    BY ServerAssumption DEF Data!RoomIds
  <1> QED
    BY <1>1 DEF Request, Ask, RoomsHaveIds

LEMMA MessagesAre ==
  ASSUME NEW s \in Sockets, NEW n \in 0 .. MaxSent, NEW r \in Data!RoomIds,
         NEW type \in {"LOGIN", "CREATE", "JOIN", "EXIT", "INPUT", "LOGOUT"}
  PROVE  /\ Message(s, n, type, r) \in MessageType
         /\ Message(s, n, type, r).from = s
         /\ Message(s, n, type, r).n = n
         /\ Message(s, n, type, r).type = type
  BY DEF Message, MessageType

LEMMA LogoutIs ==
  ASSUME NEW s \in Sockets
  PROVE  /\ Message(s, 0, "LOGOUT", 0) \in MessageType
         /\ Message(s, 0, "LOGOUT", 0).from = s
         /\ Message(s, 0, "LOGOUT", 0).n = 0
         /\ Message(s, 0, "LOGOUT", 0).type = "LOGOUT"
  <1>1. 0 \in Data!RoomIds /\ 0 \in 0 .. MaxSent
    BY ServerAssumption, SocketAssumption DEF Data!RoomIds
  <1> QED
    BY <1>1, MessagesAre

LEMMA HeadIs ==
  ASSUME SocketTypes, Signed, recvQueue # <<>>
  PROVE  /\ Head(recvQueue) = recvQueue[1]
         /\ Head(recvQueue) \in MessageType
         /\ Head(recvQueue).from \in Sockets
         /\ Head(recvQueue).n \in 0 .. MaxSent
         /\ owner[Head(recvQueue).from] \in Players
         /\ 1 \in 1 .. Len(recvQueue)
         /\ Tail(recvQueue) \in Seq(MessageType)
  <1>1. /\ Head(recvQueue) \in MessageType /\ 1 \in 1 .. Len(recvQueue)
        /\ Head(recvQueue) = recvQueue[1]
        /\ Tail(recvQueue) \in Seq(MessageType)
    BY HeadTailProperties, EmptySeq DEF SocketTypes
  <1>2. Head(recvQueue).from \in Sockets /\ Head(recvQueue).n \in 0 .. MaxSent
    BY <1>1 DEF MessageType
  <1> QED
    BY <1>1, <1>2 DEF SocketTypes, Signed

LEMMA SocketTypesStep ==
  ASSUME SocketTypes, RoundTypes, RoomsHaveIds, Signed, [Next]_vars
  PROVE  SocketTypes'
  <1> USE DEF SocketTypes
  <1>0. SocketTypes
    OBVIOUS
  <1>1. CASE Client
    <2>1. ASSUME NEW s \in Sockets, NEW p \in Players, Connect(p, s), UNCHANGED <<data, view>>
          PROVE  SocketTypes'
      BY <1>0, <2>1 DEF Connect, data, queues
    <2>2. ASSUME NEW s \in Sockets, Request(s), UNCHANGED data
          PROVE  SocketTypes'
      <3>1. PICK type \in {"LOGIN", "CREATE", "JOIN", "EXIT", "INPUT", "LOGOUT"},
                 r \in Data!RoomIds : Send(s, type, r)
        BY <2>2, RequestMessage
      <3> DEFINE m == Message(s, sent[s] + 1, type, r)
      <3>2. m \in MessageType /\ sent[s] + 1 \in 0 .. MaxSent
        BY <1>0, <3>1, MessagesAre, SocketAssumption DEF Send
      <3>3. wire' = [wire EXCEPT ![s] = Append(wire[s], m)] /\ sent' = [sent EXCEPT ![s] = sent[s] + 1]
        BY <3>1 DEF Send
      <3> HIDE DEF m
      <3>4. Append(wire[s], m) \in Seq(MessageType)
        BY <1>0, <3>2, AppendProperties
      <3>5. view' \in [Sockets -> Views]
        BY <1>0, <2>2 DEF Request, Ask, Views
      <3>6. wire' \in [Sockets -> Seq(MessageType)] /\ sent' \in [Sockets -> 0 .. MaxSent]
        BY <1>0, <3>2, <3>3, <3>4
      <3> QED
        BY <1>0, <2>2, <3>1, <3>5, <3>6 DEF Send, sockets, queues, data
    <2>3. ASSUME NEW s \in Sockets, GiveUp(s), UNCHANGED <<data, view>>
          PROVE  SocketTypes'
      BY <1>0, <2>3 DEF GiveUp, sockets, queues, data
    <2> QED
      BY <1>1, <2>1, <2>2, <2>3 DEF Client
  <1>2. ASSUME NEW s \in Sockets, Listens(s)
        PROVE  SocketTypes'
    BY <1>0, <1>2 DEF Listens, Accept, network, queues, data
  <1>3. CASE Communicates
    <2>0. UNCHANGED <<conn, owner, sent, backlog, data, view>>
      BY <1>0, <1>3, CommunicatesDoes
    <2>1. ASSUME NEW s \in Sockets, Reads(s)
          PROVE  wire' \in [Sockets -> Seq(MessageType)] /\ recvQueue' \in Seq(MessageType)
      BY <1>0, <2>1, HeadTailProperties, AppendProperties DEF Reads
    <2>2. ASSUME NEW s \in temp, NewSpeaks(s)
          PROVE  SocketTypes'
      BY <1>0, <2>0, <2>1, <2>2 DEF NewSpeaks, Insert, data
    <2>3. ASSUME NEW s \in temp, NewEnds(s)
          PROVE  SocketTypes'
      BY <1>0, <2>0, <2>3 DEF NewEnds, data
    <2>4. ASSUME NEW p \in Players, Speaks(p)
          PROVE  SocketTypes'
      BY <1>0, <2>0, <2>1, <2>4 DEF Speaks, data
    <2>5. ASSUME NEW p \in Players, Ends(p)
          PROVE  SocketTypes'
      <3>1. /\ socketMap[p] \in Sockets
            /\ recvQueue' = Append(recvQueue, Message(socketMap[p], 0, "LOGOUT", 0))
        BY <1>0, <2>5 DEF Ends, ClosePlayerSocket, Push
      <3>2. recvQueue' \in Seq(MessageType)
        BY <1>0, <3>1, LogoutIs, AppendProperties
      <3> QED
        BY <1>0, <2>0, <2>5, <3>1, <3>2 DEF Ends, ClosePlayerSocket, Forget, data
    <2>6. CASE Idles
      BY <1>0, <2>0, <2>6 DEF Idles, data
    <2> QED
      BY <1>0, <1>3, <2>2, <2>3, <2>4, <2>5, <2>6, CommunicatesDoes
  <1>4. CASE Handles
    <2> DEFINE m == Head(recvQueue)
               p == owner[m.from]
    <2>1. recvQueue # <<>>
      BY <1>4 DEF Handles, DataThread
    <2>2. m.from \in Sockets /\ m.n \in 0 .. MaxSent /\ p \in Players /\ Tail(recvQueue) \in Seq(MessageType)
      BY <1>0, <2>1, HeadIs
    <2>3. /\ recvQueue' = Tail(recvQueue)
          /\ \/ current' = current
             \/ \E s \in {m.from, NoSocket} : current' = [current EXCEPT ![p] = s]
          /\ handled' = [handled EXCEPT ![m.from] = IF m.n = 0 THEN Over ELSE m.n]
          /\ UNCHANGED <<network, sockets, view>>
      BY <1>4 DEF Handles, DataThread
    <2> HIDE DEF m, p
    <2>4. Over \in 0 .. Over /\ m.n \in 0 .. Over
      BY <2>2, SocketAssumption DEF Over
    <2> QED
      BY <1>0, <2>2, <2>3, <2>4 DEF network, sockets
  <1>5. CASE UNCHANGED vars
    BY <1>0, <1>5 DEF vars, network, sockets, queues, data
  <1> QED
    BY <1>1, <1>2, <1>3, <1>4, <1>5 DEF Next

LEMMA ProceedTypes ==
  ASSUME NEW at \in {"temp", "player"}, NEW visits, Proceed(at, visits),
         at = "temp" => visits \subseteq temp',
         at = "player" => visits \subseteq Players /\ \A p \in visits : socketMap'[p] # NoSocket
  PROVE  /\ pass' \in {"temp", "player", "send"}
         /\ pass' = "temp" => todo' # {} /\ todo' \subseteq temp'
         /\ pass' = "player" => /\ todo' # {} /\ todo' \subseteq Players
                                /\ \A p \in todo' : socketMap'[p] # NoSocket
  <1>1. CASE visits # {}
    BY <1>1 DEF Proceed
  <1>2. CASE visits = {}
    BY <1>2 DEF Proceed, Listed
  <1> QED
    BY <1>1, <1>2

LEMMA RoundTypesStep ==
  ASSUME SocketTypes, RoundTypes, Signed, [Next]_vars
  PROVE  RoundTypes'
  <1> USE DEF RoundTypes
  <1>0. SocketTypes
    OBVIOUS
  <1>1. CASE UNCHANGED <<temp, socketMap, pass, todo, sendQueue>>
    BY <1>1
  <1>2. CASE Client \/ UNCHANGED vars
    BY <1>1, <1>2 DEF Client, Connect, Request, Ask, Send, GiveUp, sockets, thread, queues, vars
  <1>3. ASSUME NEW s \in Sockets, Listens(s)
        PROVE  RoundTypes'
    BY <1>3 DEF Listens, Accept, thread, queues
  <1>4. CASE Handles
    <2>1. /\ recvQueue # <<>>
          /\ \/ UNCHANGED sendQueue
             \/ sendQueue' = Append(sendQueue, owner[Head(recvQueue).from])
          /\ UNCHANGED <<temp, socketMap, pass, todo>>
      BY <1>4 DEF Handles, DataThread, Push, sockets, thread
    <2>2. sendQueue' \in Seq(Players)
      <3>1. owner[Head(recvQueue).from] \in Players
        BY <1>0, <2>1, HeadIs
      <3> QED
        BY <2>1, <3>1, AppendProperties
    <2> QED
      BY <2>1, <2>2
  <1>5. CASE ReceiveFromTempClient
    <2>1. /\ Proceed("temp", todo \ {Min(todo)})
          /\ todo \subseteq temp
          /\ temp' \in {temp, temp \ {Min(todo)}}
          /\ UNCHANGED sendQueue
      BY <1>5 DEF ReceiveFromTempClient
    <2> QED
      BY <2>1, ProceedTypes
  <1>6. CASE ReceiveFromPlayerClient
    <2> DEFINE p == Min(todo)
    <2>1. p \in Players /\ todo \subseteq Players /\ \A q \in todo : socketMap[q] # NoSocket
      BY <1>6, MinIsIn, SocketAssumption DEF ReceiveFromPlayerClient
    <2>2. Received(socketMap[p]) \in {"message", "closed", "nothing"}
      BY DEF Received
    <2>3. /\ Proceed("player", todo \ {p})
          /\ socketMap' = socketMap \/ Forget(p)
          /\ UNCHANGED sendQueue
      BY <1>6, <2>2 DEF ReceiveFromPlayerClient
    <2> HIDE DEF p
    <2>4. \A q \in todo \ {p} : socketMap'[q] = socketMap[q]
      BY <1>0, <2>1, <2>3 DEF Forget, SocketTypes
    <2> QED
      BY <2>1, <2>3, <2>4, ProceedTypes
  <1>7. CASE SendToClient
    <2>1. Proceed("temp", temp) /\ temp' = temp
      BY <1>7 DEF SendToClient
    <2>2. sendQueue' \in Seq(Players)
      BY <1>7, HeadTailProperties, EmptySeq DEF SendToClient
    <2> QED
      BY <2>1, <2>2, ProceedTypes
  <1> QED
    BY <1>2, <1>3, <1>4, <1>5, <1>6, <1>7 DEF Next, Communicates, ServerCommunicaThread

-----------------------------------------------------------------------------
(* The queue of messages to the data thread. *)

\* The n-th message of connection s is at place i of the queue.
Queued(i, s, n) ==
  i \in 1 .. Len(recvQueue) /\ recvQueue[i].from = s /\ recvQueue[i].n = n

\* It is there before place i, and: some message of s is.
Before(i, s, n) == \E j \in 1 .. i - 1 : Queued(j, s, n)
SomeBefore(i, s) == \E n \in 0 .. MaxSent : Before(i, s, n)

End == Len(recvQueue) + 1

LEMMA QueuedTypes ==
  ASSUME SocketTypes
  PROVE  /\ \A i, s, n : Queued(i, s, n) => i \in 1 .. Len(recvQueue) /\ s \in Sockets /\ n \in 0 .. MaxSent
         /\ Len(recvQueue) \in Nat
         /\ End \in Nat \ {0}
  <1>1. Len(recvQueue) \in Nat
    BY LenProperties DEF SocketTypes
  <1>2. \A i \in 1 .. Len(recvQueue) : recvQueue[i] \in MessageType
    BY ElementOfSeq DEF SocketTypes
  <1> QED
    BY <1>1, <1>2 DEF Queued, MessageType, End

LEMMA QueuedAfterPush ==
  ASSUME SocketTypes, NEW m \in MessageType, recvQueue' = Append(recvQueue, m)
  PROVE  /\ End' = End + 1
         /\ \A i, s, n : Queued(i, s, n)' <=> \/ Queued(i, s, n)
                                              \/ i = End /\ s = m.from /\ n = m.n
  <1>1. /\ Len(recvQueue') = Len(recvQueue) + 1
        /\ \A i \in 1 .. Len(recvQueue) : recvQueue'[i] = recvQueue[i]
        /\ recvQueue'[Len(recvQueue) + 1] = m
    BY AppendProperties DEF SocketTypes
  <1>2. Len(recvQueue) \in Nat
    BY QueuedTypes
  <1> QED
    BY <1>1, <1>2 DEF Queued, End

LEMMA QueuedAfterPop ==
  ASSUME SocketTypes, recvQueue # <<>>, recvQueue' = Tail(recvQueue)
  PROVE  /\ End' = End - 1
         /\ \A i, s, n : Queued(i, s, n)' <=> i \in Nat \ {0} /\ Queued(i + 1, s, n)
  <1>1. /\ Len(recvQueue') = Len(recvQueue) - 1
        /\ \A i \in 1 .. Len(recvQueue') : recvQueue'[i] = recvQueue[i + 1]
    BY HeadTailProperties DEF SocketTypes
  <1>2. Len(recvQueue) \in Nat
    BY QueuedTypes
  <1> QED
    BY <1>1, <1>2 DEF Queued, End

\* What is before a place stays, and the new message is before the new end.
LEMMA BeforeAfterPush ==
  ASSUME SocketTypes, NEW m \in MessageType, recvQueue' = Append(recvQueue, m)
  PROVE  /\ \A i \in 1 .. End : \A s, n : Before(i, s, n)' <=> Before(i, s, n)
         /\ \A i \in 1 .. End : \A s : SomeBefore(i, s)' <=> SomeBefore(i, s)
         /\ \A s, n : Before(End, s, n)' <=> Before(End, s, n) \/ (s = m.from /\ n = m.n)
         /\ \A s : SomeBefore(End, s)' <=> SomeBefore(End, s) \/ s = m.from
  <1>1. /\ End' = End + 1 /\ End \in Nat \ {0}
        /\ \A i, s, n : Queued(i, s, n)' <=> \/ Queued(i, s, n)
                                             \/ i = End /\ s = m.from /\ n = m.n
        /\ \A i, s, n : Queued(i, s, n) => i \in 1 .. End - 1
    BY QueuedAfterPush, QueuedTypes DEF End
  <1>2. \A i \in 1 .. End : \A s, n : Before(i, s, n)' <=> Before(i, s, n)
    BY <1>1 DEF Before
  <1>3. \A s, n : Before(End, s, n)' <=> Before(End, s, n) \/ (s = m.from /\ n = m.n)
    BY <1>1 DEF Before
  <1>4. m.n \in 0 .. MaxSent
    BY DEF MessageType
  <1>5. \A s : SomeBefore(End, s)' <=> SomeBefore(End, s) \/ s = m.from
    BY <1>3, <1>4 DEF SomeBefore
  <1> QED
    BY <1>2, <1>3, <1>5 DEF SomeBefore

\* Everything moves up by a place, but for the first message.
LEMMA BeforeAfterPop ==
  ASSUME SocketTypes, recvQueue # <<>>, recvQueue' = Tail(recvQueue)
  PROVE  /\ \A i \in Nat : \A s, n :
              /\ Before(i, s, n)' => Before(i + 1, s, n)
              /\ Before(i + 1, s, n) => Before(i, s, n)' \/ Queued(1, s, n)
         /\ \A i \in Nat : \A s :
              /\ SomeBefore(i, s)' => SomeBefore(i + 1, s)
              /\ SomeBefore(i + 1, s) => SomeBefore(i, s)' \/ \E n : Queued(1, s, n)
  <1>1. \A i, s, n : Queued(i, s, n)' <=> i \in Nat \ {0} /\ Queued(i + 1, s, n)
    BY QueuedAfterPop
  <1>2. \A i \in Nat : \A s, n : Before(i, s, n)' => Before(i + 1, s, n)
    BY <1>1 DEF Before
  <1>3. \A i \in Nat : \A s, n : Before(i + 1, s, n) => Before(i, s, n)' \/ Queued(1, s, n)
    <2> SUFFICES ASSUME NEW i \in Nat, NEW s, NEW n, NEW j \in 1 .. i, Queued(j, s, n), j # 1
                 PROVE  \E k \in 1 .. i - 1 : Queued(k, s, n)'
      BY DEF Before
    <2>1. j - 1 \in 1 .. i - 1 /\ (j - 1) + 1 = j
      OBVIOUS
    <2>2. PICK k \in 1 .. i - 1 : k + 1 = j
      BY <2>1
    <2>3. Queued(k + 1, s, n) /\ k \in Nat \ {0}
      BY <2>2
    <2>4. Queued(k, s, n)'
      BY <1>1, <2>3
    <2> QED
      BY <2>4
  <1> QED
    BY <1>2, <1>3 DEF SomeBefore

-----------------------------------------------------------------------------
(* What the data thread sees of a connection. *)

\* The session of connection s has begun and is not over.
Begun(s) == handled[s] \in 1 .. MaxSent

\* How many messages of s have been taken to the queue.
Pushed(s) == sent[s] - Len(wire[s])

\* A connection begins with a LOGIN_REQ, and is logged out at its end.
Proper(m) == (m.type = "LOGIN" <=> m.n = 1) /\ (m.n = 0 => m.type = "LOGOUT")

\* The messages on the wire are those that were sent last, in order.
OnWire(s) ==
  /\ Len(wire[s]) <= sent[s]
  /\ \A i \in 1 .. Len(wire[s]) :
       wire[s][i].from = s /\ wire[s][i].n = Pushed(s) + i /\ Proper(wire[s][i])

\* Those that visit the server first have not said anything, those of
\* socketMap have; and a session ends when the connection has been closed.
Marks(s) ==
  /\ view[s] = "login" <=> sent[s] = 0
  /\ conn[s] = "none" => sent[s] = 0
  /\ s \in backlog \cup temp => Pushed(s) = 0
  /\ InMapOf(s) => Pushed(s) > 0
  /\ handled[s] = Over => s \in closed
  /\ handled[s] # Over => handled[s] <= Pushed(s)

Wires == \A s \in Sockets : OnWire(s) /\ Marks(s)

Propers == \A i \in 1 .. Len(recvQueue) : Proper(recvQueue[i])

\* No message is left out, and the logout belongs to a session.
Next1(i, s, n) ==
  /\ handled[s] # Over /\ n <= Pushed(s)
  /\ n # 0 => handled[s] < n /\ (n = handled[s] + 1 \/ Before(i, s, n - 1))
  /\ n = 0 => s \in closed /\ (Begun(s) \/ SomeBefore(i, s))
NoneLeftOut == \A i, s, n : Queued(i, s, n) => Next1(i, s, n)

\* The messages of a connection are in order, its logout is the last.
InOrder ==
  \A i, j, s, n, k :
    Queued(i, s, n) /\ Queued(j, s, k) /\ i < j => n # 0 /\ (k = 0 \/ n < k)

\* What was taken from the wire last has been handled or is in the queue.
LastQueued ==
  \A s \in Sockets : handled[s] \in {Over, Pushed(s)} \/ Before(End, s, Pushed(s))

\* Between a player's messages on two connections there is a logout.
Alternate(j, s, t) ==
  s # t /\ owner[s] = owner[t] /\ (Begun(t) \/ SomeBefore(j, t)) => Before(j, t, 0)
InTurn == \A j, s, n : Queued(j, s, n) => \A t \in Sockets : Alternate(j, s, t)

\* A connection that was closed in its session is being logged out.
ClosedLogOut == \A s \in closed : Begun(s) \/ SomeBefore(End, s) => Before(End, s, 0)

\* The session of a player is that of the connection that has begun.
OneSession ==
  \A s \in Sockets, p \in Players : current[p] = s <=> owner[s] = p /\ Begun(s)

Traffic == Propers /\ NoneLeftOut /\ InOrder /\ LastQueued /\ InTurn /\ ClosedLogOut

\* A message of a connection that is open is added to the queue, or its logout.
Adds(s, m) ==
  /\ m \in MessageType /\ m.from = s /\ Proper(m)
  /\ s \notin closed /\ owner[s] # Nobody
  /\ recvQueue' = Append(recvQueue, m)
  /\ \A t \in Sockets \ {s} : Pushed(t)' = Pushed(t)
  /\ \/ m.n = Pushed(s) + 1 /\ Pushed(s)' = Pushed(s) + 1 /\ closed' = closed
     \/ m.n = 0 /\ Pushed(s)' = Pushed(s) /\ Pushed(s) > 0 /\ closed' = closed \cup {s}

LEMMA PushedTypes ==
  ASSUME SocketTypes, Wires, NEW s \in Sockets
  PROVE  Pushed(s) \in 0 .. MaxSent /\ handled[s] \in 0 .. Over /\ MaxSent \in Nat
  BY LenProperties, SocketAssumption DEF SocketTypes, Wires, OnWire, Pushed, Over

LEMMA AddsTraffic ==
  ASSUME HomeInv, Wires, Signed, Traffic, NEW s \in Sockets, NEW m, Adds(s, m),
         UNCHANGED <<owner, handled>>
  PROVE  Signed' /\ Traffic'
  <1>0. SocketTypes /\ m \in MessageType /\ m.from = s /\ recvQueue' = Append(recvQueue, m)
    BY DEF HomeInv, Adds
  <1>1. /\ End' = End + 1 /\ End \in Nat \ {0}
        /\ \A i, t, n : Queued(i, t, n)' <=> \/ Queued(i, t, n)
                                             \/ i = End /\ t = s /\ n = m.n
        /\ \A i, t, n : Queued(i, t, n) => i \in 1 .. End - 1 /\ t \in Sockets /\ n \in 0 .. MaxSent
    BY <1>0, QueuedAfterPush, QueuedTypes DEF End
  <1>2. /\ \A i \in 1 .. End : \A t, n : Before(i, t, n)' <=> Before(i, t, n)
        /\ \A i \in 1 .. End : \A t : SomeBefore(i, t)' <=> SomeBefore(i, t)
        /\ \A t, n : Before(End, t, n)' <=> Before(End, t, n) \/ (t = s /\ n = m.n)
        /\ \A t : SomeBefore(End, t)' <=> SomeBefore(End, t) \/ t = s
    BY <1>0, BeforeAfterPush
  <1>3. /\ \A t \in Sockets : Pushed(t) \in 0 .. MaxSent /\ handled[t] \in 0 .. Over
        /\ \A t \in Sockets : Pushed(t)' >= Pushed(t) /\ Pushed(t)' \in Int
        /\ MaxSent \in Nat /\ m.n \in 0 .. MaxSent
    BY <1>0, PushedTypes DEF Adds, MessageType
  <1>4. \A t : Begun(t)' <=> Begun(t)
    BY DEF Begun
  <1>5. handled[s] # Over /\ handled[s] <= Pushed(s) /\ s \notin closed
    BY DEF Wires, Marks, Adds
  <1>6. Signed' /\ Propers'
    <2>1. /\ Len(recvQueue') = Len(recvQueue) + 1 /\ Len(recvQueue) \in Nat
          /\ \A i \in 1 .. Len(recvQueue) : recvQueue'[i] = recvQueue[i]
          /\ recvQueue'[Len(recvQueue) + 1] = m
      BY <1>0, AppendProperties, LenProperties DEF SocketTypes
    <2> QED
      BY <1>0, <2>1 DEF Signed, Traffic, Propers, Adds
  <1>7. NoneLeftOut'
    <2> SUFFICES ASSUME NEW i, NEW t, NEW n, Queued(i, t, n)'
                 PROVE  Next1(i, t, n)'
      BY DEF NoneLeftOut
    <2>1. CASE Queued(i, t, n)
      <3>1. Next1(i, t, n) /\ i \in 1 .. End /\ t \in Sockets /\ n \in 0 .. MaxSent
        BY <1>1, <2>1 DEF Traffic, NoneLeftOut
      <3>2. closed \subseteq closed'
        BY DEF Adds
      <3>3. /\ SomeBefore(i, t)' <=> SomeBefore(i, t)
            /\ Before(i, t, n - 1)' <=> Before(i, t, n - 1)
        BY <1>2, <3>1
      <3>4. /\ Begun(t)' <=> Begun(t)
            /\ Pushed(t)' >= Pushed(t) /\ Pushed(t)' \in Int /\ Pushed(t) \in Int
            /\ handled'[t] = handled[t]
        BY <1>3, <1>4, <3>1
      <3> QED
        BY <3>1, <3>2, <3>3, <3>4 DEF Next1, Over
    <2>2. CASE i = End /\ t = s /\ n = m.n
      <3>1. handled[s] = Pushed(s) \/ Before(End, s, Pushed(s))
        BY <1>5 DEF Traffic, LastQueued
      <3>2. Before(End, s, Pushed(s)) => SomeBefore(End, s)
        BY <1>3 DEF SomeBefore
      <3>3. /\ \A k : Before(i, t, k)' <=> Before(i, t, k)
            /\ SomeBefore(i, t)' <=> SomeBefore(i, t)
        BY <1>1, <1>2, <2>2
      <3>4. /\ Begun(t)' <=> Begun(t)
            /\ Pushed(t)' \in Int /\ Pushed(t) \in 0 .. MaxSent
            /\ handled'[t] = handled[t] /\ handled[t] \in 0 .. Over
        BY <1>3, <1>4, <2>2
      <3>5. CASE n = 0
        BY <1>3, <1>5, <2>2, <3>1, <3>2, <3>3, <3>4, <3>5 DEF Adds, Next1, Begun, Over
      <3>6. CASE n # 0
        <4>1. n = Pushed(t) + 1 /\ Pushed(t)' = n
          BY <2>2, <3>6 DEF Adds
        <4>2. n - 1 = Pushed(t)
          BY <3>4, <4>1
        <4>3. handled[t] + 1 = n \/ Before(i, t, n - 1)'
          BY <2>2, <3>1, <3>3, <4>1, <4>2
        <4> QED
          BY <1>5, <2>2, <3>4, <3>6, <4>1, <4>3 DEF Next1, Over
      <3> QED
        BY <3>5, <3>6
    <2> QED
      BY <1>1, <2>1, <2>2
  <1>8. InOrder'
    <2> SUFFICES ASSUME NEW i, NEW j, NEW t, NEW n, NEW k,
                        Queued(i, t, n)', Queued(j, t, k)', i < j
                 PROVE  n # 0 /\ (k = 0 \/ n < k)
      BY DEF InOrder
    <2>1. CASE Queued(i, t, n) /\ Queued(j, t, k)
      BY <2>1 DEF Traffic, InOrder
    <2>2. CASE Queued(i, t, n) /\ j = End /\ t = s /\ k = m.n
      <3>1. Next1(i, s, n) /\ n \in 0 .. MaxSent
        BY <1>1, <2>2 DEF Traffic, NoneLeftOut
      <3> QED
        BY <1>3, <1>5, <2>2, <3>1 DEF Next1, Adds
    <2> QED
      BY <1>1, <2>1, <2>2
  <1>9. LastQueued'
    <2> SUFFICES ASSUME NEW t \in Sockets
                 PROVE  (handled[t] \in {Over, Pushed(t)} \/ Before(End, t, Pushed(t)))'
      BY DEF LastQueued
    <2>1. CASE Pushed(t)' = Pushed(t)
      <3>1. handled[t] \in {Over, Pushed(t)} \/ Before(End, t, Pushed(t))
        BY DEF Traffic, LastQueued
      <3>2. Before(End, t, Pushed(t)) => Before(End, t, Pushed(t))'
        BY <1>2, <2>1
      <3> QED
        BY <2>1, <3>1, <3>2 DEF Over
    <2>2. CASE Pushed(t)' # Pushed(t)
      <3>1. t = s /\ m.n = Pushed(s)'
        BY <2>2 DEF Adds
      <3> QED
        BY <1>2, <3>1
    <2> QED
      BY <2>1, <2>2
  <1>10. ClosedLogOut'
    <2> SUFFICES ASSUME NEW t \in closed', (Begun(t) \/ SomeBefore(End, t))'
                 PROVE  Before(End, t, 0)'
      BY DEF ClosedLogOut
    <2>1. CASE t \in closed
      <3>1. t # s
        BY <1>5, <2>1
      <3>2. Begun(t) \/ SomeBefore(End, t)
        BY <1>2, <1>4, <3>1
      <3>3. Before(End, t, 0)
        BY <2>1, <3>2 DEF Traffic, ClosedLogOut
      <3> QED
        BY <1>2, <3>3
    <2>2. CASE t \notin closed
      <3>1. t = s /\ m.n = 0
        BY <2>2 DEF Adds
      <3> QED
        BY <1>2, <3>1
    <2> QED
      BY <2>1, <2>2
  <1>11. InTurn'
    <2> SUFFICES ASSUME NEW j, NEW u, NEW n, Queued(j, u, n)', NEW t \in Sockets,
                        u # t, owner[u] = owner[t], (Begun(t) \/ SomeBefore(j, t))'
                 PROVE  Before(j, t, 0)'
      BY DEF InTurn, Alternate
    <2>1. CASE Queued(j, u, n)
      <3>1. j \in 1 .. End
        BY <1>1, <2>1
      <3>2. Begun(t) \/ SomeBefore(j, t)
        BY <1>2, <1>4, <3>1
      <3>3. Before(j, t, 0)
        BY <2>1, <3>2 DEF Traffic, InTurn, Alternate
      <3> QED
        BY <1>2, <3>1, <3>3
    <2>2. CASE j = End /\ u = s /\ n = m.n
      <3>1. t \in closed
        BY <1>5, <2>2 DEF Adds, HomeInv, OneLive
      <3>2. j \in 1 .. End
        BY <1>1, <2>2
      <3>3. Begun(t) \/ SomeBefore(End, t)
        BY <1>2, <1>4, <2>2, <3>2
      <3>4. Before(End, t, 0)
        BY <3>1, <3>3 DEF Traffic, ClosedLogOut
      <3> QED
        BY <1>2, <2>2, <3>2, <3>4
    <2> QED
      BY <1>1, <2>1, <2>2
  <1> QED
    BY <1>6, <1>7, <1>8, <1>9, <1>10, <1>11 DEF Traffic

\* The message at the head of the queue, the n-th of s, is handled.
Takes(s, n) ==
  /\ recvQueue # <<>> /\ recvQueue' = Tail(recvQueue)
  /\ Queued(1, s, n) /\ \A t, k : Queued(1, t, k) => t = s /\ k = n
  /\ \A t \in Sockets : handled'[t] = IF t = s THEN IF n = 0 THEN Over ELSE n ELSE handled[t]

\* It is the next of a session, or its logout, and no other message of s follows that.
LEMMA TakesTheNext ==
  ASSUME SocketTypes, Wires, Traffic, NEW s \in Sockets, NEW n \in 0 .. MaxSent, Takes(s, n)
  PROVE  /\ handled[s] # Over /\ n <= Pushed(s)
         /\ n # 0 => n = handled[s] + 1
         /\ n = 0 => s \in closed /\ Begun(s)
         /\ \A j, k : Queued(j, s, k) /\ j # 1 => n # 0 /\ (k = 0 \/ n < k)
         /\ \A t \in Sockets : t # s /\ owner[t] = owner[s] => ~Begun(t)
  <1>1. \A t, k : ~Before(1, t, k) /\ ~SomeBefore(1, t)
    BY DEF Before, SomeBefore
  <1>2. Next1(1, s, n)
    BY DEF Takes, Traffic, NoneLeftOut
  <1>3. \A j, k : Queued(j, s, k) /\ j # 1 => n # 0 /\ (k = 0 \/ n < k)
    <2>1. \A j, t, k : Queued(j, t, k) => j \in 1 .. Len(recvQueue)
      BY QueuedTypes
    <2>2. \A j, k : Queued(j, s, k) /\ j # 1 => 1 < j
      BY <2>1, QueuedTypes
    <2> QED
      BY <2>2 DEF Takes, Traffic, InOrder
  <1>4. \A t \in Sockets : t # s /\ owner[t] = owner[s] => ~Begun(t)
    BY <1>1 DEF Takes, Traffic, InTurn, Alternate
  <1> QED
    BY <1>1, <1>2, <1>3, <1>4 DEF Next1

LEMMA TakesTraffic ==
  ASSUME HomeInv, Wires, Signed, Traffic, NEW s \in Sockets, NEW n \in 0 .. MaxSent, Takes(s, n),
         UNCHANGED <<owner, closed, sent, wire>>
  PROVE  Signed' /\ Traffic'
  <1>0. SocketTypes /\ recvQueue # <<>> /\ recvQueue' = Tail(recvQueue)
    BY DEF HomeInv, Takes
  <1>1. /\ handled[s] # Over /\ n <= Pushed(s)
        /\ n # 0 => n = handled[s] + 1
        /\ n = 0 => s \in closed /\ Begun(s)
        /\ \A j, k : Queued(j, s, k) /\ j # 1 => n # 0 /\ (k = 0 \/ n < k)
    BY <1>0, TakesTheNext
  <1>2. /\ End \in Nat /\ End' \in Nat /\ End = End' + 1 /\ End > 1
        /\ \A i, t, k : Queued(i, t, k)' <=> i \in Nat \ {0} /\ Queued(i + 1, t, k)
        /\ \A i, t, k : Queued(i, t, k) => i \in 1 .. End - 1 /\ t \in Sockets /\ k \in 0 .. MaxSent
    <2>1. \A i, t, k : Queued(i, t, k) => i \in 1 .. End - 1 /\ t \in Sockets /\ k \in 0 .. MaxSent
      BY <1>0, QueuedTypes DEF End
    <2>2. 1 \in 1 .. End - 1
      BY <2>1 DEF Takes
    <2> QED
      BY <1>0, <2>1, <2>2, QueuedAfterPop, QueuedTypes
  <1>3. \A i \in Nat : \A t \in Sockets :
          /\ \A k : Before(i, t, k)' => Before(i + 1, t, k)
          /\ \A k : Before(i + 1, t, k) => Before(i, t, k)' \/ (t = s /\ k = n)
          /\ SomeBefore(i, t)' => SomeBefore(i + 1, t)
          /\ SomeBefore(i + 1, t) => SomeBefore(i, t)' \/ t = s
    BY <1>0, BeforeAfterPop DEF Takes
  <1>4. /\ MaxSent \in Nat
        /\ \A t \in Sockets : /\ Pushed(t) \in 0 .. MaxSent /\ Pushed(t)' = Pushed(t)
                              /\ handled[t] \in 0 .. Over
    BY <1>0, PushedTypes DEF Pushed
  <1>5. \A t \in Sockets : IF t = s THEN Begun(t)' <=> n # 0 ELSE Begun(t)' <=> Begun(t)
    BY <1>4 DEF Begun, Takes, Over
  <1>6. \A i : n = 0 => ~SomeBefore(i, s)'
    BY <1>1, <1>2 DEF SomeBefore, Before
  <1>7. Signed' /\ Propers'
    <2>1. /\ Len(recvQueue') = Len(recvQueue) - 1 /\ Len(recvQueue) \in Nat
          /\ \A i \in 1 .. Len(recvQueue') : recvQueue'[i] = recvQueue[i + 1]
      BY <1>0, HeadTailProperties, LenProperties DEF SocketTypes
    <2> QED
      BY <1>0, <2>1 DEF Signed, Traffic, Propers
  <1>8. NoneLeftOut'
    <2> SUFFICES ASSUME NEW i, NEW t, NEW k, Queued(i, t, k)'
                 PROVE  Next1(i, t, k)'
      BY DEF NoneLeftOut
    <2>1. /\ i \in Nat \ {0} /\ Queued(i + 1, t, k) /\ Next1(i + 1, t, k)
          /\ t \in Sockets /\ k \in 0 .. MaxSent
      BY <1>2 DEF Traffic, NoneLeftOut
    <2>2. CASE t # s
      <3>1. Before(i + 1, t, k - 1) => Before(i, t, k - 1)'
        BY <1>3, <2>1, <2>2
      <3>2. SomeBefore(i + 1, t) => SomeBefore(i, t)'
        BY <1>3, <2>1, <2>2
      <3>3. handled'[t] = handled[t] /\ (Begun(t)' <=> Begun(t)) /\ Pushed(t)' = Pushed(t)
        BY <1>4, <1>5, <2>1, <2>2 DEF Takes
      <3> QED
        BY <2>1, <3>1, <3>2, <3>3 DEF Next1, Over
    <2>3. CASE t = s
      <3>1. i + 1 # 1
        BY <2>1
      <3>2. n # 0 /\ (k = 0 \/ n < k)
        BY <1>1, <2>1, <2>3, <3>1
      <3>3. handled'[t] = n /\ Begun(t)' /\ Pushed(t)' = Pushed(t)
        BY <1>4, <1>5, <2>1, <2>3, <3>2 DEF Takes
      <3>4. Before(i + 1, t, k - 1) => Before(i, t, k - 1)' \/ k - 1 = n
        BY <1>3, <2>1
      <3>5. k # 0 => k - 1 = n \/ Before(i, t, k - 1)'
        BY <1>1, <2>1, <2>3, <3>2, <3>4 DEF Next1
      <3>6. k - 1 = n => k = n + 1
        BY <2>1
      <3> QED
        BY <1>4, <2>1, <3>2, <3>3, <3>5, <3>6 DEF Next1, Over
    <2> QED
      BY <2>2, <2>3
  <1>9. InOrder'
    <2> SUFFICES ASSUME NEW i, NEW j, NEW t, NEW l, NEW k,
                        Queued(i, t, l)', Queued(j, t, k)', i < j
                 PROVE  l # 0 /\ (k = 0 \/ l < k)
      BY DEF InOrder
    <2>1. Queued(i + 1, t, l) /\ Queued(j + 1, t, k) /\ i + 1 < j + 1
      BY <1>2
    <2> QED
      BY <2>1 DEF Traffic, InOrder
  <1>10. LastQueued'
    <2> SUFFICES ASSUME NEW t \in Sockets
                 PROVE  (handled[t] \in {Over, Pushed(t)} \/ Before(End, t, Pushed(t)))'
      BY DEF LastQueued
    <2>1. handled[t] \in {Over, Pushed(t)} \/ Before(End' + 1, t, Pushed(t))
      BY <1>2 DEF Traffic, LastQueued
    <2>2. Before(End' + 1, t, Pushed(t)) => Before(End, t, Pushed(t))' \/ (t = s /\ Pushed(t) = n)
      BY <1>2, <1>3, <1>4
    <2>3. CASE t # s
      BY <1>4, <2>1, <2>2, <2>3 DEF Takes, Over
    <2>4. CASE t = s
      BY <1>1, <1>4, <2>1, <2>2, <2>4 DEF Takes, Over
    <2> QED
      BY <2>3, <2>4
  <1>11. InTurn'
    <2> SUFFICES ASSUME NEW j, NEW u, NEW k, Queued(j, u, k)', NEW t \in Sockets,
                        u # t, owner[u] = owner[t], (Begun(t) \/ SomeBefore(j, t))'
                 PROVE  Before(j, t, 0)'
      BY DEF InTurn, Alternate
    <2>1. j \in Nat \ {0} /\ Queued(j + 1, u, k)
      BY <1>2
    <2>2. t = s => n # 0 /\ SomeBefore(j + 1, t)
      <3>1. t = s => n # 0
        BY <1>5, <1>6
      <3>2. Before(j + 1, s, n)
        BY <2>1 DEF Before, Takes
      <3> QED
        BY <3>1, <3>2 DEF SomeBefore
    <2>3. Begun(t) \/ SomeBefore(j + 1, t)
      BY <1>3, <1>5, <2>1, <2>2
    <2>4. Before(j + 1, t, 0)
      BY <2>1, <2>3 DEF Traffic, InTurn, Alternate
    <2> QED
      BY <1>3, <2>1, <2>2, <2>4
  <1>12. ClosedLogOut'
    <2> SUFFICES ASSUME NEW t \in closed, (Begun(t) \/ SomeBefore(End, t))'
                 PROVE  Before(End, t, 0)'
      BY DEF ClosedLogOut
    <2>0. t \in Sockets
      BY <1>0 DEF SocketTypes
    <2>1. t = s => n # 0 /\ SomeBefore(End, t)
      <3>1. t = s => n # 0
        BY <1>5, <1>6
      <3>2. Before(End, s, n)
        BY <1>2 DEF Before, Takes
      <3> QED
        BY <3>1, <3>2 DEF SomeBefore
    <2>2. Begun(t) \/ SomeBefore(End, t)
      BY <1>2, <1>3, <1>5, <2>0, <2>1
    <2>3. Before(End, t, 0)
      BY <2>2 DEF Traffic, ClosedLogOut
    <2> QED
      BY <1>2, <1>3, <2>0, <2>1, <2>3
  <1> QED
    BY <1>7, <1>8, <1>9, <1>10, <1>11, <1>12 DEF Traffic

-----------------------------------------------------------------------------
(* Every step keeps to what is on the wires. *)

\* Nothing that is said of a connection changes, or more of it is closed.
LEMMA WiresStay ==
  ASSUME Wires, NEW s \in Sockets,
         wire'[s] = wire[s], sent'[s] = sent[s], view'[s] = view[s], handled'[s] = handled[s],
         conn'[s] = "none" => conn[s] = "none",
         s \in backlog' \cup temp' => s \in backlog \cup temp,
         InMapOf(s)' => InMapOf(s),
         closed \subseteq closed'
  PROVE  OnWire(s)' /\ Marks(s)'
  <1>1. Pushed(s)' = Pushed(s)
    BY DEF Pushed
  <1>2. OnWire(s)'
    BY <1>1 DEF Wires, OnWire, Proper
  <1>3. Marks(s)'
    BY <1>1 DEF Wires, Marks, Over
  <1> QED
    BY <1>2, <1>3

LEMMA ReadsWire ==
  ASSUME SocketTypes, Wires, NEW s \in Sockets, Reads(s), UNCHANGED sent
  PROVE  /\ Head(wire[s]) \in MessageType /\ Head(wire[s]).from = s
         /\ Head(wire[s]).n = Pushed(s) + 1 /\ Proper(Head(wire[s]))
         /\ Pushed(s)' = Pushed(s) + 1
         /\ OnWire(s)'
         /\ \A t \in Sockets \ {s} : wire'[t] = wire[t] /\ Pushed(t)' = Pushed(t)
  <1>1. wire[s] \in Seq(MessageType) /\ wire[s] # <<>>
    BY DEF SocketTypes, Reads
  <1>2. /\ Len(wire[s]) \in Nat /\ Len(wire[s]) >= 1
        /\ Head(wire[s]) = wire[s][1] /\ Head(wire[s]) \in MessageType
        /\ Len(Tail(wire[s])) = Len(wire[s]) - 1
        /\ \A i \in 1 .. Len(Tail(wire[s])) : Tail(wire[s])[i] = wire[s][i + 1]
    BY <1>1, HeadTailProperties, EmptySeq, LenProperties
  <1>3. /\ wire'[s] = Tail(wire[s]) /\ sent'[s] = sent[s]
        /\ \A t \in Sockets \ {s} : wire'[t] = wire[t] /\ sent'[t] = sent[t]
    BY DEF SocketTypes, Reads
  <1>4. sent[s] \in Nat
    BY SocketAssumption DEF SocketTypes
  <1>5. Pushed(s)' = Pushed(s) + 1
    BY <1>2, <1>3, <1>4 DEF Pushed
  <1>6. Head(wire[s]).from = s /\ Head(wire[s]).n = Pushed(s) + 1 /\ Proper(Head(wire[s]))
    BY <1>2 DEF Wires, OnWire
  <1>7. OnWire(s)'
    <2>1. Len(wire'[s]) <= sent'[s]
      BY <1>2, <1>3, <1>4 DEF Wires, OnWire
    <2>2. ASSUME NEW i \in 1 .. Len(wire'[s])
          PROVE  /\ wire'[s][i].from = s /\ wire'[s][i].n = Pushed(s) + 1 + i
                 /\ Proper(wire'[s][i])
      <3>1. i + 1 \in 1 .. Len(wire[s]) /\ wire'[s][i] = wire[s][i + 1]
        BY <1>2, <1>3
      <3>2. wire[s][i + 1].n = Pushed(s) + (i + 1)
        BY <3>1 DEF Wires, OnWire
      <3>3. Pushed(s) + (i + 1) = Pushed(s) + 1 + i
        BY <1>2, <1>4, <3>1 DEF Pushed
      <3> QED
        BY <3>1, <3>2, <3>3 DEF Wires, OnWire
    <2> QED
      BY <1>5, <2>1, <2>2 DEF OnWire, Proper
  <1>8. \A t \in Sockets \ {s} : Pushed(t)' = Pushed(t)
    BY <1>3 DEF Pushed
  <1> QED
    BY <1>2, <1>3, <1>5, <1>6, <1>7, <1>8

LEMMA WiresRequest ==
  ASSUME SocketTypes, Wires, RoomsHaveIds, NEW s \in Sockets, Request(s), UNCHANGED data
  PROVE  Wires'
  <1>1. PICK type \in {"LOGIN", "CREATE", "JOIN", "EXIT", "INPUT", "LOGOUT"}, r \in Data!RoomIds :
          /\ Send(s, type, r)
          /\ type = "LOGIN" <=> view[s] = "login"
          /\ view'[s] # "login" /\ \A t \in Sockets \ {s} : view'[t] = view[t]
    <2>1. 0 \in Data!RoomIds
      BY ServerAssumption DEF Data!RoomIds
    <2> QED
      BY <2>1 DEF Request, Ask, RoomsHaveIds, SocketTypes
  <1> DEFINE m == Message(s, sent[s] + 1, type, r)
  <1>2. sent[s] \in Nat /\ sent[s] + 1 \in 0 .. MaxSent
    BY <1>1, SocketAssumption DEF Send, SocketTypes
  <1>3. m \in MessageType /\ m.from = s /\ m.n = sent[s] + 1 /\ m.type = type
    BY <1>2, MessagesAre
  <1>4. /\ wire'[s] = Append(wire[s], m) /\ sent'[s] = sent[s] + 1
        /\ \A t \in Sockets \ {s} : wire'[t] = wire[t] /\ sent'[t] = sent[t]
        /\ UNCHANGED <<conn, backlog, temp, socketMap, closed, handled>>
        /\ conn[s] = "open"
    BY <1>1 DEF Send, SocketTypes, sockets, data
  <1> HIDE DEF m
  <1>5. ASSUME NEW t \in Sockets \ {s}
        PROVE  OnWire(t)' /\ Marks(t)'
    BY <1>1, <1>4, WiresStay DEF InMapOf
  <1>6. /\ Len(wire[s]) \in Nat /\ Len(wire'[s]) = Len(wire[s]) + 1
        /\ \A i \in 1 .. Len(wire[s]) : wire'[s][i] = wire[s][i]
        /\ wire'[s][Len(wire[s]) + 1] = m
    BY <1>3, <1>4, AppendProperties, LenProperties DEF SocketTypes
  <1>7. Pushed(s)' = Pushed(s) /\ Pushed(s) + (Len(wire[s]) + 1) = sent[s] + 1
    BY <1>2, <1>4, <1>6 DEF Pushed
  <1>8. Proper(m)
    BY <1>1, <1>2, <1>3 DEF Proper, Wires, Marks
  <1>9. OnWire(s)'
    <2>1. Len(wire'[s]) <= sent'[s]
      BY <1>2, <1>4, <1>6 DEF Wires, OnWire
    <2>2. ASSUME NEW i \in 1 .. Len(wire'[s])
          PROVE  /\ wire'[s][i].from = s /\ wire'[s][i].n = Pushed(s) + i /\ Proper(wire'[s][i])
      <3>1. CASE i \in 1 .. Len(wire[s])
        BY <1>6, <3>1 DEF Wires, OnWire
      <3>2. CASE i = Len(wire[s]) + 1
        BY <1>3, <1>6, <1>7, <1>8, <3>2
      <3> QED
        BY <1>6, <3>1, <3>2
    <2> QED
      BY <1>7, <2>1, <2>2 DEF OnWire, Proper
  <1>10. Marks(s)'
    <2>1. InMapOf(s)' <=> InMapOf(s)
      BY <1>4 DEF InMapOf
    <2> QED
      BY <1>1, <1>2, <1>4, <1>7, <2>1 DEF Wires, Marks, Over
  <1> QED
    BY <1>5, <1>9, <1>10 DEF Wires

\* What the communication thread does to one connection, and to the queue.
LEMMA WiresCommunicates ==
  ASSUME HomeInv, RoundTypes, Wires, Communicates
  PROVE  /\ Wires'
         /\ \/ \E s \in Sockets : \E m : Adds(s, m)
            \/ /\ UNCHANGED <<wire, sent, recvQueue>>
               /\ \/ UNCHANGED closed
                  \/ \E s \in Sockets : Pushed(s) = 0 /\ s \notin closed /\ closed' = closed \cup {s}
  <1>0. SocketTypes
    BY DEF HomeInv
  <1>1. /\ UNCHANGED <<conn, owner, sent, backlog, data, view>>
        /\ \/ \E s \in temp : NewSpeaks(s) \/ NewEnds(s)
           \/ \E p \in Players : Speaks(p) \/ Ends(p)
           \/ Idles
    BY <1>0, CommunicatesDoes
  <1>2. UNCHANGED handled
    BY <1>1 DEF data
  <1>3. ASSUME NEW s \in Sockets, Reads(s), conn[s] # "none",
               s \notin backlog \cup temp', s \notin closed, UNCHANGED closed,
               temp' \subseteq temp, \A t \in Sockets \ {s} : InMapOf(t)' => InMapOf(t)
        PROVE  Wires' /\ Adds(s, Head(wire[s]))
    <2>1. /\ Head(wire[s]) \in MessageType /\ Head(wire[s]).from = s
          /\ Head(wire[s]).n = Pushed(s) + 1 /\ Proper(Head(wire[s]))
          /\ Pushed(s)' = Pushed(s) + 1
          /\ OnWire(s)'
          /\ \A t \in Sockets \ {s} : wire'[t] = wire[t] /\ Pushed(t)' = Pushed(t)
      BY <1>0, <1>1, <1>3, ReadsWire
    <2>2. Adds(s, Head(wire[s]))
      BY <1>3, <2>1 DEF Adds, HomeInv, Homes, Reads
    <2>3. ASSUME NEW t \in Sockets \ {s}
          PROVE  OnWire(t)' /\ Marks(t)'
      BY <1>1, <1>2, <1>3, <2>1, WiresStay
    <2>4. Pushed(s) \in 0 .. MaxSent /\ handled[s] \in 0 .. Over /\ MaxSent \in Nat
      BY <1>0, PushedTypes
    <2>5. Marks(s)'
      BY <1>1, <1>2, <1>3, <2>1, <2>4 DEF Wires, Marks, Over
    <2> QED
      BY <2>1, <2>2, <2>3, <2>5 DEF Wires
  <1>4. ASSUME UNCHANGED wire, temp' \subseteq temp, closed \subseteq closed',
               \A t \in Sockets : InMapOf(t)' => InMapOf(t)
        PROVE  Wires' /\ \A t \in Sockets : Pushed(t)' = Pushed(t)
    BY <1>1, <1>2, <1>4, WiresStay DEF Wires, Pushed
  <1>5. ASSUME NEW s \in temp, NewSpeaks(s)
        PROVE  Wires' /\ \E t \in Sockets : \E m : Adds(t, m)
    <2>1. s \in Sockets /\ conn[s] # "none" /\ s \notin backlog /\ s \notin closed
      BY DEF HomeInv, Homes, SocketTypes
    <2>2. \A t \in Sockets \ {s} : InMapOf(t)' => InMapOf(t)
      BY <1>0, <1>5 DEF InMapOf, NewSpeaks, Insert, SocketTypes
    <2> QED
      BY <1>3, <1>5, <2>1, <2>2 DEF NewSpeaks
  <1>6. ASSUME NEW s \in temp, NewEnds(s)
        PROVE  /\ Wires' /\ UNCHANGED <<wire, sent, recvQueue>>
               /\ \E t \in Sockets : Pushed(t) = 0 /\ t \notin closed /\ closed' = closed \cup {t}
    <2>1. s \in Sockets /\ s \notin closed /\ Pushed(s) = 0
      BY DEF HomeInv, Homes, SocketTypes, Wires, Marks
    <2> QED
      BY <1>1, <1>4, <1>6, <2>1 DEF NewEnds, InMapOf
  <1>7. ASSUME NEW p \in Players, Speaks(p)
        PROVE  Wires' /\ \E t \in Sockets : \E m : Adds(t, m)
    <2> DEFINE s == socketMap[p]
    <2>1. s \in Sockets /\ InMapOf(s)
      BY <1>7 DEF Speaks, HomeInv, SocketTypes, InMapOf
    <2>2. conn[s] # "none" /\ s \notin backlog \cup temp /\ s \notin closed
      BY <2>1 DEF HomeInv, Homes
    <2> QED
      BY <1>3, <1>7, <2>1, <2>2 DEF Speaks, InMapOf
  <1>8. ASSUME NEW p \in Players, Ends(p)
        PROVE  Wires' /\ \E t \in Sockets : \E m : Adds(t, m)
    <2> DEFINE s == socketMap[p]
               m == Message(s, 0, "LOGOUT", 0)
    <2>1. s \in Sockets /\ InMapOf(s)
      BY <1>8 DEF Ends, HomeInv, SocketTypes, InMapOf
    <2>2. conn[s] # "none" /\ s \notin closed /\ owner[s] # Nobody /\ Pushed(s) > 0
      BY <2>1 DEF HomeInv, Homes, Wires, Marks
    <2>3. m \in MessageType /\ m.from = s /\ m.n = 0 /\ m.type = "LOGOUT"
      BY <2>1, LogoutIs
    <2>4. /\ recvQueue' = Append(recvQueue, m) /\ closed' = closed \cup {s}
          /\ UNCHANGED <<wire, temp>>
      BY <1>8 DEF Ends, ClosePlayerSocket, Push
    <2>5. \A t \in Sockets : InMapOf(t)' => InMapOf(t)
      BY <1>0, <1>8, SocketsAreSome DEF Ends, Forget, InMapOf, SocketTypes
    <2>6. Wires' /\ \A t \in Sockets : Pushed(t)' = Pushed(t)
      BY <1>4, <2>4, <2>5
    <2>7. \A t \in Sockets : \A l : /\ l \in MessageType /\ l.from = t /\ l.n = 0 /\ l.type = "LOGOUT"
                                /\ t \notin closed /\ owner[t] # Nobody /\ Pushed(t) > 0
                                /\ recvQueue' = Append(recvQueue, l) /\ closed' = closed \cup {t}
                                => Adds(t, l)
      BY <2>6 DEF Adds, Proper
    <2> HIDE DEF m, s
    <2> QED
      BY <2>1, <2>2, <2>3, <2>4, <2>6, <2>7
  <1>9. ASSUME Idles
        PROVE  Wires' /\ UNCHANGED <<wire, sent, recvQueue, closed>>
    BY <1>1, <1>4, <1>9 DEF Idles, InMapOf
  <1> QED
    BY <1>1, <1>5, <1>6, <1>7, <1>8, <1>9

-----------------------------------------------------------------------------
(* Every step keeps to proper sessions. *)

\* Nobody is at the other end of a connection that has begun, or has been heard of.
LEMMA SpeakersAreSome ==
  ASSUME HomeInv, Wires, Signed
  PROVE  /\ \A s \in Sockets : Begun(s) => owner[s] # Nobody
         /\ \A i, s, n : Queued(i, s, n) => owner[s] # Nobody
         /\ \A i, s : SomeBefore(i, s) => owner[s] # Nobody
  <1>1. ASSUME NEW s \in Sockets, Begun(s)
        PROVE  owner[s] # Nobody
    <2>1. handled[s] # Over /\ handled[s] > 0 /\ handled[s] <= Pushed(s)
      BY <1>1, SocketAssumption DEF Begun, Over, Wires, Marks
    <2>2. wire[s] \in Seq(MessageType) /\ sent[s] \in 0 .. MaxSent
      BY DEF HomeInv, SocketTypes
    <2>3. sent[s] # 0
      BY <1>1, <2>1, <2>2, LenProperties, SocketAssumption DEF Pushed, Begun
    <2> QED
      BY <2>3 DEF HomeInv, Homes, Wires, Marks
  <1>2. \A i, s, n : Queued(i, s, n) => owner[s] # Nobody
    BY DEF Queued, Signed
  <1>3. \A i, s : SomeBefore(i, s) => owner[s] # Nobody
    BY <1>2 DEF SomeBefore, Before
  <1> QED
    BY <1>1, <1>2, <1>3

LEMMA QuietTraffic ==
  ASSUME HomeInv, Wires, Signed, Traffic, UNCHANGED <<recvQueue, handled>>,
         \A t \in Sockets : Pushed(t)' = Pushed(t),
         \A t \in Sockets : owner[t] # Nobody => owner'[t] = owner[t],
         \/ closed' = closed
         \/ \E s \in Sockets : Pushed(s) = 0 /\ s \notin closed /\ closed' = closed \cup {s}
  PROVE  Signed' /\ Traffic'
  <1>0. SocketTypes
    BY DEF HomeInv
  <1>1. /\ End' = End
        /\ \A i, t, n : Queued(i, t, n)' <=> Queued(i, t, n)
        /\ \A i, t, n : Before(i, t, n)' <=> Before(i, t, n)
        /\ \A i, t : SomeBefore(i, t)' <=> SomeBefore(i, t)
        /\ \A t : Begun(t)' <=> Begun(t)
    BY DEF End, Queued, Before, SomeBefore, Begun
  <1>2. \A i, t, n : Queued(i, t, n) => t \in Sockets
    BY <1>0, QueuedTypes
  <1>3. Signed' /\ Propers'
    <2>1. ASSUME NEW i \in 1 .. Len(recvQueue)
          PROVE  owner'[recvQueue[i].from] # Nobody
      <3>1. recvQueue[i] \in MessageType
        BY <1>0, ElementOfSeq DEF SocketTypes
      <3> QED
        BY <3>1 DEF MessageType, Signed
    <2> QED
      BY <2>1 DEF Signed, Traffic, Propers, Proper
  <1>4. closed \subseteq closed'
    OBVIOUS
  <1>5. NoneLeftOut'
    <2> SUFFICES ASSUME NEW i, NEW t, NEW n, Queued(i, t, n)'
                 PROVE  Next1(i, t, n)'
      BY DEF NoneLeftOut
    <2>1. Next1(i, t, n) /\ t \in Sockets
      BY <1>1, <1>2 DEF Traffic, NoneLeftOut
    <2> QED
      BY <1>1, <1>4, <2>1 DEF Next1, Over
  <1>6. InOrder'
    BY <1>1 DEF Traffic, InOrder
  <1>7. LastQueued'
    <2> SUFFICES ASSUME NEW t \in Sockets
                 PROVE  (handled[t] \in {Over, Pushed(t)} \/ Before(End, t, Pushed(t)))'
      BY DEF LastQueued
    <2> QED
      BY <1>1 DEF Traffic, LastQueued, Over
  <1>8. InTurn'
    <2> SUFFICES ASSUME NEW j, NEW u, NEW n, Queued(j, u, n)', NEW t \in Sockets,
                        u # t, owner'[u] = owner'[t], (Begun(t) \/ SomeBefore(j, t))'
                 PROVE  Before(j, t, 0)'
      BY DEF InTurn, Alternate
    <2>1. Queued(j, u, n) /\ u \in Sockets /\ (Begun(t) \/ SomeBefore(j, t))
      BY <1>1, <1>2
    <2>2. owner[u] # Nobody /\ owner[t] # Nobody
      BY <2>1, SpeakersAreSome
    <2>3. owner[u] = owner[t]
      BY <2>1, <2>2
    <2> QED
      BY <1>1, <2>1, <2>3 DEF Traffic, InTurn, Alternate
  <1>9. ClosedLogOut'
    <2> SUFFICES ASSUME NEW t \in closed', (Begun(t) \/ SomeBefore(End, t))'
                 PROVE  Before(End, t, 0)'
      BY DEF ClosedLogOut
    <2>1. Begun(t) \/ SomeBefore(End, t)
      BY <1>1
    <2>2. CASE t \in closed
      BY <1>1, <2>1, <2>2 DEF Traffic, ClosedLogOut
    <2>3. CASE t \notin closed
      <3>1. t \in Sockets /\ Pushed(t) = 0
        BY <2>3
      <3>2. handled[t] # Over /\ handled[t] <= 0
        BY <2>3, <3>1 DEF Wires, Marks
      <3>3. ~Begun(t)
        BY <3>2 DEF Begun
      <3>4. \A i, n : ~Queued(i, t, n)
        <4>1. \A i, n : Queued(i, t, n) => n \in 0 .. MaxSent /\ n <= 0 /\ n # 0
          BY <1>0, <2>3, <3>1, QueuedTypes DEF Traffic, NoneLeftOut, Next1
        <4> QED
          BY <4>1, SocketAssumption
      <3> QED
        BY <2>1, <3>3, <3>4 DEF SomeBefore, Before
    <2> QED
      BY <2>2, <2>3
  <1> QED
    BY <1>3, <1>5, <1>6, <1>7, <1>8, <1>9 DEF Traffic

\* What handling the head of the queue does to the sessions.
Session(s, n) ==
  /\ owner[s] \in Players
  /\ Takes(s, n)
  /\ current' = CASE n = 1 -> [current EXCEPT ![owner[s]] = s]
                  [] n = 0 -> [current EXCEPT ![owner[s]] = NoSocket]
                  [] OTHER -> current
  /\ handled' = [handled EXCEPT ![s] = IF n = 0 THEN Over ELSE n]

LEMMA HandlesTakes ==
  ASSUME SocketTypes, Signed, Traffic, Handles
  PROVE  /\ UNCHANGED <<network, sockets, view>>
         /\ \E s \in Sockets, n \in 0 .. MaxSent : Session(s, n)
  <1>1. PICK m : m = Head(recvQueue)
    OBVIOUS
  <1>2. recvQueue # <<>>
    BY DEF Handles, DataThread
  <1>3. /\ m = recvQueue[1] /\ m.from \in Sockets /\ m.n \in 0 .. MaxSent
        /\ owner[m.from] \in Players /\ 1 \in 1 .. Len(recvQueue)
    BY <1>1, <1>2, HeadIs
  <1>4. Proper(m)
    BY <1>3 DEF Traffic, Propers
  <1>5. /\ recvQueue' = Tail(recvQueue)
        /\ current' = CASE m.type = "LOGIN" -> [current EXCEPT ![owner[m.from]] = m.from]
                        [] m.n = 0 -> [current EXCEPT ![owner[m.from]] = NoSocket]
                        [] OTHER -> current
        /\ handled' = [handled EXCEPT ![m.from] = IF m.n = 0 THEN Over ELSE m.n]
        /\ UNCHANGED <<network, sockets, view>>
    BY <1>1 DEF Handles, DataThread
  <1>6. current' = CASE m.n = 1 -> [current EXCEPT ![owner[m.from]] = m.from]
                     [] m.n = 0 -> [current EXCEPT ![owner[m.from]] = NoSocket]
                     [] OTHER -> current
    BY <1>4, <1>5 DEF Proper
  <1>7. Takes(m.from, m.n)
    BY <1>2, <1>3, <1>5 DEF Takes, Queued, SocketTypes
  <1> QED
    BY <1>3, <1>5, <1>6, <1>7 DEF Session

LEMMA SessionStep ==
  ASSUME SocketTypes, Wires, Traffic, OneSession,
         NEW s \in Sockets, NEW n \in 0 .. MaxSent, Session(s, n), UNCHANGED owner
  PROVE  OneSession'
  <1>1. /\ handled[s] # Over
        /\ n # 0 => n = handled[s] + 1
        /\ n = 0 => Begun(s)
        /\ \A t \in Sockets : t # s /\ owner[t] = owner[s] => ~Begun(t)
    BY TakesTheNext DEF Session
  <1>2. handled[s] \in 0 .. Over /\ MaxSent \in Nat
    BY PushedTypes
  <1>3. /\ Begun(s)' <=> n # 0
        /\ \A t \in Sockets : t # s => (Begun(t)' <=> Begun(t))
    BY <1>2 DEF Begun, Session, Over, SocketTypes
  <1>4. n > 1 => Begun(s)
    BY <1>1, <1>2 DEF Begun
  <1>5. \A p \in Players : p # owner[s] => current'[p] = current[p]
    BY DEF Session, SocketTypes
  <1>6. \A p \in Players : p = owner[s] => current'[p] = IF n = 0 THEN NoSocket ELSE s
    <2>1. CASE n = 0 \/ n = 1
      BY <2>1 DEF Session, SocketTypes
    <2>2. CASE n > 1
      BY <1>4, <2>2 DEF Session, OneSession
    <2> QED
      BY <2>1, <2>2
  <1>7. ASSUME NEW t \in Sockets, NEW p \in Players
        PROVE  current'[p] = t <=> owner[t] = p /\ Begun(t)'
    <2>1. CASE p # owner[s]
      BY <1>3, <1>5, <2>1 DEF OneSession
    <2>2. CASE p = owner[s]
      BY <1>1, <1>3, <1>6, <2>2, SocketsAreSome
    <2> QED
      BY <2>1, <2>2
  <1> QED
    BY <1>7 DEF OneSession

-----------------------------------------------------------------------------
(***************************************************************************)
(* The inductive invariant: each connection has one home, and what it has  *)
(* sent is on the wire, in the queue, or handled, in this order.           *)
(***************************************************************************)
SessionInv ==
  /\ SocketTypes /\ RoundTypes /\ RoomsHaveIds
  /\ Homes /\ OneLive
  /\ Wires /\ Signed /\ Traffic /\ OneSession

LEMMA SessionInit == InitServer => SessionInv
  <1> SUFFICES ASSUME InitServer
               PROVE  SessionInv
    OBVIOUS
  <1> USE DEF InitServer, Init
  <1>1. SocketTypes
    BY SocketAssumption, EmptySeq DEF SocketTypes, Views, Over
  <1>2. RoundTypes
    BY EmptySeq DEF RoundTypes
  <1>3. RoomsHaveIds
    BY DEF RoomsHaveIds, Data!Init
  <1>4. /\ Len(recvQueue) = 0
        /\ \A s \in Sockets : Len(wire[s]) = 0
        /\ \A i, s, n : ~Queued(i, s, n)
        /\ \A i, s : ~SomeBefore(i, s)
    BY EmptySeq DEF Queued, SomeBefore, Before
  <1>5. \A s \in Sockets : Pushed(s) = 0 /\ handled[s] = 0 /\ ~Begun(s) /\ ~InMapOf(s)
    BY <1>4, SocketsAreSome DEF Pushed, Begun, InMapOf
  <1>6. Wires
    BY <1>4, <1>5, SocketAssumption DEF Wires, OnWire, Marks, Over
  <1>7. Signed /\ Traffic
    BY <1>4, <1>5 DEF Signed, Traffic, Propers, NoneLeftOut, InOrder, LastQueued, InTurn, ClosedLogOut
  <1>8. OneSession
    BY <1>5, SocketsAreSome DEF OneSession
  <1> QED
    BY <1>1, <1>2, <1>3, <1>6, <1>7, <1>8, HomesInit DEF SessionInv

LEMMA SessionInvStep ==
  ASSUME "relogin" \notin Allowed, SessionInv, [Next]_vars
  PROVE  SessionInv'
  <1> USE DEF SessionInv
  <1>1. HomeInv
    BY DEF HomeInv
  <1>2. SocketTypes' /\ RoundTypes' /\ Homes' /\ OneLive'
    BY <1>1, SocketTypesStep, RoundTypesStep, HomesStep
  <1>3. SUFFICES RoomsHaveIds' /\ Wires' /\ Signed' /\ Traffic' /\ OneSession'
    BY <1>2
  <1>4. ASSUME UNCHANGED <<recvQueue, closed, data>>, \A t \in Sockets : Pushed(t)' = Pushed(t),
               \A t \in Sockets : owner[t] # Nobody => owner'[t] = owner[t]
        PROVE  RoomsHaveIds' /\ Signed' /\ Traffic' /\ OneSession'
    <2>1. UNCHANGED <<rooms, current, handled>>
      BY <1>4 DEF data
    <2>2. Signed' /\ Traffic'
      BY <1>1, <1>4, <2>1, QuietTraffic
    <2>3. \A t \in Sockets : Begun(t) => owner[t] # Nobody
      BY <1>1, SpeakersAreSome
    <2>4. \A t : Begun(t)' <=> Begun(t)
      BY <2>1 DEF Begun
    <2>5. OneSession'
      BY <1>4, <2>1, <2>3, <2>4, SocketsAreSome DEF OneSession
    <2> QED
      BY <2>1, <2>2, <2>5 DEF RoomsHaveIds
  <1>5. ASSUME NEW s \in Sockets, NEW p \in Players, Connect(p, s), UNCHANGED <<data, view>>
        PROVE  RoomsHaveIds' /\ Wires' /\ Signed' /\ Traffic' /\ OneSession'
    <2>1. /\ conn[s] = "none" /\ owner[s] = Nobody /\ sent[s] = 0
          /\ UNCHANGED <<sent, wire, temp, socketMap, closed, recvQueue, handled, view>>
      BY <1>5 DEF Connect, Homes, Wires, Marks, queues, data
    <2>2. /\ \A t \in Sockets \ {s} : conn'[t] = conn[t] /\ owner'[t] = owner[t]
          /\ conn'[s] # "none"
          /\ backlog' = backlog \cup {s}
      BY <1>5 DEF Connect, SocketTypes
    <2>3. \A t \in Sockets \ {s} : OnWire(t)' /\ Marks(t)'
      BY <2>1, <2>2, WiresStay DEF InMapOf
    <2>4. Pushed(s) = 0
      BY <2>1, LenProperties DEF Wires, OnWire, Pushed, SocketTypes
    <2>5. Pushed(s)' = Pushed(s) /\ (InMapOf(s)' <=> InMapOf(s))
      BY <2>1 DEF Pushed, InMapOf
    <2>6. OnWire(s)'
      BY <2>1, <2>5 DEF Wires, OnWire, Proper
    <2>7. Marks(s)'
      BY <2>1, <2>2, <2>4, <2>5 DEF Wires, Marks, Over
    <2>8. \A t \in Sockets : Pushed(t)' = Pushed(t)
      BY <2>1 DEF Pushed
    <2> QED
      BY <1>4, <1>5, <2>1, <2>2, <2>3, <2>6, <2>7, <2>8 DEF Wires
  <1>6. ASSUME NEW s \in Sockets, Request(s), UNCHANGED data
        PROVE  RoomsHaveIds' /\ Wires' /\ Signed' /\ Traffic' /\ OneSession'
    <2>1. Wires'
      BY <1>6, WiresRequest
    <2>2. PICK type, r : Send(s, type, r)
      BY <1>6, RequestMessage
    <2>3. UNCHANGED <<recvQueue, closed, owner>>
      BY <2>2 DEF Send, queues, sockets
    <2>4. \A t \in Sockets : Pushed(t)' = Pushed(t)
      <3>1. \A t \in Sockets \ {s} : wire'[t] = wire[t] /\ sent'[t] = sent[t]
        BY <2>2 DEF Send, SocketTypes
      <3>2. sent[s] \in Int /\ sent'[s] = sent[s] + 1
        BY <2>2, SocketAssumption DEF Send, SocketTypes
      <3>3. Len(wire[s]) \in Nat /\ Len(wire'[s]) = Len(wire[s]) + 1
        <4>1. wire'[s] = Append(wire[s], Message(s, sent[s] + 1, type, r))
          BY <2>2 DEF Send, SocketTypes
        <4> HIDE DEF SessionInv
        <4>2. wire[s] \in Seq(MessageType)
          BY DEF SessionInv, SocketTypes
        <4> QED
          BY <4>1, <4>2, LenProperties
      <3> HIDE DEF SessionInv
      <3>4. Pushed(s)' = Pushed(s)
        BY <3>2, <3>3 DEF Pushed
      <3> QED
        BY <3>1, <3>4 DEF Pushed
    <2> QED
      BY <1>4, <1>6, <2>1, <2>3, <2>4
  <1>7. ASSUME UNCHANGED <<owner, sent, wire, recvQueue, temp, backlog, socketMap, closed, data, view>>,
               \A t \in Sockets : conn'[t] = "none" => conn[t] = "none"
        PROVE  RoomsHaveIds' /\ Wires' /\ Signed' /\ Traffic' /\ OneSession'
    <2>1. Wires'
      BY <1>7, WiresStay DEF Wires, data, InMapOf
    <2>2. \A t \in Sockets : Pushed(t)' = Pushed(t)
      BY <1>7 DEF Pushed
    <2> QED
      BY <1>4, <1>7, <2>1, <2>2
  <1>8. ASSUME NEW s \in Sockets, GiveUp(s), UNCHANGED <<data, view>>
        PROVE  RoomsHaveIds' /\ Wires' /\ Signed' /\ Traffic' /\ OneSession'
    BY <1>7, <1>8 DEF GiveUp, sockets, queues, SocketTypes
  <1>9. ASSUME NEW s \in Sockets, Listens(s)
        PROVE  RoomsHaveIds' /\ Wires' /\ Signed' /\ Traffic' /\ OneSession'
    <2>1. /\ backlog' \cup temp' = backlog \cup temp
          /\ UNCHANGED <<conn, owner, sent, wire, recvQueue, socketMap, closed, data, view>>
      BY <1>9 DEF Listens, Accept, network, queues
    <2>2. Wires'
      BY <2>1, WiresStay DEF Wires, data, InMapOf
    <2>3. \A t \in Sockets : Pushed(t)' = Pushed(t)
      BY <2>1 DEF Pushed
    <2> QED
      BY <1>4, <2>1, <2>2, <2>3
  <1>10. CASE Communicates
    <2>1. UNCHANGED <<owner, rooms, current, handled>>
      BY <1>10, CommunicatesDoes DEF data
    <2>2. /\ Wires'
          /\ \/ \E s \in Sockets : \E m : Adds(s, m)
             \/ /\ UNCHANGED <<wire, sent, recvQueue>>
                /\ \/ UNCHANGED closed
                   \/ \E s \in Sockets : Pushed(s) = 0 /\ s \notin closed /\ closed' = closed \cup {s}
      BY <1>1, <1>10, WiresCommunicates
    <2>3. ASSUME NEW s \in Sockets, NEW m, Adds(s, m)
          PROVE  Signed' /\ Traffic'
      BY <1>1, <2>1, <2>3, AddsTraffic
    <2>4. ASSUME UNCHANGED <<wire, sent, recvQueue>>,
                 \/ UNCHANGED closed
                 \/ \E s \in Sockets : Pushed(s) = 0 /\ s \notin closed /\ closed' = closed \cup {s}
          PROVE  Signed' /\ Traffic'
      <3>1. \A t \in Sockets : Pushed(t)' = Pushed(t)
        BY <2>4 DEF Pushed
      <3> QED
        BY <1>1, <2>1, <2>4, <3>1, QuietTraffic
    <2>5. Signed' /\ Traffic'
      BY <2>2, <2>3, <2>4
    <2>6. RoomsHaveIds' /\ OneSession'
      BY <2>1 DEF RoomsHaveIds, OneSession, Begun
    <2> QED
      BY <2>2, <2>5, <2>6
  <1>11. CASE Handles
    <2>1. UNCHANGED <<network, sockets, view>>
      BY <1>11, HandlesTakes
    <2>2. PICK s \in Sockets, n \in 0 .. MaxSent : Session(s, n)
      BY <1>11, HandlesTakes
    <2>3. Signed' /\ Traffic'
      BY <1>1, <2>1, <2>2, TakesTraffic DEF Session, network, sockets
    <2>4. OneSession'
      BY <2>1, <2>2, SessionStep DEF network
    <2>5. RoomsHaveIds'
      <3>1. Head(recvQueue) \in MessageType
        BY <1>11, HeadIs DEF Handles, DataThread
      <3> QED
        BY <1>11, <3>1, RoomsHaveIdsStep DEF Handles, DataThread
    <2>6. Wires'
      <3>1. \A t \in Sockets \ {s} : handled'[t] = handled[t]
        BY <2>2 DEF Session, SocketTypes
      <3>2. \A t \in Sockets \ {s} : OnWire(t)' /\ Marks(t)'
        BY <2>1, <3>1, WiresStay DEF network, sockets, InMapOf
      <3>3. Pushed(s)' = Pushed(s) /\ (InMapOf(s)' <=> InMapOf(s))
        BY <2>1 DEF network, sockets, Pushed, InMapOf
      <3>4. OnWire(s)'
        BY <2>1, <3>3 DEF network, Wires, OnWire, Proper
      <3>5. /\ handled'[s] = IF n = 0 THEN Over ELSE n
            /\ n <= Pushed(s) /\ (n = 0 => s \in closed)
        BY <2>2, TakesTheNext DEF Session, SocketTypes
      <3>6. n # Over
        BY SocketAssumption DEF Over
      <3>7. Marks(s)'
        BY <2>1, <3>3, <3>5, <3>6 DEF network, sockets, Wires, Marks, Over
      <3> QED
        BY <3>2, <3>4, <3>7 DEF Wires
    <2> QED
      BY <2>3, <2>4, <2>5, <2>6
  <1>12. CASE UNCHANGED vars
    BY <1>7, <1>12 DEF vars, network, sockets, queues
  <1> QED
    BY <1>5, <1>6, <1>8, <1>9, <1>10, <1>11, <1>12 DEF Next, Client

THEOREM SessionInvAlways == "relogin" \notin Allowed => (Spec => []SessionInv)
  <1> SUFFICES ASSUME "relogin" \notin Allowed
               PROVE  Spec => []SessionInv
    OBVIOUS
  <1>1. InitServer => SessionInv
    BY SessionInit
  <1>2. SessionInv /\ [Next]_vars => SessionInv'
    BY SessionInvStep
  <1> QED
    BY <1>1, <1>2, PTL DEF Spec

(***************************************************************************)
(* SocketServer.h:23, 28: no connection that was accepted is lost, and     *)
(* none is used after it was closed, whatever the communication thread and *)
(* the listener do: it is new, or in socketMap as that of its own player,  *)
(* or closed.                                                              *)
(***************************************************************************)
THEOREM ConnectionsHaveOneHome == "relogin" \notin Allowed => (Spec => []OneHome)
  <1>1. SessionInv => OneHome
    BY HomesOneHome DEF SessionInv
  <1> QED
    BY <1>1, SessionInvAlways, PTL

\* Handling the head of the queue is a step of a session.
LEMMA SessionIsAbstract ==
  ASSUME SessionInv, NEW s \in Sockets, NEW n \in 0 .. MaxSent, Session(s, n)
  PROVE  Abstract!Next
  <1>1. PICK p \in Players : p = owner[s]
    BY DEF Session
  <1>2. /\ handled[s] # Over
        /\ n # 0 => n = handled[s] + 1
        /\ n = 0 => Begun(s)
        /\ \A t \in Sockets : t # s /\ owner[t] = p => ~Begun(t)
    BY <1>1, TakesTheNext DEF Session, SessionInv
  <1>3. handled[s] \in 0 .. Over /\ MaxSent \in Nat
    BY PushedTypes DEF SessionInv
  <1>4. Begun(s) <=> current[p] = s
    BY <1>1 DEF SessionInv, OneSession
  <1>5. Abstract!Over = Over
    BY DEF Abstract!Over, Over
  <1>6. CASE n = 1
    <2>1. handled[s] = 0
      BY <1>2, <1>3, <1>6
    <2>2. \A t \in Sockets : current[p] # t
      BY <1>2, <1>4, <2>1 DEF SessionInv, OneSession, Begun
    <2>3. current[p] = 0
      BY <2>2 DEF SessionInv, SocketTypes, NoSocket
    <2>4. Abstract!Login(p, s)
      BY <1>1, <1>6, <2>1, <2>3 DEF Session, Abstract!Login
    <2> QED
      BY <2>4 DEF Abstract!Next
  <1>7. CASE n = 0
    <2>1. Abstract!Logout(p, s)
      BY <1>1, <1>2, <1>4, <1>5, <1>7 DEF Session, Abstract!Logout, NoSocket
    <2> QED
      BY <2>1 DEF Abstract!Next
  <1>8. CASE n > 1
    <2>1. Begun(s) /\ n = handled[s] + 1
      BY <1>2, <1>3, <1>8 DEF Begun
    <2>2. n # 0 /\ n # 1
      BY <1>8
    <2>3. current' = current
      BY <2>2 DEF Session
    <2>4. handled' = [handled EXCEPT ![s] = handled[s] + 1]
      BY <2>1, <2>2 DEF Session
    <2>5. Abstract!Handle(p, s)
      BY <1>4, <2>1, <2>3, <2>4 DEF Abstract!Handle
    <2> QED
      BY <2>5 DEF Abstract!Next
  <1> QED
    BY <1>6, <1>7, <1>8

(***************************************************************************)
(* SocketServer.cpp:159: the data thread sees proper sessions only, one of *)
(* a player after the other, each with all the messages of one connection, *)
(* in order, and one logout at its end, however the threads take turns.    *)
(***************************************************************************)
THEOREM SessionsAreProper == "relogin" \notin Allowed => (Spec => ImplementsSessions)
  <1>1. InitServer => Abstract!Init
    BY DEF InitServer, Abstract!Init, NoSocket
  <1>2. SessionInv /\ [Next]_vars => [Abstract!Next]_(Abstract!vars)
    <2> SUFFICES ASSUME SessionInv, [Next]_vars
                 PROVE  Abstract!Next \/ UNCHANGED <<current, handled>>
      BY DEF Abstract!vars
    <2>1. CASE Handles
      BY <2>1, HandlesTakes, SessionIsAbstract DEF SessionInv
    <2>2. CASE Communicates
      BY <2>2, CommunicatesDoes DEF SessionInv, data
    <2>3. CASE Client \/ (\E s \in Sockets : Listens(s)) \/ UNCHANGED vars
      BY <2>3 DEF Client, Listens, vars, data
    <2> QED
      BY <2>1, <2>2, <2>3 DEF Next
  <1> QED
    BY <1>1, <1>2, SessionInvAlways, PTL DEF Spec, ImplementsSessions, Abstract!Spec
=============================================================================
