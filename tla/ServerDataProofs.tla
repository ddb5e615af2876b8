------------------------- MODULE ServerDataProofs -------------------------
(***************************************************************************)
(* What the data thread makes of the messages that come out of the queue,  *)
(* for any number of players, connections, messages, rooms and slots.      *)
(*                                                                         *)
(* The lists are those of DataManager, under the prefix Data.  A theorem   *)
(* of DataManagerProofs is one about that module's own variables; what is  *)
(* needed of it here is proved again for the variables of Server.          *)
(***************************************************************************)
EXTENDS ServerProofs, FiniteSetTheorems

Lists ==
  /\ players \subseteq Players
  /\ roomOf \in [Players -> Data!RoomIds \cup {Data!NoRoom}]
  /\ lobby \subseteq players
  /\ DOMAIN rooms \subseteq Data!RoomIds
  /\ rooms \in [DOMAIN rooms -> [Data!Slots -> Players \cup {Nobody}]]
  /\ roomIds \in [Data!RoomIds -> Nat]
  /\ fault \in Data!Faults \cup {"none"}
  /\ Data!RoomIdsPartitioned
  /\ Data!NoEmptyRoom
  /\ Data!LobbyHasNoRoom

LEMMA DataIs ==
  /\ Nobody \notin Players
  /\ MaxRooms \in Nat \ {0} /\ MaxSlots \in Nat \ {0}
  BY SocketsAreSome, ServerAssumption

LEMMA ListsInit == InitServer => Lists
  BY DataIs DEF InitServer, Data!Init, Lists, Data!RoomIdsPartitioned, Data!NoEmptyRoom,
     Data!LobbyHasNoRoom, Data!RoomIds, Data!NoRoom, Data!Faults

-----------------------------------------------------------------------------
(* The lists, handler by handler. *)

LEMMA RoomsRemove ==
  ASSUME Lists, fault = "none",
         NEW p, NEW r \in DOMAIN rooms, Data!RemovePlayerFromRoom(r, p)
  PROVE  /\ DOMAIN rooms' \subseteq Data!RoomIds
         /\ rooms' \in [DOMAIN rooms' -> [Data!Slots -> Players \cup {Nobody}]]
         /\ roomIds' \in [Data!RoomIds -> Nat]
         /\ Data!RoomIdsPartitioned'
         /\ Data!NoEmptyRoom'
  <1>1. PICK i \in Data!Slots :
          /\ Data!IsFirst(rooms[r], p, i)
          /\ IF Data!Taken(r) = {i}
               THEN /\ rooms' = [s \in DOMAIN rooms \ {r} |-> rooms[s]]
                    /\ roomIds' = [roomIds EXCEPT ![r] = @ + 1]
               ELSE /\ rooms' = [rooms EXCEPT ![r][i] = Nobody]
                    /\ UNCHANGED roomIds
    BY DEF Data!RemovePlayerFromRoom
  <1>2. CASE Data!Taken(r) = {i}
    <2>1. /\ rooms' = [s \in DOMAIN rooms \ {r} |-> rooms[s]]
          /\ roomIds' = [roomIds EXCEPT ![r] = @ + 1]
      BY <1>1, <1>2
    <2>2. /\ DOMAIN rooms' \subseteq Data!RoomIds
          /\ rooms' \in [DOMAIN rooms' -> [Data!Slots -> Players \cup {Nobody}]]
          /\ roomIds' \in [Data!RoomIds -> Nat]
      BY <2>1 DEF Lists
    <2>3. Data!RoomIdsPartitioned'
      BY <2>1 DEF Lists, Data!RoomIdsPartitioned
    <2>4. Data!NoEmptyRoom'
      BY <2>1 DEF Lists, Data!NoEmptyRoom, Data!Taken
    <2> QED
      BY <2>2, <2>3, <2>4
  <1>3. CASE Data!Taken(r) # {i}
    <2>1. rooms' = [rooms EXCEPT ![r][i] = Nobody] /\ roomIds' = roomIds
      BY <1>1, <1>3
    <2>2. /\ DOMAIN rooms' = DOMAIN rooms
          /\ rooms' \in [DOMAIN rooms' -> [Data!Slots -> Players \cup {Nobody}]]
      BY <2>1 DEF Lists
    <2>3. Data!RoomIdsPartitioned'
      BY <2>1, <2>2 DEF Lists, Data!RoomIdsPartitioned
    <2>4. ASSUME NEW s \in DOMAIN rooms
          PROVE  \E j \in Data!Slots : rooms'[s][j] # Nobody
      <3>1. CASE s = r
        <4>1. PICK j \in Data!Slots : j # i /\ rooms[r][j] # Nobody
          <5>1. \E j \in Data!Slots : rooms[r][j] # Nobody
            BY DEF Lists, Data!NoEmptyRoom, Data!Taken
          <5> QED
            BY <1>3, <5>1 DEF Data!Taken
        <4>2. rooms'[r][j] = rooms[r][j]
          BY <2>1, <4>1 DEF Lists
        <4> QED
          BY <3>1, <4>1, <4>2
      <3>2. CASE s # r
        <4>1. \E j \in Data!Slots : rooms[s][j] # Nobody
          BY <2>4 DEF Lists, Data!NoEmptyRoom, Data!Taken
        <4> QED
          BY <2>1, <3>2, <4>1 DEF Lists
      <3> QED
        BY <3>1, <3>2
    <2>5. Data!NoEmptyRoom'
      BY <2>2, <2>4 DEF Data!NoEmptyRoom, Data!Taken
    <2> QED
      BY <2>1, <2>2, <2>3, <2>5 DEF Lists
  <1> QED
    BY <1>2, <1>3

LEMMA RoomsAdd ==
  ASSUME Lists, fault = "none",
         NEW p \in Players, NEW r \in DOMAIN rooms, NEW i \in Data!Slots,
         rooms' = [rooms EXCEPT ![r][i] = p], roomIds' = roomIds
  PROVE  /\ DOMAIN rooms' \subseteq Data!RoomIds
         /\ rooms' \in [DOMAIN rooms' -> [Data!Slots -> Players \cup {Nobody}]]
         /\ Data!RoomIdsPartitioned'
         /\ Data!NoEmptyRoom'
  <1>1. /\ DOMAIN rooms' = DOMAIN rooms
        /\ rooms' \in [DOMAIN rooms' -> [Data!Slots -> Players \cup {Nobody}]]
    BY DEF Lists
  <1>2. Data!RoomIdsPartitioned'
    BY <1>1 DEF Lists, Data!RoomIdsPartitioned
  <1>3. ASSUME NEW s \in DOMAIN rooms
        PROVE  \E j \in Data!Slots : rooms'[s][j] # Nobody
    <2>1. CASE s = r
      BY <2>1, DataIs DEF Lists
    <2>2. CASE s # r
      BY <1>3, <2>2 DEF Lists, Data!NoEmptyRoom, Data!Taken
    <2> QED
      BY <2>1, <2>2
  <1>4. Data!NoEmptyRoom'
    BY <1>1, <1>3 DEF Data!NoEmptyRoom, Data!Taken
  <1> QED
    BY <1>1, <1>2, <1>4 DEF Lists

LEMMA RoomsOpen ==
  ASSUME Lists, fault = "none", NEW slots \in [Data!Slots -> Players \cup {Nobody}],
         NEW r \in Data!RoomIds, Data!OpenRoom(r, {s \in Data!RoomIds : roomIds[s] > 0}, slots)
  PROVE  /\ DOMAIN rooms' \subseteq Data!RoomIds
         /\ rooms' \in [DOMAIN rooms' -> [Data!Slots -> Players \cup {Nobody}]]
         /\ roomIds' \in [Data!RoomIds -> Nat]
         /\ Data!RoomIdsPartitioned'
         /\ (\E i \in Data!Slots : slots[i] # Nobody) => Data!NoEmptyRoom'
  <1>0. /\ r \notin DOMAIN rooms /\ roomIds[r] = 1
        /\ roomIds' = [roomIds EXCEPT ![r] = @ - 1]
        /\ rooms' = [s \in DOMAIN rooms \cup {r} |-> IF s = r THEN slots ELSE rooms[s]]
    BY DEF Data!OpenRoom, Lists, Data!RoomIdsPartitioned
  <1>1. /\ DOMAIN rooms' = DOMAIN rooms \cup {r}
        /\ DOMAIN rooms' \subseteq Data!RoomIds
        /\ rooms' \in [DOMAIN rooms' -> [Data!Slots -> Players \cup {Nobody}]]
    BY <1>0 DEF Lists
  <1>2. roomIds' \in [Data!RoomIds -> Nat] /\ Data!RoomIdsPartitioned'
    BY <1>0, <1>1 DEF Lists, Data!RoomIdsPartitioned
  <1>3. ASSUME NEW i \in Data!Slots, slots[i] # Nobody
        PROVE  Data!NoEmptyRoom'
    <2>1. ASSUME NEW s \in DOMAIN rooms'
          PROVE  \E j \in Data!Slots : rooms'[s][j] # Nobody
      <3>1. CASE s = r
        BY <1>0, <1>3, <3>1
      <3>2. CASE s # r
        <4>1. s \in DOMAIN rooms /\ rooms'[s] = rooms[s]
          BY <1>0, <2>1, <3>2
        <4> QED
          BY <4>1 DEF Lists, Data!NoEmptyRoom, Data!Taken
      <3> QED
        BY <3>1, <3>2
    <2> QED
      BY <2>1 DEF Data!NoEmptyRoom, Data!Taken
  <1> QED
    BY <1>1, <1>2, <1>3

\* The slots of a room somebody has just opened.
LEMMA OpenedSlots ==
  ASSUME NEW p \in Players
  PROVE  /\ [Data!Empty EXCEPT ![1] = p] \in [Data!Slots -> Players \cup {Nobody}]
         /\ \E i \in Data!Slots : [Data!Empty EXCEPT ![1] = p][i] # Nobody
         /\ Data!Empty \in [Data!Slots -> Players \cup {Nobody}]
  <1>1. 1 \in Data!Slots /\ p # Nobody
    BY DataIs DEF Data!Slots
  <1> QED
    BY <1>1 DEF Data!Empty

-----------------------------------------------------------------------------
(* The handlers. *)

LEMMA RemoveFaultType ==
  ASSUME NEW p
  PROVE  /\ Data!RemoveFault(p) \in Data!Faults \cup {"none"}
         /\ Data!RemoveFault(p) = "none" => p \in players /\ roomOf[p] \in DOMAIN rooms
  <1>1. CASE p \notin players
    BY <1>1 DEF Data!RemoveFault, Data!Faults
  <1>2. CASE p \in players /\ roomOf[p] \notin DOMAIN rooms
    BY <1>2 DEF Data!RemoveFault, Data!Faults
  <1>3. CASE p \in players /\ roomOf[p] \in DOMAIN rooms
    BY <1>3 DEF Data!RemoveFault, Data!Faults
  <1> QED
    BY <1>1, <1>2, <1>3

LEMMA MoveFaultType ==
  ASSUME NEW p, NEW r
  PROVE  /\ Data!MoveFault(p, r) \in Data!Faults \cup {"none"}
         /\ Data!MoveFault(p, r) = "none" => p \in players /\ r \in DOMAIN rooms
  <1>1. CASE p \notin players
    BY <1>1 DEF Data!MoveFault, Data!Faults
  <1>2. CASE p \in players /\ r \notin DOMAIN rooms
    BY <1>2 DEF Data!MoveFault, Data!Faults
  <1>3. CASE p \in players /\ r \in DOMAIN rooms
    BY <1>3 DEF Data!MoveFault, Data!Faults
  <1> QED
    BY <1>1, <1>2, <1>3

LEMMA AbortLists ==
  ASSUME Lists, NEW why \in Data!Faults \cup {"none"}, Data!Abort(why)
  PROVE  Lists'
  BY DEF Data!Abort, Data!server, Lists, Data!RoomIdsPartitioned, Data!NoEmptyRoom, Data!Taken,
     Data!LobbyHasNoRoom

LEMMA CreatePlayerLists ==
  ASSUME Lists, NEW p \in Players, Data!CreatePlayer(p)
  PROVE  Lists'
  BY DEF Data!CreatePlayer, Lists, Data!RoomIdsPartitioned, Data!NoEmptyRoom, Data!Taken,
     Data!LobbyHasNoRoom

LEMMA RemovePlayerLists ==
  ASSUME Lists, fault = "none", NEW p \in Players, Data!RemovePlayer(p)
  PROVE  Lists'
  <1> DEFINE why == IF p \in players /\ roomOf[p] = Data!NoRoom
                      THEN "none" ELSE Data!RemoveFault(p)
  <1>0. why \in Data!Faults \cup {"none"}
    BY RemoveFaultType
  <1>1. CASE Data!Abort(why)
    BY <1>0, <1>1, AbortLists
  <1>2. CASE roomOf[p] = Data!NoRoom /\ Data!Survive(why) /\ ~Data!Abort(why)
    <2>1. lobby' = lobby \ {p} /\ UNCHANGED <<players, roomOf, rooms, roomIds, fault>>
      BY <1>2 DEF Data!RemovePlayer, Data!Survive
    <2> QED
      BY <2>1 DEF Lists, Data!RoomIdsPartitioned, Data!NoEmptyRoom, Data!Taken, Data!LobbyHasNoRoom
  <1>3. CASE roomOf[p] # Data!NoRoom /\ Data!Survive(why) /\ ~Data!Abort(why)
    <2>1. /\ Data!RemovePlayerFromRoom(roomOf[p], p)
          /\ UNCHANGED <<players, roomOf, lobby, fault>>
          /\ Data!RemoveFault(p) = "none"
      BY <1>3 DEF Data!RemovePlayer, Data!Survive
    <2>2. roomOf[p] \in DOMAIN rooms
      BY <2>1, RemoveFaultType
    <2> QED
      BY <2>1, <2>2, RoomsRemove DEF Lists, Data!LobbyHasNoRoom
  <1> QED
    BY <1>1, <1>2, <1>3 DEF Data!RemovePlayer

LEMMA MovePlayerToRoomLists ==
  ASSUME Lists, fault = "none", NEW p \in Players, NEW r \in Data!RoomIds \cup {Data!NoRoom},
         Data!MovePlayerToRoom(p, r)
  PROVE  Lists'
  <1> DEFINE why == Data!MoveFault(p, r)
  <1>0. why \in Data!Faults \cup {"none"}
    BY MoveFaultType
  <1>1. CASE why = "no_player" /\ Data!Abort(why)
    BY <1>0, <1>1, AbortLists
  <1>2. CASE ~(why = "no_player" /\ Data!Abort(why))
    <2>1. /\ lobby' = lobby \ {p}
          /\ roomOf' = [roomOf EXCEPT ![p] = r]
          /\ fault' = why
          /\ UNCHANGED <<players, roomIds>>
      BY <1>2 DEF Data!MovePlayerToRoom
    <2>2. Data!LobbyHasNoRoom'
      BY <2>1 DEF Lists, Data!LobbyHasNoRoom
    <2>3. CASE why = "none"
      <3>1. PICK i \in Data!Slots : rooms' = [rooms EXCEPT ![r][i] = p]
        BY <1>2, <2>3 DEF Data!MovePlayerToRoom
      <3>2. r \in DOMAIN rooms
        BY <2>3, MoveFaultType
      <3> QED
        BY <1>0, <2>1, <2>2, <3>1, <3>2, RoomsAdd DEF Lists
    <2>4. CASE why # "none"
      <3>1. rooms' = rooms
        BY <1>2, <2>4 DEF Data!MovePlayerToRoom
      <3> QED
        BY <1>0, <2>1, <2>2, <2>4, <3>1 DEF Lists, Data!RoomIdsPartitioned, Data!NoEmptyRoom
    <2> QED
      BY <2>3, <2>4
  <1> QED
    BY <1>1, <1>2

LEMMA CreateRoomLists ==
  ASSUME Lists, fault = "none", NEW p \in Players, Data!CreateRoom(p)
  PROVE  Lists'
  <1> DEFINE free == {r \in Data!RoomIds : roomIds[r] > 0}
  <1>1. CASE Data!Abort("no_id")
    BY <1>1, AbortLists DEF Data!Faults
  <1>2. CASE p \notin players /\ ~Data!Abort("no_id")
    <2>1. fault' = "no_player" /\ UNCHANGED <<players, lobby, roomOf>>
      BY <1>2 DEF Data!CreateRoom
    <2>2. PICK r \in Data!RoomIds : Data!OpenRoom(r, free, Data!Empty)
      BY <1>2 DEF Data!CreateRoom
    <2>3. Data!NoEmptyRoom' /\ Data!LobbyHasNoRoom'
      BY <2>1 DEF Lists, Data!NoEmptyRoom, Data!LobbyHasNoRoom
    <2> QED
      BY <2>1, <2>2, <2>3, RoomsOpen, OpenedSlots DEF Lists, Data!Faults
  <1>3. CASE p \in players /\ ~Data!Abort("no_id")
    <2>1. lobby' = lobby \ {p} /\ UNCHANGED <<players, fault>>
      BY <1>3 DEF Data!CreateRoom
    <2>2. PICK r \in Data!RoomIds : /\ Data!OpenRoom(r, free, [Data!Empty EXCEPT ![1] = p])
                               /\ roomOf' = [roomOf EXCEPT ![p] = r]
      BY <1>3 DEF Data!CreateRoom
    <2>3. Data!LobbyHasNoRoom'
      BY <2>1, <2>2 DEF Lists, Data!LobbyHasNoRoom
    <2> QED
      BY <2>1, <2>2, <2>3, RoomsOpen, OpenedSlots DEF Lists
  <1> QED
    BY <1>1, <1>2, <1>3

LEMMA MovePlayerFromRoomToLobbyLists ==
  ASSUME Lists, fault = "none", NEW p \in Players, Data!MovePlayerFromRoomToLobby(p)
  PROVE  Lists'
  <1>1. CASE Data!Abort(Data!RemoveFault(p))
    BY <1>1, RemoveFaultType, AbortLists
  <1>2. CASE Data!Survive(Data!RemoveFault(p)) /\ ~Data!Abort(Data!RemoveFault(p))
    <2>1. /\ Data!RemovePlayerFromRoom(roomOf[p], p)
          /\ lobby' = lobby \cup {p}
          /\ roomOf' = [roomOf EXCEPT ![p] = Data!NoRoom]
          /\ UNCHANGED <<players, fault>>
      BY <1>2 DEF Data!MovePlayerFromRoomToLobby, Data!Survive
    <2>2. p \in players /\ roomOf[p] \in DOMAIN rooms
      BY <1>2, RemoveFaultType DEF Data!Survive
    <2> QED
      BY <2>1, <2>2, RoomsRemove DEF Lists, Data!LobbyHasNoRoom
  <1> QED
    BY <1>1, <1>2 DEF Data!MovePlayerFromRoomToLobby

LEMMA InRoomMessageLists ==
  ASSUME Lists, NEW p \in Players, Data!InRoomMessage(p)
  PROVE  Lists'
  <1>1. CASE Data!Abort(Data!RemoveFault(p))
    BY <1>1, RemoveFaultType, AbortLists
  <1>2. CASE UNCHANGED <<Data!server, fault>>
    BY <1>2 DEF Data!server, Lists, Data!RoomIdsPartitioned, Data!NoEmptyRoom, Data!Taken,
       Data!LobbyHasNoRoom
  <1> QED
    BY <1>1, <1>2 DEF Data!InRoomMessage, Data!Survive

LEMMA HandlerLists ==
  ASSUME Lists, fault = "none", NEW m \in MessageType, NEW p \in Players, Handler(m, p)
  PROVE  Lists'
  <1>1. m.room \in Data!RoomIds \cup {Data!NoRoom}
    BY DEF MessageType
  <1> QED
    BY <1>1, CreatePlayerLists, RemovePlayerLists, MovePlayerToRoomLists, CreateRoomLists,
       MovePlayerFromRoomToLobbyLists, InRoomMessageLists DEF Handler, MessageType

-----------------------------------------------------------------------------
(* The slots of the players. *)

Sits(p, r, i) == r \in DOMAIN rooms /\ i \in Data!Slots /\ rooms[r][i] = p
SitsOnlyAt(p, r, i) == \A s, j : Sits(p, s, j) <=> s = r /\ j = i

\* A player with one slot loses it, and nobody else does.
LEMMA SitsRemove ==
  ASSUME Lists, NEW p \in Players, NEW r,
         \E i : SitsOnlyAt(p, r, i),
         Data!RemovePlayerFromRoom(r, p)
  PROVE  \A q \in Players : \A s, j : Sits(q, s, j)' <=> q # p /\ Sits(q, s, j)
  <1> SUFFICES ASSUME NEW q \in Players, NEW s, NEW j
               PROVE  Sits(q, s, j)' <=> q # p /\ Sits(q, s, j)
    OBVIOUS
  <1> PICK k : \A t, h : Sits(p, t, h) <=> t = r /\ h = k
    BY DEF SitsOnlyAt
  <1>0. r \in DOMAIN rooms /\ k \in Data!Slots /\ rooms[r][k] = p
    BY DEF Sits
  <1>1. PICK i \in Data!Slots :
          /\ rooms[r][i] = p
          /\ IF Data!Taken(r) = {i}
               THEN rooms' = [t \in DOMAIN rooms \ {r} |-> rooms[t]]
               ELSE rooms' = [rooms EXCEPT ![r][i] = Nobody]
    BY DEF Data!RemovePlayerFromRoom, Data!IsFirst
  <1>2. i = k
    BY <1>0, <1>1 DEF Sits
  <1>3. CASE Data!Taken(r) = {i}
    <2>1. rooms' = [t \in DOMAIN rooms \ {r} |-> rooms[t]]
      BY <1>1, <1>3
    <2>2. \A h \in Data!Slots : h # k => rooms[r][h] = Nobody
      BY <1>2, <1>3 DEF Data!Taken
    <2> QED
      BY <1>0, <2>1, <2>2, DataIs DEF Sits
  <1>4. CASE Data!Taken(r) # {i}
    <2>1. rooms' = [rooms EXCEPT ![r][k] = Nobody]
      BY <1>1, <1>2, <1>4
    <2>2. /\ DOMAIN rooms' = DOMAIN rooms
          /\ \A t \in DOMAIN rooms, h \in Data!Slots :
               rooms'[t][h] = IF t = r /\ h = k THEN Nobody ELSE rooms[t][h]
      BY <1>0, <2>1 DEF Lists
    <2> QED
      BY <1>0, <2>2, DataIs DEF Sits
  <1> QED
    BY <1>3, <1>4

\* A player takes an empty slot, and nobody loses one.
LEMMA SitsAdd ==
  ASSUME Lists, NEW p \in Players, NEW r \in DOMAIN rooms, NEW i \in Data!Slots,
         rooms[r][i] = Nobody, rooms' = [rooms EXCEPT ![r][i] = p],
         NEW q \in Players, NEW s, NEW j
  PROVE  Sits(q, s, j)' <=> Sits(q, s, j) \/ (q = p /\ s = r /\ j = i)
  <1>1. /\ DOMAIN rooms' = DOMAIN rooms
        /\ \A t \in DOMAIN rooms, h \in Data!Slots :
             rooms'[t][h] = IF t = r /\ h = i THEN p ELSE rooms[t][h]
    BY DEF Lists
  <1> QED
    BY <1>1, DataIs DEF Sits

\* A player takes the first slot of a room that did not exist.
LEMMA SitsOpen ==
  ASSUME Lists, NEW p \in Players, NEW r, r \notin DOMAIN rooms,
         rooms' = [s \in DOMAIN rooms \cup {r} |->
                     IF s = r THEN [Data!Empty EXCEPT ![1] = p] ELSE rooms[s]],
         NEW q \in Players, NEW s, NEW j
  PROVE  Sits(q, s, j)' <=> Sits(q, s, j) \/ (q = p /\ s = r /\ j = 1)
  <1>0. 1 \in Data!Slots
    BY DataIs DEF Data!Slots
  <1>1. /\ DOMAIN rooms' = DOMAIN rooms \cup {r}
        /\ \A h \in Data!Slots : rooms'[r][h] = IF h = 1 THEN p ELSE Nobody
        /\ \A t \in DOMAIN rooms : rooms'[t] = rooms[t]
    BY DEF Data!Empty
  <1> QED
    BY <1>0, <1>1, DataIs DEF Sits


-----------------------------------------------------------------------------
(* Where a player is, and what the handlers make of it. *)

HasNoSlot(p) == \A r, i : ~Sits(p, r, i)
Out(p) == p \notin lobby /\ HasNoSlot(p)
InLobby(p) == p \in lobby /\ HasNoSlot(p)
InRoom(p) == p \in players /\ p \notin lobby /\ \E i : SitsOnlyAt(p, roomOf[p], i)

\* Nothing about q changes.
Stays(q) ==
  /\ Out(q)' <=> Out(q)
  /\ InLobby(q)' <=> InLobby(q)
  /\ InRoom(q)' <=> InRoom(q)
  /\ q \in players => q \in players'
  /\ roomOf'[q] = roomOf[q]

LEMMA StaysIf ==
  ASSUME NEW q, \A s, j : Sits(q, s, j)' <=> Sits(q, s, j),
         q \in lobby' <=> q \in lobby, q \in players' <=> q \in players,
         roomOf'[q] = roomOf[q]
  PROVE  Stays(q)
  <1>1. HasNoSlot(q)' <=> HasNoSlot(q)
    BY DEF HasNoSlot
  <1>2. ASSUME NEW i
        PROVE  SitsOnlyAt(q, roomOf[q], i)' <=> SitsOnlyAt(q, roomOf[q], i)
    BY DEF SitsOnlyAt
  <1>3. InRoom(q)' <=> InRoom(q)
    BY <1>2 DEF InRoom
  <1> QED
    BY <1>1, <1>3 DEF Stays, Out, InLobby

LEMMA AllStay ==
  ASSUME NEW q, UNCHANGED Data!server
  PROVE  Stays(q)
  <1>1. UNCHANGED <<players, roomOf, lobby, rooms>>
    BY DEF Data!server
  <1>2. \A s, j : Sits(q, s, j)' <=> Sits(q, s, j)
    BY <1>1 DEF Sits
  <1> QED
    BY <1>1, <1>2, StaysIf

LEMMA InRoomIsFound ==
  ASSUME Lists, NEW p \in Players, InRoom(p)
  PROVE  /\ Data!RemoveFault(p) = "none"
         /\ roomOf[p] \in DOMAIN rooms /\ roomOf[p] # Data!NoRoom
  <1>1. PICK i : SitsOnlyAt(p, roomOf[p], i)
    BY DEF InRoom
  <1>2. Sits(p, roomOf[p], i)
    BY <1>1 DEF SitsOnlyAt
  <1>3. roomOf[p] \in DOMAIN rooms /\ i \in Data!Slots /\ rooms[roomOf[p]][i] = p
    BY <1>2 DEF Sits
  <1>4. p \in Data!Occupants(roomOf[p])
    BY <1>3, DataIs DEF Data!Occupants, Data!Taken
  <1>5. Data!RemoveFault(p) = "none"
    BY <1>3, <1>4 DEF InRoom, Data!RemoveFault
  <1> QED
    BY <1>3, <1>5 DEF Lists, Data!RoomIds, Data!NoRoom

LEMMA FoundIsInRoom ==
  ASSUME Lists, NEW p \in Players, Out(p) \/ InLobby(p) \/ InRoom(p), Data!RemoveFault(p) = "none"
  PROVE  InRoom(p)
  <1>1. p \in players /\ roomOf[p] \in DOMAIN rooms
    BY RemoveFaultType
  <1>2. p \in Data!Occupants(roomOf[p])
    BY <1>1 DEF Data!RemoveFault
  <1>3. PICK i \in Data!Slots : rooms[roomOf[p]][i] = p
    BY <1>2 DEF Data!Occupants, Data!Taken
  <1>4. Sits(p, roomOf[p], i)
    BY <1>1, <1>3 DEF Sits
  <1> QED
    BY <1>4 DEF Out, InLobby, HasNoSlot

\* A player leaves the room it is in.
LEMMA RoomLeft ==
  ASSUME Lists, NEW p \in Players, InRoom(p), Data!RemovePlayerFromRoom(roomOf[p], p),
         UNCHANGED players,
         \A q \in Players : q # p => (q \in lobby' <=> q \in lobby) /\ roomOf'[q] = roomOf[q]
  PROVE  /\ \A q \in Players : q # p => Stays(q)
         /\ HasNoSlot(p)'
  <1>1. PICK r : r = roomOf[p]
    OBVIOUS
  <1>2. \A q \in Players : \A s, j : Sits(q, s, j)' <=> q # p /\ Sits(q, s, j)
    BY <1>1, SitsRemove DEF InRoom
  <1> QED
    BY <1>2, StaysIf DEF HasNoSlot

LEMMA LoginPlaces ==
  ASSUME Lists, NEW p \in Players, Out(p), Data!CreatePlayer(p)
  PROVE  /\ \A q \in Players : q # p => Stays(q)
         /\ fault' = fault /\ InLobby(p)' /\ p \in players'
  <1>1. /\ players' = players \cup {p} /\ roomOf' = [roomOf EXCEPT ![p] = Data!NoRoom]
        /\ lobby' = lobby \cup {p} /\ UNCHANGED <<rooms, fault>>
    BY DEF Data!CreatePlayer
  <1>2. \A q, s, j : Sits(q, s, j)' <=> Sits(q, s, j)
    BY <1>1 DEF Sits
  <1>3. ASSUME NEW q \in Players, q # p
        PROVE  Stays(q)
    BY <1>1, <1>2, <1>3, StaysIf DEF Lists
  <1> QED
    BY <1>1, <1>2, <1>3 DEF InLobby, Out, HasNoSlot

\* A player that is somewhere is found there.
LEMMA LogoutPlaces ==
  ASSUME Lists, NEW p \in Players, Out(p) \/ InLobby(p) \/ InRoom(p), Data!RemovePlayer(p)
  PROVE  /\ \A q \in Players : q # p => Stays(q)
         /\ UNCHANGED <<players, roomOf>>
         /\ Out(p)'
         /\ \/ fault' = fault
            \/ Out(p) /\ (p \notin players \/ roomOf[p] # Data!NoRoom)
  <1> DEFINE why == IF p \in players /\ roomOf[p] = Data!NoRoom
                      THEN "none" ELSE Data!RemoveFault(p)
  <1>1. CASE Data!Abort(why)
    <2>1. UNCHANGED Data!server /\ why # "none"
      BY <1>1 DEF Data!Abort
    <2>2. p \notin players \/ roomOf[p] # Data!NoRoom
      BY <2>1
    <2>3. Data!RemoveFault(p) # "none"
      BY <2>1
    <2>4. ~InRoom(p) /\ ~InLobby(p)
      BY <2>2, <2>3, InRoomIsFound DEF InLobby, Lists, Data!LobbyHasNoRoom
    <2>5. Out(p)'
      BY <2>1, <2>4, AllStay DEF Stays
    <2>6. UNCHANGED <<players, roomOf>>
      BY <2>1 DEF Data!server
    <2> QED
      BY <2>1, <2>2, <2>4, <2>5, <2>6, AllStay
  <1>2. CASE Data!Survive(why) /\ roomOf[p] = Data!NoRoom /\ ~Data!Abort(why)
    <2>1. lobby' = lobby \ {p} /\ UNCHANGED <<players, roomOf, rooms, fault>>
      BY <1>2 DEF Data!RemovePlayer, Data!Survive
    <2>2. \A q, s, j : Sits(q, s, j)' <=> Sits(q, s, j)
      BY <2>1 DEF Sits
    <2>3. ~InRoom(p)
      BY <1>2, InRoomIsFound
    <2>4. \A q \in Players : q # p => Stays(q)
      BY <2>1, <2>2, StaysIf
    <2> QED
      BY <2>1, <2>2, <2>3, <2>4 DEF Out, InLobby, HasNoSlot
  <1>3. CASE Data!Survive(why) /\ roomOf[p] # Data!NoRoom /\ ~Data!Abort(why)
    <2>1. /\ Data!RemovePlayerFromRoom(roomOf[p], p)
          /\ UNCHANGED <<players, roomOf, lobby, fault>>
          /\ Data!RemoveFault(p) = "none"
      BY <1>3 DEF Data!RemovePlayer, Data!Survive
    <2>2. InRoom(p)
      BY <2>1, FoundIsInRoom
    <2>3. /\ \A q \in Players : q # p => Stays(q)
          /\ HasNoSlot(p)'
      BY <2>1, <2>2, RoomLeft
    <2> QED
      BY <2>1, <2>2, <2>3 DEF Out, InRoom
  <1> QED
    BY <1>1, <1>2, <1>3 DEF Data!RemovePlayer

LEMMA ExitPlaces ==
  ASSUME Lists, NEW p \in Players, InRoom(p), Data!MovePlayerFromRoomToLobby(p)
  PROVE  /\ \A q \in Players : q # p => Stays(q)
         /\ fault' = fault /\ InLobby(p)' /\ UNCHANGED players
  <1>1. /\ Data!RemovePlayerFromRoom(roomOf[p], p)
        /\ lobby' = lobby \cup {p}
        /\ roomOf' = [roomOf EXCEPT ![p] = Data!NoRoom]
        /\ UNCHANGED <<players, fault>>
    BY InRoomIsFound DEF Data!MovePlayerFromRoomToLobby, Data!Abort, Data!Survive
  <1>2. \A q \in Players : q # p => (q \in lobby' <=> q \in lobby) /\ roomOf'[q] = roomOf[q]
    BY <1>1 DEF Lists
  <1> QED
    BY <1>1, <1>2, RoomLeft DEF InLobby

LEMMA InputPlaces ==
  ASSUME Lists, NEW p \in Players, InRoom(p), Data!InRoomMessage(p)
  PROVE  UNCHANGED Data!server /\ fault' = fault
  BY InRoomIsFound DEF Data!InRoomMessage, Data!Abort, Data!Survive

\* A player takes slot i of room r, and leaves the lobby.
GetsSlot(p, r, i) ==
  \A q \in Players : \A s, j : Sits(q, s, j)' <=> Sits(q, s, j) \/ (q = p /\ s = r /\ j = i)

LEMMA SeatTaken ==
  ASSUME Lists, NEW p \in Players, InLobby(p), NEW r, NEW i,
         GetsSlot(p, r, i),
         UNCHANGED players, lobby' = lobby \ {p}, roomOf' = [roomOf EXCEPT ![p] = r]
  PROVE  /\ \A q \in Players : q # p => Stays(q)
         /\ InRoom(p)'
  <1>1. ASSUME NEW q \in Players, q # p
        PROVE  Stays(q)
    BY <1>1, StaysIf DEF Lists, GetsSlot
  <1>2. roomOf'[p] = r
    BY DEF Lists
  <1>3. SitsOnlyAt(p, r, i)'
    BY <1>2 DEF SitsOnlyAt, InLobby, HasNoSlot, GetsSlot
  <1>4. InRoom(p)'
    BY <1>2, <1>3 DEF InRoom, InLobby, Lists
  <1> QED
    BY <1>1, <1>4

\* A player that asks for a room that is gone or full has left the lobby.
LEMMA JoinPlaces ==
  ASSUME Lists, fault = "none", NEW p \in Players, InLobby(p), NEW r,
         Data!MovePlayerToRoom(p, r)
  PROVE  /\ \A q \in Players : q # p => Stays(q)
         /\ UNCHANGED players
         /\ \/ fault' # "none" /\ Out(p)'
            \/ fault' = "none" /\ InRoom(p)'
  <1> DEFINE why == Data!MoveFault(p, r)
  <1>1. p \in players /\ why # "no_player"
    BY DEF InLobby, Lists, Data!MoveFault
  <1>2. /\ lobby' = lobby \ {p} /\ roomOf' = [roomOf EXCEPT ![p] = r]
        /\ fault' = why /\ UNCHANGED players
    BY <1>1 DEF Data!MovePlayerToRoom
  <1>3. CASE why = "none"
    <2>1. PICK i \in Data!Slots : rooms[r][i] = Nobody /\ rooms' = [rooms EXCEPT ![r][i] = p]
      BY <1>1, <1>3 DEF Data!MovePlayerToRoom, Data!IsFirst
    <2>2. r \in DOMAIN rooms
      BY <1>3, MoveFaultType
    <2>3. GetsSlot(p, r, i)
      BY <2>1, <2>2, SitsAdd DEF GetsSlot
    <2>4. (\A q \in Players : q # p => Stays(q)) /\ InRoom(p)'
      BY <1>2, <2>3, SeatTaken
    <2> QED
      BY <1>2, <1>3, <2>4
  <1>4. CASE why # "none"
    <2>1. rooms' = rooms
      BY <1>1, <1>4 DEF Data!MovePlayerToRoom
    <2>2. \A q, s, j : Sits(q, s, j)' <=> Sits(q, s, j)
      BY <2>1 DEF Sits
    <2>3. ASSUME NEW q \in Players, q # p
          PROVE  Stays(q)
      BY <1>2, <2>2, <2>3, StaysIf DEF Lists
    <2>4. Out(p)'
      BY <1>2, <2>2 DEF Out, InLobby, HasNoSlot
    <2> QED
      BY <1>2, <1>4, <2>3, <2>4
  <1> QED
    BY <1>3, <1>4

LEMMA CreatePlaces ==
  ASSUME Lists, NEW p \in Players, InLobby(p), Data!CreateRoom(p)
  PROVE  /\ \A q \in Players : q # p => Stays(q)
         /\ UNCHANGED players
         /\ \/ fault' # "none" /\ UNCHANGED Data!server /\ \A r \in Data!RoomIds : roomIds[r] <= 0
            \/ fault' = fault /\ InRoom(p)'
  <1> DEFINE free == {r \in Data!RoomIds : roomIds[r] > 0}
  <1>0. p \in players
    BY DEF InLobby, Lists
  <1>1. CASE free = {} /\ Data!Abort("no_id")
    <2>1. fault' # "none" /\ UNCHANGED Data!server /\ free = {}
      BY <1>1 DEF Data!Abort
    <2>2. \A r \in Data!RoomIds : roomIds[r] <= 0
      BY <2>1 DEF Lists
    <2> QED
      BY <2>1, <2>2, AllStay DEF Data!server
  <1>2. CASE ~(free = {} /\ Data!Abort("no_id"))
    <2>1. lobby' = lobby \ {p} /\ UNCHANGED <<players, fault>>
      BY <1>0, <1>2 DEF Data!CreateRoom
    <2>2. PICK r \in Data!RoomIds : /\ Data!OpenRoom(r, free, [Data!Empty EXCEPT ![1] = p])
                                    /\ roomOf' = [roomOf EXCEPT ![p] = r]
      BY <1>0, <1>2 DEF Data!CreateRoom
    <2>3. /\ roomIds[r] > 0
          /\ rooms' = [s \in DOMAIN rooms \cup {r} |->
                         IF s = r THEN [Data!Empty EXCEPT ![1] = p] ELSE rooms[s]]
      BY <2>2 DEF Data!OpenRoom
    <2>4. r \notin DOMAIN rooms
      BY <2>3 DEF Lists, Data!RoomIdsPartitioned
    <2>5. GetsSlot(p, r, 1)
      BY <2>3, <2>4, SitsOpen DEF GetsSlot
    <2>6. (\A q \in Players : q # p => Stays(q)) /\ InRoom(p)'
      BY <2>1, <2>2, <2>5, SeatTaken
    <2> QED
      BY <2>1, <2>6
  <1> QED
    BY <1>1, <1>2

-----------------------------------------------------------------------------
(* The player whose message is handled. *)

\* Where the handler of a message expects the player.
Fits(type, p) ==
  /\ type = "LOGIN" => Out(p)
  /\ type \in {"CREATE", "JOIN"} => InLobby(p)
  /\ type \in {"EXIT", "INPUT"} => InRoom(p)
  /\ type = "LOGOUT" => Out(p) \/ InLobby(p) \/ InRoom(p)

\* Where it is when the message has been handled.
Arrives(type, p) ==
  /\ type \in {"LOGIN", "EXIT"} => InLobby(p)'
  /\ type \in {"CREATE", "JOIN", "INPUT"} => InRoom(p)'
  /\ type = "LOGIN" => p \in players'

\* Why it may not be handled.
Fails(type, p) ==
  \/ type = "JOIN" /\ Out(p)'
  \/ type = "CREATE" /\ Stays(p) /\ \A r \in Data!RoomIds : roomIds[r] <= 0
  \/ type = "LOGOUT" /\ Out(p) /\ (p \notin players \/ roomOf[p] # Data!NoRoom)

LEMMA HandlerPlaces ==
  ASSUME Lists, fault = "none", NEW m \in MessageType, NEW p \in Players,
         Fits(m.type, p), Handler(m, p)
  PROVE  /\ \A q \in Players : q # p => Stays(q)
         /\ p \in players => p \in players'
         /\ m.type = "LOGOUT" => Out(p)' /\ roomOf'[p] = roomOf[p]
         /\ \/ fault' = "none" /\ Arrives(m.type, p)
            \/ fault' # "none" /\ Fails(m.type, p)
  <1>1. CASE m.type = "LOGIN"
    BY <1>1, LoginPlaces DEF Handler, Fits, Arrives
  <1>2. CASE m.type = "LOGOUT"
    BY <1>2, LogoutPlaces DEF Handler, Fits, Arrives, Fails
  <1>3. CASE m.type = "CREATE"
    <2>1. Data!CreateRoom(p) /\ InLobby(p)
      BY <1>3 DEF Handler, Fits
    <2>2. UNCHANGED Data!server => Stays(p)
      BY AllStay
    <2> QED
      BY <1>3, <2>1, <2>2, CreatePlaces DEF Arrives, Fails
  <1>4. CASE m.type = "JOIN"
    <2>1. Data!MovePlayerToRoom(p, m.room) /\ InLobby(p)
      BY <1>4 DEF Handler, Fits
    <2> QED
      BY <1>4, <2>1, JoinPlaces DEF Arrives, Fails
  <1>5. CASE m.type = "EXIT"
    BY <1>5, ExitPlaces DEF Handler, Fits, Arrives
  <1>6. CASE m.type = "INPUT"
    <2>1. UNCHANGED Data!server /\ fault' = fault
      BY <1>6, InputPlaces DEF Handler, Fits
    <2>2. \A q \in Players : Stays(q)
      BY <2>1, AllStay
    <2> QED
      BY <1>6, <2>1, <2>2 DEF Fits, Arrives, Stays, Data!server
  <1> QED
    BY <1>1, <1>2, <1>3, <1>4, <1>5, <1>6 DEF MessageType

-----------------------------------------------------------------------------
(* Players and their sessions. *)

\* A player is at one place at most, and at none without a session; the server
\* knows it in its session, and looks for it in a room only if it is in one,
\* unless the process has ended as it entered the room.
Seat(p) ==
  /\ Out(p) \/ InLobby(p) \/ InRoom(p)
  /\ ~Out(p) => current[p] # NoSocket
  /\ current[p] # NoSocket => p \in players
  /\ fault = "none" /\ "logout" \notin Allowed /\ current[p] # NoSocket /\ Out(p)
       => roomOf[p] = Data!NoRoom

Seats == \A p \in Players : Seat(p)

\* The n-th message m of s is the one that is handled.
Serves(s, m) ==
  /\ m \in MessageType /\ Proper(m)
  /\ Session(s, m.n) /\ Handler(m, owner[s])

LEMMA SeatsStep ==
  ASSUME SessionInv, Lists, Seats, fault = "none",
         NEW s \in Sockets, NEW m, Serves(s, m), m.n # 0 => Fits(m.type, owner[s]),
         "logout" \notin Allowed /\ m.type = "LOGOUT" /\ m.n # 0 => InLobby(owner[s])
  PROVE  Seats'
  <1>1. PICK p \in Players : p = owner[s]
    BY DEF Serves, Session
  <1>2. m \in MessageType /\ (m.type = "LOGIN" <=> m.n = 1) /\ (m.n = 0 => m.type = "LOGOUT")
    BY DEF Serves, Proper
  <1>3. m.n \in 0 .. MaxSent /\ MaxSent \in Nat
    BY <1>2, SocketAssumption DEF MessageType
  <1>4. Fits(m.type, p)
    BY <1>1, <1>2 DEF Fits, Seats, Seat
  <1>5. /\ \A q \in Players : q # p => Stays(q)
        /\ p \in players => p \in players'
        /\ m.type = "LOGOUT" => Out(p)' /\ roomOf'[p] = roomOf[p]
        /\ \/ fault' = "none" /\ Arrives(m.type, p)
           \/ fault' # "none" /\ Fails(m.type, p)
    BY <1>1, <1>2, <1>4, HandlerPlaces DEF Serves
  <1>6. ASSUME NEW q \in Players, q # p
        PROVE  Seat(q)'
    <2>1. current'[q] = current[q]
      BY <1>1, <1>6 DEF Serves, Session, SessionInv, SocketTypes
    <2> QED
      BY <1>5, <1>6, <2>1 DEF Seats, Seat, Stays
  <1>7. m.n # 0 => current'[p] = s /\ s # NoSocket
    <2>1. CASE m.n = 1
      BY <1>1, <2>1, SocketsAreSome DEF Serves, Session, SessionInv, SocketTypes
    <2>2. CASE m.n > 1
      <3>1. m.n = handled[s] + 1
        BY <1>3, <2>2, TakesTheNext DEF Serves, Session, SessionInv
      <3>2. Begun(s)
        BY <1>3, <2>2, <3>1, PushedTypes DEF Begun, SessionInv
      <3>3. current[p] = s
        BY <1>1, <3>2 DEF SessionInv, OneSession
      <3>4. m.n # 0 /\ m.n # 1
        BY <1>3, <2>2
      <3>5. current' = current
        BY <3>4 DEF Serves, Session
      <3> QED
        BY <3>3, <3>5, SocketsAreSome
    <2> QED
      BY <1>3, <2>1, <2>2
  <1>8. m.n # 0 /\ m.n # 1 => current[p] # NoSocket
    <2>1. m.n # 0 /\ m.n # 1 => current' = current
      BY DEF Serves, Session
    <2> QED
      BY <1>7, <2>1
  <1>9. m.n = 0 => current'[p] = NoSocket
    BY <1>1 DEF Serves, Session, SessionInv, SocketTypes
  <1>10. Seat(p)
    BY DEF Seats
  <1>11. ~(Out(p)' /\ (InLobby(p)' \/ InRoom(p)'))
    BY DEF Out, InLobby, InRoom, HasNoSlot, SitsOnlyAt
  <1>12. Seat(p)'
    <2>1. CASE m.n = 0
      BY <1>2, <1>5, <1>9, <2>1 DEF Seat
    <2>2. CASE m.type = "LOGOUT" /\ m.n # 0
      <3>1. Out(p)' /\ p \in players' /\ m.n # 1
        BY <1>2, <1>5, <1>8, <1>10, <2>2 DEF Seat
      <3>2. "logout" \notin Allowed => roomOf'[p] = Data!NoRoom
        BY <1>1, <1>5, <2>2 DEF InLobby, Lists, Data!LobbyHasNoRoom
      <3> QED
        BY <1>7, <2>2, <3>1, <3>2 DEF Seat
    <2>3. CASE m.type # "LOGOUT" /\ fault' = "none"
      <3>1. Arrives(m.type, p)
        BY <1>5, <2>3
      <3>2. InLobby(p)' \/ InRoom(p)'
        BY <1>2, <2>3, <3>1 DEF Arrives, MessageType
      <3>3. p \in players'
        BY <1>2, <1>5, <1>8, <1>10, <2>3, <3>1 DEF Arrives, Seat
      <3> QED
        BY <1>2, <1>7, <1>11, <2>3, <3>2, <3>3 DEF Seat
    <2>4. CASE m.type # "LOGOUT" /\ fault' # "none"
      <3>1. /\ m.type \in {"JOIN", "CREATE"}
            /\ Out(p)' \/ Stays(p)
        BY <1>5, <2>4 DEF Fails
      <3>2. current'[p] # NoSocket /\ current[p] # NoSocket
        BY <1>2, <1>7, <1>8, <3>1, <2>4
      <3>3. p \in players' /\ (Out(p) \/ InLobby(p) \/ InRoom(p))
        BY <1>5, <1>10, <3>2 DEF Seat
      <3> QED
        BY <2>4, <3>1, <3>2, <3>3 DEF Seat, Stays
    <2> QED
      BY <2>1, <2>2, <2>3, <2>4
  <1> QED
    BY <1>6, <1>12 DEF Seats

-----------------------------------------------------------------------------
(* What clients have asked for. *)

\* Message m of s has not been handled.
OnItsWay(s, m) ==
  /\ m.from = s /\ m.n # 0
  /\ \/ \E i \in 1 .. Len(wire[s]) : wire[s][i] = m
     \/ \E i \in 1 .. Len(recvQueue) : recvQueue[i] = m

\* Where a client is when all is answered.
At(p, v) == (v = "lobby" => InLobby(p)) /\ (v = "room" => InRoom(p))

\* What a request takes for granted, and where it takes the client.
Needs(type, p) ==
  /\ type \in {"CREATE", "JOIN"} => InLobby(p)
  /\ type \in {"EXIT", "INPUT"} => InRoom(p)
  /\ type = "LOGOUT" /\ "logout" \notin Allowed => InLobby(p)
Leads(type) ==
  CASE type \in {"LOGIN", "EXIT"} -> "lobby"
    [] type \in {"CREATE", "JOIN", "INPUT"} -> "room"
    [] type = "LOGOUT" -> "gone"

\* The next message to be handled finds the player where it expects it; input
\* that follows finds it in the room that the message leads to.
Expected(s, m) ==
  IF m.n = handled[s] + 1 THEN Needs(m.type, owner[s]) /\ view[s] = Leads(m.type)
                          ELSE m.type = "INPUT" /\ view[s] = "room"
AskedBy(s) ==
  handled[s] # Over =>
    /\ handled[s] # 0 /\ handled[s] = sent[s] => At(owner[s], view[s])
    /\ \A m : OnItsWay(s, m) => Expected(s, m)
Asked == \A s \in Sockets : AskedBy(s)

LEMMA OnItsWayIs ==
  ASSUME SessionInv, NEW s \in Sockets, handled[s] # Over, NEW m, OnItsWay(s, m)
  PROVE  /\ m \in MessageType /\ Proper(m)
         /\ m.n \in Nat /\ handled[s] < m.n /\ m.n <= sent[s]
  <1>0. /\ wire[s] \in Seq(MessageType) /\ recvQueue \in Seq(MessageType)
        /\ sent[s] \in Nat /\ handled[s] \in Nat /\ MaxSent \in Nat
    BY SocketAssumption DEF SessionInv, SocketTypes, Over
  <1>1. handled[s] <= Pushed(s) /\ Pushed(s) <= sent[s] /\ Pushed(s) \in Int
    BY <1>0, LenProperties DEF SessionInv, Wires, Marks, Pushed
  <1>2. ASSUME NEW i \in 1 .. Len(wire[s]), wire[s][i] = m
        PROVE  m \in MessageType /\ Proper(m) /\ m.n \in Nat /\ handled[s] < m.n /\ m.n <= sent[s]
    <2>1. m \in MessageType
      BY <1>0, <1>2, ElementOfSeq
    <2>2. m.n = Pushed(s) + i /\ Proper(m)
      BY <1>2 DEF SessionInv, Wires, OnWire
    <2>3. Len(wire[s]) \in Nat /\ Pushed(s) = sent[s] - Len(wire[s])
      BY <1>0, LenProperties DEF Pushed
    <2> QED
      BY <1>0, <1>1, <2>1, <2>2, <2>3
  <1>3. ASSUME NEW i \in 1 .. Len(recvQueue), recvQueue[i] = m
        PROVE  m \in MessageType /\ Proper(m) /\ m.n \in Nat /\ handled[s] < m.n /\ m.n <= sent[s]
    <2>1. m \in MessageType /\ m.n \in Nat
      <3>1. recvQueue[i] \in MessageType
        BY <1>0, ElementOfSeq
      <3>2. m \in MessageType
        BY <1>3, <3>1
      <3> QED
        BY <1>0, <3>2 DEF MessageType
    <2>2. Queued(i, s, m.n)
      BY <1>3 DEF Queued, OnItsWay
    <2>3. Next1(i, s, m.n) /\ Proper(m)
      BY <1>3, <2>2 DEF SessionInv, Traffic, NoneLeftOut, Propers
    <2> QED
      BY <1>0, <1>1, <2>1, <2>3 DEF Next1, OnItsWay
  <1> QED
    BY <1>2, <1>3 DEF OnItsWay

LEMMA ExpectedStays ==
  ASSUME NEW s \in Sockets, NEW m, Expected(s, m),
         handled'[s] = handled[s], view'[s] = view[s], owner'[s] = owner[s],
         Stays(owner[s]) \/ m.type = "LOGIN"
  PROVE  Expected(s, m)'
  <1>1. PICK p : p = owner[s] /\ p = owner'[s]
    OBVIOUS
  <1>2. Leads(m.type)' = Leads(m.type)
    BY DEF Leads
  <1>3. m.type # "LOGIN" => (InLobby(p)' <=> InLobby(p)) /\ (InRoom(p)' <=> InRoom(p))
    BY <1>1 DEF Stays
  <1>4. Needs(m.type, p) => Needs(m.type, p)'
    BY <1>3 DEF Needs
  <1>5. m.n = handled[s] + 1 => Needs(m.type, p)' /\ view'[s] = Leads(m.type)
    BY <1>1, <1>4 DEF Expected
  <1>6. (m.n = handled[s] + 1 => Needs(m.type, owner[s])') => Expected(s, m)'
    BY <1>2 DEF Expected
  <1>7. Needs(m.type, p)' => Needs(m.type, owner[s])'
    BY <1>1 DEF Needs
  <1> QED
    BY <1>5, <1>6, <1>7

\* What is in flight stays so, and its player stays where it is.
LEMMA AskedStays ==
  ASSUME NEW s \in Sockets, AskedBy(s), \A m : OnItsWay(s, m)' => OnItsWay(s, m),
         handled'[s] = handled[s], sent'[s] = sent[s], view'[s] = view[s], owner'[s] = owner[s],
         Stays(owner[s])
  PROVE  AskedBy(s)'
  <1>1. SUFFICES ASSUME handled[s] # Over
                 PROVE  /\ (handled[s] # 0 /\ handled[s] = sent[s] => At(owner[s], view[s]))'
                        /\ \A m : OnItsWay(s, m)' => Expected(s, m)'
    BY DEF AskedBy, Over
  <1>2. \A m : OnItsWay(s, m)' => Expected(s, m)'
    BY <1>1, ExpectedStays DEF AskedBy
  <1>3. (handled[s] # 0 /\ handled[s] = sent[s] => At(owner[s], view[s]))'
    <2>1. PICK p : p = owner[s] /\ p = owner'[s]
      OBVIOUS
    <2>2. (InLobby(p)' <=> InLobby(p)) /\ (InRoom(p)' <=> InRoom(p))
      BY <2>1 DEF Stays
    <2>3. handled[s] # 0 /\ handled[s] = sent[s] => At(p, view[s])
      BY <1>1, <2>1 DEF AskedBy
    <2>4. At(p, view[s]) => At(owner[s], view[s])'
      BY <2>1, <2>2 DEF At
    <2> QED
      BY <2>3, <2>4
  <1> QED
    BY <1>2, <1>3

\* Nothing is expected of a player before its login.
LEMMA AskedFresh ==
  ASSUME SessionInv, NEW s \in Sockets, AskedBy(s), \A m : OnItsWay(s, m)' => OnItsWay(s, m),
         handled[s] = 0, handled'[s] = 0, view'[s] = view[s]
  PROVE  AskedBy(s)'
  <1>1. handled[s] # Over
    BY SocketAssumption DEF Over
  <1>2. ASSUME NEW m, OnItsWay(s, m)
        PROVE  Expected(s, m)'
    <2>1. Proper(m) /\ Expected(s, m)
      BY <1>1, <1>2, OnItsWayIs DEF AskedBy
    <2>2. m.n = handled[s] + 1 => m.type = "LOGIN" /\ view[s] = Leads(m.type)
      BY <2>1 DEF Proper, Expected
    <2>3. m.n = handled[s] + 1 => Needs(m.type, owner[s])' /\ view'[s] = Leads(m.type)
      BY <2>2 DEF Needs
    <2> QED
      BY <2>1, <2>3 DEF Expected, Leads
  <1> QED
    BY <1>2 DEF AskedBy

LEMMA HandledIsSent ==
  ASSUME SessionInv, NEW s \in Sockets, handled[s] # Over
  PROVE  handled[s] \in Nat /\ sent[s] \in Nat /\ handled[s] <= sent[s]
  <1>1. wire[s] \in Seq(MessageType) /\ sent[s] \in Nat /\ handled[s] \in Nat
    BY SocketAssumption DEF SessionInv, SocketTypes, Over
  <1> QED
    BY <1>1, LenProperties DEF SessionInv, Wires, Marks, Pushed

\* Each client asks for what it can from where it is.
Asks(s, type) ==
  \/ type = "INPUT" /\ view[s] = "room" /\ view'[s] = "room"
  \/ /\ handled[s] = sent[s] /\ view'[s] = Leads(type)
     /\ type = "LOGIN" => view[s] = "login"
     /\ type # "LOGIN" => view[s] # "login"
     /\ type \in {"CREATE", "JOIN"} => view[s] = "lobby"
     /\ type \in {"EXIT", "INPUT"} => view[s] = "room"
     /\ type = "LOGOUT" /\ "logout" \notin Allowed => view[s] = "lobby"

LEMMA RequestAsks ==
  ASSUME SocketTypes, RoomsHaveIds, NEW s \in Sockets, Request(s)
  PROVE  /\ \E type \in {"LOGIN", "CREATE", "JOIN", "EXIT", "INPUT", "LOGOUT"}, r \in Data!RoomIds :
              Send(s, type, r) /\ Asks(s, type)
         /\ \A t \in Sockets \ {s} : view'[t] = view[t]
  <1>1. 0 \in Data!RoomIds
    BY ServerAssumption DEF Data!RoomIds
  <1> QED
    BY <1>1 DEF Request, Ask, Asks, Leads, RoomsHaveIds, SocketTypes

LEMMA AskedRequest ==
  ASSUME SessionInv, Asked, NEW s \in Sockets, Request(s), UNCHANGED data
  PROVE  Asked'
  <1>1. PICK type \in {"LOGIN", "CREATE", "JOIN", "EXIT", "INPUT", "LOGOUT"}, r \in Data!RoomIds :
          Send(s, type, r) /\ Asks(s, type)
    BY RequestAsks DEF SessionInv
  <1>2. /\ UNCHANGED <<handled, owner, recvQueue, Data!server>>
        /\ \A t \in Sockets \ {s} : view'[t] = view[t]
    BY <1>1, RequestAsks DEF SessionInv, Send, data, queues, Data!server
  <1>3. \A q : Stays(q)
    BY <1>2, AllStay
  <1>4. sent[s] \in Nat /\ sent[s] + 1 \in 0 .. MaxSent
    BY <1>1, SocketAssumption DEF Send, SessionInv, SocketTypes
  <1>5. PICK new : new = Message(s, sent[s] + 1, type, r)
    OBVIOUS
  <1>6. new.n = sent[s] + 1 /\ new.type = type /\ new.from = s /\ new \in MessageType
    BY <1>4, <1>5, MessagesAre
  <1>7. /\ wire'[s] = Append(wire[s], new) /\ sent'[s] = sent[s] + 1
        /\ \A t \in Sockets \ {s} : wire'[t] = wire[t] /\ sent'[t] = sent[t]
        /\ s \notin closed
    BY <1>1, <1>5 DEF Send, SessionInv, SocketTypes
  <1>8. ASSUME NEW t \in Sockets \ {s}
        PROVE  AskedBy(t)'
    <2>1. \A m : OnItsWay(t, m)' => OnItsWay(t, m)
      BY <1>2, <1>7 DEF OnItsWay
    <2> QED
      BY <1>2, <1>3, <1>7, <2>1, AskedStays DEF Asked
  <1>9. \A m : OnItsWay(s, m)' => OnItsWay(s, m) \/ m = new
    <2>1. /\ Len(wire[s]) \in Nat /\ Len(wire'[s]) = Len(wire[s]) + 1
          /\ \A i \in 1 .. Len(wire[s]) : wire'[s][i] = wire[s][i]
          /\ wire'[s][Len(wire[s]) + 1] = new
      <3>1. wire[s] \in Seq(MessageType)
        BY DEF SessionInv, SocketTypes
      <3> QED
        BY <1>6, <1>7, <3>1, AppendProperties, LenProperties
    <2>2. \A i \in 1 .. Len(wire'[s]) : i \in 1 .. Len(wire[s]) \/ i = Len(wire[s]) + 1
      BY <2>1
    <2> QED
      BY <1>2, <2>1, <2>2 DEF OnItsWay
  <1>10. handled[s] # Over
    BY <1>7 DEF SessionInv, Wires, Marks
  <1>11. handled[s] \in Nat /\ handled[s] <= sent[s]
    BY <1>10, HandledIsSent
  <1>12. view[s] # "login" => sent[s] # 0
    BY DEF SessionInv, Wires, Marks
  <1>13. handled[s] = sent[s] /\ view[s] # "login" => At(owner[s], view[s])
    BY <1>10, <1>12 DEF Asked, AskedBy
  <1>14. Expected(s, new)'
    <2>1. PICK p : p = owner[s] /\ p = owner'[s]
      BY <1>2
    <2>2. /\ InLobby(p)' <=> InLobby(p)
          /\ InRoom(p)' <=> InRoom(p)
      BY <1>3 DEF Stays
    <2>3. handled[s] = sent[s] => Needs(type, p)
      <3>1. CASE type = "LOGIN"
        BY <3>1 DEF Needs
      <3>2. CASE type # "LOGIN"
        BY <1>1, <1>13, <2>1, <3>2 DEF Asks, At, Needs
      <3> QED
        BY <3>1, <3>2
    <2>4. handled[s] = sent[s] => view'[s] = Leads(type)
      BY <1>1 DEF Asks, Leads
    <2>5. handled[s] # sent[s] => type = "INPUT" /\ view'[s] = "room"
      BY <1>1 DEF Asks
    <2>6. Needs(type, p) => Needs(new.type, owner[s])'
      BY <1>6, <2>1, <2>2 DEF Needs
    <2>7. new.n = handled'[s] + 1 <=> handled[s] = sent[s]
      BY <1>2, <1>4, <1>6, <1>11
    <2>8. Leads(new.type)' = Leads(type)
      BY <1>6 DEF Leads
    <2> QED
      BY <1>6, <2>3, <2>4, <2>5, <2>6, <2>7, <2>8 DEF Expected
  <1>15. ASSUME NEW m, OnItsWay(s, m)
         PROVE  Expected(s, m)'
    <2>1. handled[s] # sent[s]
      BY <1>10, <1>11, <1>15, OnItsWayIs
    <2>2. view'[s] = view[s]
      BY <1>1, <2>1 DEF Asks
    <2>3. Expected(s, m)
      BY <1>10, <1>15 DEF Asked, AskedBy
    <2> QED
      BY <1>2, <1>3, <2>2, <2>3, ExpectedStays
  <1>16. AskedBy(s)'
    <2>1. handled'[s] # sent'[s]
      BY <1>2, <1>7, <1>4, <1>11
    <2> QED
      BY <1>9, <1>14, <1>15, <2>1 DEF AskedBy
  <1> QED
    BY <1>8, <1>16 DEF Asked

\* The data thread handles a message of s that was asked for.
LEMMA HandlesServes ==
  ASSUME SessionInv, Handles
  PROVE  /\ UNCHANGED <<network, sockets, view>> /\ fault = "none"
         /\ \E s \in Sockets : \E m :
              /\ Serves(s, m) /\ m = Head(recvQueue)
              /\ m.n # 0 => OnItsWay(s, m)
  <1>1. PICK m : m = Head(recvQueue)
    OBVIOUS
  <1>2. recvQueue # <<>>
    BY DEF Handles, DataThread
  <1>3. /\ m = recvQueue[1] /\ 1 \in 1 .. Len(recvQueue) /\ m \in MessageType
        /\ m.from \in Sockets /\ m.n \in 0 .. MaxSent
    BY <1>1, <1>2, HeadIs DEF SessionInv
  <1>4. UNCHANGED <<network, sockets, view>>
    BY HandlesTakes DEF SessionInv
  <1>5. PICK s \in Sockets, n \in 0 .. MaxSent : Session(s, n)
    BY HandlesTakes DEF SessionInv
  <1>6. Queued(1, m.from, m.n)
    BY <1>3 DEF Queued
  <1>7. s = m.from /\ n = m.n
    BY <1>5, <1>6 DEF Session, Takes
  <1>8. Proper(m)
    BY <1>3 DEF SessionInv, Traffic, Propers
  <1>9. Handler(m, owner[s])
    BY <1>1, <1>7 DEF Handles, DataThread
  <1>10. Serves(s, m)
    BY <1>3, <1>5, <1>7, <1>8, <1>9 DEF Serves
  <1>11. m.n # 0 => OnItsWay(s, m)
    BY <1>3, <1>7 DEF OnItsWay
  <1> QED
    BY <1>1, <1>4, <1>10, <1>11 DEF Handles

\* It is the next one, and finds the player where it expects it.
LEMMA ServesFits ==
  ASSUME SessionInv, Lists, Seats, Asked, NEW s \in Sockets, NEW m, Serves(s, m),
         m.n # 0 => OnItsWay(s, m)
  PROVE  /\ Fits(m.type, owner[s])
         /\ m.n # 0 => /\ handled[s] # Over /\ m.n = handled[s] + 1
                       /\ Needs(m.type, owner[s]) /\ view[s] = Leads(m.type)
  <1>1. PICK p \in Players : p = owner[s]
    BY DEF Serves, Session
  <1>2. m \in MessageType /\ (m.type = "LOGIN" <=> m.n = 1) /\ (m.n = 0 => m.type = "LOGOUT")
    BY DEF Serves, Proper
  <1>3. m.n \in 0 .. MaxSent
    BY <1>2 DEF MessageType
  <1>4. /\ handled[s] # Over
        /\ m.n # 0 => m.n = handled[s] + 1
        /\ \A t \in Sockets : t # s /\ owner[t] = owner[s] => ~Begun(t)
    BY <1>3, TakesTheNext DEF Serves, Session, SessionInv
  <1>5. m.n # 0 => Needs(m.type, p) /\ view[s] = Leads(m.type)
    BY <1>1, <1>4 DEF Asked, AskedBy, Expected
  <1>6. m.n = 1 => Out(p)
    <2>1. m.n = 1 => handled[s] = 0
      BY <1>3, <1>4, HandledIsSent
    <2>2. m.n = 1 => \A t \in Sockets : current[p] # t
      BY <1>1, <1>4, <2>1 DEF SessionInv, OneSession, Begun
    <2>3. m.n = 1 => current[p] = NoSocket
      BY <2>2 DEF SessionInv, SocketTypes
    <2> QED
      BY <2>3 DEF Seats, Seat
  <1>7. Out(p) \/ InLobby(p) \/ InRoom(p)
    BY DEF Seats, Seat
  <1>8. Fits(m.type, p)
    BY <1>2, <1>5, <1>6, <1>7 DEF Fits, Needs
  <1> QED
    BY <1>1, <1>4, <1>5, <1>8

LEMMA NotBegun ==
  ASSUME SocketTypes, NEW s \in Sockets, ~Begun(s)
  PROVE  handled[s] = 0 \/ handled[s] = Over
  <1>1. handled[s] \in 0 .. Over /\ MaxSent \in Nat
    BY SocketAssumption DEF SocketTypes
  <1> QED
    BY <1>1 DEF Begun, Over

StillToCome ==
  \A s \in Sockets : \A m :
    handled[s] # Over /\ OnItsWay(s, m) => handled[s] < m.n /\ m.n \in Nat

LEMMA WhatIsOnItsWay == SessionInv => StillToCome
  BY OnItsWayIs DEF StillToCome

LEMMA AskedServes ==
  ASSUME SessionInv, SessionInv', Lists, Seats, Asked, fault = "none", fault' = "none",
         NEW s \in Sockets, NEW m, Serves(s, m), m.n # 0 => OnItsWay(s, m),
         UNCHANGED <<network, sockets, view>>
  PROVE  Asked'
  <1>1. PICK p \in Players : p = owner[s] /\ p = owner'[s]
    BY DEF Serves, Session, network
  <1>2. m \in MessageType /\ Handler(m, p) /\ m.n \in 0 .. MaxSent
    BY <1>1 DEF Serves, MessageType
  <1>3. /\ Fits(m.type, p)
        /\ m.n # 0 => /\ handled[s] # Over /\ m.n = handled[s] + 1
                      /\ Needs(m.type, p) /\ view[s] = Leads(m.type)
    BY <1>1, ServesFits
  <1>4. /\ \A q \in Players : q # p => Stays(q)
        /\ Arrives(m.type, p)
    BY <1>1, <1>2, <1>3, HandlerPlaces
  <1>5. \A t \in Sockets : \A l : OnItsWay(t, l)' => OnItsWay(t, l)
    <2>1. UNCHANGED wire /\ recvQueue' = Tail(recvQueue) /\ recvQueue # <<>>
      BY DEF Serves, Session, Takes, network
    <2>2. /\ Len(recvQueue') = Len(recvQueue) - 1 /\ Len(recvQueue) \in Nat
          /\ \A i \in 1 .. Len(recvQueue') : recvQueue'[i] = recvQueue[i + 1]
      BY <2>1, HeadTailProperties, LenProperties DEF SessionInv, SocketTypes
    <2>3. \A i \in 1 .. Len(recvQueue') : i + 1 \in 1 .. Len(recvQueue)
      BY <2>2
    <2> QED
      BY <2>1, <2>2, <2>3 DEF OnItsWay
  <1>6. /\ handled'[s] = IF m.n = 0 THEN Over ELSE m.n
        /\ \A t \in Sockets \ {s} : handled'[t] = handled[t]
    BY DEF Serves, Session, SessionInv, SocketTypes
  <1>7. UNCHANGED <<sent, view, owner>>
    BY DEF network
  <1>8. ASSUME NEW t \in Sockets, owner[t] # p
        PROVE  AskedBy(t)'
    <2>1. t # s
      BY <1>1, <1>8
    <2>2. CASE owner[t] \in Players
      BY <1>4, <1>5, <1>6, <1>7, <1>8, <2>1, <2>2, AskedStays DEF Asked
    <2>3. CASE owner[t] = Nobody
      <3>1. ~Begun(t)
        BY <2>3, SpeakersAreSome DEF SessionInv, HomeInv
      <3>2. handled[t] = 0 \/ handled[t] = Over
        BY <3>1, NotBegun DEF SessionInv
      <3> QED
        BY <1>5, <1>6, <1>7, <2>1, <3>2, AskedFresh DEF Asked, AskedBy, Over
    <2> QED
      BY <2>2, <2>3 DEF SessionInv, SocketTypes
  <1>9. ASSUME NEW t \in Sockets, owner[t] = p, t # s
        PROVE  AskedBy(t)'
    <2>1. ~Begun(t)
      BY <1>1, <1>2, <1>9, TakesTheNext DEF Serves, Session, SessionInv
    <2>2. handled[t] = 0 \/ handled[t] = Over
      BY <2>1, NotBegun DEF SessionInv
    <2> QED
      BY <1>5, <1>6, <1>7, <1>9, <2>2, AskedFresh DEF Asked, AskedBy, Over
  <1>10. AskedBy(s)'
    <2>1. CASE m.n = 0
      BY <1>6, <2>1 DEF AskedBy, Over
    <2>2. CASE m.n # 0
      <3>1. handled'[s] = m.n /\ m.n = handled[s] + 1 /\ handled[s] # Over
        BY <1>3, <1>6, <2>2
      <3>2. handled'[s] # Over'
        BY <1>2, <3>1, SocketAssumption DEF Over
      <3>3. At(p, view[s])'
        BY <1>2, <1>3, <1>4, <1>7, <2>2 DEF Arrives, At, Leads, MessageType
      <3>4. At(p, view[s])' => At(owner[s], view[s])'
        BY <1>1 DEF At
      <3>5. ASSUME NEW l, OnItsWay(s, l)'
            PROVE  Expected(s, l)'
        <4>0. StillToCome'
          BY WhatIsOnItsWay, PTL
        <4>1. OnItsWay(s, l) /\ handled'[s] < l.n /\ l.n \in Nat
          BY <1>5, <3>2, <3>5, <4>0 DEF StillToCome
        <4>2. l.n # handled[s] + 1
          BY <1>2, <3>1, <4>1
        <4>3. l.type = "INPUT" /\ view[s] = "room"
          BY <3>1, <4>1, <4>2 DEF Asked, AskedBy, Expected
        <4>4. InRoom(p)'
          BY <1>7, <3>3, <4>3 DEF At
        <4>5. Needs(l.type, owner[s])' /\ view'[s] = Leads(l.type)'
          BY <1>1, <1>7, <4>3, <4>4 DEF Needs, Leads
        <4> QED
          BY <1>7, <4>3, <4>5 DEF Expected
      <3> QED
        BY <3>3, <3>4, <3>5 DEF AskedBy
    <2> QED
      BY <2>1, <2>2
  <1> QED
    BY <1>8, <1>9, <1>10 DEF Asked

-----------------------------------------------------------------------------
(* The inductive invariant, and what follows from it. *)

ServerInv ==
  /\ SessionInv /\ Lists /\ Seats
  /\ fault = "none" => Asked

LEMMA ReadsOnItsWay ==
  ASSUME SocketTypes, Wires, NEW t \in Sockets, Reads(t)
  PROVE  \A s \in Sockets : \A m : OnItsWay(s, m)' => OnItsWay(s, m)
  <1>1. wire[t] \in Seq(MessageType) /\ wire[t] # <<>> /\ recvQueue \in Seq(MessageType)
    BY DEF SocketTypes, Reads
  <1>2. /\ Len(wire[t]) \in Nat /\ 1 \in 1 .. Len(wire[t])
        /\ Head(wire[t]) = wire[t][1] /\ Head(wire[t]) \in MessageType
        /\ \A i \in 1 .. Len(Tail(wire[t])) :
             i + 1 \in 1 .. Len(wire[t]) /\ Tail(wire[t])[i] = wire[t][i + 1]
    BY <1>1, HeadTailProperties, EmptySeq, LenProperties
  <1>3. /\ wire'[t] = Tail(wire[t]) /\ \A s \in Sockets \ {t} : wire'[s] = wire[s]
        /\ recvQueue' = Append(recvQueue, Head(wire[t]))
    BY DEF Reads, SocketTypes
  <1>4. /\ Len(recvQueue) \in Nat /\ Len(recvQueue') = Len(recvQueue) + 1
        /\ \A i \in 1 .. Len(recvQueue) : recvQueue'[i] = recvQueue[i]
        /\ recvQueue'[Len(recvQueue) + 1] = Head(wire[t])
    BY <1>1, <1>2, <1>3, AppendProperties, LenProperties
  <1>5. Head(wire[t]).from = t
    BY <1>2 DEF Wires, OnWire
  <1> SUFFICES ASSUME NEW s \in Sockets, NEW m, OnItsWay(s, m)'
               PROVE  OnItsWay(s, m)
    OBVIOUS
  <1>6. ASSUME NEW i \in 1 .. Len(wire'[s]), wire'[s][i] = m
        PROVE  \E j \in 1 .. Len(wire[s]) : wire[s][j] = m
    <2>1. CASE s = t
      BY <1>2, <1>3, <1>6, <2>1
    <2>2. CASE s # t
      BY <1>3, <1>6, <2>2
    <2> QED
      BY <2>1, <2>2
  <1>7. ASSUME NEW i \in 1 .. Len(recvQueue'), recvQueue'[i] = m
        PROVE  \/ \E j \in 1 .. Len(recvQueue) : recvQueue[j] = m
               \/ m = Head(wire[t])
    <2>1. i \in 1 .. Len(recvQueue) \/ i = Len(recvQueue) + 1
      BY <1>4
    <2> QED
      BY <1>4, <1>7, <2>1
  <1>8. m = Head(wire[t]) => t = s
    BY <1>5 DEF OnItsWay
  <1> QED
    BY <1>2, <1>6, <1>7, <1>8 DEF OnItsWay

LEMMA CommunicatesOnItsWay ==
  ASSUME HomeInv, RoundTypes, Wires, Communicates
  PROVE  /\ UNCHANGED <<owner, sent, data, view>>
         /\ \A s \in Sockets : \A m : OnItsWay(s, m)' => OnItsWay(s, m)
  <1>0. SocketTypes
    BY DEF HomeInv
  <1>1. /\ UNCHANGED <<conn, owner, sent, backlog, data, view>>
        /\ \/ \E s \in temp : NewSpeaks(s) \/ NewEnds(s)
           \/ \E p \in Players : Speaks(p) \/ Ends(p)
           \/ Idles
    BY <1>0, CommunicatesDoes
  <1>2. CASE (\E s \in temp : NewSpeaks(s)) \/ (\E p \in Players : Speaks(p))
    <2>1. \E t \in Sockets : Reads(t)
      BY <1>0, <1>2 DEF NewSpeaks, Speaks, SocketTypes
    <2> QED
      BY <1>0, <1>1, <2>1, ReadsOnItsWay
  <1>3. CASE (\E s \in temp : NewEnds(s)) \/ Idles
    BY <1>1, <1>3 DEF NewEnds, Idles, OnItsWay
  <1>4. ASSUME NEW p \in Players, Ends(p)
        PROVE  \A s \in Sockets : \A m : OnItsWay(s, m)' => OnItsWay(s, m)
    <2>1. socketMap[p] \in Sockets
      BY <1>0, <1>4 DEF Ends, SocketTypes
    <2>2. PICK l : l = Message(socketMap[p], 0, "LOGOUT", 0)
      OBVIOUS
    <2>3. l \in MessageType /\ l.n = 0
      BY <2>1, <2>2, LogoutIs
    <2>4. recvQueue' = Append(recvQueue, l) /\ UNCHANGED wire
      BY <1>4, <2>2 DEF Ends, ClosePlayerSocket, Push
    <2>5. /\ Len(recvQueue) \in Nat /\ Len(recvQueue') = Len(recvQueue) + 1
          /\ \A i \in 1 .. Len(recvQueue) : recvQueue'[i] = recvQueue[i]
          /\ recvQueue'[Len(recvQueue) + 1] = l
      BY <1>0, <2>3, <2>4, AppendProperties, LenProperties DEF SocketTypes
    <2>6. \A i \in 1 .. Len(recvQueue') : i \in 1 .. Len(recvQueue) \/ i = Len(recvQueue) + 1
      BY <2>5
    <2> QED
      BY <2>3, <2>4, <2>5, <2>6 DEF OnItsWay
  <1> QED
    BY <1>1, <1>2, <1>3, <1>4

LEMMA SeatsInit == InitServer => Seats /\ Asked
  <1> SUFFICES ASSUME InitServer
               PROVE  Seats /\ Asked
    OBVIOUS
  <1>1. ASSUME NEW p \in Players
        PROVE  Seat(p)
    BY DEF InitServer, Data!Init, Seat, Out, HasNoSlot, Sits
  <1>2. ASSUME NEW s \in Sockets
        PROVE  AskedBy(s)
    <2>1. \A m : ~OnItsWay(s, m)
      BY EmptySeq DEF InitServer, Init, OnItsWay
    <2> QED
      BY <2>1 DEF InitServer, AskedBy
  <1> QED
    BY <1>1, <1>2 DEF Seats, Asked

LEMMA ServerInvStep ==
  ASSUME "relogin" \notin Allowed, ServerInv, [Next]_vars
  PROVE  ServerInv'
  <1> USE DEF ServerInv
  <1>0. SessionInv'
    BY SessionInvStep
  <1>1. SocketTypes /\ HomeInv /\ RoundTypes /\ Wires
    BY DEF SessionInv, HomeInv
  <1>2. ASSUME UNCHANGED data
        PROVE  Lists' /\ Seats'
    <2>1. UNCHANGED <<players, roomOf, lobby, rooms, roomIds, fault, current, Data!server>>
      BY <1>2 DEF data, Data!server
    <2>2. Lists'
      BY <2>1 DEF Lists, Data!RoomIdsPartitioned, Data!NoEmptyRoom, Data!Taken, Data!LobbyHasNoRoom
    <2>3. \A p \in Players : Stays(p)
      BY <2>1, AllStay
    <2>4. Seats'
      BY <2>1, <2>3 DEF Seats, Seat, Stays
    <2> QED
      BY <2>2, <2>4
  <1>3. ASSUME fault = "none", UNCHANGED data, NEW s \in Sockets,
               \A m : OnItsWay(s, m)' => OnItsWay(s, m),
               sent'[s] = sent[s], view'[s] = view[s], owner'[s] = owner[s]
        PROVE  AskedBy(s)'
    <2>1. UNCHANGED <<handled, Data!server>>
      BY <1>3 DEF data, Data!server
    <2>2. Stays(owner[s])
      BY <2>1, AllStay
    <2> QED
      BY <1>3, <2>1, <2>2, AskedStays DEF Asked
  <1>4. ASSUME fault = "none", NEW s \in Sockets, NEW p \in Players,
               Connect(p, s), UNCHANGED <<data, view>>
        PROVE  ServerInv'
    <2>1. /\ UNCHANGED <<sent, wire, recvQueue, handled>>
          /\ conn[s] = "none" /\ \A t \in Sockets \ {s} : owner'[t] = owner[t]
      BY <1>4 DEF Connect, queues, data, SessionInv, SocketTypes
    <2>2. \A t \in Sockets : \A m : OnItsWay(t, m)' => OnItsWay(t, m)
      BY <2>1 DEF OnItsWay
    <2>3. handled[s] = 0
      <3>1. sent[s] = 0 /\ s \notin closed
        BY <2>1 DEF SessionInv, Wires, Marks, Homes
      <3>2. handled[s] # Over
        BY <3>1 DEF SessionInv, Wires, Marks
      <3> QED
        BY <3>1, <3>2, HandledIsSent
    <2>4. AskedBy(s)'
      BY <1>4, <2>1, <2>2, <2>3, AskedFresh DEF Asked
    <2>5. \A t \in Sockets \ {s} : AskedBy(t)'
      BY <1>3, <1>4, <2>1, <2>2
    <2> QED
      BY <1>0, <1>2, <1>4, <2>4, <2>5 DEF Asked
  <1>5. ASSUME fault = "none", NEW s \in Sockets, Request(s), UNCHANGED data
        PROVE  ServerInv'
    BY <1>0, <1>2, <1>5, AskedRequest
  <1>6. ASSUME fault = "none", UNCHANGED <<owner, sent, data, view>>,
               \A s \in Sockets : \A m : OnItsWay(s, m)' => OnItsWay(s, m)
        PROVE  ServerInv'
    BY <1>0, <1>2, <1>3, <1>6 DEF Asked
  <1>7. ASSUME fault = "none", NEW s \in Sockets, GiveUp(s), UNCHANGED <<data, view>>
        PROVE  ServerInv'
    BY <1>6, <1>7 DEF GiveUp, sockets, queues, OnItsWay
  <1>8. ASSUME NEW s \in Sockets, Listens(s)
        PROVE  ServerInv'
    BY <1>6, <1>8 DEF Listens, Accept, network, queues, OnItsWay
  <1>9. CASE Communicates
    <2>1. /\ UNCHANGED <<owner, sent, data, view>> /\ fault = "none"
          /\ \A s \in Sockets : \A m : OnItsWay(s, m)' => OnItsWay(s, m)
      BY <1>1, <1>9, CommunicatesOnItsWay DEF Communicates
    <2> QED
      BY <1>6, <2>1
  <1>10. CASE Handles
    <2>1. UNCHANGED <<network, sockets, view>> /\ fault = "none" /\ Asked
      BY <1>10, HandlesServes
    <2>2. PICK s \in Sockets : \E m : Serves(s, m) /\ (m.n # 0 => OnItsWay(s, m))
      BY <1>10, HandlesServes
    <2>3. PICK m : Serves(s, m) /\ (m.n # 0 => OnItsWay(s, m))
      BY <2>2
    <2>4. PICK p \in Players : p = owner[s]
      BY <2>3 DEF Serves, Session
    <2>5. /\ Fits(m.type, p)
          /\ m.n # 0 => Needs(m.type, p)
      BY <2>1, <2>3, <2>4, ServesFits
    <2>6. Lists'
      BY <2>1, <2>3, <2>4, HandlerLists DEF Serves
    <2>7. Seats'
      BY <2>1, <2>3, <2>4, <2>5, SeatsStep DEF Needs
    <2>8. fault' = "none" => Asked'
      BY <1>0, <2>1, <2>3, AskedServes
    <2> QED
      BY <1>0, <2>6, <2>7, <2>8
  <1>11. CASE UNCHANGED vars
    <2>1. UNCHANGED <<owner, sent, data, view, wire, recvQueue>>
      BY <1>11 DEF vars, network, queues
    <2>2. UNCHANGED fault
      BY <2>1 DEF data
    <2>3. fault = "none" => ServerInv'
      BY <1>6, <2>1 DEF OnItsWay
    <2> QED
      BY <1>0, <1>2, <2>1, <2>2, <2>3
  <1> QED
    BY <1>4, <1>5, <1>7, <1>8, <1>9, <1>10, <1>11 DEF Next, Client

-----------------------------------------------------------------------------
(* The theorems. *)

THEOREM ServerInvAlways == "relogin" \notin Allowed => (Spec => []ServerInv)
  <1> SUFFICES ASSUME "relogin" \notin Allowed
               PROVE  Spec => []ServerInv
    OBVIOUS
  <1>1. InitServer => ServerInv
    BY SessionInit, ListsInit, SeatsInit DEF ServerInv
  <1>2. ServerInv /\ [Next]_vars => ServerInv'
    BY ServerInvStep
  <1> QED
    BY <1>1, <1>2, PTL DEF Spec

LEMMA ServerTypes ==
  ASSUME SocketTypes, RoundTypes, Lists
  PROVE  TypeOK
  <1>1. Data!TypeOK
    BY DEF Lists, Data!TypeOK, Data!ClientStates
  <1>2. pass = "player" => todo # {} /\ \A p \in todo : socketMap[p] # NoSocket
    BY DEF RoundTypes
  <1> QED
    BY <1>1, <1>2 DEF SocketTypes, RoundTypes, TypeOK, Views

\* Somebody is at the other end of every connection that can be read, and of
\* those whose messages are in the queue.
Named ==
  /\ \A s \in Sockets :
       owner[s] = Nobody => conn[s] = "none" /\ wire[s] = <<>> /\ ~InMapOf(s)
  /\ \A s \in Sockets : \A i \in 1 .. Len(wire[s]) : wire[s][i].from = s
  /\ Signed
Typed == SocketTypes /\ RoundTypes /\ RoomsHaveIds /\ Lists /\ Named

\* A message of somebody is taken to the queue.
LEMMA SignedAfterPush ==
  ASSUME SocketTypes, Signed, NEW m \in MessageType, owner[m.from] # Nobody,
         recvQueue' = Append(recvQueue, m), UNCHANGED owner
  PROVE  Signed'
  <1>1. /\ Len(recvQueue) \in Nat /\ Len(recvQueue') = Len(recvQueue) + 1
        /\ \A i \in 1 .. Len(recvQueue) : recvQueue'[i] = recvQueue[i]
        /\ recvQueue'[Len(recvQueue) + 1] = m
    BY AppendProperties, LenProperties DEF SocketTypes
  <1>2. \A i \in 1 .. Len(recvQueue') : i \in 1 .. Len(recvQueue) \/ i = Len(recvQueue) + 1
    BY <1>1
  <1> QED
    BY <1>1, <1>2 DEF Signed

LEMMA ReadsNamed ==
  ASSUME SocketTypes, Named, NEW s \in Sockets, Reads(s), UNCHANGED owner
  PROVE  /\ owner[s] \in Players
         /\ Signed'
         /\ \A t \in Sockets : wire[t] = <<>> => wire'[t] = <<>>
         /\ \A t \in Sockets : \A i \in 1 .. Len(wire'[t]) : wire'[t][i].from = t
  <1>1. wire[s] \in Seq(MessageType) /\ wire[s] # <<>>
    BY DEF SocketTypes, Reads
  <1>2. /\ 1 \in 1 .. Len(wire[s]) /\ Head(wire[s]) = wire[s][1] /\ Head(wire[s]) \in MessageType
        /\ \A i \in 1 .. Len(Tail(wire[s])) :
             i + 1 \in 1 .. Len(wire[s]) /\ Tail(wire[s])[i] = wire[s][i + 1]
    BY <1>1, HeadTailProperties, EmptySeq, LenProperties
  <1>3. owner[s] # Nobody /\ Head(wire[s]).from = s
    BY <1>1, <1>2 DEF Named
  <1>4. wire'[s] = Tail(wire[s]) /\ \A t \in Sockets \ {s} : wire'[t] = wire[t]
    BY DEF Reads, SocketTypes
  <1>5. Signed'
    BY <1>2, <1>3, SignedAfterPush DEF Reads, Named
  <1>6. ASSUME NEW t \in Sockets
        PROVE  \A i \in 1 .. Len(wire'[t]) : wire'[t][i].from = t
    <2>1. CASE t = s
      <3> SUFFICES ASSUME NEW i \in 1 .. Len(Tail(wire[s]))
                   PROVE  Tail(wire[s])[i].from = s
        BY <1>4, <2>1
      <3>1. i + 1 \in 1 .. Len(wire[s]) /\ Tail(wire[s])[i] = wire[s][i + 1]
        BY <1>2
      <3> QED
        BY <3>1 DEF Named
    <2>2. CASE t # s
      BY <1>4, <2>2 DEF Named
    <2> QED
      BY <2>1, <2>2
  <1> QED
    BY <1>1, <1>3, <1>4, <1>5, <1>6 DEF SocketTypes

LEMMA NamedCommunicates ==
  ASSUME Typed, Communicates
  PROVE  Named'
  <1> USE DEF Typed
  <1>1. /\ UNCHANGED <<conn, owner, sent, backlog, data, view>>
        /\ \/ \E s \in temp : NewSpeaks(s) \/ NewEnds(s)
           \/ \E p \in Players : Speaks(p) \/ Ends(p)
           \/ Idles
    BY CommunicatesDoes
  <1>2. ASSUME NEW s \in temp, NewSpeaks(s)
        PROVE  Named'
    <2>1. s \in Sockets /\ Reads(s)
      BY <1>2 DEF NewSpeaks, SocketTypes
    <2>2. \A t \in Sockets : InMapOf(t)' => InMapOf(t) \/ t = s
      BY <1>2 DEF NewSpeaks, Insert, InMapOf, SocketTypes
    <2>3. owner[s] # Nobody
      BY <1>1, <2>1, ReadsNamed, SocketsAreSome
    <2> QED
      BY <1>1, <2>1, <2>2, <2>3, ReadsNamed DEF Named
  <1>3. ASSUME NEW s \in temp, NewEnds(s)
        PROVE  Named'
    BY <1>1, <1>3 DEF NewEnds, Named, InMapOf, Signed
  <1>4. ASSUME NEW p \in Players, Speaks(p)
        PROVE  Named'
    <2>1. PICK s \in Sockets : s = socketMap[p] /\ Reads(s)
      BY <1>4 DEF Speaks, SocketTypes
    <2>2. \A t \in Sockets : InMapOf(t)' => InMapOf(t)
      BY <1>4 DEF Speaks, InMapOf
    <2> QED
      BY <1>1, <2>1, <2>2, ReadsNamed DEF Named
  <1>5. ASSUME NEW p \in Players, Ends(p)
        PROVE  Named'
    <2>1. PICK s \in Sockets : s = socketMap[p]
      BY <1>5 DEF Ends, SocketTypes
    <2>2. owner[s] # Nobody
      BY <2>1 DEF Named, InMapOf
    <2>3. PICK m : m = Message(s, 0, "LOGOUT", 0)
      OBVIOUS
    <2>4. m \in MessageType /\ m.from = s
      BY <2>3, LogoutIs
    <2>5. recvQueue' = Append(recvQueue, m) /\ UNCHANGED wire
      BY <1>5, <2>1, <2>3 DEF Ends, ClosePlayerSocket, Push
    <2>6. Signed'
      BY <1>1, <2>2, <2>4, <2>5, SignedAfterPush DEF Named
    <2>7. \A t \in Sockets : InMapOf(t)' => InMapOf(t)
      BY <1>5, SocketsAreSome DEF Ends, Forget, InMapOf, SocketTypes
    <2> QED
      BY <1>1, <2>5, <2>6, <2>7 DEF Named
  <1>6. CASE Idles
    BY <1>1, <1>6 DEF Idles, Named, InMapOf, Signed
  <1> QED
    BY <1>1, <1>2, <1>3, <1>4, <1>5, <1>6

LEMMA NamedStep ==
  ASSUME Typed, [Next]_vars
  PROVE  Named'
  <1> USE DEF Typed
  <1>1. ASSUME NEW s \in Sockets, NEW p \in Players, Connect(p, s)
        PROVE  Named'
    <2>1. /\ \A t \in Sockets : owner'[t] = IF t = s THEN p ELSE owner[t]
          /\ \A t \in Sockets : t # s => conn'[t] = conn[t]
          /\ UNCHANGED <<wire, recvQueue, socketMap>>
      BY <1>1 DEF Connect, queues, SocketTypes
    <2>2. \A t : InMapOf(t)' <=> InMapOf(t)
      BY <2>1 DEF InMapOf
    <2>3. \A i \in 1 .. Len(recvQueue) : recvQueue[i].from \in Sockets
      <3>1. \A i \in 1 .. Len(recvQueue) : recvQueue[i] \in MessageType
        BY ElementOfSeq DEF SocketTypes
      <3> QED
        BY <3>1 DEF MessageType
    <2>4. \A t \in Sockets : owner[t] # Nobody => owner'[t] # Nobody
      BY <2>1, SocketsAreSome
    <2>5. \A i \in 1 .. Len(recvQueue) : owner[recvQueue[i].from] # Nobody
      BY DEF Named, Signed
    <2>6. Signed'
      <3> HIDE DEF Typed
      <3> QED
        BY <2>1, <2>3, <2>4, <2>5 DEF Signed
    <2> QED
      BY <2>1, <2>2, <2>6, SocketsAreSome DEF Named
  <1>2. ASSUME NEW s \in Sockets, Request(s), UNCHANGED data
        PROVE  Named'
    <2>1. PICK type \in {"LOGIN", "CREATE", "JOIN", "EXIT", "INPUT", "LOGOUT"},
               r \in Data!RoomIds : Send(s, type, r)
      BY <1>2, RequestMessage
    <2>2. PICK m : m = Message(s, sent[s] + 1, type, r)
      OBVIOUS
    <2>3. sent[s] + 1 \in 0 .. MaxSent
      BY <2>1, SocketAssumption DEF Send, SocketTypes
    <2>4. m \in MessageType /\ m.from = s
      BY <2>2, <2>3, MessagesAre
    <2>5. /\ wire'[s] = Append(wire[s], m) /\ \A t \in Sockets \ {s} : wire'[t] = wire[t]
          /\ conn[s] # "none" /\ UNCHANGED <<conn, owner, socketMap, recvQueue>>
      BY <2>1, <2>2 DEF Send, sockets, queues, SocketTypes
    <2>6. /\ Len(wire[s]) \in Nat /\ Len(wire'[s]) = Len(wire[s]) + 1
          /\ \A i \in 1 .. Len(wire[s]) : wire'[s][i] = wire[s][i]
          /\ wire'[s][Len(wire[s]) + 1] = m
      BY <2>4, <2>5, AppendProperties, LenProperties DEF SocketTypes
    <2>7. \A i \in 1 .. Len(wire'[s]) : wire'[s][i].from = s
      <3>1. \A i \in 1 .. Len(wire'[s]) : i \in 1 .. Len(wire[s]) \/ i = Len(wire[s]) + 1
        BY <2>6
      <3> QED
        BY <2>4, <2>6, <3>1 DEF Named
    <2>8. \A t : InMapOf(t)' <=> InMapOf(t)
      BY <2>5 DEF InMapOf
    <2>9. Signed'
      BY <2>5 DEF Named, Signed
    <2>10. owner[s] # Nobody
      BY <2>5 DEF Named
    <2> QED
      BY <2>5, <2>7, <2>8, <2>9, <2>10 DEF Named
  <1>3. ASSUME NEW s \in Sockets, GiveUp(s)
        PROVE  Named'
    <2>1. /\ conn[s] # "none" /\ \A t \in Sockets : t # s => conn'[t] = conn[t]
          /\ UNCHANGED <<owner, wire, socketMap, recvQueue>>
      BY <1>3 DEF GiveUp, sockets, queues, SocketTypes
    <2> QED
      BY <2>1 DEF Named, InMapOf, Signed
  <1>4. ASSUME NEW s \in Sockets, Listens(s)
        PROVE  Named'
    BY <1>4 DEF Listens, Accept, network, queues, Named, InMapOf, Signed
  <1>5. CASE Handles
    <2>1. recvQueue # <<>> /\ recvQueue' = Tail(recvQueue) /\ UNCHANGED <<network, sockets>>
      BY <1>5 DEF Handles, DataThread
    <2>2. \A i \in 1 .. Len(recvQueue') :
            i + 1 \in 1 .. Len(recvQueue) /\ recvQueue'[i] = recvQueue[i + 1]
      BY <2>1, HeadTailProperties, LenProperties DEF SocketTypes
    <2>3. Signed'
      BY <2>1, <2>2 DEF Named, Signed, network
    <2> QED
      BY <2>1, <2>3 DEF Named, InMapOf, network, sockets
  <1>6. CASE UNCHANGED vars
    BY <1>6 DEF vars, network, sockets, queues, Named, InMapOf, Signed
  <1> QED
    BY <1>1, <1>2, <1>3, <1>4, <1>5, <1>6, NamedCommunicates DEF Next, Client

\* Whoever a message is from, the lists stay as they should be.
LEMMA ListsStep ==
  ASSUME Typed, [Next]_vars
  PROVE  Lists' /\ RoomsHaveIds'
  <1> USE DEF Typed
  <1>1. CASE Handles
    <2>1. PICK m \in MessageType, p \in Players : Handler(m, p)
      BY <1>1, HeadIs DEF Handles, DataThread, Named
    <2>2. fault = "none"
      BY <1>1 DEF Handles
    <2> QED
      BY <2>1, <2>2, HandlerLists, RoomsHaveIdsStep
  <1>2. CASE UNCHANGED data
    BY <1>2 DEF data, Lists, Data!RoomIdsPartitioned, Data!NoEmptyRoom, Data!Taken,
       Data!LobbyHasNoRoom, RoomsHaveIds
  <1>3. Handles \/ UNCHANGED data
    <2>1. Communicates => UNCHANGED data
      BY CommunicatesDoes
    <2> QED
      BY <2>1 DEF Next, Client, Listens, vars
  <1> QED
    BY <1>1, <1>2, <1>3

(***************************************************************************)
(* SocketServer.h:23, MessageQueue.h: sockets, queues and lists are what   *)
(* their types say, and the communication thread visits only connections   *)
(* that are there: the listener and the data thread do not get in its way, *)
(* whoever comes back when.                                                *)
(***************************************************************************)
THEOREM TypesAreKept == Spec => []TypeOK
  <1>1. InitServer => Typed
    <2> SUFFICES ASSUME InitServer
                 PROVE  Typed
      OBVIOUS
    <2>1. SocketTypes /\ RoundTypes /\ RoomsHaveIds /\ Signed
      BY SessionInit DEF SessionInv
    <2>2. Named
      BY <2>1, SocketsAreSome, EmptySeq DEF InitServer, Init, Named, InMapOf
    <2> QED
      BY <2>1, <2>2, ListsInit DEF Typed
  <1>2. Typed /\ [Next]_vars => Typed'
    BY SocketTypesStep, RoundTypesStep, ListsStep, NamedStep DEF Typed, Named
  <1>3. Typed => TypeOK
    BY ServerTypes DEF Typed
  <1> QED
    BY <1>1, <1>2, <1>3, PTL DEF Spec

LEMMA OutIsNowhere ==
  ASSUME NEW p, Out(p)
  PROVE  Data!Where(p) = -2
  <1>1. Data!SlotsOf(p) = {}
    <2> SUFFICES ASSUME NEW x \in (DOMAIN rooms) \X Data!Slots, rooms[x[1]][x[2]] = p
                 PROVE  FALSE
      BY DEF Data!SlotsOf
    <2>1. Sits(p, x[1], x[2])
      BY DEF Sits
    <2> QED
      BY <2>1 DEF Out, HasNoSlot
  <1> QED
    BY <1>1 DEF Out, Data!Where

\* A session is that of a connection in socketMap, or is being ended.
LEMMA SessionsEnd ==
  ASSUME SessionInv, NEW p \in Players, current[p] # NoSocket
  PROVE  socketMap[p] # NoSocket \/ LogsOut(p)
  <1>1. PICK s \in Sockets : s = current[p]
    BY DEF SessionInv, SocketTypes
  <1>2. owner[s] = p /\ Begun(s)
    BY <1>1 DEF SessionInv, OneSession
  <1>3. Pushed(s) \in Int /\ handled[s] # Over /\ handled[s] \in 1 .. MaxSent
    BY <1>2, SocketAssumption, PushedTypes DEF Begun, Over, SessionInv
  <1>4. Pushed(s) > 0
    BY <1>3 DEF SessionInv, Wires, Marks
  <1>5. s \notin backlog \cup temp
    BY <1>3, <1>4 DEF SessionInv, Wires, Marks
  <1>6. InMapOf(s) \/ s \in closed
    BY <1>2, <1>5, SocketsAreSome DEF SessionInv, Homes
  <1>7. CASE InMapOf(s)
    BY <1>2, <1>7, SocketsAreSome DEF InMapOf, SessionInv, Homes
  <1>8. CASE s \in closed
    <2>1. Before(End, s, 0)
      BY <1>2, <1>8 DEF SessionInv, Traffic, ClosedLogOut
    <2>2. PICK i : Queued(i, s, 0)
      BY <2>1 DEF Before
    <2>3. i \in DOMAIN recvQueue
      BY <2>2, LenProperties DEF Queued, SessionInv, SocketTypes
    <2> QED
      BY <1>2, <2>2, <2>3 DEF Queued, LogsOut
  <1> QED
    BY <1>6, <1>7, <1>8

(***************************************************************************)
(* SocketServer.cpp:193: no player stays in the lobby or in a room without *)
(* a connection that could still be lost or a logout on its way, when      *)
(* players connect anew only after the server has closed the last.         *)
(***************************************************************************)
THEOREM NobodyHaunts == "relogin" \notin Allowed => (Spec => []NoGhosts)
  <1>1. ServerInv => NoGhosts
    <2> SUFFICES ASSUME ServerInv, NEW p \in Players, Data!Where(p) # -2
                 PROVE  socketMap[p] # NoSocket \/ LogsOut(p)
      BY DEF NoGhosts
    <2>1. ~Out(p)
      BY OutIsNowhere
    <2>2. current[p] # NoSocket
      BY <2>1 DEF ServerInv, Seats, Seat
    <2> QED
      BY <2>2, SessionsEnd DEF ServerInv
  <1> QED
    BY <1>1, ServerInvAlways, PTL

\* If every id were in use, every room would hold a player of its own, and
\* the player that asks for a room would be one more.
LEMMA AnIdIsFree ==
  ASSUME Lists, Seats, fault = "none",
         IsFiniteSet(Players), Cardinality(Players) <= MaxRooms,
         NEW p \in Players, InLobby(p)
  PROVE  \E r \in Data!RoomIds : roomIds[r] > 0
  <1> SUFFICES ASSUME \A r \in Data!RoomIds : ~(roomIds[r] > 0)
               PROVE  FALSE
    OBVIOUS
  <1>1. DOMAIN rooms = Data!RoomIds
    BY DEF Lists, Data!RoomIdsPartitioned
  <1> DEFINE guest == [r \in Data!RoomIds |-> CHOOSE q \in Players : \E i : Sits(q, r, i)]
  <1>2. ASSUME NEW r \in Data!RoomIds
        PROVE  guest[r] \in Players \ {p} /\ roomOf[guest[r]] = r
    <2>1. PICK i \in Data!Slots : rooms[r][i] # Nobody
      BY <1>1 DEF Lists, Data!NoEmptyRoom, Data!Taken
    <2>2. rooms[r][i] \in Players /\ Sits(rooms[r][i], r, i)
      BY <1>1, <2>1 DEF Lists, Sits
    <2>3. PICK q \in Players : q = guest[r] /\ \E j : Sits(q, r, j)
      BY <2>2
    <2>4. ~HasNoSlot(q)
      BY <2>3 DEF HasNoSlot
    <2>5. InRoom(q)
      BY <2>4 DEF Seats, Seat, Out, InLobby
    <2>6. roomOf[q] = r
      BY <2>3, <2>5 DEF InRoom, SitsOnlyAt
    <2> QED
      BY <2>3, <2>4, <2>6 DEF InLobby
  <1>3. guest \in [Data!RoomIds -> Players \ {p}]
    BY <1>2
  <1>4. \A r, s \in Data!RoomIds : guest[r] = guest[s] => r = s
    BY <1>2
  <1>5. guest \in Injection(Data!RoomIds, Players \ {p})
    BY <1>3, <1>4 DEF Injection, IsInjective
  <1>6. /\ IsFiniteSet(Players \ {p})
        /\ Cardinality(Players \ {p}) = Cardinality(Players) - 1
    BY FS_RemoveElement
  <1>7. Cardinality(Data!RoomIds) <= Cardinality(Players \ {p})
    BY <1>5, <1>6, FS_Injection DEF ExistsInjection
  <1>8. Cardinality(Data!RoomIds) = MaxRooms
    BY FS_Interval, ServerAssumption DEF Data!RoomIds
  <1>9. Cardinality(Players) \in Nat
    BY FS_CardinalityType
  <1> QED
    BY <1>6, <1>7, <1>8, <1>9, ServerAssumption

(***************************************************************************)
(* DataManager.cpp:36: however requests, logins and lost connections of    *)
(* any number of players cross, no assert fails but in the handler of      *)
(* ROOM_JOIN_REQ, when there is a room id for each player, players log out *)
(* from the lobby, and connect anew only after the last connection has     *)
(* been closed.                                                            *)
(***************************************************************************)
THEOREM AssertsFailInJoinsOnly ==
  Allowed = {} /\ IsFiniteSet(Players) /\ Cardinality(Players) <= MaxRooms
    => (Spec => OnlyJoinsFail)
  <1> SUFFICES ASSUME Allowed = {}, IsFiniteSet(Players), Cardinality(Players) <= MaxRooms
               PROVE  Spec => OnlyJoinsFail
    OBVIOUS
  <1>0. "relogin" \notin Allowed
    OBVIOUS
  <1>1. ServerInv /\ [Next]_vars => [fault' # fault => Head(recvQueue).type = "JOIN"]_vars
    <2> SUFFICES ASSUME ServerInv, Next, fault' # fault
                 PROVE  Head(recvQueue).type = "JOIN"
      BY DEF vars, data
    <2>1. Handles
      <3>1. ~Communicates
        BY CommunicatesDoes DEF ServerInv, SessionInv, data
      <3> QED
        BY <3>1 DEF Next, Client, Listens, data
    <2>2. fault = "none" /\ Asked
      BY <2>1 DEF Handles, ServerInv
    <2>3. PICK s \in Sockets : \E m : /\ Serves(s, m) /\ m = Head(recvQueue)
                                      /\ m.n # 0 => OnItsWay(s, m)
      BY <2>1, <2>2, HandlesServes DEF ServerInv
    <2>4. PICK m : Serves(s, m) /\ m = Head(recvQueue) /\ (m.n # 0 => OnItsWay(s, m))
      BY <2>3
    <2>5. PICK p \in Players : p = owner[s]
      BY <2>4 DEF Serves, Session
    <2>6. m \in MessageType /\ m.n \in 0 .. MaxSent /\ Handler(m, p) /\ Session(s, m.n)
      BY <2>4, <2>5 DEF Serves, MessageType
    <2>7. /\ Fits(m.type, p)
          /\ m.n # 0 => Needs(m.type, p)
      BY <2>2, <2>4, <2>5, ServesFits DEF ServerInv
    <2>8. Fails(m.type, p)
      BY <2>2, <2>5, <2>6, <2>7, HandlerPlaces DEF ServerInv
    <2>9. m.type # "CREATE"
      <3> SUFFICES ASSUME m.type = "CREATE"
                   PROVE  FALSE
        OBVIOUS
      <3>1. InLobby(p)
        BY <2>7 DEF Fits
      <3>2. \A r \in Data!RoomIds : roomIds[r] <= 0
        BY <2>8 DEF Fails
      <3>3. PICK r \in Data!RoomIds : roomIds[r] > 0
        BY <2>2, <3>1, AnIdIsFree DEF ServerInv
      <3> QED
        BY <3>2, <3>3 DEF ServerInv, Lists
    <2>10. m.type # "LOGOUT"
      <3> SUFFICES ASSUME m.type = "LOGOUT"
                   PROVE  FALSE
        OBVIOUS
      <3>1. Out(p) /\ (p \notin players \/ roomOf[p] # Data!NoRoom)
        BY <2>8 DEF Fails
      <3>2. m.n = 0
        BY <2>7, <3>1 DEF Needs, InLobby, Out
      <3>3. Begun(s)
        BY <2>6, <3>2, TakesTheNext DEF Session, ServerInv, SessionInv
      <3>4. current[p] # NoSocket
        BY <2>5, <3>3, SocketsAreSome DEF ServerInv, SessionInv, OneSession
      <3> QED
        BY <2>2, <3>1, <3>4 DEF ServerInv, Seats, Seat
    <2> QED
      BY <2>4, <2>8, <2>9, <2>10 DEF Fails
  <1> QED
    BY <1>0, <1>1, ServerInvAlways, PTL DEF Spec, OnlyJoinsFail
=============================================================================
