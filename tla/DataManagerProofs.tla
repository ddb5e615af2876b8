------------------------ MODULE DataManagerProofs ------------------------
(***************************************************************************)
(* What holds of the server's lists for any number of players and rooms    *)
(* and whatever messages arrive in whatever order.                         *)
(***************************************************************************)
EXTENDS DataManager, TLAPS

\* The inductive invariant: the lists of the server fit together.  The room
\* ids need the rooms' typing, and a player is only ever removed from a room
\* that exists because the ids in use are not in the heap.
Lists ==
  /\ players \subseteq Players
  /\ roomOf \in [Players -> RoomIds \cup {NoRoom}]
  /\ lobby \subseteq players
  /\ DOMAIN rooms \subseteq RoomIds
  /\ rooms \in [DOMAIN rooms -> [Slots -> Players \cup {Nobody}]]
  /\ roomIds \in [RoomIds -> Nat]
  /\ fault \in Faults \cup {"none"}
  /\ RoomIdsPartitioned
  /\ NoEmptyRoom
  /\ LobbyHasNoRoom

LEMMA ListsInit == Init => Lists
  BY DataAssumption DEF Init, Lists, RoomIdsPartitioned, NoEmptyRoom,
     LobbyHasNoRoom, RoomIds, NoRoom, Faults

-----------------------------------------------------------------------------
(* The rooms. *)

LEMMA RoomsRemove ==
  ASSUME Lists, fault = "none",
         NEW p, NEW r \in DOMAIN rooms, RemovePlayerFromRoom(r, p)
  PROVE  /\ DOMAIN rooms' \subseteq RoomIds
         /\ rooms' \in [DOMAIN rooms' -> [Slots -> Players \cup {Nobody}]]
         /\ roomIds' \in [RoomIds -> Nat]
         /\ RoomIdsPartitioned'
         /\ NoEmptyRoom'
  <1>1. PICK i \in Slots :
          /\ IsFirst(rooms[r], p, i)
          /\ IF Taken(r) = {i}
               THEN /\ rooms' = [s \in DOMAIN rooms \ {r} |-> rooms[s]]
                    /\ roomIds' = [roomIds EXCEPT ![r] = @ + 1]
               ELSE /\ rooms' = [rooms EXCEPT ![r][i] = Nobody]
                    /\ UNCHANGED roomIds
    BY DEF RemovePlayerFromRoom
  <1>2. CASE Taken(r) = {i}
    <2>1. /\ rooms' = [s \in DOMAIN rooms \ {r} |-> rooms[s]]
          /\ roomIds' = [roomIds EXCEPT ![r] = @ + 1]
      BY <1>1, <1>2
    <2>2. /\ DOMAIN rooms' \subseteq RoomIds
          /\ rooms' \in [DOMAIN rooms' -> [Slots -> Players \cup {Nobody}]]
          /\ roomIds' \in [RoomIds -> Nat]
      BY <2>1 DEF Lists
    <2>3. RoomIdsPartitioned'
      BY <2>1 DEF Lists, RoomIdsPartitioned
    <2>4. NoEmptyRoom'
      BY <2>1 DEF Lists, NoEmptyRoom, Taken
    <2> QED
      BY <2>2, <2>3, <2>4
  <1>3. CASE Taken(r) # {i}
    <2>1. rooms' = [rooms EXCEPT ![r][i] = Nobody] /\ roomIds' = roomIds
      BY <1>1, <1>3
    <2>2. /\ DOMAIN rooms' = DOMAIN rooms
          /\ rooms' \in [DOMAIN rooms' -> [Slots -> Players \cup {Nobody}]]
      BY <2>1 DEF Lists
    <2>3. RoomIdsPartitioned'
      BY <2>1, <2>2 DEF Lists, RoomIdsPartitioned
    <2>4. ASSUME NEW s \in DOMAIN rooms
          PROVE  \E j \in Slots : rooms'[s][j] # Nobody
      <3>1. CASE s = r
        <4>1. PICK j \in Slots : j # i /\ rooms[r][j] # Nobody
          <5>1. \E j \in Slots : rooms[r][j] # Nobody
            BY DEF Lists, NoEmptyRoom, Taken
          <5> QED
            BY <1>3, <5>1 DEF Taken
        <4>2. rooms'[r][j] = rooms[r][j]
          BY <2>1, <4>1 DEF Lists
        <4> QED
          BY <3>1, <4>1, <4>2
      <3>2. CASE s # r
        <4>1. \E j \in Slots : rooms[s][j] # Nobody
          BY <2>4 DEF Lists, NoEmptyRoom, Taken
        <4> QED
          BY <2>1, <3>2, <4>1 DEF Lists
      <3> QED
        BY <3>1, <3>2
    <2>5. NoEmptyRoom'
      BY <2>2, <2>4 DEF NoEmptyRoom, Taken
    <2> QED
      BY <2>1, <2>2, <2>3, <2>5 DEF Lists
  <1> QED
    BY <1>2, <1>3

LEMMA RoomsAdd ==
  ASSUME Lists, fault = "none",
         NEW p \in Players, NEW r \in DOMAIN rooms, NEW i \in Slots,
         rooms' = [rooms EXCEPT ![r][i] = p], roomIds' = roomIds
  PROVE  /\ DOMAIN rooms' \subseteq RoomIds
         /\ rooms' \in [DOMAIN rooms' -> [Slots -> Players \cup {Nobody}]]
         /\ RoomIdsPartitioned'
         /\ NoEmptyRoom'
  <1>1. /\ DOMAIN rooms' = DOMAIN rooms
        /\ rooms' \in [DOMAIN rooms' -> [Slots -> Players \cup {Nobody}]]
    BY DEF Lists
  <1>2. RoomIdsPartitioned'
    BY <1>1 DEF Lists, RoomIdsPartitioned
  <1>3. ASSUME NEW s \in DOMAIN rooms
        PROVE  \E j \in Slots : rooms'[s][j] # Nobody
    <2>1. CASE s = r
      BY <2>1, DataAssumption DEF Lists
    <2>2. CASE s # r
      BY <1>3, <2>2 DEF Lists, NoEmptyRoom, Taken
    <2> QED
      BY <2>1, <2>2
  <1>4. NoEmptyRoom'
    BY <1>1, <1>3 DEF NoEmptyRoom, Taken
  <1> QED
    BY <1>1, <1>2, <1>4 DEF Lists

LEMMA RoomsOpen ==
  ASSUME Lists, fault = "none", NEW slots \in [Slots -> Players \cup {Nobody}],
         NEW r \in RoomIds, OpenRoom(r, {s \in RoomIds : roomIds[s] > 0}, slots)
  PROVE  /\ DOMAIN rooms' \subseteq RoomIds
         /\ rooms' \in [DOMAIN rooms' -> [Slots -> Players \cup {Nobody}]]
         /\ roomIds' \in [RoomIds -> Nat]
         /\ RoomIdsPartitioned'
         /\ (\E i \in Slots : slots[i] # Nobody) => NoEmptyRoom'
  <1>0. /\ r \notin DOMAIN rooms /\ roomIds[r] = 1
        /\ roomIds' = [roomIds EXCEPT ![r] = @ - 1]
        /\ rooms' = [s \in DOMAIN rooms \cup {r} |-> IF s = r THEN slots ELSE rooms[s]]
    BY DEF OpenRoom, Lists, RoomIdsPartitioned
  <1>1. /\ DOMAIN rooms' = DOMAIN rooms \cup {r}
        /\ DOMAIN rooms' \subseteq RoomIds
        /\ rooms' \in [DOMAIN rooms' -> [Slots -> Players \cup {Nobody}]]
    BY <1>0 DEF Lists
  <1>2. roomIds' \in [RoomIds -> Nat] /\ RoomIdsPartitioned'
    BY <1>0, <1>1 DEF Lists, RoomIdsPartitioned
  <1>3. ASSUME NEW i \in Slots, slots[i] # Nobody
        PROVE  NoEmptyRoom'
    <2>1. ASSUME NEW s \in DOMAIN rooms'
          PROVE  \E j \in Slots : rooms'[s][j] # Nobody
      <3>1. CASE s = r
        BY <1>0, <1>3, <3>1
      <3>2. CASE s # r
        <4>1. s \in DOMAIN rooms /\ rooms'[s] = rooms[s]
          BY <1>0, <2>1, <3>2
        <4> QED
          BY <4>1 DEF Lists, NoEmptyRoom, Taken
      <3> QED
        BY <3>1, <3>2
    <2> QED
      BY <2>1 DEF NoEmptyRoom, Taken
  <1> QED
    BY <1>1, <1>2, <1>3

\* The slots of a room somebody has just opened.
LEMMA OpenedSlots ==
  ASSUME NEW p \in Players
  PROVE  /\ [Empty EXCEPT ![1] = p] \in [Slots -> Players \cup {Nobody}]
         /\ \E i \in Slots : [Empty EXCEPT ![1] = p][i] # Nobody
         /\ Empty \in [Slots -> Players \cup {Nobody}]
  <1>1. 1 \in Slots /\ p # Nobody
    BY DataAssumption DEF Slots
  <1> QED
    BY <1>1 DEF Empty

-----------------------------------------------------------------------------
(* The handlers. *)

LEMMA RemoveFaultType ==
  ASSUME NEW p
  PROVE  /\ RemoveFault(p) \in Faults \cup {"none"}
         /\ RemoveFault(p) = "none" => p \in players /\ roomOf[p] \in DOMAIN rooms
  <1>1. CASE p \notin players
    BY <1>1 DEF RemoveFault, Faults
  <1>2. CASE p \in players /\ roomOf[p] \notin DOMAIN rooms
    BY <1>2 DEF RemoveFault, Faults
  <1>3. CASE p \in players /\ roomOf[p] \in DOMAIN rooms
    BY <1>3 DEF RemoveFault, Faults
  <1> QED
    BY <1>1, <1>2, <1>3

LEMMA MoveFaultType ==
  ASSUME NEW p, NEW r
  PROVE  /\ MoveFault(p, r) \in Faults \cup {"none"}
         /\ MoveFault(p, r) = "none" => p \in players /\ r \in DOMAIN rooms
  <1>1. CASE p \notin players
    BY <1>1 DEF MoveFault, Faults
  <1>2. CASE p \in players /\ r \notin DOMAIN rooms
    BY <1>2 DEF MoveFault, Faults
  <1>3. CASE p \in players /\ r \in DOMAIN rooms
    BY <1>3 DEF MoveFault, Faults
  <1> QED
    BY <1>1, <1>2, <1>3

LEMMA AbortLists ==
  ASSUME Lists, NEW why \in Faults \cup {"none"}, Abort(why)
  PROVE  Lists'
  BY DEF Abort, server, Lists, RoomIdsPartitioned, NoEmptyRoom, Taken,
     LobbyHasNoRoom

LEMMA UnchangedLists ==
  ASSUME Lists, UNCHANGED <<server, fault>>
  PROVE  Lists'
  BY DEF server, Lists, RoomIdsPartitioned, NoEmptyRoom, Taken, LobbyHasNoRoom

LEMMA CreatePlayerLists ==
  ASSUME Lists, NEW p \in Players, CreatePlayer(p)
  PROVE  Lists'
  BY DEF CreatePlayer, Lists, RoomIdsPartitioned, NoEmptyRoom, Taken,
     LobbyHasNoRoom

LEMMA RemovePlayerLists ==
  ASSUME Lists, fault = "none", NEW p \in Players, RemovePlayer(p)
  PROVE  Lists'
  <1> DEFINE why == IF p \in players /\ roomOf[p] = NoRoom
                      THEN "none" ELSE RemoveFault(p)
  <1>0. why \in Faults \cup {"none"}
    BY RemoveFaultType
  <1>1. CASE Abort(why)
    BY <1>0, <1>1, AbortLists
  <1>2. CASE roomOf[p] = NoRoom /\ Survive(why) /\ ~Abort(why)
    <2>1. lobby' = lobby \ {p} /\ UNCHANGED <<players, roomOf, rooms, roomIds, fault>>
      BY <1>2 DEF RemovePlayer, Survive
    <2> QED
      BY <2>1 DEF Lists, RoomIdsPartitioned, NoEmptyRoom, Taken, LobbyHasNoRoom
  <1>3. CASE roomOf[p] # NoRoom /\ Survive(why) /\ ~Abort(why)
    <2>1. /\ RemovePlayerFromRoom(roomOf[p], p)
          /\ UNCHANGED <<players, roomOf, lobby, fault>>
          /\ RemoveFault(p) = "none"
      BY <1>3 DEF RemovePlayer, Survive
    <2>2. roomOf[p] \in DOMAIN rooms
      BY <2>1, RemoveFaultType
    <2> QED
      BY <2>1, <2>2, RoomsRemove DEF Lists, LobbyHasNoRoom
  <1> QED
    BY <1>1, <1>2, <1>3 DEF RemovePlayer

LEMMA MovePlayerToRoomLists ==
  ASSUME Lists, fault = "none", NEW p \in Players, NEW r \in RoomIds \cup {NoRoom},
         MovePlayerToRoom(p, r)
  PROVE  Lists'
  <1> DEFINE why == MoveFault(p, r)
  <1>0. why \in Faults \cup {"none"}
    BY MoveFaultType
  <1>1. CASE why = "no_player" /\ Abort(why)
    BY <1>0, <1>1, AbortLists
  <1>2. CASE ~(why = "no_player" /\ Abort(why))
    <2>1. /\ lobby' = lobby \ {p}
          /\ roomOf' = [roomOf EXCEPT ![p] = r]
          /\ fault' = why
          /\ UNCHANGED <<players, roomIds>>
      BY <1>2 DEF MovePlayerToRoom
    <2>2. LobbyHasNoRoom'
      BY <2>1 DEF Lists, LobbyHasNoRoom
    <2>3. CASE why = "none"
      <3>1. PICK i \in Slots : rooms' = [rooms EXCEPT ![r][i] = p]
        BY <1>2, <2>3 DEF MovePlayerToRoom
      <3>2. r \in DOMAIN rooms
        BY <2>3, MoveFaultType
      <3> QED
        BY <1>0, <2>1, <2>2, <3>1, <3>2, RoomsAdd DEF Lists
    <2>4. CASE why # "none"
      <3>1. rooms' = rooms
        BY <1>2, <2>4 DEF MovePlayerToRoom
      <3> QED
        BY <1>0, <2>1, <2>2, <2>4, <3>1 DEF Lists, RoomIdsPartitioned, NoEmptyRoom
    <2> QED
      BY <2>3, <2>4
  <1> QED
    BY <1>1, <1>2

LEMMA CreateRoomLists ==
  ASSUME Lists, fault = "none", NEW p \in Players, CreateRoom(p)
  PROVE  Lists'
  <1> DEFINE free == {r \in RoomIds : roomIds[r] > 0}
  <1>1. CASE Abort("no_id")
    BY <1>1, AbortLists DEF Faults
  <1>2. CASE p \notin players /\ ~Abort("no_id")
    <2>1. fault' = "no_player" /\ UNCHANGED <<players, lobby, roomOf>>
      BY <1>2 DEF CreateRoom
    <2>2. PICK r \in RoomIds : OpenRoom(r, free, Empty)
      BY <1>2 DEF CreateRoom
    <2>3. NoEmptyRoom' /\ LobbyHasNoRoom'
      BY <2>1 DEF Lists, NoEmptyRoom, LobbyHasNoRoom
    <2> QED
      BY <2>1, <2>2, <2>3, RoomsOpen, OpenedSlots DEF Lists, Faults
  <1>3. CASE p \in players /\ ~Abort("no_id")
    <2>1. lobby' = lobby \ {p} /\ UNCHANGED <<players, fault>>
      BY <1>3 DEF CreateRoom
    <2>2. PICK r \in RoomIds : /\ OpenRoom(r, free, [Empty EXCEPT ![1] = p])
                               /\ roomOf' = [roomOf EXCEPT ![p] = r]
      BY <1>3 DEF CreateRoom
    <2>3. LobbyHasNoRoom'
      BY <2>1, <2>2 DEF Lists, LobbyHasNoRoom
    <2> QED
      BY <2>1, <2>2, <2>3, RoomsOpen, OpenedSlots DEF Lists
  <1> QED
    BY <1>1, <1>2, <1>3

LEMMA MovePlayerFromRoomToLobbyLists ==
  ASSUME Lists, fault = "none", NEW p \in Players, MovePlayerFromRoomToLobby(p)
  PROVE  Lists'
  <1>1. CASE Abort(RemoveFault(p))
    BY <1>1, RemoveFaultType, AbortLists
  <1>2. CASE Survive(RemoveFault(p)) /\ ~Abort(RemoveFault(p))
    <2>1. /\ RemovePlayerFromRoom(roomOf[p], p)
          /\ lobby' = lobby \cup {p}
          /\ roomOf' = [roomOf EXCEPT ![p] = NoRoom]
          /\ UNCHANGED <<players, fault>>
      BY <1>2 DEF MovePlayerFromRoomToLobby, Survive
    <2>2. p \in players /\ roomOf[p] \in DOMAIN rooms
      BY <1>2, RemoveFaultType DEF Survive
    <2> QED
      BY <2>1, <2>2, RoomsRemove DEF Lists, LobbyHasNoRoom
  <1> QED
    BY <1>1, <1>2 DEF MovePlayerFromRoomToLobby

\* The messages that only look for a player, a room or a slot.
LEMMA LookupLists ==
  ASSUME Lists, NEW p \in Players,
         InRoomMessage(p) \/ PlayerReadyCancel(p) \/ SetPlayerState(p)
  PROVE  Lists'
  <1>1. PICK why \in Faults \cup {"none"} :
          Abort(why) \/ (Survive(why) /\ UNCHANGED server)
    <2>1. CASE InRoomMessage(p)
      BY <2>1, RemoveFaultType DEF InRoomMessage
    <2>2. CASE PlayerReadyCancel(p)
      BY <2>2, RemoveFaultType DEF PlayerReadyCancel
    <2>3. CASE SetPlayerState(p)
      BY <2>3 DEF SetPlayerState, Faults
    <2> QED
      BY <2>1, <2>2, <2>3
  <1> QED
    BY <1>1, AbortLists, UnchangedLists DEF Survive

LEMMA ParseMsgLists ==
  ASSUME Lists, fault = "none", NEW p \in Players, ParseMsg(p)
  PROVE  Lists'
  BY CreatePlayerLists, RemovePlayerLists, MovePlayerToRoomLists,
     CreateRoomLists, MovePlayerFromRoomToLobbyLists, LookupLists DEF ParseMsg

LEMMA ClientMessageLists ==
  ASSUME Lists, fault = "none", NEW p \in Players, ClientMessage(p)
  PROVE  Lists'
  BY CreatePlayerLists, RemovePlayerLists, MovePlayerToRoomLists,
     CreateRoomLists, MovePlayerFromRoomToLobbyLists, LookupLists
     DEF ClientMessage, Login, Join, Create, Exit, InRoom, Closed

LEMMA ListsStep ==
  ASSUME Lists, [Next]_vars
  PROVE  Lists'
  <1>1. CASE UNCHANGED <<server, fault>>
    BY <1>1, UnchangedLists
  <1> QED
    BY <1>1, ParseMsgLists, ClientMessageLists DEF Next, SendLobbyNtf, vars, server

-----------------------------------------------------------------------------
(* The theorems. *)

THEOREM ListsInvariant == Spec => []Lists
  BY ListsInit, ListsStep, PTL DEF Spec

\* Whatever messages arrive, a room id is in use or free, not both, and no id
\* is lost: CreateRoom never hands out the id of a room that exists.
THEOREM RoomIdsArePartitioned == Spec => []RoomIdsPartitioned
  BY ListsInvariant, PTL DEF Lists

\* Whatever messages arrive, there is no room without a player.
THEOREM NoRoomIsEmpty == Spec => []NoEmptyRoom
  BY ListsInvariant, PTL DEF Lists

\* Whatever messages arrive, a player in the lobby has no room id.
THEOREM LobbyPlayersHaveNoRoom == Spec => []LobbyHasNoRoom
  BY ListsInvariant, PTL DEF Lists

-----------------------------------------------------------------------------
(* The clients, and the types. *)

LEMMA ClientsStep ==
  ASSUME Lists, client \in [Players -> ClientStates],
         listed \in [Players -> SUBSET RoomIds], [Next]_vars
  PROVE  client' \in [Players -> ClientStates] /\ listed' \in [Players -> SUBSET RoomIds]
  <1>1. CASE UNCHANGED <<client, listed>>
    BY <1>1
  <1>2. ASSUME NEW p \in Players, ClientMessage(p)
        PROVE  \/ UNCHANGED <<client, listed>>
               \/ \E s \in ClientStates : Becomes(p, s)
    BY <1>2 DEF ClientMessage, Login, Join, Create, Exit, InRoom, Closed, ClientStates
  <1>3. CASE \E p \in Players : ClientMessage(p)
    BY <1>2, <1>3 DEF Becomes
  <1>4. CASE SendLobbyNtf
    BY <1>4 DEF SendLobbyNtf, Lists
  <1> QED
    BY <1>1, <1>3, <1>4 DEF Next, vars

\* Whatever messages arrive: the server knows the players in its lobby, a
\* slot holds a player or nobody, and an id is never taken off an empty heap.
THEOREM DataTypes == Spec => []TypeOK
  <1>1. Init => TypeOK
    BY ListsInit DEF Init, Lists, TypeOK, ClientStates
  <1>2. TypeOK /\ Lists /\ [Next]_vars => TypeOK'
    BY ListsStep, ClientsStep DEF Lists, TypeOK
  <1> QED
    BY <1>1, <1>2, ListsInvariant, PTL DEF Spec
=============================================================================
