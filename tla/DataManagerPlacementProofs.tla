-------------------- MODULE DataManagerPlacementProofs --------------------
(***************************************************************************)
(* Where the players are, for any number of players, rooms and slots, when *)
(* a client waits for its answers and logs out before it logs in again.    *)
(***************************************************************************)
EXTENDS DataManagerPlacement, DataManagerProofs, FiniteSetTheorems

-----------------------------------------------------------------------------
(* The slots of the players. *)

Sits(p, r, i) == r \in DOMAIN rooms /\ i \in Slots /\ rooms[r][i] = p

LEMMA NoSlots ==
  ASSUME NEW p
  PROVE  SlotsOf(p) = {} <=> \A r, i : ~Sits(p, r, i)
  <1>1. \A r \in DOMAIN rooms, i \in Slots : <<r, i>> \in SlotsOf(p) <=> rooms[r][i] = p
    BY DEF SlotsOf
  <1>2. \A x \in SlotsOf(p) : x[1] \in DOMAIN rooms /\ x[2] \in Slots /\ rooms[x[1]][x[2]] = p
    BY DEF SlotsOf
  <1>3. ASSUME SlotsOf(p) = {}, NEW r, NEW i
        PROVE  ~Sits(p, r, i)
    BY <1>1, <1>3 DEF Sits
  <1>4. ASSUME \A r, i : ~Sits(p, r, i)
        PROVE  SlotsOf(p) = {}
    BY <1>2, <1>4 DEF Sits
  <1> QED
    BY <1>3, <1>4

SitsOnlyAt(p, r, i) == \A s, j : Sits(p, s, j) <=> s = r /\ j = i

LEMMA OneSlot ==
  ASSUME NEW p, NEW r, NEW i, SitsOnlyAt(p, r, i)
  PROVE  SlotsOf(p) = {<<r, i>>}
  <1>1. \A s \in DOMAIN rooms, j \in Slots : <<s, j>> \in SlotsOf(p) <=> rooms[s][j] = p
    BY DEF SlotsOf
  <1>2. \A x \in SlotsOf(p) : /\ x[1] \in DOMAIN rooms /\ x[2] \in Slots
                              /\ rooms[x[1]][x[2]] = p /\ x = <<x[1], x[2]>>
    BY DEF SlotsOf
  <1>3. <<r, i>> \in SlotsOf(p)
    BY <1>1 DEF Sits, SitsOnlyAt
  <1>4. \A x \in SlotsOf(p) : x = <<r, i>>
    BY <1>2 DEF Sits, SitsOnlyAt
  <1> QED
    BY <1>3, <1>4

\* A player with one slot loses it, and nobody else does.
LEMMA SitsRemove ==
  ASSUME Lists, NEW p \in Players, NEW r,
         \E i : SitsOnlyAt(p, r, i),
         RemovePlayerFromRoom(r, p)
  PROVE  \A q \in Players : \A s, j : Sits(q, s, j)' <=> q # p /\ Sits(q, s, j)
  <1> SUFFICES ASSUME NEW q \in Players, NEW s, NEW j
               PROVE  Sits(q, s, j)' <=> q # p /\ Sits(q, s, j)
    OBVIOUS
  <1> PICK k : \A t, h : Sits(p, t, h) <=> t = r /\ h = k
    BY DEF SitsOnlyAt
  <1>0. r \in DOMAIN rooms /\ k \in Slots /\ rooms[r][k] = p
    BY DEF Sits
  <1>1. PICK i \in Slots :
          /\ rooms[r][i] = p
          /\ IF Taken(r) = {i}
               THEN rooms' = [t \in DOMAIN rooms \ {r} |-> rooms[t]]
               ELSE rooms' = [rooms EXCEPT ![r][i] = Nobody]
    BY DEF RemovePlayerFromRoom, IsFirst
  <1>2. i = k
    BY <1>0, <1>1 DEF Sits
  <1>3. CASE Taken(r) = {i}
    <2>1. rooms' = [t \in DOMAIN rooms \ {r} |-> rooms[t]]
      BY <1>1, <1>3
    <2>2. \A h \in Slots : h # k => rooms[r][h] = Nobody
      BY <1>2, <1>3 DEF Taken
    <2> QED
      BY <1>0, <2>1, <2>2, DataAssumption DEF Sits
  <1>4. CASE Taken(r) # {i}
    <2>1. rooms' = [rooms EXCEPT ![r][k] = Nobody]
      BY <1>1, <1>2, <1>4
    <2>2. /\ DOMAIN rooms' = DOMAIN rooms
          /\ \A t \in DOMAIN rooms, h \in Slots :
               rooms'[t][h] = IF t = r /\ h = k THEN Nobody ELSE rooms[t][h]
      BY <1>0, <2>1 DEF Lists
    <2> QED
      BY <1>0, <2>2, DataAssumption DEF Sits
  <1> QED
    BY <1>3, <1>4

\* A player takes an empty slot, and nobody loses one.
LEMMA SitsAdd ==
  ASSUME Lists, NEW p \in Players, NEW r \in DOMAIN rooms, NEW i \in Slots,
         rooms[r][i] = Nobody, rooms' = [rooms EXCEPT ![r][i] = p],
         NEW q \in Players, NEW s, NEW j
  PROVE  Sits(q, s, j)' <=> Sits(q, s, j) \/ (q = p /\ s = r /\ j = i)
  <1>1. /\ DOMAIN rooms' = DOMAIN rooms
        /\ \A t \in DOMAIN rooms, h \in Slots :
             rooms'[t][h] = IF t = r /\ h = i THEN p ELSE rooms[t][h]
    BY DEF Lists
  <1> QED
    BY <1>1, DataAssumption DEF Sits

\* A player takes the first slot of a room that did not exist.
LEMMA SitsOpen ==
  ASSUME Lists, NEW p \in Players, NEW r, r \notin DOMAIN rooms,
         rooms' = [s \in DOMAIN rooms \cup {r} |->
                     IF s = r THEN [Empty EXCEPT ![1] = p] ELSE rooms[s]],
         NEW q \in Players, NEW s, NEW j
  PROVE  Sits(q, s, j)' <=> Sits(q, s, j) \/ (q = p /\ s = r /\ j = 1)
  <1>0. 1 \in Slots
    BY DataAssumption DEF Slots
  <1>1. /\ DOMAIN rooms' = DOMAIN rooms \cup {r}
        /\ \A h \in Slots : rooms'[r][h] = IF h = 1 THEN p ELSE Nobody
        /\ \A t \in DOMAIN rooms : rooms'[t] = rooms[t]
    BY DEF Empty
  <1> QED
    BY <1>0, <1>1, DataAssumption DEF Sits

-----------------------------------------------------------------------------
(* The inductive invariant: PlacementAgrees, player by player, and that the  *)
(* server knows every client that is logged in, or its next request would    *)
(* end the process.                                                          *)

AgreesOn(p) ==
  /\ p \in lobby <=> client[p] = "lobby"
  /\ client[p] = "room" => \E i : SitsOnlyAt(p, roomOf[p], i)
  /\ client[p] # "room" => \A s, j : ~Sits(p, s, j)
  /\ client[p] # "off" => p \in players

Placed ==
  /\ Lists
  /\ client \in [Players -> ClientStates]
  /\ listed \in [Players -> SUBSET RoomIds]
  /\ fault = "none" => \A p \in Players : AgreesOn(p)

LEMMA PlacedAgrees == Placed => PlacementAgrees
  <1> SUFFICES ASSUME Placed, fault = "none", NEW p \in Players
               PROVE  /\ p \in lobby <=> client[p] = "lobby"
                      /\ client[p] = "room" =>
                           \E i \in Slots : SlotsOf(p) = {<<roomOf[p], i>>}
                      /\ client[p] # "room" => SlotsOf(p) = {}
    BY DEF PlacementAgrees
  <1>1. AgreesOn(p)
    BY DEF Placed
  <1>2. ASSUME client[p] = "room"
        PROVE  \E i \in Slots : SlotsOf(p) = {<<roomOf[p], i>>}
    <2>1. PICK i : SitsOnlyAt(p, roomOf[p], i)
      BY <1>1, <1>2 DEF AgreesOn
    <2>2. i \in Slots
      BY <2>1 DEF Sits, SitsOnlyAt
    <2> QED
      BY <2>1, <2>2, OneSlot
  <1>3. client[p] # "room" => SlotsOf(p) = {}
    BY <1>1, NoSlots DEF AgreesOn
  <1> QED
    BY <1>1, <1>2, <1>3 DEF AgreesOn

\* What a step of p leaves alone of the other players.
Others(p) ==
  /\ players \subseteq players'
  /\ \A q \in Players \ {p} :
       /\ q \in lobby' <=> q \in lobby
       /\ client'[q] = client[q]
       /\ roomOf'[q] = roomOf[q]
       /\ \A s, j : Sits(q, s, j)' <=> Sits(q, s, j)

LEMMA OthersAgree ==
  ASSUME NEW p \in Players, Others(p), NEW q \in Players \ {p}, AgreesOn(q)
  PROVE  AgreesOn(q)'
  <1>1. \A s, j : Sits(q, s, j)' <=> Sits(q, s, j)
    BY DEF Others
  <1>2. /\ q \in lobby' <=> q \in lobby
        /\ client'[q] = client[q] /\ roomOf'[q] = roomOf[q]
        /\ q \in players => q \in players'
    BY DEF Others
  <1>3. client[q] = "room" => \E i : SitsOnlyAt(q, roomOf[q], i)'
    BY <1>1, <1>2 DEF AgreesOn, SitsOnlyAt
  <1>4. client[q] # "room" => \A s, j : ~Sits(q, s, j)'
    BY <1>1 DEF AgreesOn
  <1> QED
    BY <1>2, <1>3, <1>4 DEF AgreesOn

-----------------------------------------------------------------------------
(* The clients' requests, when no assert fails. *)

LEMMA LoginPlaced ==
  ASSUME Placed, fault = "none", NEW p \in Players, Login(p)
  PROVE  Others(p) /\ AgreesOn(p)'
  <1>1. AgreesOn(p) /\ client[p] = "off"
    BY DEF Placed, Login
  <1>2. /\ players' = players \cup {p}
        /\ roomOf' = [roomOf EXCEPT ![p] = NoRoom]
        /\ lobby' = lobby \cup {p}
        /\ rooms' = rooms
        /\ client' = [client EXCEPT ![p] = "lobby"]
    BY DEF Login, CreatePlayer, Becomes
  <1>3. \A q, s, j : Sits(q, s, j)' <=> Sits(q, s, j)
    BY <1>2 DEF Sits
  <1>4. Others(p)
    BY <1>2, <1>3 DEF Others, Placed, Lists
  <1>5. AgreesOn(p)'
    BY <1>1, <1>2, <1>3 DEF AgreesOn, Placed, Lists
  <1> QED
    BY <1>4, <1>5

LEMMA JoinPlaced ==
  ASSUME Placed, fault = "none", NEW p \in Players, NEW r, Join(p, r), fault' = "none"
  PROVE  /\ Others(p) /\ AgreesOn(p)'
         /\ r \in DOMAIN rooms /\ Taken(r) # Slots
         /\ roomOf'[p] = r
  <1>1. AgreesOn(p) /\ client[p] = "lobby"
    BY DEF Placed, Join
  <1>2. MoveFault(p, r) = "none"
    BY DEF Join, MovePlayerToRoom, Abort, Survive
  <1>3. p \in players /\ r \in DOMAIN rooms /\ Taken(r) # Slots
    <2>1. p \in players /\ r \in DOMAIN rooms
      BY <1>2, MoveFaultType
    <2> QED
      BY <1>2, <2>1 DEF MoveFault
  <1>4. /\ players' = players
        /\ lobby' = lobby \ {p}
        /\ roomOf' = [roomOf EXCEPT ![p] = r]
        /\ client' = [client EXCEPT ![p] = "room"]
    BY <1>2 DEF Join, MovePlayerToRoom, Abort, Becomes
  <1>5. PICK i \in Slots : rooms[r][i] = Nobody /\ rooms' = [rooms EXCEPT ![r][i] = p]
    BY <1>2 DEF Join, MovePlayerToRoom, Abort, IsFirst
  <1>6. \A q \in Players : \A s, j :
          Sits(q, s, j)' <=> Sits(q, s, j) \/ (q = p /\ s = r /\ j = i)
    BY <1>3, <1>5, SitsAdd DEF Placed
  <1>7. Others(p)
    BY <1>4, <1>6 DEF Others, Placed, Lists
  <1>8. client'[p] = "room" /\ roomOf'[p] = r /\ p \notin lobby' /\ p \in players'
    BY <1>3, <1>4 DEF Placed, Lists
  <1>9. SitsOnlyAt(p, roomOf[p], i)'
    BY <1>1, <1>6, <1>8 DEF AgreesOn, SitsOnlyAt
  <1> QED
    BY <1>3, <1>7, <1>8, <1>9 DEF AgreesOn

LEMMA CreatePlaced ==
  ASSUME Placed, fault = "none", NEW p \in Players, Create(p), fault' = "none"
  PROVE  /\ Others(p) /\ AgreesOn(p)'
         /\ roomOf'[p] \in RoomIds \ DOMAIN rooms
         /\ \A s \in RoomIds : s < roomOf'[p] => s \in DOMAIN rooms
  <1>1. AgreesOn(p) /\ client[p] = "lobby" /\ p \in players
    BY DEF Placed, Create, AgreesOn
  <1> DEFINE free == {r \in RoomIds : roomIds[r] > 0}
  <1>2. free = RoomIds \ DOMAIN rooms
    BY DEF Placed, Lists, RoomIdsPartitioned
  <1>3. CreateRoom(p) /\ client' = [client EXCEPT ![p] = "room"] /\ ~Abort("no_id")
    BY DEF Create, Abort, Becomes
  <1>4. PICK r \in free :
          /\ \A s \in free : r <= s
          /\ rooms' = [s \in DOMAIN rooms \cup {r} |->
                         IF s = r THEN [Empty EXCEPT ![1] = p] ELSE rooms[s]]
          /\ roomOf' = [roomOf EXCEPT ![p] = r]
    BY <1>1, <1>3 DEF CreateRoom, OpenRoom
  <1>5. /\ players' = players
        /\ lobby' = lobby \ {p}
        /\ client' = [client EXCEPT ![p] = "room"]
    BY <1>1, <1>3 DEF CreateRoom
  <1>6. \A q \in Players : \A s, j :
          Sits(q, s, j)' <=> Sits(q, s, j) \/ (q = p /\ s = r /\ j = 1)
    BY <1>2, <1>4, SitsOpen DEF Placed
  <1>7. Others(p)
    BY <1>4, <1>5, <1>6 DEF Others, Placed, Lists
  <1>8. client'[p] = "room" /\ roomOf'[p] = r /\ p \notin lobby' /\ p \in players'
    BY <1>1, <1>4, <1>5 DEF Placed, Lists
  <1>9. SitsOnlyAt(p, roomOf[p], 1)'
    BY <1>1, <1>6, <1>8 DEF AgreesOn, SitsOnlyAt
  <1>10. \A s \in RoomIds : s < r => s \in DOMAIN rooms
    BY <1>2, <1>4 DEF RoomIds
  <1> QED
    BY <1>2, <1>4, <1>7, <1>8, <1>9, <1>10 DEF AgreesOn

\* A client in a room is where the server looks for it.
LEMMA FoundInRoom ==
  ASSUME Placed, fault = "none", NEW p \in Players, client[p] = "room"
  PROVE  /\ roomOf[p] \in DOMAIN rooms /\ roomOf[p] # NoRoom
         /\ RemoveFault(p) = "none"
         /\ p \in players
         /\ p \notin lobby
  <1>1. p \in players /\ p \notin lobby
    BY DEF Placed, AgreesOn
  <1>2. PICK i : SitsOnlyAt(p, roomOf[p], i)
    BY DEF Placed, AgreesOn
  <1>3. roomOf[p] \in DOMAIN rooms /\ i \in Slots /\ rooms[roomOf[p]][i] = p
    BY <1>2 DEF Sits, SitsOnlyAt
  <1>4. p \in Occupants(roomOf[p])
    BY <1>3, DataAssumption DEF Occupants, Taken
  <1>5. roomOf[p] # NoRoom
    BY <1>3 DEF Placed, Lists, RoomIds, NoRoom
  <1> QED
    BY <1>1, <1>3, <1>4, <1>5 DEF RemoveFault

LEMMA SitsNoMore ==
  ASSUME Placed, fault = "none", NEW p \in Players, client[p] = "room",
         RemovePlayerFromRoom(roomOf[p], p)
  PROVE  \A q \in Players : \A s, j : Sits(q, s, j)' <=> q # p /\ Sits(q, s, j)
  <1>1. \E i : SitsOnlyAt(p, roomOf[p], i)
    BY DEF Placed, AgreesOn
  <1>2. Lists
    BY DEF Placed
  <1> QED
    BY <1>1, <1>2, SitsRemove

LEMMA ExitPlaced ==
  ASSUME Placed, fault = "none", NEW p \in Players, Exit(p), fault' = "none"
  PROVE  Others(p) /\ AgreesOn(p)'
  <1>1. client[p] = "room"
    BY DEF Exit
  <1>2. p \in players /\ RemoveFault(p) = "none"
    BY <1>1, FoundInRoom
  <1>3. /\ RemovePlayerFromRoom(roomOf[p], p)
        /\ players' = players
        /\ lobby' = lobby \cup {p}
        /\ roomOf' = [roomOf EXCEPT ![p] = NoRoom]
        /\ client' = [client EXCEPT ![p] = "lobby"]
    BY <1>2 DEF Exit, MovePlayerFromRoomToLobby, Abort, Becomes
  <1>4. \A q \in Players : \A s, j : Sits(q, s, j)' <=> q # p /\ Sits(q, s, j)
    BY <1>1, <1>3, SitsNoMore
  <1>5. Others(p)
    BY <1>3, <1>4 DEF Others, Placed, Lists
  <1>6. client'[p] = "lobby" /\ p \in lobby' /\ p \in players'
    BY <1>2, <1>3 DEF Placed, Lists
  <1> QED
    BY <1>4, <1>5, <1>6 DEF AgreesOn

LEMMA ClosedPlaced ==
  ASSUME Placed, fault = "none", NEW p \in Players, Closed(p), fault' = "none"
  PROVE  Others(p) /\ AgreesOn(p)'
  <1>1. /\ client[p] # "off"
        /\ client' = [client EXCEPT ![p] = "off"]
        /\ RemovePlayer(p)
    BY DEF Closed, Becomes
  <1>2. UNCHANGED <<players, roomOf>>
    BY <1>1 DEF RemovePlayer, Abort, server
  <1>3. client'[p] = "off" /\ \A q \in Players \ {p} : client'[q] = client[q]
    BY <1>1 DEF Placed
  <1>4. CASE client[p] = "lobby"
    <2>1. p \in lobby /\ roomOf[p] = NoRoom /\ \A s, j : ~Sits(p, s, j)
      BY <1>4 DEF Placed, Lists, LobbyHasNoRoom, AgreesOn
    <2>2. lobby' = lobby \ {p} /\ rooms' = rooms
      BY <1>1, <2>1 DEF RemovePlayer, Placed, Lists, Abort, Survive
    <2>3. \A q, s, j : Sits(q, s, j)' <=> Sits(q, s, j)
      BY <2>2 DEF Sits
    <2> QED
      BY <1>2, <1>3, <2>1, <2>2, <2>3 DEF Others, AgreesOn
  <1>5. CASE client[p] = "room"
    <2>1. roomOf[p] # NoRoom /\ RemoveFault(p) = "none" /\ p \notin lobby
      BY <1>5, FoundInRoom
    <2>2. lobby' = lobby /\ RemovePlayerFromRoom(roomOf[p], p)
      BY <1>1, <2>1 DEF RemovePlayer, Abort
    <2>3. \A q \in Players : \A s, j : Sits(q, s, j)' <=> q # p /\ Sits(q, s, j)
      BY <1>5, <2>2, SitsNoMore
    <2> QED
      BY <1>2, <1>3, <2>1, <2>2, <2>3 DEF Others, AgreesOn
  <1> QED
    BY <1>1, <1>4, <1>5 DEF Placed, ClientStates

LEMMA InRoomPlaced ==
  ASSUME NEW p \in Players, InRoom(p)
  PROVE  UNCHANGED <<server, client, listed>>
  BY DEF InRoom, InRoomMessage, PlayerReadyCancel, SetPlayerState, Abort, Survive

LEMMA UnchangedAgrees ==
  ASSUME UNCHANGED <<server, client>>, NEW p \in Players, AgreesOn(p)
  PROVE  AgreesOn(p)'
  <1>1. /\ players' = players /\ lobby' = lobby /\ roomOf' = roomOf
        /\ rooms' = rooms /\ client' = client
    BY DEF server
  <1>2. \A s, j : Sits(p, s, j)' <=> Sits(p, s, j)
    BY <1>1 DEF Sits
  <1>3. client[p] = "room" => \E i : SitsOnlyAt(p, roomOf[p], i)'
    BY <1>1, <1>2 DEF AgreesOn, SitsOnlyAt
  <1>4. client[p] # "room" => \A s, j : ~Sits(p, s, j)'
    BY <1>2 DEF AgreesOn
  <1> QED
    BY <1>1, <1>3, <1>4 DEF AgreesOn

LEMMA PlacedInit == Init => Placed
  <1> SUFFICES ASSUME Init
               PROVE  Placed
    OBVIOUS
  <1>1. \A p, s, j : ~Sits(p, s, j)
    BY DEF Init, Sits
  <1>2. ASSUME NEW p \in Players
        PROVE  AgreesOn(p)
    BY <1>1 DEF Init, AgreesOn
  <1> QED
    BY <1>2, ListsInit DEF Init, Placed, ClientStates

LEMMA ClientMessagePlaced ==
  ASSUME Placed, fault = "none", fault' = "none", NEW p \in Players, ClientMessage(p)
  PROVE  \A q \in Players : AgreesOn(q)'
  <1>1. CASE InRoom(p)
    BY <1>1, InRoomPlaced, UnchangedAgrees DEF Placed
  <1>2. CASE ~InRoom(p)
    <2>1. Others(p) /\ AgreesOn(p)'
      BY <1>2, LoginPlaced, JoinPlaced, CreatePlaced, ExitPlaced, ClosedPlaced
         DEF ClientMessage
    <2>2. ASSUME NEW q \in Players \ {p}
          PROVE  AgreesOn(q)'
      BY <2>1, OthersAgree DEF Placed
    <2> QED
      BY <2>1, <2>2
  <1> QED
    BY <1>1, <1>2

LEMMA PlacedStep ==
  ASSUME "anything" \notin Allowed, Placed, [Next]_vars
  PROVE  Placed'
  <1>1. /\ Lists'
        /\ client' \in [Players -> ClientStates]
        /\ listed' \in [Players -> SUBSET RoomIds]
    BY ListsStep, ClientsStep DEF Placed
  <1>2. ASSUME fault' = "none"
        PROVE  \A p \in Players : AgreesOn(p)'
    <2>1. CASE UNCHANGED <<server, client, fault>>
      BY <1>2, <2>1, UnchangedAgrees DEF Placed
    <2>2. CASE fault = "none" /\ \E p \in Players : ClientMessage(p)
      BY <1>2, <2>2, ClientMessagePlaced
    <2> QED
      BY <2>1, <2>2 DEF Next, SendLobbyNtf, vars, server
  <1> QED
    BY <1>1, <1>2 DEF Placed

-----------------------------------------------------------------------------
(* The theorems. *)

THEOREM PlacedInvariant == "anything" \notin Allowed => (Spec => []Placed)
  <1> SUFFICES ASSUME "anything" \notin Allowed
               PROVE  Spec => []Placed
    OBVIOUS
  <1>1. Placed /\ [Next]_vars => Placed'
    BY PlacedStep
  <1> QED
    BY PlacedInit, <1>1, PTL DEF Spec

\* Clients that wait for their answers, even those that ask for a room that
\* has filled up or gone, are where they believe to be and nowhere else, as
\* long as no assert has failed.
THEOREM PlayersAreWhereTheyBelieve ==
  "anything" \notin Allowed => (Spec => []PlacementAgrees)
  BY PlacedInvariant, PlacedAgrees, PTL

-----------------------------------------------------------------------------
(* No assert fails while there are as many room ids as players. *)

\* If every id were in use, every room would hold a player of its own, and
\* the player that asks for a room would be one more.
LEMMA FreeId ==
  ASSUME Placed, fault = "none", IsFiniteSet(Players),
         Cardinality(Players) <= MaxRooms, NEW p \in Players, client[p] # "room"
  PROVE  \E r \in RoomIds : roomIds[r] > 0
  <1> SUFFICES ASSUME \A r \in RoomIds : ~(roomIds[r] > 0)
               PROVE  FALSE
    OBVIOUS
  <1>1. DOMAIN rooms = RoomIds
    BY DEF Placed, Lists, RoomIdsPartitioned
  <1> DEFINE guest == [r \in RoomIds |-> CHOOSE q \in Players : \E i : Sits(q, r, i)]
  <1>2. ASSUME NEW r \in RoomIds
        PROVE  guest[r] \in Players \ {p} /\ roomOf[guest[r]] = r
    <2>1. PICK i \in Slots : rooms[r][i] # Nobody
      BY <1>1 DEF Placed, Lists, NoEmptyRoom, Taken
    <2>2. rooms[r][i] \in Players /\ Sits(rooms[r][i], r, i)
      BY <1>1, <2>1 DEF Placed, Lists, Sits
    <2>3. guest[r] \in Players /\ \E j : Sits(guest[r], r, j)
      BY <2>2
    <2>4. guest[r] # p
      BY <2>3 DEF Placed, AgreesOn
    <2>5. roomOf[guest[r]] = r
      BY <2>3 DEF Placed, AgreesOn, SitsOnlyAt
    <2> QED
      BY <2>3, <2>4, <2>5
  <1>3. guest \in [RoomIds -> Players \ {p}]
    BY <1>2
  <1>4. \A r, s \in RoomIds : guest[r] = guest[s] => r = s
    BY <1>2
  <1>5. guest \in Injection(RoomIds, Players \ {p})
    BY <1>3, <1>4 DEF Injection, IsInjective
  <1>6. /\ IsFiniteSet(Players \ {p})
        /\ Cardinality(Players \ {p}) = Cardinality(Players) - 1
    BY FS_RemoveElement
  <1>7. Cardinality(RoomIds) <= Cardinality(Players \ {p})
    BY <1>5, <1>6, FS_Injection DEF ExistsInjection
  <1>8. Cardinality(RoomIds) = MaxRooms
    BY FS_Interval, DataAssumption DEF RoomIds
  <1>9. Cardinality(Players) \in Nat
    BY FS_CardinalityType
  <1> QED
    BY <1>6, <1>7, <1>8, <1>9, DataAssumption

LEMMA NoFaultStep ==
  ASSUME Allowed = {}, IsFiniteSet(Players), Cardinality(Players) <= MaxRooms,
         Placed, NoFault, [Next]_vars
  PROVE  NoFault'
  <1>0. fault = "none"
    BY DEF NoFault
  <1>1. ASSUME NEW p \in Players, ClientMessage(p)
        PROVE  fault' = "none"
    <2>1. CASE Login(p)
      BY <1>0, <2>1 DEF Login, CreatePlayer
    <2>2. CASE \E r \in RoomIds : Join(p, r)
      BY <1>0, <2>2 DEF Join, MovePlayerToRoom, Abort, Survive
    <2>3. CASE Create(p)
      <3>1. p \in players /\ client[p] = "lobby"
        BY <1>0, <2>3 DEF Create, Placed, AgreesOn
      <3>2. {r \in RoomIds : roomIds[r] > 0} # {}
        BY <1>0, <3>1, FreeId
      <3> QED
        BY <1>0, <2>3, <3>1, <3>2 DEF Create, CreateRoom, Abort, Survive
    <2>4. CASE Exit(p)
      BY <1>0, <2>4, FoundInRoom DEF Exit, MovePlayerFromRoomToLobby, Abort, Survive
    <2>5. CASE InRoom(p)
      BY <1>0, <2>5, FoundInRoom
         DEF InRoom, InRoomMessage, PlayerReadyCancel, SetPlayerState, Abort, Survive
    <2>6. CASE Closed(p)
      <3>1. CASE client[p] = "room"
        BY <1>0, <2>6, <3>1, FoundInRoom DEF Closed, RemovePlayer, Abort, Survive
      <3>2. CASE client[p] # "room"
        <4>1. p \in players /\ p \in lobby
          BY <1>0, <2>6, <3>2 DEF Closed, Placed, AgreesOn, ClientStates
        <4>2. roomOf[p] = NoRoom
          BY <4>1 DEF Placed, Lists, LobbyHasNoRoom
        <4> QED
          BY <1>0, <2>6, <4>1, <4>2 DEF Closed, RemovePlayer, Abort, Survive
      <3> QED
        BY <3>1, <3>2
    <2> QED
      BY <1>1, <2>1, <2>2, <2>3, <2>4, <2>5, <2>6 DEF ClientMessage
  <1> QED
    BY <1>0, <1>1 DEF NoFault, Next, SendLobbyNtf, vars

\* With an id for every player, no request of a client that asks for rooms
\* with space ends the process: the player is known, its room exists, it has
\* a slot there, and a new room has an id (GetPlayer, GetRoom, GetPlayerIndex,
\* AddPlayer, CreateRoom).
THEOREM NoAssertFails ==
  ASSUME Allowed = {}, IsFiniteSet(Players), Cardinality(Players) <= MaxRooms
  PROVE  Spec => []NoFault
  <1>1. Init => NoFault
    BY DEF Init, NoFault
  <1>2. Placed /\ NoFault /\ [Next]_vars => NoFault'
    BY NoFaultStep
  <1>3. Spec => []Placed
    BY PlacedInvariant
  <1> QED
    BY <1>1, <1>2, <1>3, PTL DEF Spec

-----------------------------------------------------------------------------
(* The refinement of Placement. *)

W == [p \in Players |-> Where(p)]

\* Where the abstract specification has a player, in terms of its client.
Mapped ==
  \A p \in Players :
    /\ client[p] = "lobby" => W[p] = -1
    /\ client[p] = "room" => W[p] = roomOf[p] /\ roomOf[p] \in DOMAIN rooms
    /\ client[p] = "off" => W[p] = -2

LEMMA WhereSits ==
  ASSUME NEW p \in Players, p \notin lobby, NEW r, NEW i, SitsOnlyAt(p, r, i)
  PROVE  W[p] = r
  <1>1. SlotsOf(p) = {<<r, i>>}
    BY OneSlot
  <1>2. (CHOOSE x \in SlotsOf(p) : TRUE) = <<r, i>>
    BY <1>1
  <1> QED
    BY <1>1, <1>2 DEF W, Where

LEMMA WhereIs == Placed /\ NoFault => Mapped
  <1> SUFFICES ASSUME Placed, fault = "none", NEW p \in Players
               PROVE  /\ client[p] = "lobby" => W[p] = -1
                      /\ client[p] = "room" => W[p] = roomOf[p] /\ roomOf[p] \in DOMAIN rooms
                      /\ client[p] = "off" => W[p] = -2
    BY DEF Mapped, NoFault
  <1>1. AgreesOn(p)
    BY DEF Placed
  <1>2. CASE client[p] = "lobby"
    BY <1>1, <1>2 DEF AgreesOn, W, Where
  <1>3. CASE client[p] = "room"
    <2>1. PICK i : SitsOnlyAt(p, roomOf[p], i)
      BY <1>1, <1>3 DEF AgreesOn
    <2>2. roomOf[p] \in DOMAIN rooms
      BY <2>1 DEF Sits, SitsOnlyAt
    <2>3. W[p] = roomOf[p]
      BY <1>1, <1>3, <2>1, WhereSits DEF AgreesOn
    <2> QED
      BY <1>3, <2>2, <2>3
  <1>4. CASE client[p] = "off"
    <2>1. SlotsOf(p) = {} /\ p \notin lobby
      BY <1>1, <1>4, NoSlots DEF AgreesOn
    <2> QED
      BY <1>4, <2>1 DEF W, Where
  <1> QED
    BY <1>2, <1>3, <1>4

LEMMA WhereIsNext == Placed' /\ NoFault' => Mapped'
  BY WhereIs, PTL

\* A room has somebody in it, and a client in it one of its slots.
LEMMA RoomHasGuests ==
  ASSUME Placed, NoFault, NEW r \in RoomIds
  PROVE  r \in DOMAIN rooms <=> \E p \in Players : W[p] = r
  <1>1. ASSUME r \in DOMAIN rooms
        PROVE  \E p \in Players : W[p] = r
    <2>1. PICK i \in Slots : rooms[r][i] # Nobody
      BY <1>1 DEF NoFault, Placed, Lists, NoEmptyRoom, Taken
    <2>2. PICK p \in Players : Sits(p, r, i)
      BY <1>1, <2>1 DEF Placed, Lists, Sits
    <2>3. client[p] = "room" /\ roomOf[p] = r
      BY <2>2 DEF NoFault, Placed, AgreesOn, SitsOnlyAt
    <2> QED
      BY <2>3, WhereIs DEF Mapped
  <1>2. ASSUME NEW p \in Players, W[p] = r
        PROVE  r \in DOMAIN rooms
    BY <1>2, WhereIs DEF Mapped, Placed, ClientStates, RoomIds
  <1> QED
    BY <1>1, <1>2

LEMMA RoomHasSpace ==
  ASSUME Placed, NoFault, NEW r \in DOMAIN rooms, Taken(r) # Slots
  PROVE  Cardinality({p \in Players : W[p] = r}) < MaxSlots
  <1> DEFINE guests == {p \in Players : W[p] = r}
             seat == [p \in guests |-> CHOOSE i \in Slots : Sits(p, r, i)]
  <1>1. ASSUME NEW p \in guests
        PROVE  seat[p] \in Taken(r) /\ rooms[r][seat[p]] = p
    <2>1. client[p] = "room" /\ roomOf[p] = r
      BY WhereIs DEF Mapped, Placed, Lists, ClientStates, RoomIds
    <2>2. \E i : Sits(p, r, i)
      BY <2>1 DEF NoFault, Placed, AgreesOn, SitsOnlyAt
    <2>3. \E i \in Slots : Sits(p, r, i)
      BY <2>2 DEF Sits
    <2>4. seat[p] \in Slots /\ Sits(p, r, seat[p])
      BY <2>3
    <2> QED
      BY <2>4, DataAssumption DEF Sits, Taken
  <1>2. seat \in [guests -> Taken(r)]
    BY <1>1
  <1>3. seat \in Injection(guests, Taken(r))
    <2>1. \A p, q \in guests : seat[p] = seat[q] => p = q
      BY <1>1
    <2> QED
      BY <1>2, <2>1 DEF Injection, IsInjective
  <1>4. IsFiniteSet(Slots) /\ Cardinality(Slots) = MaxSlots
    BY FS_Interval, DataAssumption DEF Slots
  <1>5. /\ IsFiniteSet(Taken(r))
        /\ Cardinality(Taken(r)) < Cardinality(Slots)
    <2>1. Taken(r) \subseteq Slots
      BY DEF Taken
    <2> QED
      BY <1>4, <2>1, FS_Subset, FS_CardinalityType
  <1>6. Cardinality(guests) <= Cardinality(Taken(r)) /\ IsFiniteSet(guests)
    BY <1>3, <1>5, FS_Injection DEF ExistsInjection
  <1>7. Cardinality(guests) \in Nat /\ Cardinality(Taken(r)) \in Nat
    BY <1>5, <1>6, FS_CardinalityType
  <1> QED
    BY <1>4, <1>5, <1>6, <1>7, DataAssumption

LEMMA ServerUnchanged ==
  ASSUME UNCHANGED server
  PROVE  UNCHANGED W
  BY DEF server, W, Where, SlotsOf

\* The other players stay where they are.
LEMMA OthersStay ==
  ASSUME Placed, Mapped, Mapped', NEW p \in Players, Others(p)
  PROVE  W' = [W EXCEPT ![p] = W'[p]]
  <1>1. ASSUME NEW q \in Players \ {p}
        PROVE  W'[q] = W[q]
    <2>1. client'[q] = client[q] /\ roomOf'[q] = roomOf[q] /\ client[q] \in ClientStates
      BY DEF Others, Placed
    <2> QED
      BY <2>1 DEF Mapped, ClientStates
  <1>2. W = [q \in Players |-> W[q]] /\ W' = [q \in Players |-> W'[q]]
    BY DEF W
  <1> QED
    BY <1>1, <1>2

LEMMA AbstractStep ==
  ASSUME Placed, NoFault, Mapped, NoFault', Mapped',
         NEW p \in Players, ClientMessage(p)
  PROVE  [Abstract!Next]_W
  <1>0. fault = "none" /\ fault' = "none"
    BY DEF NoFault
  <1>1. /\ client[p] = "lobby" => W[p] = -1
        /\ client[p] = "room" => W[p] = roomOf[p] /\ roomOf[p] \in RoomIds
        /\ client[p] = "off" => W[p] = -2
        /\ client'[p] = "lobby" => W'[p] = -1
        /\ client'[p] = "room" => W'[p] = roomOf'[p]
        /\ client'[p] = "off" => W'[p] = -2
    BY DEF Mapped, Placed, Lists
  <1>2. Abstract!RoomIds = RoomIds
    BY DEF RoomIds, Abstract!RoomIds
  <1>3. CASE Login(p)
    <2>1. W' = [W EXCEPT ![p] = W'[p]]
      BY <1>0, <1>3, LoginPlaced, OthersStay
    <2>2. W[p] = -2 /\ W'[p] = -1
      BY <1>1, <1>3 DEF Login, Becomes, Placed
    <2>3. Abstract!Arrive(p)
      BY <2>1, <2>2 DEF W, Abstract!Arrive, Abstract!Moves, Abstract!Nowhere, Abstract!InLobby
    <2> QED
      BY <2>3 DEF Abstract!Next
  <1>4. ASSUME NEW r \in RoomIds, Join(p, r)
        PROVE  Abstract!Next
    <2>1. Others(p) /\ r \in DOMAIN rooms /\ Taken(r) # Slots /\ roomOf'[p] = r
      BY <1>0, <1>4, JoinPlaced
    <2>2. W' = [W EXCEPT ![p] = W'[p]]
      BY <2>1, OthersStay
    <2>3. W[p] = -1 /\ W'[p] = r
      BY <1>1, <1>4, <2>1 DEF Join, Becomes, Placed
    <2>4. Abstract!In(r) = {q \in Players : W[q] = r}
      BY DEF Abstract!In, W
    <2>5. Abstract!In(r) # {} /\ Cardinality(Abstract!In(r)) < MaxSlots
      BY <2>1, <2>4, RoomHasGuests, RoomHasSpace
    <2>6. Abstract!Moves(p, Abstract!InLobby, r)
      BY <2>2, <2>3 DEF W, Abstract!Moves, Abstract!InLobby
    <2>7. Abstract!Cardinality(Abstract!In(r)) = Cardinality(Abstract!In(r))
      BY DEF Abstract!Cardinality, Cardinality
    <2>8. Abstract!Enter(p, r)
      BY <2>5, <2>6, <2>7 DEF Abstract!Enter
    <2> QED
      BY <1>2, <2>8 DEF Abstract!Next
  <1>5. CASE Create(p)
    <2>1. /\ Others(p) /\ roomOf'[p] \in RoomIds \ DOMAIN rooms
          /\ \A s \in RoomIds : s < roomOf'[p] => s \in DOMAIN rooms
      BY <1>0, <1>5, CreatePlaced
    <2>2. W' = [W EXCEPT ![p] = W'[p]]
      BY <2>1, OthersStay
    <2>3. W[p] = -1 /\ W'[p] = roomOf'[p]
      BY <1>1, <1>5 DEF Create, Becomes, Placed
    <2>4. \A s : Abstract!In(s) = {q \in Players : W[q] = s}
      BY DEF Abstract!In, W
    <2>5. \A s \in RoomIds : Abstract!In(s) # {} <=> s \in DOMAIN rooms
      BY <2>4, RoomHasGuests
    <2>6. PICK r \in RoomIds : r = roomOf'[p]
      BY <2>1
    <2>7. Abstract!Open(p, r)
      BY <1>2, <2>1, <2>2, <2>3, <2>5, <2>6
         DEF W, Abstract!Open, Abstract!Moves, Abstract!InLobby
    <2> QED
      BY <1>2, <2>7 DEF Abstract!Next
  <1>6. CASE Exit(p)
    <2>1. W' = [W EXCEPT ![p] = W'[p]]
      BY <1>0, <1>6, ExitPlaced, OthersStay
    <2>2. W[p] = roomOf[p] /\ roomOf[p] \in RoomIds /\ W'[p] = -1
      BY <1>1, <1>6 DEF Exit, Becomes, Placed
    <2>3. PICK r \in RoomIds : r = roomOf[p]
      BY <2>2
    <2>4. Abstract!Moves(p, r, -1)
      BY <2>1, <2>2, <2>3 DEF W, Abstract!Moves
    <2>5. Abstract!Return(p)
      BY <1>2, <2>4 DEF Abstract!Return, Abstract!InLobby
    <2> QED
      BY <2>5 DEF Abstract!Next
  <1>7. CASE InRoom(p)
    BY <1>7, InRoomPlaced, ServerUnchanged
  <1>8. CASE Closed(p)
    <2>1. W' = [W EXCEPT ![p] = W'[p]]
      BY <1>0, <1>8, ClosedPlaced, OthersStay
    <2>2. W'[p] = -2
      BY <1>1, <1>8 DEF Closed, Becomes, Placed
    <2>3. Abstract!Depart(p)
      BY <2>1, <2>2 DEF W, Abstract!Depart, Abstract!Nowhere
    <2> QED
      BY <2>3 DEF Abstract!Next
  <1> QED
    BY <1>3, <1>4, <1>5, <1>6, <1>7, <1>8 DEF ClientMessage

\* Whoever asks for a room that is gone or full is nowhere when the assert
\* fails; the other asserts leave everybody where they are.
LEMMA FailedAssert ==
  ASSUME Placed, fault = "none", fault' # "none", NEW p \in Players, ClientMessage(p)
  PROVE  \/ UNCHANGED server
         \/ client[p] = "lobby" /\ lobby' = lobby \ {p} /\ rooms' = rooms
  <1>1. client[p] # "off" => p \in players
    BY DEF Placed, AgreesOn
  <1>2. CASE \E r \in RoomIds : Join(p, r)
    BY <1>2 DEF Join, MovePlayerToRoom, Abort
  <1>3. CASE Create(p)
    BY <1>1, <1>3 DEF Create, CreateRoom, Abort
  <1>4. CASE Login(p) \/ Exit(p) \/ InRoom(p) \/ Closed(p)
    BY <1>4 DEF Login, Exit, InRoom, Closed, CreatePlayer, MovePlayerFromRoomToLobby,
       InRoomMessage, PlayerReadyCancel, SetPlayerState, RemovePlayer, Abort, Survive
  <1> QED
    BY <1>2, <1>3, <1>4 DEF ClientMessage

LEMMA FailedJoin ==
  ASSUME Placed, fault = "none", NEW p \in Players, client[p] = "lobby",
         lobby' = lobby \ {p}, rooms' = rooms
  PROVE  Abstract!Next
  <1>1. \A q : SlotsOf(q)' = SlotsOf(q)
    BY DEF SlotsOf
  <1>2. SlotsOf(p) = {}
    BY NoSlots DEF Placed, AgreesOn
  <1>3. Where(p)' = -2
    BY <1>1, <1>2 DEF Where
  <1>4. ASSUME NEW q \in Players \ {p}
        PROVE  Where(q)' = Where(q)
    <2>1. SlotsOf(q)' = SlotsOf(q) /\ (q \in lobby' <=> q \in lobby)
      BY <1>1
    <2> QED
      BY <2>1 DEF Where
  <1>5. W' = [W EXCEPT ![p] = -2]
    BY <1>3, <1>4 DEF W
  <1>6. Abstract!Depart(p)
    BY <1>5 DEF W, Abstract!Depart, Abstract!Nowhere
  <1> QED
    BY <1>6 DEF Abstract!Next

LEMMA PlacementStep ==
  ASSUME "anything" \notin Allowed, Placed, Placed', [Next]_vars
  PROVE  [Abstract!Next]_W
  <1>1. CASE UNCHANGED server
    BY <1>1, ServerUnchanged
  <1>2. ASSUME fault = "none", NEW p \in Players, ClientMessage(p), ~UNCHANGED server
        PROVE  [Abstract!Next]_W
    <2>1. CASE fault' # "none"
      BY <1>2, <2>1, FailedAssert, FailedJoin
    <2>2. CASE fault' = "none"
      <3>1. NoFault /\ NoFault'
        BY <1>2, <2>2 DEF NoFault
      <3> QED
        BY <1>2, <3>1, WhereIs, WhereIsNext, AbstractStep
    <2> QED
      BY <2>1, <2>2
  <1> QED
    BY <1>1, <1>2 DEF Next, SendLobbyNtf, vars, server

\* Where the server has the players is a behaviour of Placement, for any
\* number of players, rooms and slots: a player is at one place at a time, a
\* room is entered only when somebody is in it and there is space, and a new
\* room gets the smallest number that is not in use.
THEOREM PlacementIsImplemented ==
  "anything" \notin Allowed => (Spec => ImplementsPlacement)
  <1> SUFFICES ASSUME "anything" \notin Allowed
               PROVE  Spec => Abstract!Spec
    BY DEF ImplementsPlacement
  <1>1. Init => Abstract!Init
    BY DEF Init, Where, SlotsOf, Abstract!Init, Abstract!Nowhere
  <1>2. Placed /\ Placed' /\ [Next]_vars => [Abstract!Next]_W
    BY PlacementStep
  <1>3. Spec => []Placed
    BY PlacedInvariant
  <1> QED
    BY <1>1, <1>2, <1>3, PTL DEF Spec, Abstract!Spec, W
=============================================================================
