--------------------------- MODULE DataManager ---------------------------
(***************************************************************************)
(* Who is where: the players the server knows, the lobby, the rooms and    *)
(* the stock of room ids (Data/DataManager.cpp, PlayerManager.cpp,         *)
(* RoomManager.cpp, and the slots of Room.cpp).  What goes on inside a     *)
(* room, Player::state included, is in module Room.                        *)
(*                                                                         *)
(* DataManager::Tick handles one message at a time.  A failed assert ends  *)
(* the process: `fault` then says which one it was, the lists are as they  *)
(* were when it failed, and nothing happens any more.  Built without       *)
(* asserts (NDEBUG), the program goes on from these states: by undefined   *)
(* behaviour where the end of a map is dereferenced, and from a room that  *)
(* is full with a player who is acknowledged there and has no slot.        *)
(***************************************************************************)
EXTENDS Integers, FiniteSets

CONSTANTS
  Players,    \* the player ids that clients use
  Nobody,     \* an empty slot
  MaxRooms,   \* MAX_ROOM_NUM
  MaxSlots,   \* MAX_ROOM_PLAYER_NUM
  Allowed     \* what the clients are allowed to do, see below

(***************************************************************************)
(* A client waits for the answer to one request before it sends the next.  *)
(* Module Server has the connections they log in and are lost on.  Allowed *)
(* lifts restrictions on clients:                                          *)
(*   "stale"     a client may ask for a room of the last LOBBY_NTF it got, *)
(*               even if the room has filled up or gone since              *)
(*   "anything"  any message about any player may arrive at any time       *)
(***************************************************************************)
ASSUME DataAssumption ==
  /\ Nobody \notin Players
  /\ MaxRooms \in Nat \ {0}
  /\ MaxSlots \in Nat \ {0}
  /\ Allowed \subseteq {"stale", "anything"}

RoomIds == 0 .. MaxRooms - 1
NoRoom == -1
Slots == 1..MaxSlots
Empty == [i \in Slots |-> Nobody]
Faults == {"no_player", "no_room", "not_in_room", "room_full", "no_id"}
ClientStates == {"off", "lobby", "room"}

VARIABLES
  players,   \* PlayerManager::players, its keys
  roomOf,    \* Player::roomId
  lobby,     \* RoomManager::lobbyPlayers
  rooms,     \* RoomManager::rooms, a function from ids to slots
  roomIds,   \* RoomManager::roomIds, how often each id is in the heap
  fault,     \* the assert that failed, or "none"
  client,    \* where each client believes it is (environment)
  listed     \* the rooms with space of the last LOBBY_NTF (environment)

server == <<players, roomOf, lobby, rooms, roomIds>>
vars == <<players, roomOf, lobby, rooms, roomIds, fault, client, listed>>

Init ==
  /\ players = {}
  /\ roomOf = [p \in Players |-> NoRoom]
  /\ lobby = {}
  /\ rooms = [r \in {} |-> Empty]
  /\ roomIds = [r \in RoomIds |-> 1]
  /\ fault = "none"
  /\ client = [p \in Players |-> "off"]
  /\ listed = [p \in Players |-> {}]

-----------------------------------------------------------------------------
(* Rooms. *)

Taken(r) == {i \in Slots : rooms[r][i] # Nobody}
Occupants(r) == {rooms[r][i] : i \in Taken(r)}

\* i is the first slot that holds x (std::find, the loop of Room::AddPlayer).
IsFirst(slots, x, i) == slots[i] = x /\ \A j \in Slots : j < i => slots[j] # x

\* Room::RemovePlayer, and RoomManager::RemoveRoom if the room is empty then.
\* Seeded fault: the room is kept.
RemovePlayerFromRoomKeep(r, p) ==
  \E i \in Slots :
    /\ IsFirst(rooms[r], p, i)
    /\ rooms' = [rooms EXCEPT ![r][i] = Nobody]
    /\ UNCHANGED roomIds
\* Seeded fault: the id does not go back.
RemovePlayerFromRoomLeak(r, p) ==
  \E i \in Slots :
    /\ IsFirst(rooms[r], p, i)
    /\ rooms' = IF Taken(r) = {i}
                  THEN [s \in DOMAIN rooms \ {r} |-> rooms[s]]
                  ELSE [rooms EXCEPT ![r][i] = Nobody]
    /\ UNCHANGED roomIds
RemovePlayerFromRoom(r, p) ==
  \E i \in Slots :
    /\ IsFirst(rooms[r], p, i)
    /\ IF Taken(r) = {i}
         THEN /\ rooms' = [s \in DOMAIN rooms \ {r} |-> rooms[s]]
              /\ roomIds' = [roomIds EXCEPT ![r] = @ + 1]
         ELSE /\ rooms' = [rooms EXCEPT ![r][i] = Nobody]
              /\ UNCHANGED roomIds

\* The assert that stops the removal of p from the room it is thought to be
\* in (GetPlayer, GetRoom, GetPlayerIndex), and the one that stops its move
\* into room r (GetPlayer, GetRoom, AddPlayer).
RemoveFault(p) ==
  CASE p \notin players -> "no_player"
    [] p \in players /\ roomOf[p] \notin DOMAIN rooms -> "no_room"
    [] p \in players /\ roomOf[p] \in DOMAIN rooms ->
         IF p \in Occupants(roomOf[p]) THEN "none" ELSE "not_in_room"
MoveFault(p, r) ==
  CASE p \notin players -> "no_player"
    [] p \in players /\ r \notin DOMAIN rooms -> "no_room"
    [] p \in players /\ r \in DOMAIN rooms ->
         IF Taken(r) = Slots THEN "room_full" ELSE "none"

\* The process ends.
Abort(why) == why # "none" /\ fault' = why /\ UNCHANGED server
Survive(why) == why = "none" /\ UNCHANGED fault

-----------------------------------------------------------------------------
(* The handlers of DataManager::ParseMsg. *)

\* LOGIN_REQ: CreatePlayer keeps a player that exists, but puts it in the
\* lobby whatever it was doing.
CreatePlayer(p) ==
  /\ players' = players \cup {p}
  /\ roomOf' = [roomOf EXCEPT ![p] = NoRoom]
  /\ lobby' = lobby \cup {p}
  /\ UNCHANGED <<rooms, roomIds, fault>>

\* LOGOUT_REQ.  The player stays in players, and keeps its room id.
RemovePlayer(p) ==
  LET why == IF p \in players /\ roomOf[p] = NoRoom THEN "none" ELSE RemoveFault(p)
  IN  \/ Abort(why)
      \/ /\ Survive(why)
         /\ IF roomOf[p] = NoRoom
              THEN lobby' = lobby \ {p} /\ UNCHANGED <<rooms, roomIds>>
              ELSE RemovePlayerFromRoom(roomOf[p], p) /\ UNCHANGED lobby
         /\ UNCHANGED <<players, roomOf>>

\* ROOM_JOIN_REQ.  The room the player may be in already is not left.  When
\* the room is not there or full, the player has left the lobby and has the
\* id of the room by then.
\* Seeded fault: the player stays in the lobby as well.
MovePlayerToRoomKeepLobby(p, r) ==
  LET why == MoveFault(p, r)
  IN  \/ why = "no_player" /\ Abort(why)
      \/ /\ why # "no_player"
         /\ roomOf' = [roomOf EXCEPT ![p] = r]
         /\ IF why = "none"
              THEN \E i \in Slots : /\ IsFirst(rooms[r], Nobody, i)
                                    /\ rooms' = [rooms EXCEPT ![r][i] = p]
              ELSE UNCHANGED rooms
         /\ fault' = why
         /\ UNCHANGED <<players, lobby, roomIds>>
MovePlayerToRoom(p, r) ==
  LET why == MoveFault(p, r)
  IN  \/ why = "no_player" /\ Abort(why)
      \/ /\ why # "no_player"
         /\ lobby' = lobby \ {p}
         /\ roomOf' = [roomOf EXCEPT ![p] = r]
         /\ IF why = "none"
              THEN \E i \in Slots : /\ IsFirst(rooms[r], Nobody, i)
                                    /\ rooms' = [rooms EXCEPT ![r][i] = p]
              ELSE UNCHANGED rooms
         /\ fault' = why
         /\ UNCHANGED <<players, roomIds>>

\* A room with the smallest of the ids that are free.
OpenRoom(r, free, slots) ==
  /\ r \in free /\ \A s \in free : r <= s
  /\ roomIds' = [roomIds EXCEPT ![r] = @ - 1]
  /\ rooms' = [s \in DOMAIN rooms \cup {r} |-> IF s = r THEN slots ELSE rooms[s]]

\* ROOM_CREATE_REQ: the room is there before the player is looked for, to be
\* moved into it as by ROOM_JOIN_REQ.
\* Seeded fault: the smallest id, free or not.
CreateRoomUnchecked(p) ==
  \E r \in RoomIds :
    /\ OpenRoom(r, RoomIds, [Empty EXCEPT ![1] = p])
    /\ p \in players
    /\ lobby' = lobby \ {p}
    /\ roomOf' = [roomOf EXCEPT ![p] = r]
    /\ UNCHANGED <<players, fault>>
CreateRoom(p) ==
  LET free == {r \in RoomIds : roomIds[r] > 0}
  IN  \/ free = {} /\ Abort("no_id")
      \/ /\ p \notin players
         /\ \E r \in RoomIds : OpenRoom(r, free, Empty)
         /\ fault' = "no_player"
         /\ UNCHANGED <<players, lobby, roomOf>>
      \/ /\ p \in players
         /\ \E r \in RoomIds : /\ OpenRoom(r, free, [Empty EXCEPT ![1] = p])
                               /\ roomOf' = [roomOf EXCEPT ![p] = r]
         /\ lobby' = lobby \ {p}
         /\ UNCHANGED <<players, fault>>

\* ROOM_EXIT_REQ and PLAYER_EXIT_REQ.
\* Seeded fault: the player keeps its room id, as after LOGOUT_REQ.
MovePlayerFromRoomToLobbyKeepRoomId(p) ==
  LET why == RemoveFault(p)
  IN  \/ Abort(why)
      \/ /\ Survive(why)
         /\ RemovePlayerFromRoom(roomOf[p], p)
         /\ lobby' = lobby \cup {p}
         /\ UNCHANGED <<players, roomOf>>
MovePlayerFromRoomToLobby(p) ==
  LET why == RemoveFault(p)
  IN  \/ Abort(why)
      \/ /\ Survive(why)
         /\ RemovePlayerFromRoom(roomOf[p], p)
         /\ lobby' = lobby \cup {p}
         /\ roomOf' = [roomOf EXCEPT ![p] = NoRoom]
         /\ UNCHANGED players

\* PLAYER_INPUT_NTF looks for the player's slot in its room, and
\* PLAYER_READY_CANCEL_REQ for its room; those that set Player::state look
\* for the player.  What they change is in module Room.
InRoomMessage(p) ==
  LET why == RemoveFault(p)
  IN  Abort(why) \/ (Survive(why) /\ UNCHANGED server)
PlayerReadyCancel(p) ==
  LET why == IF RemoveFault(p) = "not_in_room" THEN "none" ELSE RemoveFault(p)
  IN  Abort(why) \/ (Survive(why) /\ UNCHANGED server)
SetPlayerState(p) ==
  LET why == IF p \in players THEN "none" ELSE "no_player"
  IN  Abort(why) \/ (Survive(why) /\ UNCHANGED server)

\* RoomManager::SendLobbyNtf, once a second: the clients in the lobby learn
\* of the rooms.  A client does not ask for a room that is listed as full.
SendLobbyNtf ==
  /\ listed' = [p \in Players |->
                  IF p \in lobby THEN {r \in DOMAIN rooms : Taken(r) # Slots}
                                 ELSE listed[p]]
  /\ UNCHANGED <<server, fault, client>>

-----------------------------------------------------------------------------
(* The clients, and the network. *)

Becomes(p, s) == client' = [client EXCEPT ![p] = s] /\ UNCHANGED listed

Login(p) == client[p] = "off" /\ CreatePlayer(p) /\ Becomes(p, "lobby")

Join(p, r) ==
  /\ client[p] = "lobby"
  /\ r \in listed[p]
  /\ "stale" \in Allowed \/ MoveFault(p, r) = "none"
  /\ MovePlayerToRoom(p, r)
  /\ Becomes(p, "room")

Create(p) == client[p] = "lobby" /\ CreateRoom(p) /\ Becomes(p, "room")

Exit(p) == client[p] = "room" /\ MovePlayerFromRoomToLobby(p) /\ Becomes(p, "lobby")

InRoom(p) ==
  /\ client[p] = "room"
  /\ InRoomMessage(p) \/ PlayerReadyCancel(p) \/ SetPlayerState(p)
  /\ UNCHANGED <<client, listed>>

\* SocketServer::ClosePlayerSocket: the connection is closed or lost.
Closed(p) == client[p] # "off" /\ RemovePlayer(p) /\ Becomes(p, "off")

ParseMsg(p) ==
  \/ CreatePlayer(p)
  \/ RemovePlayer(p)
  \/ \E r \in RoomIds \cup {NoRoom} : MovePlayerToRoom(p, r)
  \/ CreateRoom(p)
  \/ MovePlayerFromRoomToLobby(p)
  \/ InRoomMessage(p)
  \/ PlayerReadyCancel(p)
  \/ SetPlayerState(p)

ClientMessage(p) ==
  \/ Login(p)
  \/ \E r \in RoomIds : Join(p, r)
  \/ Create(p)
  \/ Exit(p)
  \/ InRoom(p)
  \/ Closed(p)

Next ==
  /\ fault = "none"
  /\ IF "anything" \in Allowed
       THEN \E p \in Players : ParseMsg(p) /\ UNCHANGED <<client, listed>>
       ELSE (\E p \in Players : ClientMessage(p)) \/ SendLobbyNtf

Spec == Init /\ [][Next]_vars

-----------------------------------------------------------------------------
(***************************************************************************)
(* Types.                                                                  *)
(***************************************************************************)
TypeOK ==
  /\ players \subseteq Players
  /\ roomOf \in [Players -> RoomIds \cup {NoRoom}]
  /\ lobby \subseteq players
  /\ DOMAIN rooms \subseteq RoomIds
  /\ rooms \in [DOMAIN rooms -> [Slots -> Players \cup {Nobody}]]
  /\ roomIds \in [RoomIds -> Nat]
  /\ fault \in Faults \cup {"none"}
  /\ client \in [Players -> ClientStates]
  /\ listed \in [Players -> SUBSET RoomIds]

(***************************************************************************)
(* Whatever messages arrive, a room id is either in use or in the heap,    *)
(* and there once: no id is lost and none is given out twice               *)
(* (RoomManager::CreateRoom's assert(suc), RemoveRoom).                    *)
(***************************************************************************)
RoomIdsPartitioned ==
  \A r \in RoomIds : roomIds[r] = IF r \in DOMAIN rooms THEN 0 ELSE 1

(***************************************************************************)
(* Whatever messages arrive, no room outlives its last player, unless the  *)
(* process ends.                                                           *)
(***************************************************************************)
NoEmptyRoom == fault = "none" => \A r \in DOMAIN rooms : Taken(r) # {}

(***************************************************************************)
(* Whatever messages arrive, a player in the lobby is thought to be in no  *)
(* room; RemovePlayer relies on it to find the player.                     *)
(***************************************************************************)
LobbyHasNoRoom == \A p \in lobby : roomOf[p] = NoRoom

(***************************************************************************)
(* A client that believes it is in the lobby is there and nowhere else; a  *)
(* client that believes it is in a room has exactly one slot, in the room  *)
(* the server thinks it is in; the others have none.                       *)
(***************************************************************************)
SlotsOf(p) == {x \in (DOMAIN rooms) \X Slots : rooms[x[1]][x[2]] = p}
PlacementAgrees ==
  fault = "none" =>
    \A p \in Players :
      /\ p \in lobby <=> client[p] = "lobby"
      /\ client[p] = "room" => \E i \in Slots : SlotsOf(p) = {<<roomOf[p], i>>}
      /\ client[p] # "room" => SlotsOf(p) = {}

(***************************************************************************)
(* No assert fails.                                                        *)
(***************************************************************************)
NoFault == fault = "none"

(***************************************************************************)
(* RoomManager.cpp:10 and Room.cpp:256: a room that somebody is added to   *)
(* exists and has an empty slot.                                           *)
(***************************************************************************)
RoomCanBeJoined == fault \notin {"no_room", "room_full"}
=============================================================================
