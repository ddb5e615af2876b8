# XTankServerWin in TLA+

XTankServerWin is the server of an online tank game. Players log in over TCP,
meet in a lobby, gather in rooms of up to four, and play matches in lockstep:
the server collects one command per player and frame and forwards the frame to
everybody in the match, and the clients compute the game from the commands.
This directory holds a TLA+ model of the server, configurations that check it
with TLC, and proofs that TLAPS checks.

The server's own code is about 1900 lines of C++ (`src/Data`, `src/Socket`,
`src/Util`, `src/Main.cpp`). `src/Protobuf` is generated, `src/Include/google`
is the Protocol Buffers library; neither is modelled. The repository has no
tests and no documentation besides comments, so what the code is meant to do is
taken from its comments, its assertions and the structure of its messages.

## 1. The system

### Threads

`Main.cpp` starts three threads that run for ever:

| thread | loop | shares |
|---|---|---|
| data (`DataManager::Tick`) | pop at most one message from `MsgRecvQueue`, handle it (`ParseMsg`), tick the lobby and every room | the two queues |
| listener (`ServerListenerThread`) | accept a connection, put it in `tempSocketSet` | `tempSocketSet`, under `socketSetMutex` |
| communication (`ServerCommunicaThread`) | read a message from each new connection, one from each player's connection, send one message of `MsgSendQueue` | `tempSocketSet`, the two queues |

All players, rooms and matches belong to the data thread: the hard part of the
core is not data races but the order in which messages and ticks arrive. A
message is handled when it gets to the head of the queue, against whatever
state the server has then, which may not be the state its sender has seen.

### Components

| component | state | operations | correct when |
|---|---|---|---|
| `Room` (`Data/Room.cpp`) | four slots, `roomState`, `initPlayers`, commands per frame, additional commands per slot, frame clock; `Player::state` of its occupants | add and remove a player, file input, tick: ask who is ready, start a match, let newcomers cut in, forward a frame | all players of a match have the same frames; starts and cut-ins complete; server and clients agree on who is how far |
| `TickUtil` (`Util/TickUtil.h`) | frame id, time in the frame | reset, delay, poll | frames come on time, none twice, no drift |
| `DataManager`, `PlayerManager`, `RoomManager` | the players, their room ids, the lobby, the rooms, the heap of room ids | login, logout, create, join and leave a room, `LOBBY_NTF` | a player is at one place, rooms come and go with their players, no id is lost, no assert fails |
| `SocketServer` (`Socket/SocketServer.cpp`) | new connections, connection per player, buffers | accept, receive, send, close | a lost connection is a logout, messages are read and sent whole |
| `MessageQueue` (`Socket/MessageQueue.h`) | two queues under a lock | push, pop | FIFO, nothing lost |
| `Latency`, `Main`, configuration | -- | -- | -- |

### The life of a match

A room is `OUT_GAME` until all its occupants are READY. It then sends them
`GAME_READY_REQ` and is `WAITING_START` until all occupants are READY_START
(`GAME_READY_ACK`), and `GAMING` from then on. A player who joins a running
match sends `PLAYER_CUT_IN_REQ`; at the next tick it is sent `GAME_READY_REQ`
and the room is `WAITING_CUT_IN`, while frames go on, until everybody is
READY_START or GAMING. The newcomer is then sent all frames so far
(`PLAYER_CUT_IN_NTF`) and is forwarded the frames that follow. Its client plays
through the history, reports `PLAYER_CHASE_UP_NTF`, and the next frame holds a
CUT_IN command for its slot. When a GAMING player leaves, the next frame holds
an EXIT command for its slot.

### What is hard to get right

- Requests that cross a change of state: cancelling readiness while the match
  starts, joining a room that has gone, input for a frame that is past.
- Who is waited for, when players come and go between a request and its answer.
- Newcomers: no frame may be missed, repeated or different for them.
- State that outlives its owner: `Player` objects and their room ids live as
  long as the server, slots are reused, room ids are reused.
- A clock that is polled, by a thread that may stall for more than a period.
- Assertions that rest on what clients do.
- Connections that are lost, or replaced, at any of these moments; non-blocking
  sockets that take or give part of a message.

`PROJECT.json` lists each of these hazards at its line, with the properties
that cover it.

## 2. The modules

| module | what it is |
|---|---|
| `Room` | one room and its clients |
| `Lockstep`, `RoomLockstep` | what a room promises, and the mapping that shows it keeps the promise |
| `TickUtil` | the frame clock |
| `DataManager` | players, lobby, rooms and room ids, with the clients and the loss of connections |
| `Placement`, `DataManagerPlacement` | where a player can be, and the mapping |
| `SocketServer` | connections, the threads that serve them, the two message queues |
| `Framing` | how messages are cut out of the bytes of one connection |
| `Server` | `SocketServer` and `DataManager` joined through the queues |
| `Sessions` | what the data thread may rely on: each player's connections one after the other |
| `MCRoom`, `MCDataManager` | instances for TLC (symmetry) |
| `RoomProofs`, `RoomLockstepProofs`, `TickUtilProofs`, `DataManagerProofs`, `DataManagerPlacementProofs`, `ServerProofs`, `ServerDataProofs`, `FramingProofs` | theorems and proofs |

### Room

`phase` alternates between handling a message and ticking, as the loop of
`DataManager::Tick` does. Other rooms and players elsewhere show as
`NoMessage`. State variables carry the names of the fields: `slots` is
`mPlayers`, `cmds` is `playersCmdMap`, `addition` is `additionPlayersCmd`.
`initPlayers` is a set because the vector is filled in slot order.

Each kind of message is an action of its own (`AddPlayer`, `PlayerReady`,
`PlayerReadyCancel`, `PlayerCutIn`, `GameReadyAck`, `PlayerChaseUp`,
`AddPlayerGameInput`, `Leave`), and `Tick` has one disjunct per room state with
everything that one call of `Room::Tick` does in its order: `GamingRoomTick`
is `JudgePlayerCutIn`, `JudgePlayerChaseUp` and `GamingTick`;
`WaitingCutInTick` is `JudgeCanStartCutIn` and `GamingTick`. That
`GamingTick` sends to the players who are GAMING after the first two calls, and
puts the additional commands in the frame before it sends it, is part of the
model (`Forward`). `Leave` stands for ROOM_EXIT_REQ, PLAYER_EXIT_REQ and
LOGOUT_REQ: for the room they are the same, and with the last player the room
object goes, so that the next room of that id starts afresh (`DestroyRoom`).

Two things are not in the server: `client`, what each client believes of
itself, which decides what it may send next, and `seen`, the frames it was sent
(`SendGameForwardNtf`, `SendPlayerCutInNtf`). A message may reach the server
arbitrarily late; those of one client arrive in order, as TCP and one queue
give it. In particular PLAYER_READY_CANCEL_REQ may have been sent before
GAME_READY_REQ arrived. A client that has pressed nothing presses ready unless
the match is running, and cut-in unless the room is OUT_GAME (ROOM_NTF and
LOBBY_NTF tell it `IsInGame`, which a starting match is too). The constant `Allowed` says how far clients may go:
`"overlap"` lets them enter while others are starting or cutting in, `"rejoin"`
lets a player who left come back. Both do happen; the restricted runs show what
holds for newcomers one at a time, the others what survives.

The clock is seen from the outside: at a tick either no frame is due or the
frame id grows by 1 to `MaxJump`. That a `TickUtil` does just that, one more
per full period, is what module `TickUtil` is about.

### TickUtil

`Tick` reads the clock (twice, the first time) and counts the periods that are
full; `GameStartInit` is `SetTickTime` and `SetDelay` as Room calls them. Time
is an integer; floating-point rounding and `percent`, which nothing reads, are
left out. `startTime` and `delay` are history variables.

### DataManager

`players`, `roomOf` (`Player::roomId`), `lobby`, `rooms` and `roomIds` are the
data of the three manager classes. `roomIds` counts how often an id is in the
heap, so that an id pushed twice would show. A handler first looks whether one
of its asserts fails (`RemoveFault`, `MoveFault`): if so the process ends, which
the variable `fault` records, with the lists as they are at the assert. A player
who asks for a room that is gone or full has left the lobby and has the id of
that room by then (DataManager.cpp:34-35); a player nobody knows who asks for a
new room leaves it empty. The other asserts come before anything is changed.
Built without asserts, the program goes on from there: by undefined behaviour
where a map was searched in vain, and from a full room with a player who is
acknowledged there and sits nowhere. `top()` of an empty heap has no assert and
is undefined behaviour; it is the fault `"no_id"`. Otherwise the handler does all
that the C++ handler does in one step. Each handler is one step because the
data thread runs it to its end.

For `Placement` a join that fails is a departure: the player is nowhere.

Clients wait for the answer to one request before they send the next, and with
`Allowed = {}` ask only for rooms that exist and have space; `"stale"` lets them
act on the last LOBBY_NTF they got. `Closed` is the LOGOUT_REQ that the server
makes when a connection is lost; module `Server` has the connections themselves.
`"anything"` drops the clients altogether: any message about any player arrives
at any time.

### SocketServer

The communication thread goes through three passes for ever. `pass` and `todo`
say where it is: `"temp"` visits the new connections (`ReceiveFromTempClient`,
in the order of `std::set`), `"player"` those in `socketMap`
(`ReceiveFromPlayerClient`, in the order of the players' ids), `"send"` sends
one message (`SendToClient`). A visit, which reads one message at most, is one
step; `Proceed` goes on to the next visit or pass and skips passes without a
visit. Between two steps clients send or go away, the data thread works, and the
listener accepts (`Accept`), but not during the first pass, which holds
`socketSetMutex`.

`wire` holds the messages that were sent and not received. A connection that its
client has closed can be read to its end; only then is `recv` 0.
`ClosePlayerSocket` closes the connection and pushes the LOGOUT_REQ; `Insert`
does not replace an entry, as `std::map::insert` does not. `send` may fail at any
time: the connection may be lost or its buffer full, and the code does not tell
one from the other. A handle is used once, so that a connection used after it
was closed would show. Of an answer only the player it is for is kept.

### Server

The data thread pops a message and handles it with the actions of `DataManager`,
of which `Server` takes an instance over its own variables; the environment of
`DataManager` (`client`, `listed`) is not used. Clients log in, make and join
rooms, leave them, send input, and log out, as `view` has it, where the client of
each connection believes it is. They wait for answers, except that input needs
none. `Allowed` has `"relogin"`, with which a player who has closed its connection
may connect anew before the server has seen the end of the old one, and
`"logout"`, with which LOGOUT_REQ may be sent from a room.

`current` and `handled` are history: whose connection each player's session is,
and how many of its messages the data thread has handled. `Sessions` is stated
over these two alone.

### Framing

The bytes of one connection, which holds messages of equal size, and the loops
of `ReceiveFromSocket`, a `recv` at a time; bytes may arrive between two. A byte
is known by its place. `SocketServer` takes messages to arrive whole.

### Seeded faults

Next to some definitions stands a variant with a comment "Seeded fault". It is
not used by the specification. It states a mistake one could make at this place
of the code, and for every property of every run that passes `PROJECT.json`
names one that makes TLC find the property violated.

## 3. What is checked

### Runs that pass

| run | instance | shows |
|---|---|---|
| `room_orderly` | 3 players, 2 slots, frames 0..1, no stalls, newcomers one at a time, fairness | the room implements `Lockstep`; it waits only for an acknowledgement that somebody owes; starts and cut-ins complete |
| `room_overlap` | 3 players, 2 slots, frames 0..2, no stalls, players enter at any time | GAMING players have the same frames; server and clients agree on every player's state; the last CUT_IN or EXIT of a slot, forwarded or waiting to be, says whether a newcomer plays there now |
| `room_rejoin` | 2 players, 2 slots, frames 0..1, stalls of one frame, players enter and come back at any time | types; frames that were sent agree with the room's; the past is not rewritten |
| `clock` | period 3, delay 4, 13 units of time | the clock does not drift, is neither early nor late, announces only new frames |
| `data_orderly` | 3 players, 3 rooms of 2 | no assert fails; everybody is where its client believes it to be; the server implements `Placement` |
| `data_anything` | 3 players, 2 rooms of 2, any message | types; no room id lost or used twice; no empty room; nobody in the lobby has a room id |
| `server` | 2 players, 2 connections, 3 messages each, 2 rooms of 2, all three threads, fairness | types; every connection is in exactly one place; the data thread sees proper sessions (`Sessions`); nobody is in the lobby or a room without a connection or a logout on its way; no handler but that of ROOM_JOIN_REQ fails an assert; a client that closes a connection the listener has handed over is logged out and the connection closed |

`room_orderly` states safety, refinement and liveness over the same behaviours:
those in which a second newcomer waits for the first. `room_overlap` and
`room_rejoin` are about what no order of entering may break.

### Why the bounds are enough

- Two slots and three players: a match can have a starter and a newcomer, or a
  player who leaves and a third who takes the slot over; the third player waits
  outside while both slots are taken. Four slots add more of the same roles.
- Frames up to 1 or 2: a frame before, during and after a cut-in, the frame that
  carries an EXIT or CUT_IN, and input that is late, current or ahead.
- One button: commands need to differ from NONE, CUT_IN and EXIT only.
- `MaxJump = 2` is the smallest stall that steps over a frame.
- Three rooms for three players never run out of ids; two do, which
  `data_anything` includes.
- Two players with two connections: either they meet in a room, or one of them
  comes back on the second connection. Three messages are a login, a room and one
  thing more: leaving it, input, or, from the lobby, a logout. A room that goes
  while a request for it is under way needs no more.
- In `framing` a header and a body of two bytes each can both arrive in parts.
- In `clock` the delay is longer than a period and no multiple of it, and a poll
  may find up to four periods full.

`CHECK_DEADLOCK FALSE` appears where the process may end with a failed assert.
Symmetry of the players is used in the runs without liveness.

### Fairness

`FairSpec` of `Room` assumes `WF(Next)`, as the data thread loops for ever, and
`SF(GameReadyAck(p))` for each player: a client that was asked to get ready
answers (or leaves). Its answer waits in a FIFO queue from which the thread takes
one message in each iteration, so it is handled even though `GameReadyAck` is
only enabled in every other step; the strong form is needed for this alternation
alone. Nothing is assumed of requests that a player makes at will, nor that frames
become due.

`FairSpec` of `Server` assumes weak fairness of the communication and the data
thread, which loop for ever. Nothing is assumed of clients, and nothing of the
listener: it waits for a mutex that the communication thread takes again in each
round, and `std::shared_mutex` does not promise that a waiting thread ever gets it.
`LostPlayersLeave` is therefore about connections that the listener has handed
over, and of these about those that are closed in order.

### Runs that find a disagreement

Each of these shows a behaviour of the code that contradicts a comment or an
assertion (the `findings` of `PROJECT.json` quote it):

| run | behaviour |
|---|---|
| `room_late_joiner` | a player who joins in WAITING_START is never asked for GAME_READY_ACK, yet the start waits until it is READY_START |
| `data_stale_join` | ROOM_JOIN_REQ for a room that has gone or filled up fails an assert |
| `server_logout` | LOGOUT_REQ from a room and the closing of the connection remove the player twice; the second fails an assert |
| `server_relogin` | a player who closes its connection and comes back at once: the login is read before the end of the old connection, `insert` keeps the old entry, the new connection is in no set and is never read or closed, and the player's slot in the room is never cleared |
| `framing` | a message of which a part has arrived is given up; its rest is read as a header |

Met on the way and visible in the model, but not kept as runs of their own: a
second newcomer, or one who reports that it has caught up while the room is
WAITING_CUT_IN, holds the cut-in up for everybody (`WaitingCutInAwaitsAck` fails
when `"overlap"` is allowed); such a newcomer plays, and its input is filed and
forwarded, before its CUT_IN, which waits for the cut-in to end; frames that a stalled clock steps over are
forwarded to nobody but are sent to newcomers (`SameHistory` fails with
`MaxJump = 2`); leaving a room does not reset `Player::state`, so that whoever left
while READY is READY in its next room (against TypeConfig.h:21);
`additionPlayersCmd` has one entry per slot, so that a newcomer's CUT_IN can take
the place of the EXIT of the slot's last occupant (against Room.cpp:246); answers
that were queued for a lost connection are sent to the player's next one.

## 4. What is proved

The theorems hold for all values of the constants that satisfy the modules'
`ASSUME`s: any number of players, connections, messages, slots, rooms and frames.
Where one needs more, its statement says so. Without the hypothesis TLC finds the
property violated, in the run named below or when its `Allowed`, `MaxJump` or
`MaxRooms` is put in the `.cfg` of a run that passes.

| hypothesis | what it says of clients or environment | without it |
|---|---|---|
| `"rejoin" \notin Allowed` (`Room`) | nobody comes back to a room it has left | a stale `Player::state` makes server and client disagree |
| `MaxJump <= 1` | the data thread never stalls for a period | frames that were stepped over reach newcomers only |
| `Allowed = {}` (`Room`) | newcomers enter one at a time, and not while a match starts | a room waits for somebody it has not asked |
| `"anything" \notin Allowed` (`DataManager`) | clients wait for answers | any handler may be called for any player |
| `Allowed = {}` (`DataManager`) | clients ask for rooms that exist and have space | `data_stale_join` |
| `Cardinality(Players) <= MaxRooms` | there is a room id for each player | `top()` of an empty heap |
| `"relogin" \notin Allowed` (`Server`) | a player connects anew when its last connection has been closed | `server_relogin` |
| `Allowed = {}` (`Server`) | nor does it log out from a room | `server_logout` |
| `WholeMessages` (`Framing`) | messages arrive whole | `framing` |

### The room

**RoomProofs.** `TypeCorrect` (`TypeOK`), `HistoryIsFrozen` (`HistoryFrozen`),
`FramesAlwaysAgree` (`FramesAgree`), with no hypothesis. `TypeOK` contains two facts
that are not types and that the rest needs: before a match the frame id is -1, and
the clients that think they are in the room are its occupants. `FramesAgree` is not
inductive: when the last player leaves, the room's commands go, and nothing in
`FramesAgree` says that a player outside had seen none of them. `AgreeInv` adds that
outsiders have seen nothing (`OutsidersSawNothing`). The step that matters is the
frame: it is a new frame id, larger than those in anybody's `seen`, whose row is
written once, additional commands included, before it is sent; and input only goes
to frames that are still to come.

**RoomLockstepProofs.** Four invariants, each the ground of the next:

- `Views` ties what each client believes to the state the server has recorded of it,
  for players inside and outside. It is inductive next to `TypeOK` and gives
  `ViewsAlwaysAgree` (`ViewsAgree`). That a player outside is IDLE is what
  `"rejoin"` breaks.
- `HistInv` adds `AgreeInv` and `Whole`: whoever is GAMING, or CHASE_UP in a room that
  is GAMING, was sent the whole history. A newcomer that has caught up while the room
  waits for another one is not sent the frames meanwhile, hence the second condition.
  `HistoriesAreTheSame` (`SameHistory`).
- `RosterInv` says that those who were there when a match was called start it or are
  gone, and never cut in (`Starters`), and that commands filed under frames to come are
  input only (`InputsAhead`). The additional commands of a slot are followed from
  `addition` into the frame that is forwarded (`RecordGrows`), where nothing later
  overwrites them (`RecordKept`): after each step the last one of a slot is a CUT_IN
  just if somebody who cut in plays there (`OnRecord`). `RosterAlwaysAgrees`
  (`RosterAgrees`), stalls of the clock included.
- `Orderly` gives the states that the clients can be in for each state of the room
  (`Turns`, `OneNewcomer`), and that a newcomer who has caught up is GAMING after one
  tick (`ChaseUpShort`). With it `Awaited` is inductive: between two ticks a room that
  waits has an occupant who owes the acknowledgement. `StartAwaitsAck`, `CutInAwaitsAck`
  (`WaitingStartAwaitsAck`, `WaitingCutInAwaitsAck`).

`LockstepIsImplemented` (`ImplementsLockstep`) takes `HistInv` and `Orderly` together:
the members of the match are those that were sent its frames, each has the whole log,
and a step of the room makes at most one change of the members or of the log.

**TickUtilProofs.** `ClockNeverDrifts` (`NoDrift`), `ClockNeverEarly` (`NotEarly`),
`ClockNeverLate` (`NotLate`), `ClockAnnouncesNews` (`NeedTickIsNews`),
`ClockTypeCorrect` (`TypeOK`). The inductive invariant, which `ClockInvariant` proves,
is `TypeOK` with the bounds of the time in the frame and `NoDrift`; the rest is
arithmetic on the division by the period, for which a lemma bounds the remainder.

### Players and rooms

**DataManagerProofs.** `RoomIdsArePartitioned`, `NoRoomIsEmpty`,
`LobbyPlayersHaveNoRoom`, `DataTypes` (`TypeOK`), from `ListsInvariant`: types, the
three properties together, and that the slots of a room hold players or nobody. They
hold with every `Allowed`, `"anything"` included, so they ask nothing of the clients.
That a room id goes back to the heap exactly once needs that a room is removed at the
moment its last slot is emptied, so the three facts are proved together.

**DataManagerPlacementProofs.** `Placed` says of every player that it is in the lobby
or has exactly one slot, that of its room id, or neither, as its client believes; it
holds as long as no assert has failed. It gives `PlayersAreWhereTheyBelieve`
(`PlacementAgrees`) and `PlacementIsImplemented` (`ImplementsPlacement`), in which a
join that fails is a departure (`FailedJoin`).
`NoAssertFails` (`NoFault`) needs one argument more: if all room ids were in use, every
room would have an occupant (`NoEmptyRoom`), no two rooms the same one (`Placed`), and
the player who asks for a room would be one more than there are ids (`FreeId`).

### The server

**ServerProofs.** `SessionInv` follows each message from the wire through the queue
until it is handled:

- `Homes`, `OneLive`: where each connection is, and that a player has one at most that
  the server has not closed. `ConnectionsHaveOneHome` (`OneHome`).
- `Wires`: the messages on a connection are those sent last, in order; one that waits
  for its first visit has been read nothing of.
- `Traffic`: no message is left out (`NoneLeftOut`); those of a connection are in order
  and its logout is the last (`InOrder`); between the messages of two connections of
  one player stands the logout of the first (`InTurn`); and a connection that was closed
  in its session has its logout in the queue (`ClosedLogOut`).
- `OneSession`: `current` is the connection whose session has begun.

`SessionsAreProper` (`ImplementsSessions`) reads the head of the queue off `Traffic`.

**ServerDataProofs.** What `Handles` makes of the lists, with the whole server around
it. The lemmas on the lists are stated anew for the instance `Data`: a theorem of
`DataManagerProofs` is one about that module's variables and cannot be cited here.

- `Typed` needs no hypothesis: types, the lists as in `DataManagerProofs`, and that
  whatever is on a wire or in the queue is from somebody. `TypesAreKept` (`TypeOK`).
- `Seats`: every player is at one place at most, at none without a session, and known
  in its session; until an assert fails, nobody outside keeps the id of a room in a
  session, which is what `"logout"` breaks.
- `Asked`, until an assert fails: of the messages of a connection that have not been
  handled, the next finds its player where the request takes it to be, and all that
  follow are input for the room it leads to. It is what clients that wait for
  answers, but not after input, come to.
- `ServerInv` is `SessionInv`, the lists, `Seats` and `Asked`. TLC has checked it on the
  instance of the run `server`, with and without `"logout"`.

`NobodyHaunts` (`NoGhosts`): whoever is somewhere has a session (`Seats`); its
connection has been read, so it is in `socketMap` or closed (`Homes`, `Wires`), and if
closed its logout is in the queue (`ClosedLogOut`). `AssertsFailInJoinsOnly`
(`OnlyJoinsFail`): a handler whose player is where it should be (`Asked`) can fail for
want of a room id only, which counting excludes as above, or in LOGOUT_REQ of a player
that is unknown or keeps a room id, which `Seats` excludes, or in ROOM_JOIN_REQ.

**FramingProofs.** `WholeMessagesAreIntact`: `MessagesIntact`, which the run `framing`
finds violated when bytes arrive one by one, holds when messages arrive whole, for any
sizes but 0. `SocketServer` rests on it.

### Only model-checked

Liveness (`StartCompletes`, `CutInCompletes`, `LostPlayersLeave`): the provers have no
rules for `ENABLED`, on which fairness rests. Every other property of a passing run is
stated by a theorem. The properties of the runs that find a disagreement are false of
the code and are not proved; `MessagesIntact` is, under the hypothesis above.

## 5. What is not modelled

- Connections that are reset. `recv` is -1 then, as if there were nothing to read,
  so the server closes them only when it sends something; a new connection is sent
  nothing and stays. `LostPlayersLeave` is therefore about connections that are
  closed in order.
- Messages with an empty body, which are taken for the end of the connection
  (SocketServer.cpp:158, 192, 285), and messages that cannot be parsed, for which
  `ParseMsg` gives nothing to look into (SocketServer.cpp:164-169).
- A `send` that takes a part of the message, the length of the send queue over
  time, the backlog of `listen` and the size of the buffers.
- A first message that is no LOGIN_REQ: the server takes it for one.
- ROOM_NTF, and the player lists in GAME_INIT_NTF and PLAYER_CUT_IN_NTF: they
  change no state of the server.
- What answers say (`Send...Ack`): always success. Notifications (LOBBY_NTF,
  ROOM_NTF, frames) are not in the send queue of `Server`.
- `Latency` is written and never read; `Main`, configuration and the singleton
  macro have no behaviour of their own.
- Generated and vendored code. The Protocol Buffers library is 655 000 of the
  repository's 675 000 lines and the generated messages are most of the rest, so
  the share of all lines that the models cover says little; of the 1900 lines of
  the server's own, they cover all that has behaviour.

## 6. Plan

1. (done) `Room` with `Lockstep`; `TickUtil`; `DataManager` with `Placement`;
   their type and list invariants, agreement of frames, and the clock proved.
2. (done) `SocketServer` with the two queues, `Sessions`, `Server`, `Framing`.
3. (done) Proofs: `ViewsAgree`, `SameHistory`, `RosterAgrees` and what a waiting room
   waits for; the steps of `Room` and `DataManager` that implement `Lockstep` and
   `Placement`; `PlacementAgrees` and `NoFault`; all safety properties of `Server`, and
   that its sessions implement `Sessions`; `MessagesIntact` for messages that arrive whole.
4. Left: what `FramesAgree` and `HistoryFrozen`, which hold with every `Allowed`, say of
   newcomers when the clock steps over frames; a bound on how long a command of a
   player who has left can still be forwarded (Room.cpp:104).
