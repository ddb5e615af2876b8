------------------------------- MODULE Room -------------------------------
(***************************************************************************)
(* One room of the tank game server (Data/Room.cpp): who sits in it, how a *)
(* match is started, how a player cuts in to a running match, and the      *)
(* lockstep frames of commands that every player is sent.                  *)
(*                                                                         *)
(* The data thread (DataManager::Tick) pops at most one message, handles   *)
(* it and then ticks the room; `phase` alternates accordingly.  All of     *)
(* this is one thread: nothing else touches a room.                        *)
(*                                                                         *)
(* The clients are not part of the repository.  `client` is what a client  *)
(* believes of itself; it decides which request it may send next.  A       *)
(* message may reach the server arbitrarily late, but those of one client  *)
(* arrive in the order it sent them.                                       *)
(***************************************************************************)
EXTENDS Integers

CONSTANTS
  Players,    \* the players that may enter the room
  Nobody,     \* an empty slot (a null shared_ptr)
  MaxSlots,   \* MAX_ROOM_PLAYER_NUM
  Inputs,     \* the buttons a client sends
  MaxFrame,   \* bound on the frames of a match
  MaxJump,    \* most frame periods that can pass between two ticks
  Allowed     \* what the clients are allowed to do, see below

(***************************************************************************)
(* Allowed holds "overlap" when a player may enter while the room waits    *)
(* for somebody's GAME_READY_ACK or while another newcomer has not caught  *)
(* up, and "rejoin" when a player who left may enter a room again.         *)
(***************************************************************************)
Specials == {"NONE", "CUT_IN", "EXIT"}

ASSUME RoomAssumption ==
  /\ Nobody \notin Players
  /\ MaxSlots \in Nat \ {0}
  /\ MaxFrame \in Nat
  /\ MaxJump \in Nat
  /\ Inputs \cap Specials = {}
  /\ Allowed \subseteq {"overlap", "rejoin"}

Slots  == 1..MaxSlots
Frames == 0..MaxFrame
Buttons == Inputs \cup Specials
Row == [Slots -> Buttons]
NoCmds == [i \in Slots |-> "NONE"]

PlayerStates == {"IDLE", "READY", "READY_START", "CUT_IN", "CHASE_UP", "GAMING"}
RoomStates == {"OUT_GAME", "WAITING_START", "GAMING", "WAITING_CUT_IN"}
ClientStates == {"out", "idle", "ready", "cutin", "asked", "acked",
                 "chasing", "playing", "gone"}

VARIABLES
  phase,        \* "parse": pop and handle a message; "tick": Room::Tick
  slots,        \* mPlayers
  pstate,       \* Player::state, which lives as long as the server
  roomState,    \* roomState
  initPlayers,  \* initPlayers, as a set: the vector is in slot order
  cmds,         \* playersCmdMap
  addition,     \* additionPlayersCmd
  frameId,      \* gamingTick.frameId
  client,       \* what each client believes (environment)
  seen          \* the frames sent to each client since it entered the match

vars == <<phase, slots, pstate, roomState, initPlayers, cmds, addition,
          frameId, client, seen>>

match == <<initPlayers, cmds, addition, frameId, seen>>

-----------------------------------------------------------------------------
Occupants == {slots[i] : i \in Slots} \ {Nobody}
InState(s) == {p \in Occupants : pstate[p] = s}
NotInState(s) == {p \in Occupants : pstate[p] # s}
IsInGame == roomState # "OUT_GAME"

\* The new value of client once GAME_READY_REQ is sent to the players of S.
Asked(S) == [p \in Players |-> IF p \in S THEN "asked" ELSE client[p]]

\* std::map::operator[]: a frame that has no entry reads as a row of NONE.
RowAt(f) == IF f \in DOMAIN cmds THEN cmds[f] ELSE NoCmds
SetRow(f, row) ==
  [g \in DOMAIN cmds \cup {f} |-> IF g = f THEN row ELSE cmds[g]]

\* std::max.  Seeded fault: trust the client's frame id.
LaterTrustsClient(a, b) == b
Later(a, b) == IF a >= b THEN a ELSE b

Init ==
  /\ phase = "parse"
  /\ slots = [i \in Slots |-> Nobody]
  /\ pstate = [p \in Players |-> "IDLE"]
  /\ roomState = "OUT_GAME"
  /\ initPlayers = {}
  /\ cmds = [f \in {} |-> NoCmds]
  /\ addition = NoCmds
  /\ frameId = -1
  /\ client = [p \in Players |-> "out"]
  /\ seen = [p \in Players |-> {}]

-----------------------------------------------------------------------------
(* The handlers of DataManager::ParseMsg, as far as one room is concerned. *)

Handled == phase = "parse" /\ phase' = "tick"

\* Environment: when a player that is not in the room may ask to enter.
MayEnter(p) ==
  /\ \/ client[p] = "out"
     \/ client[p] = "gone" /\ "rejoin" \in Allowed
  /\ \/ ~IsInGame
     \/ roomState = "GAMING" /\ \A q \in Occupants : client[q] = "playing"
     \/ "overlap" \in Allowed

\* ROOM_CREATE_REQ or ROOM_JOIN_REQ: the first empty slot; Player::state is
\* whatever the player's last room left in it.
AddPlayer(p) ==
  /\ Handled
  /\ MayEnter(p)
  /\ \E i \in Slots :
       /\ slots[i] = Nobody
       /\ \A j \in Slots : j < i => slots[j] # Nobody
       /\ slots' = [slots EXCEPT ![i] = p]
  /\ client' = [client EXCEPT ![p] = "idle"]
  /\ UNCHANGED <<pstate, roomState, match>>

PlayerReady(p) ==
  /\ Handled
  /\ client[p] = "idle"
  /\ roomState \in {"OUT_GAME", "WAITING_START"}
  /\ pstate' = [pstate EXCEPT ![p] = "READY"]
  /\ client' = [client EXCEPT ![p] = "ready"]
  /\ UNCHANGED <<slots, roomState, match>>

\* The request may have been sent before GAME_READY_REQ reached the client.
\* Seeded fault: the cancellation is not refused once the match is starting.
PlayerReadyCancelInGame(p) ==
  /\ Handled
  /\ client[p] \in {"ready", "asked"}
  /\ pstate' = [pstate EXCEPT ![p] = "IDLE"]
  /\ client' = [client EXCEPT ![p] = IF @ = "ready" THEN "idle" ELSE @]
  /\ UNCHANGED <<slots, roomState, match>>
PlayerReadyCancel(p) ==
  /\ Handled
  /\ client[p] \in {"ready", "asked"}
  /\ IF IsInGame
       THEN UNCHANGED <<pstate, client>>
       ELSE /\ pstate' = [pstate EXCEPT ![p] = "IDLE"]
            /\ client' = [client EXCEPT ![p] = "idle"]
  /\ UNCHANGED <<slots, roomState, match>>

PlayerCutIn(p) ==
  /\ Handled
  /\ client[p] = "idle"
  /\ IsInGame
  /\ pstate' = [pstate EXCEPT ![p] = "CUT_IN"]
  /\ client' = [client EXCEPT ![p] = "cutin"]
  /\ UNCHANGED <<slots, roomState, match>>

GameReadyAck(p) ==
  /\ Handled
  /\ client[p] = "asked"
  /\ pstate' = [pstate EXCEPT ![p] = "READY_START"]
  /\ client' = [client EXCEPT ![p] = "acked"]
  /\ UNCHANGED <<slots, roomState, match>>

PlayerChaseUp(p) ==
  /\ Handled
  /\ client[p] = "chasing"
  /\ pstate' = [pstate EXCEPT ![p] = "CHASE_UP"]
  /\ client' = [client EXCEPT ![p] = "playing"]
  /\ UNCHANGED <<slots, roomState, match>>

\* PLAYER_INPUT_NTF: a command for a frame that is already forwarded is
\* filed under the next one.
AddPlayerGameInput(p, f, b) ==
  /\ Handled
  /\ client[p] = "playing"
  /\ LET g == Later(frameId + 1, f)
         row == [i \in Slots |-> IF slots[i] = p THEN b ELSE RowAt(g)[i]]
     IN  /\ g \in Frames
         /\ cmds' = SetRow(g, row)
  /\ UNCHANGED <<slots, pstate, roomState, initPlayers, addition, frameId,
                 client, seen>>

\* Room::RemovePlayer in a room that somebody else stays in.
\* Seeded fault: a command that waits to be forwarded is not replaced.
RemovePlayerKeepCommand(p) ==
  /\ slots' = [i \in Slots |-> IF slots[i] = p THEN Nobody ELSE slots[i]]
  /\ addition' = [i \in Slots |->
                    IF slots[i] = p /\ pstate[p] = "GAMING" /\ addition[i] = "NONE"
                      THEN "EXIT" ELSE addition[i]]
  /\ UNCHANGED <<roomState, initPlayers, cmds, frameId>>
RemovePlayer(p) ==
  /\ slots' = [i \in Slots |-> IF slots[i] = p THEN Nobody ELSE slots[i]]
  /\ addition' = [i \in Slots |-> IF slots[i] = p /\ pstate[p] = "GAMING"
                                    THEN "EXIT" ELSE addition[i]]
  /\ UNCHANGED <<roomState, initPlayers, cmds, frameId>>

\* Seeded fault: the room object is kept for the next match.
KeepRoom ==
  /\ slots' = [i \in Slots |-> Nobody]
  /\ roomState' = "OUT_GAME"
  /\ UNCHANGED <<initPlayers, cmds, addition, frameId>>
\* RoomManager::RemoveRoom: the room object goes with its last player, and
\* the next room of that id is a new one.
DestroyRoom ==
  /\ slots' = [i \in Slots |-> Nobody]
  /\ roomState' = "OUT_GAME"
  /\ initPlayers' = {}
  /\ cmds' = [f \in {} |-> NoCmds]
  /\ addition' = NoCmds
  /\ frameId' = -1

\* ROOM_EXIT_REQ, PLAYER_EXIT_REQ or LOGOUT_REQ.  Player::state is kept.
Leave(p) ==
  /\ Handled
  /\ p \in Occupants
  /\ IF Occupants = {p} THEN DestroyRoom ELSE RemovePlayer(p)
  /\ client' = [client EXCEPT ![p] = "gone"]
  /\ seen' = [seen EXCEPT ![p] = {}]
  /\ UNCHANGED pstate

\* The queue is empty, or the message is about another room.
NoMessage ==
  /\ Handled
  /\ UNCHANGED <<slots, pstate, roomState, client, match>>

-----------------------------------------------------------------------------
(* Room::Tick. *)

\* JudgeIsAllReady: everybody is READY, ask them all to load the match.
JudgeIsAllReady ==
  LET ready == InState("READY")
  IN  IF ready # {} /\ ready = Occupants
        THEN /\ roomState' = "WAITING_START"
             /\ initPlayers' = NotInState("CUT_IN")
             /\ client' = Asked(ready)
        ELSE UNCHANGED <<roomState, initPlayers, client>>

OutGameTick ==
  /\ roomState = "OUT_GAME"
  /\ JudgeIsAllReady
  /\ UNCHANGED <<slots, pstate, cmds, addition, frameId, seen>>

\* Seeded fault: wait for everybody who was asked, gone or not.
AllStartedOfInit == InState("READY_START") # {} /\ InState("READY_START") = initPlayers
AllStarted == InState("READY_START") # {} /\ InState("READY_START") = Occupants

\* JudgeCanStart: everybody has acknowledged; GameStartInit resets the clock.
JudgeCanStart ==
  LET started == InState("READY_START")
  IN  IF AllStarted
        THEN /\ pstate' = [p \in Players |->
                             IF p \in started THEN "GAMING" ELSE pstate[p]]
             /\ client' = [p \in Players |->
                             IF p \in started THEN "playing" ELSE client[p]]
             /\ roomState' = "GAMING"
             /\ frameId' = -1
        ELSE UNCHANGED <<pstate, client, roomState, frameId>>

WaitingStartTick ==
  /\ roomState = "WAITING_START"
  /\ JudgeCanStart
  /\ UNCHANGED <<slots, initPlayers, cmds, addition, seen>>

\* AddAdditionCmdToPlayersCmd: the commands of frame f, additions on top.
WithAddition(f, add) ==
  [i \in Slots |-> IF add[i] # "NONE" THEN add[i] ELSE RowAt(f)[i]]

\* SendGameForwardNtf: what the clients have got once row is sent as frame f
\* to the players that are GAMING according to ps.
Sent(f, row, ps, got) ==
  [p \in Players |-> IF p \in Occupants /\ ps[p] = "GAMING"
                       THEN got[p] \cup {<<f, row>>} ELSE got[p]]

\* Seeded fault: forward the frame before the additional commands are in it.
ForwardBeforeAddition(f, ps, add, got) ==
  /\ cmds' = SetRow(f, WithAddition(f, add))
  /\ addition' = NoCmds
  /\ seen' = Sent(f, RowAt(f), ps, got)
\* Frame f, given the players' states ps, the additional commands add and
\* what the clients have got so far in this tick.
Forward(f, ps, add, got) ==
  /\ cmds' = SetRow(f, WithAddition(f, add))
  /\ addition' = NoCmds
  /\ seen' = Sent(f, WithAddition(f, add), ps, got)

\* Room::GamingTick: TickUtil has counted d frame periods since the last
\* tick; only the last of them is forwarded.
GamingTick(ps, add, got) ==
  \/ /\ addition' = add
     /\ seen' = got
     /\ UNCHANGED <<cmds, frameId>>
  \/ \E d \in 1..MaxJump :
       /\ frameId + d \in Frames
       /\ frameId' = frameId + d
       /\ Forward(frameId + d, ps, add, got)

WithCutIn(S) == [i \in Slots |-> IF slots[i] \in S THEN "CUT_IN" ELSE addition[i]]

\* JudgePlayerCutIn, JudgePlayerChaseUp, then the frame.
GamingRoomTick ==
  /\ roomState = "GAMING"
  /\ LET cutIn == InState("CUT_IN")
         chaseUp == InState("CHASE_UP")
         ps == [p \in Players |->
                  IF p \in chaseUp THEN "GAMING" ELSE pstate[p]]
         add == WithCutIn(chaseUp)
     IN  /\ roomState' = IF cutIn = {} THEN "GAMING" ELSE "WAITING_CUT_IN"
         /\ client' = Asked(cutIn)
         /\ pstate' = ps
         /\ GamingTick(ps, add, seen)
  /\ UNCHANGED <<slots, initPlayers>>

\* What SendPlayerCutInNtf sends: the entries up to the current frame.
\* Seeded fault: leave the current frame out.
HistoryBeforeFrame == {<<f, cmds[f]>> : f \in {g \in DOMAIN cmds : g < frameId}}
History == {<<f, cmds[f]>> : f \in {g \in DOMAIN cmds : g <= frameId}}

\* Seeded fault: require a newcomer, as JudgeCanStart does.
AllArrivedNonEmpty ==
  /\ InState("READY_START") # {}
  /\ InState("READY_START") \cup InState("GAMING") = Occupants
AllArrived == InState("READY_START") \cup InState("GAMING") = Occupants

\* JudgeCanStartCutIn: the room goes on once everybody is READY_START or
\* GAMING; those who acknowledged get the history and play.
WaitingCutInTick ==
  /\ roomState = "WAITING_CUT_IN"
  /\ LET cutIn == InState("READY_START")
         go == AllArrived
         ps == [p \in Players |->
                  IF go /\ p \in cutIn THEN "GAMING" ELSE pstate[p]]
         got == [p \in Players |->
                  IF go /\ p \in cutIn THEN History ELSE seen[p]]
     IN  /\ roomState' = IF go THEN "GAMING" ELSE roomState
         /\ client' = [p \in Players |->
                         IF go /\ p \in cutIn THEN "chasing" ELSE client[p]]
         /\ pstate' = ps
         /\ GamingTick(ps, addition, got)
  /\ UNCHANGED <<slots, initPlayers>>

Tick ==
  /\ phase = "tick"
  /\ phase' = "parse"
  /\ \/ OutGameTick
     \/ WaitingStartTick
     \/ GamingRoomTick
     \/ WaitingCutInTick

-----------------------------------------------------------------------------
Message(p) ==
  \/ AddPlayer(p)
  \/ PlayerReady(p)
  \/ PlayerReadyCancel(p)
  \/ PlayerCutIn(p)
  \/ GameReadyAck(p)
  \/ PlayerChaseUp(p)
  \/ \E f \in Frames, b \in Inputs : AddPlayerGameInput(p, f, b)
  \/ Leave(p)

Next ==
  \/ \E p \in Players : Message(p)
  \/ NoMessage
  \/ Tick

Spec == Init /\ [][Next]_vars

\* The data thread never stops.  A client that was asked answers or leaves:
\* its message waits in a FIFO queue that the thread empties one message per
\* iteration, so it is handled although it is only handled in between ticks.
Fairness ==
  /\ WF_vars(Next)
  /\ \A p \in Players : SF_vars(GameReadyAck(p))

FairSpec == Spec /\ Fairness

-----------------------------------------------------------------------------
(***************************************************************************)
(* Types and shapes.  A match that is not running is at frame -1, and the  *)
(* clients that think they are in the room are those that sit in it.       *)
(***************************************************************************)
TypeOK ==
  /\ phase \in {"parse", "tick"}
  /\ slots \in [Slots -> Players \cup {Nobody}]
  /\ pstate \in [Players -> PlayerStates]
  /\ roomState \in RoomStates
  /\ initPlayers \subseteq Players
  /\ DOMAIN cmds \subseteq Frames
  /\ cmds \in [DOMAIN cmds -> Row]
  /\ addition \in [Slots -> Buttons]
  /\ frameId \in Frames \cup {-1}
  /\ client \in [Players -> ClientStates]
  /\ seen \in [Players -> SUBSET (Frames \X Row)]
  /\ roomState \in {"OUT_GAME", "WAITING_START"} => frameId = -1
  /\ \A p \in Players : p \in Occupants <=> client[p] \notin {"out", "gone"}

(***************************************************************************)
(* Lockstep: what a client was sent for a frame is what the room holds for *)
(* that frame, so no two clients, starters or newcomers, disagree on it    *)
(* (SendGameForwardNtf, SendPlayerCutInNtf).                               *)
(***************************************************************************)
FramesAgree ==
  \A p \in Players : \A e \in seen[p] :
    /\ e[1] \in DOMAIN cmds
    /\ e[1] <= frameId
    /\ e[2] = cmds[e[1]]

(***************************************************************************)
(* Once a frame is past, nothing rewrites it and the clock does not go     *)
(* back before it while the room lives: late input goes to a later frame   *)
(* (AddPlayerGameInput), and a match is not restarted.                     *)
(***************************************************************************)
HistoryFrozen ==
  [][ \A f \in DOMAIN cmds :
        f <= frameId =>
          \/ \A i \in Slots : slots'[i] = Nobody
          \/ /\ f \in DOMAIN cmds'
             /\ f <= frameId'
             /\ cmds'[f] = cmds[f] ]_vars

(***************************************************************************)
(* Two players who are GAMING were sent exactly the same frames, whether   *)
(* they were there from the start or cut in: a newcomer misses no frame    *)
(* between the history it is sent and the first frame it is forwarded.     *)
(***************************************************************************)
SameHistory ==
  \A p, q \in InState("GAMING") : seen[p] = seen[q]

(***************************************************************************)
(* What a client believes is what the server has recorded: a client that   *)
(* pressed nothing is IDLE, one that pressed ready is READY, and so on.    *)
(***************************************************************************)
Recorded(c) ==
  CASE c = "idle" -> {"IDLE"}
    [] c = "ready" -> {"READY"}
    [] c = "cutin" -> {"CUT_IN"}
    [] c = "asked" -> {"READY", "CUT_IN"}
    [] c = "acked" -> {"READY_START"}
    [] c = "chasing" -> {"GAMING"}
    [] c = "playing" -> {"GAMING", "CHASE_UP"}

ViewsAgree == \A p \in Occupants : pstate[p] \in Recorded(client[p])

(***************************************************************************)
(* The additional commands are a true record of who has cut in (Room.h,    *)
(* additionPlayersCmd; Room.cpp:187, 247): the last CUT_IN or EXIT of a    *)
(* slot, forwarded or about to be, is a CUT_IN if and only if the player   *)
(* that has the slot now has cut in and caught up.  A former occupant's    *)
(* CUT_IN does not do for it: an EXIT must have come in between, or its    *)
(* own.  Nor is anybody announced who left before its CUT_IN was sent, or  *)
(* whose CUT_IN waits for another newcomer: one that is still CHASE_UP,    *)
(* although its input is forwarded already.                                *)
(***************************************************************************)
CaughtUp(p) == p \in InState("GAMING") \ initPlayers /\ client[p] = "playing"

RosterFrames(i) == {f \in DOMAIN cmds : f <= frameId /\ cmds[f][i] \in {"CUT_IN", "EXIT"}}
SaysCutIn(i) ==
  \/ addition[i] = "CUT_IN"
  \/ /\ addition[i] # "EXIT"
     /\ \E f \in RosterFrames(i) :
          cmds[f][i] = "CUT_IN" /\ \A g \in RosterFrames(i) : g <= f

RosterAgrees == \A i \in Slots : SaysCutIn(i) <=> CaughtUp(slots[i])

(***************************************************************************)
(* TypeConfig.h:33: a room is WAITING_START because some player has not    *)
(* acknowledged GAME_READY_REQ, never for any other reason.                *)
(***************************************************************************)
WaitingStartAwaitsAck ==
  phase = "parse" /\ roomState = "WAITING_START"
    => \E p \in Occupants : client[p] = "asked"

(***************************************************************************)
(* TypeConfig.h:35: a room is WAITING_CUT_IN because some newcomer has not *)
(* acknowledged GAME_READY_REQ, never for any other reason.                *)
(***************************************************************************)
WaitingCutInAwaitsAck ==
  phase = "parse" /\ roomState = "WAITING_CUT_IN"
    => \E p \in Occupants : client[p] = "asked"

(***************************************************************************)
(* Liveness: when the clients that are asked answer or leave, a match that *)
(* is about to start does start, or its room goes away.                    *)
(***************************************************************************)
StartCompletes == roomState = "WAITING_START" ~> roomState # "WAITING_START"

(***************************************************************************)
(* Liveness: likewise, a cut-in is completed and the room is back in       *)
(* GAMING, where the next newcomer is served.                              *)
(***************************************************************************)
CutInCompletes == roomState = "WAITING_CUT_IN" ~> roomState # "WAITING_CUT_IN"
=============================================================================
