------------------------ MODULE RoomLockstepProofs ------------------------
(***************************************************************************)
(* What a room owes to players who enter it once (`rejoin' is not          *)
(* allowed), for any number of players, slots and frames.                  *)
(***************************************************************************)
EXTENDS RoomLockstep, RoomProofs

-----------------------------------------------------------------------------
(* Who sits in the room. *)

LEMMA OccupantsAre ==
  ASSUME TypeOK, NEW p
  PROVE  p \in Occupants <=> p \in Players /\ client[p] \notin {"out", "gone"}
  BY OccupantsArePlayers DEF TypeOK

-----------------------------------------------------------------------------
(* What the clients believe.  A player that has not been in the room yet is  *)
(* IDLE: Player::state would survive an earlier match.                       *)

Views ==
  \A p \in Players :
    /\ client[p] \in {"out", "idle"} => pstate[p] = "IDLE"
    /\ client[p] = "ready" => pstate[p] = "READY"
    /\ client[p] = "cutin" => pstate[p] = "CUT_IN"
    /\ client[p] = "asked" => pstate[p] \in {"READY", "CUT_IN"}
    /\ client[p] = "acked" => pstate[p] = "READY_START"
    /\ client[p] = "chasing" => pstate[p] = "GAMING"
    /\ client[p] = "playing" => pstate[p] \in {"GAMING", "CHASE_UP"}

\* What a message of p does to what p believes and to what is recorded of it.
Moves(p, c, s) ==
  /\ client' = [client EXCEPT ![p] = c]
  /\ pstate' = [pstate EXCEPT ![p] = s]
  /\ \/ <<c, s>> \in {<<"ready", "READY">>, <<"idle", "IDLE">>, <<"cutin", "CUT_IN">>,
                          <<"acked", "READY_START">>, <<"playing", "CHASE_UP">>}
     \/ c = "gone"

LEMMA MessageMoves ==
  ASSUME "rejoin" \notin Allowed, TypeOK, Views, NEW p \in Players, Message(p)
  PROVE  \/ UNCHANGED <<client, pstate>>
         \/ \E c \in ClientStates, s \in PlayerStates : Moves(p, c, s)
  <1> USE DEF Moves
  <1>1. CASE AddPlayer(p)
    <2>1. client[p] = "out" /\ pstate[p] = "IDLE"
      BY <1>1 DEF AddPlayer, MayEnter, Views
    <2>2. client' = [client EXCEPT ![p] = "idle"] /\ pstate' = [pstate EXCEPT ![p] = "IDLE"]
      BY <1>1, <2>1 DEF AddPlayer, TypeOK
    <2> QED
      BY <2>2 DEF PlayerStates, ClientStates
  <1>2. CASE PlayerReady(p)
    BY <1>2 DEF PlayerReady, PlayerStates, ClientStates
  <1>3. CASE PlayerReadyCancel(p)
    BY <1>3 DEF PlayerReadyCancel, PlayerStates, ClientStates
  <1>4. CASE PlayerCutIn(p)
    BY <1>4 DEF PlayerCutIn, PlayerStates, ClientStates
  <1>5. CASE GameReadyAck(p)
    BY <1>5 DEF GameReadyAck, PlayerStates, ClientStates
  <1>6. CASE PlayerChaseUp(p)
    BY <1>6 DEF PlayerChaseUp, PlayerStates, ClientStates
  <1>7. CASE \E f \in Frames, b \in Inputs : AddPlayerGameInput(p, f, b)
    BY <1>7 DEF AddPlayerGameInput
  <1>8. CASE Leave(p)
    <2>1. client' = [client EXCEPT ![p] = "gone"] /\ pstate' = [pstate EXCEPT ![p] = pstate[p]]
      BY <1>8 DEF Leave, TypeOK
    <2>2. pstate[p] \in PlayerStates
      BY DEF TypeOK
    <2> QED
      BY <2>1, <2>2 DEF ClientStates
  <1> QED
    BY <1>1, <1>2, <1>3, <1>4, <1>5, <1>6, <1>7, <1>8 DEF Message

LEMMA ViewsMessage ==
  ASSUME "rejoin" \notin Allowed, TypeOK, Views, NEW p \in Players, Message(p)
  PROVE  Views'
  <1>1. CASE UNCHANGED <<client, pstate>>
    BY <1>1 DEF Views
  <1>2. ASSUME NEW c \in ClientStates, NEW s \in PlayerStates, Moves(p, c, s)
        PROVE  Views'
    BY <1>2 DEF Moves, Views, TypeOK
  <1> QED
    BY <1>1, <1>2, MessageMoves

LEMMA ViewsTick ==
  ASSUME TypeOK, Views, Tick
  PROVE  Views'
  <1> USE OccupantsAre DEF InState, TypeOK
  <1>1. CASE OutGameTick
    BY <1>1 DEF OutGameTick, JudgeIsAllReady, Asked, Views
  <1>2. CASE WaitingStartTick
    BY <1>2 DEF WaitingStartTick, JudgeCanStart, Views
  <1>3. CASE GamingRoomTick
    BY <1>3 DEF GamingRoomTick, Asked, Views
  <1>4. CASE WaitingCutInTick
    BY <1>4 DEF WaitingCutInTick, Views
  <1> QED
    BY <1>1, <1>2, <1>3, <1>4 DEF Tick

LEMMA ViewsStep ==
  ASSUME "rejoin" \notin Allowed, TypeOK, Views, [Next]_vars
  PROVE  Views'
  <1>1. CASE UNCHANGED <<client, pstate>>
    BY <1>1 DEF Views
  <1> QED
    BY <1>1, ViewsMessage, ViewsTick DEF Next, NoMessage, vars

LEMMA ViewsAreTheViews ==
  ASSUME TypeOK, Views
  PROVE  ViewsAgree
  <1> SUFFICES ASSUME NEW p \in Occupants
               PROVE  pstate[p] \in Recorded(client[p])
    BY DEF ViewsAgree
  <1>1. p \in Players /\ client[p] \in ClientStates \ {"out", "gone"}
    BY OccupantsAre DEF TypeOK
  <1> QED
    BY <1>1 DEF Views, Recorded, ClientStates

THEOREM ViewsInvariant ==
  "rejoin" \notin Allowed => (Spec => []Views)
  <1> SUFFICES ASSUME "rejoin" \notin Allowed
               PROVE  Spec => []Views
    OBVIOUS
  <1>1. Init => Views
    BY DEF Init, Views
  <1>2. TypeOK /\ Views /\ [Next]_vars => Views'
    BY ViewsStep
  <1> QED
    BY <1>1, <1>2, TypeCorrect, PTL DEF Spec

\* What a player who entered once believes is what the server has recorded of
\* it, however late its messages arrive.
THEOREM ViewsAlwaysAgree ==
  "rejoin" \notin Allowed => (Spec => []ViewsAgree)
  <1>1. TypeOK /\ Views => ViewsAgree
    BY ViewsAreTheViews
  <1> QED
    BY <1>1, TypeCorrect, ViewsInvariant, PTL

-----------------------------------------------------------------------------
(* The history that a newcomer would be sent. *)

LEMMA HistoryHas ==
  ASSUME NEW e
  PROVE  e \in History <=> \E f \in DOMAIN cmds : f <= frameId /\ e = <<f, cmds[f]>>
  BY DEF History

LEMMA HistoryIsRows ==
  ASSUME TypeOK
  PROVE  /\ History \subseteq Frames \X Row
         /\ \A e \in History : e[1] <= frameId
  BY DEF TypeOK, History

\* A match that has not begun has none.
LEMMA HistoryEmpty ==
  ASSUME TypeOK, frameId = -1
  PROVE  History = {}
  BY DEF History, TypeOK, Frames

\* Input for a frame to come is not part of it.
LEMMA HistoryKept ==
  ASSUME TypeOK, NEW f \in Frames, NEW row \in Row, frameId < f,
         cmds' = SetRow(f, row), frameId' = frameId
  PROVE  History' = History
  <1>1. /\ DOMAIN cmds' = DOMAIN cmds \cup {f}
        /\ \A g \in DOMAIN cmds : g # f => cmds'[g] = cmds[g]
    BY SetRowIsMap
  <1>2. f \in Int /\ frameId \in Int /\ DOMAIN cmds \subseteq Int
    BY DEF TypeOK, Frames
  <1>3. {g \in DOMAIN cmds' : g <= frameId'} = {g \in DOMAIN cmds : g <= frameId}
    BY <1>1, <1>2
  <1>4. \A g \in DOMAIN cmds : g <= frameId => cmds'[g] = cmds[g]
    BY <1>1, <1>2
  <1> QED
    BY <1>3, <1>4 DEF History

\* The next frame is added, as it is forwarded.
LEMMA HistoryGrows ==
  ASSUME TypeOK, NEW f \in Frames, NEW row \in Row, f = frameId + 1,
         cmds' = SetRow(f, row), frameId' = f
  PROVE  History' = History \cup {<<f, row>>}
  <1>1. /\ DOMAIN cmds' = DOMAIN cmds \cup {f}
        /\ cmds'[f] = row
        /\ \A g \in DOMAIN cmds : g # f => cmds'[g] = cmds[g]
    BY SetRowIsMap
  <1>2. f \in Int /\ frameId \in Int /\ DOMAIN cmds \subseteq Int
    BY DEF TypeOK, Frames
  <1>3. {g \in DOMAIN cmds' : g <= frameId'} = {g \in DOMAIN cmds : g <= frameId} \cup {f}
    BY <1>1, <1>2
  <1>4. \A g \in DOMAIN cmds : g <= frameId => cmds'[g] = cmds[g]
    BY <1>1, <1>2
  <1> QED
    BY <1>1, <1>3, <1>4 DEF History

\* A tick adds one frame to the history, and forwards it, or does neither.
Publishes(ps, got, f, row) ==
  /\ \A e \in History : e[1] < f
  /\ History' = History \cup {<<f, row>>}
  /\ seen' = Sent(f, row, ps, got)

LEMMA GamingTickPublishes ==
  ASSUME MaxJump <= 1, TypeOK, NEW ps, NEW add \in [Slots -> Buttons], NEW got,
         GamingTick(ps, add, got)
  PROVE  \/ History' = History /\ seen' = got
         \/ \E f \in Frames, row \in Row : Publishes(ps, got, f, row)
  <1>1. CASE seen' = got /\ UNCHANGED <<cmds, frameId>>
    BY <1>1 DEF History
  <1>2. ASSUME NEW d \in 1..MaxJump, frameId + d \in Frames,
               frameId' = frameId + d, Forward(frameId + d, ps, add, got)
        PROVE  \E f \in Frames, row \in Row : Publishes(ps, got, f, row)
    <2>1. d = 1
      BY RoomAssumption
    <2>2. PICK f \in Frames : f = frameId + 1
      BY <1>2, <2>1
    <2>3. PICK row \in Row : row = WithAddition(f, add)
      BY WithAdditionType
    <2>4. cmds' = SetRow(f, row) /\ seen' = Sent(f, row, ps, got) /\ frameId' = f
      BY <1>2, <2>1, <2>2, <2>3 DEF Forward
    <2>5. History' = History \cup {<<f, row>>}
      BY <2>2, <2>4, HistoryGrows
    <2>6. \A e \in History : e[1] < f
      BY <2>2, HistoryIsRows DEF TypeOK, Frames
    <2> QED
      BY <2>4, <2>5, <2>6 DEF Publishes
  <1> QED
    BY <1>1, <1>2 DEF GamingTick

-----------------------------------------------------------------------------
(* Everybody who is GAMING has the whole history, and so has a newcomer that *)
(* has caught up, unless the room went on to wait for another one meanwhile. *)

HasHistory(p) ==
  \/ pstate[p] = "GAMING"
  \/ pstate[p] = "CHASE_UP" /\ roomState = "GAMING"

Whole == \A p \in Occupants : HasHistory(p) => seen[p] = History

HistInv == TypeOK /\ Views /\ AgreeInv /\ Whole

\* Nobody has seen anything of a match that has not begun.
LEMMA NothingSeen ==
  ASSUME AgreeInv, frameId = -1, NEW p \in Players
  PROVE  seen[p] = {} /\ History = {}
  <1>1. \A e \in seen[p] : e[1] \in Frames /\ e[1] <= frameId
    BY DEF AgreeInv, FramesAgree, TypeOK
  <1> QED
    BY <1>1, HistoryEmpty DEF AgreeInv, Frames

\* Only the last player to leave takes the history along.
LEMMA MessageHistory ==
  ASSUME TypeOK, NEW p \in Players, Message(p), ~Closed(p)
  PROVE  History' = History
  <1>1. ASSUME NEW f \in Frames, NEW b \in Inputs, AddPlayerGameInput(p, f, b)
        PROVE  History' = History
    <2> DEFINE g == Later(frameId + 1, f)
               row == [i \in Slots |-> IF slots[i] = p THEN b ELSE RowAt(g)[i]]
    <2>1. g \in Frames /\ cmds' = SetRow(g, row) /\ frameId' = frameId
      BY <1>1 DEF AddPlayerGameInput
    <2>2. frameId < g
      BY DEF Later, TypeOK, Frames
    <2>3. row \in Row
      <3>1. RowAt(g) \in [Slots -> Buttons] /\ b \in Buttons
        BY RowAtType DEF Row, Buttons
      <3> HIDE DEF g
      <3> QED
        BY <3>1 DEF Row
    <2> HIDE DEF g, row
    <2> QED
      BY <2>1, <2>2, <2>3, HistoryKept
  <1>2. CASE UNCHANGED <<cmds, frameId>>
    BY <1>2 DEF History
  <1> QED
    BY <1>1, <1>2 DEF Message, AddPlayer, PlayerReady, PlayerReadyCancel, PlayerCutIn,
       GameReadyAck, PlayerChaseUp, Leave, RemovePlayer, Closed, match

LEMMA WholeMessage ==
  ASSUME "rejoin" \notin Allowed, HistInv, NEW p \in Players, Message(p)
  PROVE  Whole'
  <1>0. TypeOK /\ Views /\ TypeOK'
    BY TypeMessage DEF HistInv
  <1>1. CASE AddPlayer(p)
    <2>1. client[p] = "out" /\ pstate[p] = "IDLE"
      BY <1>0, <1>1 DEF AddPlayer, MayEnter, Views
    <2>2. \A q \in Occupants' : q = p \/ q \in Occupants
      BY <1>1 DEF AddPlayer, Occupants
    <2>3. UNCHANGED <<pstate, roomState, seen, cmds, frameId>>
      BY <1>1 DEF AddPlayer, match
    <2> QED
      BY <2>1, <2>2, <2>3 DEF HistInv, Whole, HasHistory, History
  <1>2. CASE Leave(p)
    <2>1. CASE Occupants = {p} /\ DestroyRoom
      BY <2>1 DEF DestroyRoom, Occupants, Whole
    <2>2. CASE RemovePlayer(p)
      <3>1. \A q \in Occupants' : q # p /\ q \in Occupants
        BY <2>2, RoomAssumption DEF RemovePlayer, Occupants
      <3>2. UNCHANGED <<pstate, roomState, cmds, frameId>> /\ seen' = [seen EXCEPT ![p] = {}]
        BY <1>2, <2>2 DEF Leave, RemovePlayer
      <3> QED
        BY <1>0, <3>1, <3>2, OccupantsAre DEF HistInv, Whole, HasHistory, History, TypeOK
    <2> QED
      BY <1>2, <2>1, <2>2 DEF Leave
  <1>3. CASE \E f \in Frames, b \in Inputs : AddPlayerGameInput(p, f, b)
    <2>1. UNCHANGED <<slots, pstate, roomState, seen>>
      BY <1>3 DEF AddPlayerGameInput
    <2>2. ~Closed(p)
      BY <1>0, <1>3 DEF AddPlayerGameInput, Closed, Leave, TypeOK
    <2>3. History' = History
      BY <1>0, <2>2, MessageHistory
    <2> QED
      BY <2>1, <2>3 DEF HistInv, Whole, HasHistory, Occupants
  <1>4. CASE PlayerChaseUp(p)
    <2>1. UNCHANGED <<slots, roomState, seen, cmds, frameId>>
      BY <1>4 DEF PlayerChaseUp, match
    <2>2. pstate' = [pstate EXCEPT ![p] = "CHASE_UP"] /\ pstate[p] = "GAMING"
      BY <1>0, <1>4 DEF PlayerChaseUp, Views
    <2> QED
      BY <1>0, <2>1, <2>2 DEF HistInv, Whole, HasHistory, Occupants, History, TypeOK
  <1>5. CASE PlayerReady(p) \/ PlayerReadyCancel(p) \/ PlayerCutIn(p) \/ GameReadyAck(p)
    <2>1. UNCHANGED <<slots, roomState, seen, cmds, frameId>>
      BY <1>5 DEF PlayerReady, PlayerReadyCancel, PlayerCutIn, GameReadyAck, match
    <2>2. \/ pstate' = pstate
          \/ \E s \in {"READY", "IDLE", "CUT_IN", "READY_START"} :
               pstate' = [pstate EXCEPT ![p] = s]
      BY <1>5 DEF PlayerReady, PlayerReadyCancel, PlayerCutIn, GameReadyAck
    <2> QED
      BY <1>0, <2>1, <2>2 DEF HistInv, Whole, HasHistory, Occupants, History, TypeOK
  <1> QED
    BY <1>1, <1>2, <1>3, <1>4, <1>5 DEF Message

LEMMA WholeTick ==
  ASSUME MaxJump <= 1, HistInv, Tick
  PROVE  Whole'
  <1>0. TypeOK /\ Occupants \subseteq Players
    BY OccupantsArePlayers DEF HistInv
  <1>1. Occupants' = Occupants
    BY DEF Tick, OutGameTick, WaitingStartTick, GamingRoomTick,
       WaitingCutInTick, Occupants
  <1>2. CASE OutGameTick
    <2>1. UNCHANGED <<pstate, seen, cmds, frameId>> /\ roomState' # "GAMING"
      BY <1>2 DEF OutGameTick, JudgeIsAllReady
    <2> QED
      BY <1>1, <2>1 DEF HistInv, Whole, HasHistory, History
  <1>3. CASE WaitingStartTick
    <2>1. frameId = -1 /\ frameId' = -1 /\ UNCHANGED <<cmds, seen>>
      BY <1>0, <1>3 DEF WaitingStartTick, JudgeCanStart, TypeOK
    <2>2. \A p \in Players : seen[p] = {} /\ History = {}
      BY <2>1, NothingSeen DEF HistInv
    <2>3. History' = History
      BY <2>1 DEF History
    <2> QED
      BY <1>0, <1>1, <2>1, <2>2, <2>3 DEF Whole
  <1>4. CASE GamingRoomTick
    <2> DEFINE ps == [p \in Players |->
                        IF p \in InState("CHASE_UP") THEN "GAMING" ELSE pstate[p]]
               add == WithCutIn(InState("CHASE_UP"))
    <2>1. pstate' = ps /\ GamingTick(ps, add, seen) /\ roomState = "GAMING"
      BY <1>4 DEF GamingRoomTick
    <2>2. add \in [Slots -> Buttons]
      BY <1>0 DEF WithCutIn, TypeOK, Buttons, Specials
    <2>3. \A p \in Occupants : /\ ps[p] = "GAMING" => seen[p] = History
                              /\ ps[p] # "CHASE_UP"
      BY <1>0, <2>1 DEF HistInv, Whole, HasHistory, InState
    <2>4. \/ History' = History /\ seen' = seen
          \/ \E f \in Frames, row \in Row : Publishes(ps, seen, f, row)
      <3> HIDE DEF ps, add
      <3> QED
        BY <1>0, <2>1, <2>2, GamingTickPublishes
    <2> HIDE DEF ps
    <2>5. \A p \in Occupants : ps[p] = "GAMING" => seen'[p] = History'
      BY <1>0, <2>3, <2>4 DEF Publishes, Sent
    <2> QED
      BY <1>1, <2>1, <2>3, <2>5 DEF Whole, HasHistory
  <1>5. CASE WaitingCutInTick
    <2> DEFINE go == AllArrived
               cutIn == InState("READY_START")
               ps == [p \in Players |->
                        IF go /\ p \in cutIn THEN "GAMING" ELSE pstate[p]]
               got == [p \in Players |->
                        IF go /\ p \in cutIn THEN History ELSE seen[p]]
    <2>1. /\ pstate' = ps /\ GamingTick(ps, addition, got)
          /\ roomState' = IF go THEN "GAMING" ELSE roomState
          /\ roomState = "WAITING_CUT_IN"
      BY <1>5 DEF WaitingCutInTick
    <2>2. \A p \in Occupants : ps[p] = "GAMING" => got[p] = History
      BY <1>0 DEF HistInv, Whole, HasHistory
    <2>3. \A p \in Occupants : go => ps[p] = "GAMING"
      BY <1>0 DEF AllArrived, InState
    <2>4. \/ History' = History /\ seen' = got
          \/ \E f \in Frames, row \in Row : Publishes(ps, got, f, row)
      <3> HIDE DEF ps, got
      <3> QED
        BY <1>0, <2>1, GamingTickPublishes DEF TypeOK
    <2> HIDE DEF ps, got, go
    <2>5. \A p \in Occupants : ps[p] = "GAMING" => seen'[p] = History'
      BY <1>0, <2>2, <2>4 DEF Publishes, Sent
    <2> QED
      BY <1>1, <2>1, <2>3, <2>5 DEF Whole, HasHistory
  <1> QED
    BY <1>2, <1>3, <1>4, <1>5 DEF Tick

LEMMA WholeStep ==
  ASSUME "rejoin" \notin Allowed, MaxJump <= 1, HistInv, [Next]_vars
  PROVE  HistInv'
  <1>1. TypeOK' /\ Views' /\ AgreeInv'
    BY TypeStep, ViewsStep, AgreeStep DEF HistInv
  <1>2. CASE UNCHANGED <<slots, pstate, roomState, cmds, frameId, seen>>
    BY <1>1, <1>2 DEF HistInv, Whole, HasHistory, Occupants, History
  <1>3. CASE NoMessage \/ UNCHANGED vars
    BY <1>1, <1>2, <1>3 DEF HistInv, NoMessage, match, vars
  <1> QED
    BY <1>1, <1>3, WholeMessage, WholeTick DEF HistInv, Next

THEOREM HistInvariant ==
  "rejoin" \notin Allowed /\ MaxJump <= 1 => (Spec => []HistInv)
  <1> SUFFICES ASSUME "rejoin" \notin Allowed, MaxJump <= 1
               PROVE  Spec => []HistInv
    OBVIOUS
  <1>1. Init => HistInv
    <2> SUFFICES ASSUME Init
                 PROVE  HistInv
      OBVIOUS
    <2>1. Views /\ Whole
      BY DEF Init, Views, Whole, Occupants
    <2> QED
      BY <2>1, TypeInit, AgreeInit DEF HistInv
  <1>2. HistInv /\ [Next]_vars => HistInv'
    BY WholeStep
  <1> QED
    BY <1>1, <1>2, PTL DEF Spec

\* Players that enter a room once, at any time, and a clock that never steps
\* over a frame: whoever plays was sent the same frames as everybody else.
THEOREM HistoriesAreTheSame ==
  "rejoin" \notin Allowed /\ MaxJump <= 1 => (Spec => []SameHistory)
  <1>1. HistInv => SameHistory
    BY DEF HistInv, Whole, HasHistory, SameHistory, InState
  <1> QED
    BY <1>1, HistInvariant, PTL

-----------------------------------------------------------------------------
(* The additional commands of a slot. *)

Marks == {"CUT_IN", "EXIT"}

\* The last additional command that slot i was forwarded is a CUT_IN.
LastIsCutIn(i) ==
  \E f \in RosterFrames(i) :
    cmds[f][i] = "CUT_IN" /\ \A g \in RosterFrames(i) : g <= f

\* So it will be if c is forwarded next.
Says(c, i) == c = "CUT_IN" \/ (c # "EXIT" /\ LastIsCutIn(i))

\* Only input is filed under frames that are to come.
InputsAhead ==
  \A f \in DOMAIN cmds : f > frameId => \A i \in Slots : cmds[f][i] \notin Marks

\* Somebody who cut in plays along from slot i.
PlaysAlong(i) ==
  /\ slots[i] \in Players \ initPlayers
  /\ pstate[slots[i]] = "GAMING" /\ client[slots[i]] = "playing"

OnRecord(i) == Says(addition[i], i) <=> PlaysAlong(i)

AllOnRecord == \A i \in Slots : OnRecord(i)

LEMMA RosterIsRecorded ==
  TypeOK => (RosterAgrees <=> AllOnRecord)
  <1> SUFFICES ASSUME TypeOK, NEW i \in Slots
               PROVE  (SaysCutIn(i) <=> CaughtUp(slots[i])) <=> OnRecord(i)
    BY DEF RosterAgrees, AllOnRecord
  <1>1. SaysCutIn(i) <=> Says(addition[i], i)
    BY DEF SaysCutIn, Says, LastIsCutIn
  <1>2. slots[i] \in Occupants <=> slots[i] \in Players
    BY OccupantsArePlayers, RoomAssumption DEF Occupants, TypeOK
  <1>3. CaughtUp(slots[i]) <=> PlaysAlong(i)
    BY <1>2, OccupantsArePlayers DEF CaughtUp, PlaysAlong, InState
  <1> QED
    BY <1>1, <1>3 DEF OnRecord

\* A row of input that is filed under a frame to come changes no record.
LEMMA RecordKept ==
  ASSUME TypeOK, InputsAhead, NEW f \in Frames, NEW row \in Row, frameId < f,
         cmds' = SetRow(f, row), frameId' = frameId,
         \A i \in Slots : row[i] \notin Marks
  PROVE  InputsAhead' /\ \A i \in Slots : LastIsCutIn(i)' <=> LastIsCutIn(i)
  <1>0. /\ DOMAIN SetRow(f, row) = DOMAIN cmds \cup {f}
        /\ SetRow(f, row)[f] = row
        /\ \A g \in DOMAIN cmds : g # f => SetRow(f, row)[g] = cmds[g]
    BY SetRowIsMap, Zenon
  <1>1. /\ DOMAIN cmds' = DOMAIN cmds \cup {f}
        /\ cmds'[f] = row
        /\ \A g \in DOMAIN cmds : g # f => cmds'[g] = cmds[g]
    BY <1>0
  <1>2. f \in Int /\ frameId \in Int /\ DOMAIN cmds \subseteq Int
    BY DEF TypeOK, Frames
  <1>3. InputsAhead'
    BY <1>1 DEF InputsAhead
  <1>4. ASSUME NEW i \in Slots
        PROVE  LastIsCutIn(i)' <=> LastIsCutIn(i)
    <2>1. \A g \in DOMAIN cmds : g <= frameId => cmds'[g] = cmds[g]
      BY <1>1, <1>2
    <2>2. RosterFrames(i)' = RosterFrames(i)
      BY <1>1, <1>2, <2>1 DEF RosterFrames
    <2>3. \A g \in RosterFrames(i) : cmds'[g][i] = cmds[g][i]
      BY <2>1 DEF RosterFrames
    <2> QED
      BY <2>2, <2>3 DEF LastIsCutIn
  <1> QED
    BY <1>3, <1>4

\* A frame that is forwarded puts its own command last, if it has one.
LEMMA RecordGrows ==
  ASSUME TypeOK, InputsAhead, NEW f \in Frames, NEW row \in Row, frameId < f,
         cmds' = SetRow(f, row), frameId' = f, NEW i \in Slots
  PROVE  /\ InputsAhead'
         /\ row[i] \in Marks => (LastIsCutIn(i)' <=> row[i] = "CUT_IN")
         /\ row[i] \notin Marks => (LastIsCutIn(i)' <=> LastIsCutIn(i))
  <1>0. /\ DOMAIN SetRow(f, row) = DOMAIN cmds \cup {f}
        /\ SetRow(f, row)[f] = row
        /\ \A g \in DOMAIN cmds : g # f => SetRow(f, row)[g] = cmds[g]
    BY SetRowIsMap, Zenon
  <1>1. /\ DOMAIN cmds' = DOMAIN cmds \cup {f}
        /\ cmds'[f] = row
        /\ \A g \in DOMAIN cmds : g # f => cmds'[g] = cmds[g]
    BY <1>0
  <1>2. f \in Int /\ frameId \in Int /\ DOMAIN cmds \subseteq Int
    BY DEF TypeOK, Frames
  <1>3. InputsAhead'
    BY <1>1, <1>2 DEF InputsAhead
  <1>4. \A g \in RosterFrames(i) : g < f /\ cmds'[g][i] = cmds[g][i]
    BY <1>1, <1>2 DEF RosterFrames
  <1>5. ASSUME NEW g
        PROVE  g \in RosterFrames(i)' <=> g \in RosterFrames(i) \/ (g = f /\ row[i] \in Marks)
    <2>1. CASE g = f
      BY <1>1, <1>2, <2>1 DEF RosterFrames, Marks
    <2>2. CASE g # f
      BY <1>1, <1>2, <2>2 DEF RosterFrames, InputsAhead, Marks
    <2> QED
      BY <2>1, <2>2
  <1>6. CASE row[i] \in Marks
    <2>1. f \in RosterFrames(i)' /\ \A g \in RosterFrames(i)' : g <= f
      <3>1. f \in RosterFrames(i)'
        BY <1>5, <1>6
      <3>2. ASSUME NEW g \in RosterFrames(i)'
            PROVE  g <= f
        <4>1. g \in RosterFrames(i) \/ g = f
          BY <1>5
        <4>2. CASE g \in RosterFrames(i)
          BY <1>2, <1>4, <4>2 DEF RosterFrames
        <4> QED
          BY <1>2, <4>1, <4>2
      <3> QED
        BY <3>1, <3>2
    <2>2. ASSUME NEW h \in RosterFrames(i)', f <= h
          PROVE  h = f
      <3>1. h \in RosterFrames(i) \/ h = f
        BY <1>5
      <3>2. CASE h \in RosterFrames(i)
        <4>1. h \in Int /\ h < f
          BY <1>2, <1>4, <3>2 DEF RosterFrames
        <4> QED
          BY <1>2, <2>2, <4>1
      <3> QED
        BY <3>1, <3>2
    <2> QED
      BY <1>1, <1>3, <1>6, <2>1, <2>2 DEF LastIsCutIn
  <1>7. CASE row[i] \notin Marks
    <2>1. RosterFrames(i)' = RosterFrames(i)
      BY <1>5, <1>7
    <2> QED
      BY <1>3, <1>4, <1>7, <2>1 DEF LastIsCutIn
  <1> QED
    BY <1>6, <1>7

\* Whether or not a frame is due, the additional commands add are on record
\* after the tick, the frames stepped over notwithstanding.
LEMMA GamingTickRecords ==
  ASSUME TypeOK, InputsAhead, NEW ps, NEW add \in [Slots -> Buttons], NEW got,
         GamingTick(ps, add, got)
  PROVE  InputsAhead' /\ \A i \in Slots : Says(addition[i], i)' <=> Says(add[i], i)
  <1>1. CASE addition' = add /\ UNCHANGED <<cmds, frameId>>
    <2>1. \A i \in Slots : LastIsCutIn(i)' <=> LastIsCutIn(i)
      BY <1>1 DEF LastIsCutIn, RosterFrames
    <2> QED
      BY <1>1, <2>1 DEF Says, InputsAhead
  <1>2. ASSUME NEW d \in 1..MaxJump, frameId + d \in Frames,
               frameId' = frameId + d, Forward(frameId + d, ps, add, got)
        PROVE  InputsAhead' /\ \A i \in Slots : Says(addition[i], i)' <=> Says(add[i], i)
    <2>1. PICK f \in Frames : f = frameId + d
      BY <1>2
    <2>2. PICK row \in Row : row = WithAddition(f, add)
      BY WithAdditionType
    <2>3. /\ cmds' = SetRow(f, row) /\ frameId' = f
          /\ addition' = NoCmds
      BY <1>2, <2>1, <2>2 DEF Forward
    <2>4. frameId < f
      BY <2>1 DEF TypeOK, Frames
    <2>5. ASSUME NEW i \in Slots
          PROVE  Says(addition[i], i)' <=> Says(add[i], i)
      <3>1. Says(addition[i], i)' <=> LastIsCutIn(i)'
        BY <2>3 DEF Says, NoCmds
      <3>2. add[i] \in Marks => row[i] = add[i]
        BY <2>2 DEF WithAddition, Marks
      <3>3. add[i] \notin Marks => row[i] \notin Marks
        <4>1. RowAt(f)[i] \notin Marks
          BY <2>4 DEF RowAt, InputsAhead, NoCmds, Marks, TypeOK, Frames
        <4> QED
          BY <2>2, <4>1 DEF WithAddition
      <3>4. /\ row[i] \in Marks => (LastIsCutIn(i)' <=> row[i] = "CUT_IN")
            /\ row[i] \notin Marks => (LastIsCutIn(i)' <=> LastIsCutIn(i))
        BY <2>3, <2>4, RecordGrows
      <3> QED
        BY <3>1, <3>2, <3>3, <3>4 DEF Says, Marks
    <2>6. \E i : i \in Slots
      BY RoomAssumption DEF Slots
    <2>7. InputsAhead'
      BY <2>3, <2>4, <2>6, RecordGrows
    <2> QED
      BY <2>5, <2>7
  <1> QED
    BY <1>1, <1>2 DEF GamingTick

-----------------------------------------------------------------------------
(* Who cuts in. *)

\* Those who were there when a match was called start it, or are gone: none
\* of them cuts in.
Starters ==
  \A p \in Players :
    /\ roomState = "OUT_GAME" => client[p] \in {"out", "gone", "idle", "ready"}
    /\ roomState = "WAITING_START" /\ client[p] \in {"asked", "acked"} => p \in initPlayers
    /\ p \in initPlayers =>
         \/ client[p] = "gone"
         \/ client[p] = "playing" /\ pstate[p] = "GAMING"
         \/ client[p] \in {"asked", "acked"} /\ pstate[p] # "CUT_IN" /\ roomState = "WAITING_START"

RosterInv == TypeOK /\ Views /\ Starters /\ InputsAhead /\ RosterAgrees

LEMMA StartersMessage ==
  ASSUME "rejoin" \notin Allowed, TypeOK, Starters, NEW p \in Players, Message(p)
  PROVE  Starters'
  <1>1. CASE Closed(p)
    <2>1. /\ roomState' = "OUT_GAME" /\ initPlayers' = {}
          /\ client' = [client EXCEPT ![p] = "gone"]
      BY <1>1 DEF Closed, Leave, DestroyRoom
    <2>2. \A q \in Players \ {p} : client[q] \in {"out", "gone"}
      BY <1>1, OccupantsAre DEF Closed
    <2> QED
      BY <2>1, <2>2 DEF Starters, TypeOK
  <1>2. CASE Leave(p) /\ RemovePlayer(p)
    BY <1>2 DEF Leave, RemovePlayer, Starters, TypeOK
  <1>3. CASE AddPlayer(p)
    BY <1>3 DEF Starters, TypeOK, AddPlayer, MayEnter, match
  <1>4. CASE PlayerReady(p) \/ PlayerReadyCancel(p) \/ PlayerCutIn(p)
    BY <1>4 DEF Starters, TypeOK, PlayerReady, PlayerReadyCancel, PlayerCutIn, IsInGame, match
  <1>5. CASE GameReadyAck(p)
    BY <1>5 DEF Starters, TypeOK, GameReadyAck, match
  <1>6. CASE PlayerChaseUp(p)
    BY <1>6 DEF Starters, TypeOK, PlayerChaseUp, match
  <1>7. CASE \E f \in Frames, b \in Inputs : AddPlayerGameInput(p, f, b)
    BY <1>7 DEF Starters, AddPlayerGameInput
  <1> QED
    BY <1>1, <1>2, <1>3, <1>4, <1>5, <1>6, <1>7 DEF Message, Leave, Closed

LEMMA StartersTick ==
  ASSUME TypeOK, Views, Starters, Tick
  PROVE  Starters'
  <1>1. CASE OutGameTick
    BY <1>1, OccupantsAre
       DEF OutGameTick, JudgeIsAllReady, Asked, InState, NotInState, Starters, TypeOK, Views
  <1>2. CASE WaitingStartTick
    BY <1>2, OccupantsAre
       DEF WaitingStartTick, JudgeCanStart, AllStarted, InState, Starters, TypeOK, Views
  <1>3. CASE GamingRoomTick
    BY <1>3, OccupantsAre DEF GamingRoomTick, Asked, InState, Starters, TypeOK
  <1>4. CASE WaitingCutInTick
    BY <1>4, OccupantsAre DEF WaitingCutInTick, InState, Starters, TypeOK, Views
  <1> QED
    BY <1>1, <1>2, <1>3, <1>4 DEF Tick

\* An action that leaves what is filed for slot i alone, and who plays there.
LEMMA RecordedStays ==
  ASSUME NEW i \in Slots, OnRecord(i), UNCHANGED <<cmds, frameId>>,
         addition'[i] = addition[i], PlaysAlong(i)' <=> PlaysAlong(i)
  PROVE  OnRecord(i)'
  <1>1. LastIsCutIn(i)' <=> LastIsCutIn(i)
    BY DEF LastIsCutIn, RosterFrames
  <1> QED
    BY <1>1 DEF OnRecord, Says

LEMMA LeaveRecorded ==
  ASSUME TypeOK, NEW p \in Players, Leave(p), NEW i \in Slots, OnRecord(i)
  PROVE  OnRecord(i)'
  <1>1. CASE DestroyRoom
    <2>1. addition'[i] = "NONE" /\ DOMAIN cmds' = {} /\ slots'[i] \notin Players
      BY <1>1, RoomAssumption DEF DestroyRoom, NoCmds
    <2> QED
      BY <2>1 DEF OnRecord, Says, LastIsCutIn, RosterFrames, PlaysAlong
  <1>2. CASE RemovePlayer(p)
    <2>1. /\ UNCHANGED <<cmds, frameId, initPlayers, pstate>>
          /\ client' = [client EXCEPT ![p] = "gone"]
          /\ slots'[i] = IF slots[i] = p THEN Nobody ELSE slots[i]
          /\ addition'[i] = IF slots[i] = p /\ pstate[p] = "GAMING"
                              THEN "EXIT" ELSE addition[i]
      BY <1>2 DEF Leave, RemovePlayer
    <2>2. CASE slots[i] # p
      <3>1. PlaysAlong(i)' <=> PlaysAlong(i)
        BY <2>1, <2>2 DEF PlaysAlong, TypeOK
      <3> QED
        BY <2>1, <2>2, <3>1, RecordedStays
    <2>3. CASE slots[i] = p /\ pstate[p] = "GAMING"
      BY <2>1, <2>3, RoomAssumption DEF OnRecord, Says, PlaysAlong
    <2>4. CASE slots[i] = p /\ pstate[p] # "GAMING"
      <3>1. ~PlaysAlong(i) /\ ~PlaysAlong(i)'
        BY <2>1, <2>4, RoomAssumption DEF PlaysAlong
      <3> QED
        BY <2>1, <2>4, <3>1, RecordedStays
    <2> QED
      BY <2>2, <2>3, <2>4
  <1> QED
    BY <1>1, <1>2 DEF Leave

\* Nobody plays along on account of a message: whoever reports that it has
\* caught up is CHASE_UP until the room's next tick.
LEMMA MessageRecorded ==
  ASSUME "rejoin" \notin Allowed, TypeOK, NEW p \in Players, Message(p),
         ~Leave(p), UNCHANGED <<cmds, frameId>>, NEW i \in Slots, OnRecord(i)
  PROVE  OnRecord(i)'
  <1>1. UNCHANGED <<addition, initPlayers>>
    BY DEF Message, AddPlayer, PlayerReady, PlayerReadyCancel, PlayerCutIn,
       GameReadyAck, PlayerChaseUp, AddPlayerGameInput, match
  <1>2. PlaysAlong(i)' <=> PlaysAlong(i)
    <2>1. CASE AddPlayer(p)
      <3>1. UNCHANGED pstate /\ client' = [client EXCEPT ![p] = "idle"] /\ client[p] = "out"
        BY <2>1 DEF AddPlayer, MayEnter
      <3>2. slots'[i] = slots[i] \/ (slots[i] = Nobody /\ slots'[i] = p)
        BY <2>1 DEF AddPlayer, TypeOK
      <3> QED
        BY <1>1, <3>1, <3>2, RoomAssumption DEF PlaysAlong, TypeOK
    <2>2. CASE PlayerReady(p) \/ PlayerReadyCancel(p) \/ PlayerCutIn(p)
      BY <1>1, <2>2 DEF PlayerReady, PlayerReadyCancel, PlayerCutIn, PlaysAlong, TypeOK
    <2>3. CASE GameReadyAck(p) \/ PlayerChaseUp(p)
      BY <1>1, <2>3 DEF GameReadyAck, PlayerChaseUp, PlaysAlong, TypeOK
    <2>4. CASE \E f \in Frames, b \in Inputs : AddPlayerGameInput(p, f, b)
      BY <1>1, <2>4 DEF AddPlayerGameInput, PlaysAlong
    <2> QED
      BY <2>1, <2>2, <2>3, <2>4 DEF Message
  <1> QED
    BY <1>1, <1>2, RecordedStays

LEMMA InputRecorded ==
  ASSUME TypeOK, InputsAhead, NEW p \in Players, NEW f \in Frames, NEW b \in Inputs,
         AddPlayerGameInput(p, f, b)
  PROVE  /\ InputsAhead'
         /\ \A i \in Slots : OnRecord(i) => OnRecord(i)'
  <1> DEFINE g == Later(frameId + 1, f)
             row == [i \in Slots |-> IF slots[i] = p THEN b ELSE RowAt(g)[i]]
  <1>1. /\ g \in Frames /\ cmds' = SetRow(g, row)
        /\ UNCHANGED <<slots, pstate, initPlayers, addition, frameId, client>>
    BY DEF AddPlayerGameInput
  <1>2. frameId < g
    BY DEF Later, TypeOK, Frames
  <1>3. \A i \in Slots : RowAt(g)[i] \notin Marks
    BY <1>1, <1>2 DEF RowAt, InputsAhead, NoCmds, Marks, TypeOK, Frames
  <1>4. row \in Row /\ \A i \in Slots : row[i] \notin Marks
    <2>1. row \in Row
      BY RowAtType DEF Row, Buttons
    <2> QED
      BY <1>3, <2>1, RoomAssumption DEF Marks, Specials
  <1> HIDE DEF g, row
  <1>5. InputsAhead' /\ \A i \in Slots : LastIsCutIn(i)' <=> LastIsCutIn(i)
    BY <1>1, <1>2, <1>4, RecordKept
  <1>6. \A i \in Slots : PlaysAlong(i)' <=> PlaysAlong(i)
    BY <1>1 DEF PlaysAlong
  <1> QED
    BY <1>1, <1>5, <1>6 DEF OnRecord, Says

LEMMA MessageRoster ==
  ASSUME "rejoin" \notin Allowed, RosterInv, TypeOK', NEW p \in Players, Message(p)
  PROVE  InputsAhead' /\ RosterAgrees'
  <1>0. TypeOK /\ InputsAhead /\ \A i \in Slots : OnRecord(i)
    BY RosterIsRecorded DEF RosterInv, AllOnRecord
  <1>1. RosterAgrees' <=> \A i \in Slots : OnRecord(i)'
    <2>1. TypeOK'
      OBVIOUS
    <2>2. RosterAgrees' <=> AllOnRecord'
      BY <2>1, RosterIsRecorded, PTL
    <2> QED
      BY <2>2 DEF AllOnRecord
  <1>2. CASE Leave(p)
    <2>1. InputsAhead'
      BY <1>0, <1>2 DEF Leave, RemovePlayer, DestroyRoom, InputsAhead
    <2> QED
      BY <1>0, <1>1, <1>2, <2>1, LeaveRecorded
  <1>3. CASE \E f \in Frames, b \in Inputs : AddPlayerGameInput(p, f, b)
    BY <1>0, <1>1, <1>3, InputRecorded
  <1>4. CASE ~Leave(p) /\ ~\E f \in Frames, b \in Inputs : AddPlayerGameInput(p, f, b)
    <2>1. UNCHANGED <<cmds, frameId>>
      BY <1>4 DEF Message, AddPlayer, PlayerReady, PlayerReadyCancel, PlayerCutIn,
         GameReadyAck, PlayerChaseUp, match
    <2>2. InputsAhead'
      BY <1>0, <2>1 DEF InputsAhead
    <2> QED
      BY <1>0, <1>1, <1>4, <2>1, <2>2, MessageRecorded
  <1> QED
    BY <1>2, <1>3, <1>4

\* A tick records a CUT_IN for those, and only those, whom it makes play along.
LEMMA TickRoster ==
  ASSUME RosterInv, TypeOK', Tick
  PROVE  InputsAhead' /\ RosterAgrees'
  <1>0. TypeOK /\ Views /\ Starters /\ InputsAhead /\ \A i \in Slots : OnRecord(i)
    BY RosterIsRecorded DEF RosterInv, AllOnRecord
  <1>1. RosterAgrees' <=> \A i \in Slots : OnRecord(i)'
    <2>1. TypeOK'
      OBVIOUS
    <2>2. RosterAgrees' <=> AllOnRecord'
      BY <2>1, RosterIsRecorded, PTL
    <2> QED
      BY <2>2 DEF AllOnRecord
  <1>2. slots' = slots
    BY DEF Tick, OutGameTick, WaitingStartTick, GamingRoomTick, WaitingCutInTick
  <1>3. \A i \in Slots : slots[i] \in Players =>
          slots[i] \in Occupants /\ client[slots[i]] \in ClientStates \ {"out", "gone"}
    BY <1>0, OccupantsAre, RoomAssumption DEF Occupants, TypeOK
  <1>4. CASE OutGameTick \/ WaitingStartTick
    <2>1. UNCHANGED <<cmds, addition, frameId>>
      BY <1>0, <1>4 DEF OutGameTick, WaitingStartTick, JudgeCanStart, TypeOK
    <2>2. InputsAhead'
      BY <1>0, <2>1 DEF InputsAhead
    <2>3. ASSUME NEW i \in Slots
          PROVE  PlaysAlong(i)' <=> PlaysAlong(i)
      <3>1. CASE OutGameTick
        BY <1>0, <1>2, <1>3, <3>1
           DEF OutGameTick, JudgeIsAllReady, Asked, Starters, PlaysAlong, TypeOK
      <3>2. CASE WaitingStartTick /\ AllStarted
        <4>1. slots[i] \in Players => client[slots[i]] = "acked" /\ slots[i] \in initPlayers
          BY <1>0, <1>3, <3>2
             DEF WaitingStartTick, AllStarted, InState, Views, Starters, ClientStates
        <4> QED
          BY <1>2, <3>2, <4>1 DEF WaitingStartTick, PlaysAlong
      <3>3. CASE WaitingStartTick /\ ~AllStarted
        BY <1>2, <3>3 DEF WaitingStartTick, JudgeCanStart, PlaysAlong
      <3> QED
        BY <1>4, <3>1, <3>2, <3>3
    <2> QED
      BY <1>0, <1>1, <2>1, <2>2, <2>3, RecordedStays
  <1>5. CASE GamingRoomTick
    <2> DEFINE chaseUp == InState("CHASE_UP")
               ps == [p \in Players |->
                        IF p \in chaseUp THEN "GAMING" ELSE pstate[p]]
               add == WithCutIn(chaseUp)
    <2>1. /\ pstate' = ps /\ client' = Asked(InState("CUT_IN"))
          /\ initPlayers' = initPlayers /\ GamingTick(ps, add, seen)
      BY <1>5 DEF GamingRoomTick
    <2>2. add \in [Slots -> Buttons]
      BY <1>0 DEF WithCutIn, TypeOK, Buttons, Specials
    <2>3. ASSUME NEW i \in Slots
          PROVE  Says(add[i], i) <=> PlaysAlong(i)'
      <3>1. CASE slots[i] \in chaseUp
        <4>1. slots[i] \in Players /\ pstate[slots[i]] = "CHASE_UP"
          BY <1>0, <3>1, OccupantsAre DEF InState
        <4>2. client[slots[i]] = "playing" /\ slots[i] \notin initPlayers
          BY <1>0, <1>3, <1>5, <4>1 DEF GamingRoomTick, Views, Starters, ClientStates
        <4>3. PlaysAlong(i)'
          BY <1>2, <2>1, <3>1, <4>1, <4>2 DEF PlaysAlong, Asked, InState
        <4> QED
          BY <3>1, <4>3 DEF WithCutIn, Says
      <3>2. CASE slots[i] \notin chaseUp
        <4>1. PlaysAlong(i)' <=> PlaysAlong(i)
          BY <1>0, <1>2, <1>3, <2>1, <3>2 DEF PlaysAlong, Asked, InState
        <4>2. add[i] = addition[i]
          BY <3>2 DEF WithCutIn
        <4> QED
          BY <1>0, <4>1, <4>2 DEF OnRecord
      <3> QED
        BY <3>1, <3>2
    <2> HIDE DEF ps, add
    <2>4. InputsAhead' /\ \A i \in Slots : Says(addition[i], i)' <=> Says(add[i], i)
      BY <1>0, <2>1, <2>2, GamingTickRecords
    <2> QED
      BY <1>1, <2>3, <2>4 DEF OnRecord
  <1>6. CASE WaitingCutInTick
    <2>1. \E ps, got : GamingTick(ps, addition, got)
      BY <1>6 DEF WaitingCutInTick
    <2>2. InputsAhead' /\ \A i \in Slots : Says(addition[i], i)' <=> Says(addition[i], i)
      BY <1>0, <2>1, GamingTickRecords DEF TypeOK
    <2>3. ASSUME NEW i \in Slots
          PROVE  PlaysAlong(i)' <=> PlaysAlong(i)
      BY <1>0, <1>2, <1>3, <1>6 DEF WaitingCutInTick, InState, Views, PlaysAlong
    <2> QED
      BY <1>0, <1>1, <2>2, <2>3 DEF OnRecord
  <1> QED
    BY <1>4, <1>5, <1>6 DEF Tick

LEMMA RosterStep ==
  ASSUME "rejoin" \notin Allowed, RosterInv, [Next]_vars
  PROVE  RosterInv'
  <1>1. TypeOK' /\ Views' /\ TypeOK /\ Views
    BY TypeStep, ViewsStep DEF RosterInv
  <1>2. CASE \E p \in Players : Message(p)
    BY <1>1, <1>2, StartersMessage, MessageRoster DEF RosterInv
  <1>3. CASE Tick
    BY <1>1, <1>3, StartersTick, TickRoster DEF RosterInv
  <1>4. CASE NoMessage \/ UNCHANGED vars
    <2>1. UNCHANGED <<slots, pstate, roomState, client, initPlayers, cmds, addition, frameId>>
      BY <1>4 DEF NoMessage, match, vars
    <2> QED
      BY <1>1, <2>1 DEF RosterInv, Starters, InputsAhead, RosterAgrees, SaysCutIn,
         RosterFrames, CaughtUp, InState, Occupants
  <1> QED
    BY <1>2, <1>3, <1>4 DEF Next

\* Players that enter a room once, at any time, and a clock that may step over
\* frames: the additional commands say of every slot whether a newcomer that
\* has caught up plays there now.
THEOREM RosterAlwaysAgrees ==
  "rejoin" \notin Allowed => (Spec => []RosterAgrees)
  <1> SUFFICES ASSUME "rejoin" \notin Allowed
               PROVE  Spec => []RosterAgrees
    OBVIOUS
  <1>1. Init => RosterInv
    <2> SUFFICES ASSUME Init
                 PROVE  RosterInv
      OBVIOUS
    <2>1. TypeOK
      BY TypeInit
    <2>2. Views /\ Starters /\ InputsAhead
      BY DEF Init, Views, Starters, InputsAhead
    <2>3. AllOnRecord
      BY RoomAssumption
         DEF Init, AllOnRecord, OnRecord, Says, LastIsCutIn, RosterFrames, PlaysAlong, NoCmds
    <2> QED
      BY <2>1, <2>2, <2>3, RosterIsRecorded DEF RosterInv
  <1>2. RosterInv /\ [Next]_vars => RosterInv'
    BY RosterStep
  <1>3. RosterInv => RosterAgrees
    BY DEF RosterInv
  <1> QED
    BY <1>1, <1>2, <1>3, PTL DEF Spec

-----------------------------------------------------------------------------
(* Players that enter one at a time, and not while a match is starting. *)

Passive == {"out", "gone"}

AllAre(S) == \A p \in Players : client[p] \in S

\* At most one player in a running match does not play yet.
OneNewcomer ==
  \A p, q \in Players :
    client[p] \notin Passive \cup {"playing"} /\ client[q] \notin Passive \cup {"playing"}
      => p = q

\* Who has just caught up is GAMING after the next tick, and the room waits
\* for nobody else.
ChaseUpShort ==
  \A p \in Players :
    client[p] = "playing" /\ pstate[p] = "CHASE_UP"
      => phase = "tick" /\ roomState = "GAMING" /\ AllAre(Passive \cup {"playing"})

Turns ==
  /\ roomState = "OUT_GAME" => AllAre(Passive \cup {"idle", "ready"})
  /\ roomState = "WAITING_START" =>
       Occupants # {} /\ AllAre(Passive \cup {"asked", "acked"})
  /\ roomState = "GAMING" =>
       OneNewcomer /\ AllAre(Passive \cup {"idle", "cutin", "chasing", "playing"})
  /\ roomState = "WAITING_CUT_IN" =>
       OneNewcomer /\ AllAre(Passive \cup {"asked", "acked", "playing"})

Orderly == TypeOK /\ Views /\ Turns /\ ChaseUpShort

LEMMA OrderlyMessage ==
  ASSUME Allowed = {}, Orderly, NEW p \in Players, Message(p)
  PROVE  Turns' /\ ChaseUpShort'
  <1>0. TypeOK /\ TypeOK' /\ Views /\ Turns /\ ChaseUpShort /\ phase = "parse" /\ phase' = "tick"
    BY TypeMessage DEF Orderly, Message, AddPlayer, PlayerReady, PlayerReadyCancel,
       PlayerCutIn, GameReadyAck, PlayerChaseUp, AddPlayerGameInput, Leave, Handled
  <1>1. \A q \in Players : client[q] = "playing" => pstate[q] = "GAMING"
    BY <1>0 DEF ChaseUpShort, Views
  <1> USE DEF Turns, ChaseUpShort, OneNewcomer, AllAre, Passive, TypeOK
  <1>2. CASE AddPlayer(p)
    <2>1. /\ client' = [client EXCEPT ![p] = "idle"] /\ client[p] = "out"
          /\ UNCHANGED <<pstate, roomState>>
          /\ \/ roomState = "OUT_GAME"
             \/ roomState = "GAMING" /\ \A q \in Occupants : client[q] = "playing"
      BY <1>2 DEF AddPlayer, MayEnter, IsInGame
    <2> QED
      BY <1>0, <1>1, <2>1, OccupantsAre
  <1>3. CASE PlayerReady(p)
    BY <1>0, <1>1, <1>3 DEF PlayerReady
  <1>4. CASE PlayerReadyCancel(p)
    <2>1. CASE UNCHANGED <<pstate, client, roomState, slots>>
      <3>1. Occupants' = Occupants
        BY <2>1 DEF Occupants
      <3>2. Turns'
        BY <1>0, <2>1, <3>1
      <3>3. ChaseUpShort'
        BY <1>0, <1>1, <2>1
      <3> QED
        BY <3>2, <3>3
    <2>2. CASE roomState = "OUT_GAME"
      <3>1. /\ roomState' = "OUT_GAME"
            /\ client' = [client EXCEPT ![p] = "idle"]
            /\ pstate' = [pstate EXCEPT ![p] = "IDLE"]
        BY <1>4, <2>2 DEF PlayerReadyCancel, IsInGame
      <3>2. \A q \in Players : client'[q] = IF q = p THEN "idle" ELSE client[q]
        BY <1>0, <3>1
      <3>3. Turns'
        BY <1>0, <2>2, <3>1, <3>2
      <3>4. ChaseUpShort'
        BY <1>0, <1>1, <2>2, <3>1, <3>2
      <3> QED
        BY <3>3, <3>4
    <2> QED
      BY <1>4, <2>1, <2>2 DEF PlayerReadyCancel, IsInGame
  <1>5. CASE PlayerCutIn(p)
    <2>1. /\ client[p] = "idle"
          /\ client' = [client EXCEPT ![p] = "cutin"]
          /\ pstate' = [pstate EXCEPT ![p] = "CUT_IN"]
          /\ UNCHANGED <<roomState, slots>>
      BY <1>5 DEF PlayerCutIn
    <2>2. roomState = "GAMING"
      BY <1>0, <1>5, <2>1 DEF PlayerCutIn, IsInGame, RoomStates
    <2>3. \A q \in Players : client'[q] = IF q = p THEN "cutin" ELSE client[q]
      BY <1>0, <2>1
    <2>4. Turns'
      BY <1>0, <2>1, <2>2, <2>3
    <2>5. ChaseUpShort'
      BY <1>0, <1>1, <2>1, <2>3
    <2> QED
      BY <2>4, <2>5
  <1>6. CASE GameReadyAck(p)
    <2>1. Occupants' = Occupants
      BY <1>6 DEF GameReadyAck, Occupants
    <2> QED
      BY <1>0, <1>1, <1>6, <2>1 DEF GameReadyAck, RoomStates
  <1>7. CASE PlayerChaseUp(p)
    BY <1>0, <1>1, <1>7 DEF PlayerChaseUp, RoomStates
  <1>8. CASE \E f \in Frames, b \in Inputs : AddPlayerGameInput(p, f, b)
    BY <1>0, <1>1, <1>8 DEF AddPlayerGameInput, Occupants
  <1>9. CASE Closed(p)
    <2>1. roomState' = "OUT_GAME" /\ client' = [client EXCEPT ![p] = "gone"]
      BY <1>9 DEF Closed, Leave, DestroyRoom
    <2>2. \A q \in Players \ {p} : client[q] \in Passive
      BY <1>0, <1>9, OccupantsAre DEF Closed
    <2> QED
      BY <1>0, <2>1, <2>2
  <1>10. CASE Leave(p) /\ Occupants # {p}
    <2>1. /\ client' = [client EXCEPT ![p] = "gone"]
          /\ UNCHANGED <<pstate, roomState>>
      BY <1>10 DEF Leave, RemovePlayer
    <2>2. PICK q \in Occupants : q # p
      BY <1>10 DEF Leave
    <2>3. q \in Occupants'
      BY <1>0, <2>1, <2>2, OccupantsAre
    <2> QED
      BY <1>0, <1>1, <2>1, <2>3
  <1> QED
    BY <1>2, <1>3, <1>4, <1>5, <1>6, <1>7, <1>8, <1>9, <1>10 DEF Message, Leave, Closed

\* What a room waits for between its ticks.
Awaited ==
  phase = "parse" /\ roomState \in {"WAITING_START", "WAITING_CUT_IN"}
    => \E p \in Occupants : client[p] = "asked"

LEMMA OrderlyTick ==
  ASSUME Orderly, Tick
  PROVE  Turns' /\ ChaseUpShort' /\ Awaited'
  <1>0. TypeOK /\ Views /\ Turns /\ ChaseUpShort /\ phase' = "parse"
    BY DEF Orderly, Tick
  <1>1. Occupants' = Occupants
    BY DEF Tick, OutGameTick, WaitingStartTick, GamingRoomTick,
       WaitingCutInTick, Occupants
  <1>2. \A p : p \in Occupants <=> p \in Players /\ client[p] \notin Passive
    BY <1>0, OccupantsAre DEF Passive
  <1> USE DEF Turns, ChaseUpShort, OneNewcomer, AllAre, Passive, TypeOK, Awaited
  <1>3. CASE OutGameTick
    BY <1>0, <1>1, <1>2, <1>3 DEF OutGameTick, JudgeIsAllReady, Asked, InState, Views
  <1>4. CASE WaitingStartTick
    <2>1. CASE AllStarted
      <3>1. /\ pstate' = [q \in Players |-> IF q \in Occupants THEN "GAMING" ELSE pstate[q]]
            /\ client' = [q \in Players |-> IF q \in Occupants THEN "playing" ELSE client[q]]
            /\ roomState' = "GAMING"
        BY <1>4, <2>1 DEF WaitingStartTick, JudgeCanStart, AllStarted
      <3> QED
        BY <1>0, <1>2, <3>1
    <2>2. CASE ~AllStarted
      <3>1. UNCHANGED <<pstate, client, roomState>> /\ roomState = "WAITING_START"
        BY <1>4, <2>2 DEF WaitingStartTick, JudgeCanStart
      <3>2. \E p \in Occupants : pstate[p] # "READY_START"
        BY <1>0, <2>2, <3>1 DEF AllStarted, InState
      <3>3. \E p \in Occupants : client[p] = "asked"
        BY <1>0, <1>2, <3>1, <3>2 DEF Views
      <3> QED
        BY <1>0, <1>1, <3>1, <3>3
    <2> QED
      BY <2>1, <2>2
  <1>5. CASE GamingRoomTick
    <2>1. /\ roomState = "GAMING"
          /\ roomState' = IF InState("CUT_IN") = {} THEN "GAMING" ELSE "WAITING_CUT_IN"
          /\ client' = Asked(InState("CUT_IN"))
          /\ pstate' = [q \in Players |->
                          IF q \in InState("CHASE_UP") THEN "GAMING" ELSE pstate[q]]
      BY <1>5 DEF GamingRoomTick
    <2>2. \A p \in Players : pstate'[p] = "CHASE_UP" => client[p] \in Passive
      BY <1>2, <2>1 DEF InState
    <2>3. \A p \in Players : client'[p] = IF p \in InState("CUT_IN") THEN "asked" ELSE client[p]
      BY <2>1 DEF Asked
    <2>4. \A p \in InState("CUT_IN") : client[p] = "cutin"
      BY <1>0, <1>2, <2>1 DEF InState, Views, ClientStates
    <2>5. ChaseUpShort'
      BY <2>2, <2>3
    <2>6. CASE InState("CUT_IN") = {}
      BY <1>0, <2>1, <2>3, <2>5, <2>6
    <2>7. ASSUME NEW n \in InState("CUT_IN")
          PROVE  Turns' /\ Awaited'
      <3>1. roomState' = "WAITING_CUT_IN" /\ n \in Players /\ n \in Occupants /\ client[n] = "cutin"
        BY <1>2, <2>1, <2>4, <2>7 DEF InState
      <3>2. \A q \in Players : q # n => client[q] \in Passive \cup {"playing"}
        BY <1>0, <2>1, <3>1
      <3>3. client'[n] = "asked" /\ \A q \in Players : q # n => client'[q] = client[q]
        BY <2>3, <2>4, <2>7, <3>1, <3>2
      <3> QED
        BY <1>1, <3>1, <3>2, <3>3
    <2> QED
      BY <2>5, <2>6, <2>7
  <1>6. CASE WaitingCutInTick
    <2> DEFINE cutIn == InState("READY_START")
    <2>1. /\ roomState = "WAITING_CUT_IN"
          /\ roomState' = IF AllArrived THEN "GAMING" ELSE roomState
          /\ client' = [q \in Players |->
                          IF AllArrived /\ q \in cutIn THEN "chasing" ELSE client[q]]
          /\ pstate' = [q \in Players |->
                          IF AllArrived /\ q \in cutIn THEN "GAMING" ELSE pstate[q]]
      BY <1>6 DEF WaitingCutInTick
    <2>2. \A q \in cutIn : client[q] = "acked" /\ q \in Players
      BY <1>0, <1>2, <2>1 DEF InState, Views
    <2>3. CASE AllArrived
      <3>1. \A q \in Occupants : q \in cutIn \/ pstate[q] = "GAMING"
        BY <2>3 DEF AllArrived, InState
      <3>2. \A q \in Occupants : q \in cutIn \/ client[q] = "playing"
        BY <1>0, <1>2, <2>1, <3>1 DEF Views, InState
      <3>3. /\ roomState' = "GAMING"
            /\ \A q \in Players : client'[q] = IF q \in cutIn THEN "chasing" ELSE client[q]
            /\ \A q \in Players : client'[q] = "playing" => pstate'[q] = pstate[q]
        BY <2>1, <2>2, <2>3
      <3> HIDE DEF cutIn
      <3>4. Turns'
        BY <1>0, <1>2, <2>1, <2>2, <3>2, <3>3
      <3>5. ChaseUpShort'
        BY <1>0, <2>1, <3>3
      <3> QED
        BY <3>3, <3>4, <3>5
    <2>4. CASE ~AllArrived
      <3>1. UNCHANGED <<client, pstate, roomState>>
        BY <1>0, <2>1, <2>4
      <3>2. PICK q \in Occupants : pstate[q] \notin {"READY_START", "GAMING"}
        BY <2>4 DEF AllArrived, InState
      <3>3. client[q] = "asked"
        BY <1>0, <1>2, <2>1, <3>2 DEF Views
      <3> QED
        BY <1>0, <1>1, <2>1, <3>1, <3>3
    <2> QED
      BY <2>3, <2>4
  <1> QED
    BY <1>3, <1>4, <1>5, <1>6 DEF Tick

LEMMA OrderlyInit == Init => Orderly /\ Awaited
  <1> SUFFICES ASSUME Init
               PROVE  Orderly /\ Awaited
    OBVIOUS
  <1>1. Views /\ Turns /\ ChaseUpShort /\ Awaited
    BY DEF Init, Views, Turns, ChaseUpShort, AllAre, Passive, Awaited
  <1> QED
    BY <1>1, TypeInit DEF Orderly

LEMMA OrderlyStep ==
  ASSUME Allowed = {}, Orderly, Awaited, [Next]_vars
  PROVE  Orderly' /\ Awaited'
  <1>1. TypeOK' /\ Views'
    BY TypeStep, ViewsStep DEF Orderly
  <1>2. CASE \E p \in Players : Message(p)
    <2>1. phase' = "tick"
      BY <1>2 DEF Message, AddPlayer, PlayerReady, PlayerReadyCancel, PlayerCutIn,
         GameReadyAck, PlayerChaseUp, AddPlayerGameInput, Leave, Handled
    <2> QED
      BY <1>1, <1>2, <2>1, OrderlyMessage DEF Orderly, Awaited
  <1>3. CASE Tick
    BY <1>1, <1>3, OrderlyTick DEF Orderly
  <1>4. CASE NoMessage
    <2>1. UNCHANGED <<slots, pstate, roomState, client>> /\ phase = "parse" /\ phase' = "tick"
      BY <1>4 DEF NoMessage, Handled
    <2>2. Turns' /\ ChaseUpShort'
      BY <2>1 DEF Orderly, Turns, ChaseUpShort, OneNewcomer, AllAre, Occupants
    <2> QED
      BY <1>1, <2>1, <2>2 DEF Orderly, Awaited
  <1>5. CASE UNCHANGED vars
    BY <1>1, <1>5 DEF vars, Orderly, Turns, ChaseUpShort, OneNewcomer, AllAre,
       Occupants, Awaited
  <1> QED
    BY <1>2, <1>3, <1>4, <1>5 DEF Next

THEOREM OrderlyInvariant ==
  Allowed = {} => (Spec => []Orderly /\ []Awaited)
  <1> SUFFICES ASSUME Allowed = {}
               PROVE  Spec => []Orderly /\ []Awaited
    OBVIOUS
  <1>1. Orderly /\ Awaited /\ [Next]_vars => (Orderly /\ Awaited)'
    BY OrderlyStep
  <1> QED
    BY OrderlyInit, <1>1, PTL DEF Spec

\* With newcomers that enter one at a time and once, and nobody who enters
\* while a match is starting: a room that is WAITING_START waits for the
\* GAME_READY_ACK of somebody who is there.
THEOREM StartAwaitsAck ==
  Allowed = {} => (Spec => []WaitingStartAwaitsAck)
  <1>1. Awaited => WaitingStartAwaitsAck
    BY DEF Awaited, WaitingStartAwaitsAck
  <1> QED
    BY <1>1, OrderlyInvariant, PTL

\* Likewise a room that is WAITING_CUT_IN: a newcomer that leaves, or has
\* caught up late, does not hold the others up.
THEOREM CutInAwaitsAck ==
  Allowed = {} => (Spec => []WaitingCutInAwaitsAck)
  <1>1. Awaited => WaitingCutInAwaitsAck
    BY DEF Awaited, WaitingCutInAwaitsAck
  <1> QED
    BY <1>1, OrderlyInvariant, PTL

-----------------------------------------------------------------------------
(* The refinement of Lockstep. *)

RefInv == HistInv /\ Orderly

\* The members of the match, as the clients see it.
InPlay == {p \in Players : client[p] \in {"chasing", "playing"}}

MembersPlay == InMatch = InPlay

LEMMA InMatchAre == TypeOK /\ Views => MembersPlay
  <1> SUFFICES ASSUME TypeOK, Views
               PROVE  MembersPlay
    OBVIOUS
  <1>1. \A p : p \in InMatch <=>
          /\ p \in Players /\ client[p] \notin {"out", "gone"}
          /\ pstate[p] \in {"GAMING", "CHASE_UP"}
    BY OccupantsAre DEF InMatch, InState
  <1>2. \A p \in Players :
          (client[p] \notin {"out", "gone"} /\ pstate[p] \in {"GAMING", "CHASE_UP"})
            <=> client[p] \in {"chasing", "playing"}
    BY DEF TypeOK, ClientStates, Views
  <1> QED
    BY <1>1, <1>2 DEF InPlay, MembersPlay

LEMMA InMatchNext == TypeOK' /\ Views' => MembersPlay'
  BY InMatchAre, PTL

\* Every member has the whole log.
MembersHaveAll == \A p \in InMatch : seen[p] = History

LEMMA MembersHave == RefInv => MembersHaveAll
  <1> SUFFICES ASSUME RefInv, NEW p \in InMatch
               PROVE  seen[p] = History
    BY DEF MembersHaveAll
  <1>1. p \in Occupants /\ p \in Players /\ pstate[p] \in {"GAMING", "CHASE_UP"}
    BY OccupantsArePlayers DEF InMatch, InState, RefInv, Orderly
  <1>2. client[p] \in {"chasing", "playing"}
    BY InMatchAre DEF RefInv, Orderly, MembersPlay, InPlay
  <1>3. HasHistory(p)
    BY <1>1, <1>2 DEF RefInv, Orderly, Views, ChaseUpShort, HasHistory
  <1> QED
    BY <1>1, <1>3 DEF RefInv, HistInv, Whole

LEMMA MembersHaveNext == RefInv' => MembersHaveAll'
  BY MembersHave, PTL

\* What a tick may do to the log, to the members and to the others.
LogGrows ==
  \/ History' = History
  \/ \E f \in Frames, row \in Row :
       /\ \A e \in History : e[1] < f
       /\ History' = History \cup {<<f, row>>}

OthersSeeNothing == \A p \in Players : p \notin InMatch' => seen'[p] = seen[p]

LEMMA TickGrows ==
  ASSUME MaxJump <= 1, TypeOK, Tick
  PROVE  InMatch \subseteq InMatch' /\ LogGrows /\ OthersSeeNothing
  <1>1. Occupants' = Occupants /\ Occupants \subseteq Players
    BY OccupantsArePlayers
       DEF Tick, OutGameTick, WaitingStartTick, GamingRoomTick, WaitingCutInTick, Occupants
  <1>2. \A p : p \in InMatch <=> p \in Occupants /\ pstate[p] \in {"GAMING", "CHASE_UP"}
    BY DEF InMatch, InState
  <1>3. \A p : p \in InMatch' <=> p \in Occupants /\ pstate'[p] \in {"GAMING", "CHASE_UP"}
    BY <1>1 DEF InMatch, InState
  <1>4. CASE OutGameTick
    BY <1>2, <1>3, <1>4 DEF OutGameTick, LogGrows, OthersSeeNothing, History
  <1>5. CASE WaitingStartTick
    <2>1. frameId' = frameId /\ UNCHANGED <<cmds, seen>>
      BY <1>5 DEF WaitingStartTick, JudgeCanStart, TypeOK
    <2>2. \A p \in Occupants : pstate'[p] = "GAMING" \/ pstate'[p] = pstate[p]
      BY <1>1, <1>5 DEF WaitingStartTick, JudgeCanStart
    <2> QED
      BY <1>2, <1>3, <2>1, <2>2 DEF LogGrows, OthersSeeNothing, History
  <1>6. CASE GamingRoomTick
    <2> DEFINE ps == [p \in Players |->
                        IF p \in InState("CHASE_UP") THEN "GAMING" ELSE pstate[p]]
               add == WithCutIn(InState("CHASE_UP"))
    <2>1. pstate' = ps /\ GamingTick(ps, add, seen)
      BY <1>6 DEF GamingRoomTick
    <2>2. add \in [Slots -> Buttons]
      BY DEF WithCutIn, TypeOK, Buttons, Specials
    <2>3. \A p \in Occupants : ps[p] = "GAMING" \/ ps[p] = pstate[p]
      BY <1>1
    <2> HIDE DEF ps, add
    <2>4. \/ History' = History /\ seen' = seen
          \/ \E f \in Frames, row \in Row : Publishes(ps, seen, f, row)
      BY <2>1, <2>2, GamingTickPublishes
    <2>5. LogGrows
      BY <2>4 DEF Publishes, LogGrows
    <2>6. OthersSeeNothing
      BY <1>3, <2>1, <2>4 DEF Publishes, Sent, OthersSeeNothing
    <2> QED
      BY <1>2, <1>3, <2>1, <2>3, <2>5, <2>6
  <1>7. CASE WaitingCutInTick
    <2> DEFINE cutIn == InState("READY_START")
               ps == [p \in Players |->
                        IF AllArrived /\ p \in cutIn THEN "GAMING" ELSE pstate[p]]
               got == [p \in Players |->
                        IF AllArrived /\ p \in cutIn THEN History ELSE seen[p]]
    <2>1. pstate' = ps /\ GamingTick(ps, addition, got)
      BY <1>7 DEF WaitingCutInTick
    <2>2. addition \in [Slots -> Buttons]
      BY DEF TypeOK
    <2>3. \A p \in Occupants : ps[p] = "GAMING" \/ ps[p] = pstate[p]
      BY <1>1
    <2>4. \A p \in Players :
            (p \in Occupants /\ ps[p] = "GAMING") \/ got[p] = seen[p]
      BY DEF InState
    <2> HIDE DEF ps, got
    <2>5. \/ History' = History /\ seen' = got
          \/ \E f \in Frames, row \in Row : Publishes(ps, got, f, row)
      BY <2>1, <2>2, GamingTickPublishes
    <2>6. LogGrows
      BY <2>5 DEF Publishes, LogGrows
    <2>7. OthersSeeNothing
      BY <1>3, <2>1, <2>4, <2>5 DEF Publishes, Sent, OthersSeeNothing
    <2> QED
      BY <1>2, <1>3, <2>1, <2>3, <2>6, <2>7
  <1> QED
    BY <1>4, <1>5, <1>6, <1>7 DEF Tick

LEMMA AbstractTick ==
  ASSUME MaxJump <= 1, RefInv, RefInv', Tick
  PROVE  Abstract!Play
  <1>1. TypeOK /\ TypeOK' /\ MembersHaveAll'
    BY MembersHaveNext DEF RefInv, Orderly
  <1>2. InMatch \subseteq InMatch' /\ LogGrows /\ OthersSeeNothing
    BY <1>1, TickGrows
  <1>3. InMatch' \in SUBSET Players /\ InMatch' = InMatch \cup InMatch'
    BY <1>1, <1>2, InMatchNext DEF MembersPlay, RefInv, Orderly, InPlay
  <1>4. \A p \in Players : seen'[p] = IF p \in InMatch' THEN History' ELSE seen[p]
    BY <1>1, <1>2 DEF MembersHaveAll, OthersSeeNothing
  <1>5. seen' = [p \in Players |-> IF p \in InMatch' THEN History' ELSE seen[p]]
    BY <1>1, <1>4 DEF TypeOK
  <1>6. Abstract!Grow
    BY <1>2 DEF LogGrows, Abstract!Grow
  <1> QED
    BY <1>3, <1>5, <1>6 DEF Abstract!Play

LEMMA AbstractMessage ==
  ASSUME RefInv, RefInv', NEW p \in Players, Message(p)
  PROVE  Abstract!Leave(p) \/ Abstract!Close \/ UNCHANGED <<History, InMatch, seen>>
  <1>0. TypeOK /\ TypeOK' /\ InMatch = InPlay /\ InMatch' = InPlay'
    BY InMatchAre, InMatchNext DEF MembersPlay, RefInv, Orderly
  <1>1. CASE Closed(p)
    <2>1. /\ cmds' = [f \in {} |-> NoCmds]
          /\ seen' = [seen EXCEPT ![p] = {}]
          /\ client' = [client EXCEPT ![p] = "gone"]
          /\ Occupants = {p}
      BY <1>1 DEF Closed, Leave, DestroyRoom
    <2>2. History' = {}
      BY <2>1 DEF History
    <2>3. \A q \in Players : q # p => q \notin Occupants /\ client[q] \in {"out", "gone"}
      BY <1>0, <2>1, OccupantsAre
    <2>4. InMatch' = {} /\ InMatch \subseteq {p}
      BY <1>0, <2>1, <2>3 DEF InPlay, TypeOK
    <2>5. \A q \in Players : q # p => seen[q] = {}
      BY <2>3 DEF RefInv, HistInv, AgreeInv, OutsidersSawNothing
    <2>6. seen' = [q \in Players |-> {}]
      BY <1>0, <2>1, <2>5 DEF TypeOK
    <2> QED
      BY <2>2, <2>4, <2>6 DEF Abstract!Close
  <1>2. CASE Leave(p) /\ ~Closed(p)
    <2>1. History' = History
      BY <1>0, <1>2, MessageHistory
    <2>2. seen' = [seen EXCEPT ![p] = {}] /\ client' = [client EXCEPT ![p] = "gone"]
      BY <1>2 DEF Leave
    <2>3. InMatch' = InMatch \ {p}
      BY <1>0, <2>2 DEF InPlay, TypeOK
    <2> QED
      BY <2>1, <2>2, <2>3 DEF Abstract!Leave
  <1>3. CASE ~Leave(p)
    <2>1. History' = History
      BY <1>0, <1>3, MessageHistory DEF Closed
    <2>2. \/ client' = client
          \/ \E c \in ClientStates :
               /\ client' = [client EXCEPT ![p] = c]
               /\ c \in {"chasing", "playing"} <=> client[p] \in {"chasing", "playing"}
      BY <1>3 DEF Message, AddPlayer, MayEnter, PlayerReady, PlayerReadyCancel, PlayerCutIn,
         GameReadyAck, PlayerChaseUp, AddPlayerGameInput, ClientStates
    <2>3. InMatch' = InMatch
      BY <1>0, <2>2 DEF InPlay, TypeOK
    <2>4. seen' = seen
      BY <1>3 DEF Message, AddPlayer, PlayerReady, PlayerReadyCancel, PlayerCutIn,
         GameReadyAck, PlayerChaseUp, AddPlayerGameInput, match
    <2> QED
      BY <2>1, <2>3, <2>4
  <1> QED
    BY <1>1, <1>2, <1>3

LEMMA AbstractStep ==
  ASSUME MaxJump <= 1, RefInv, RefInv', [Next]_vars
  PROVE  [Abstract!Next]_(Abstract!vars)
  <1>1. CASE NoMessage \/ UNCHANGED vars
    <2>1. UNCHANGED <<slots, pstate, cmds, frameId, seen>>
      BY <1>1 DEF NoMessage, match, vars
    <2>2. UNCHANGED <<History, InMatch, seen>>
      BY <2>1 DEF History, InMatch, InState, Occupants
    <2> QED
      BY <2>2 DEF Abstract!vars
  <1>2. CASE Tick
    BY <1>2, AbstractTick DEF Abstract!Next
  <1>3. CASE \E p \in Players : Message(p)
    BY <1>3, AbstractMessage DEF Abstract!Next, Abstract!vars
  <1> QED
    BY <1>1, <1>2, <1>3 DEF Next

\* The room implements Lockstep: with a clock that never steps over a frame,
\* and newcomers that enter one at a time, once, and not while a match is
\* starting, every member has the whole log of the match at all times, however
\* many players, slots and frames there are.
THEOREM LockstepIsImplemented ==
  Allowed = {} /\ MaxJump <= 1 => (Spec => ImplementsLockstep)
  <1> SUFFICES ASSUME Allowed = {}, MaxJump <= 1
               PROVE  Spec => ImplementsLockstep
    OBVIOUS
  <1>1. Spec => []RefInv
    <2>1. "rejoin" \notin Allowed
      OBVIOUS
    <2>2. Spec => []HistInv
      BY <2>1, HistInvariant
    <2>3. Spec => []Orderly
      BY OrderlyInvariant, PTL
    <2> QED
      BY <2>2, <2>3, PTL DEF RefInv
  <1>2. Init => Abstract!Init
    BY DEF Init, Abstract!Init, History, InMatch, InState, Occupants
  <1>3. RefInv /\ RefInv' /\ [Next]_vars => [Abstract!Next]_(Abstract!vars)
    BY AbstractStep
  <1> QED
    BY <1>1, <1>2, <1>3, PTL DEF Spec, ImplementsLockstep, Abstract!Spec
=============================================================================
