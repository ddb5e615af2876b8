---------------------------- MODULE RoomProofs ----------------------------
(***************************************************************************)
(* What holds of a room for any number of players, slots and frames, for   *)
(* any stall of the data thread and whatever the clients may do.           *)
(***************************************************************************)
EXTENDS Room, TLAPS

USE DEF Specials

-----------------------------------------------------------------------------
(* The operators on rows. *)

LEMMA NoCmdsIsRow == NoCmds \in Row
  BY DEF NoCmds, Row, Buttons

LEMMA RowAtType ==
  ASSUME TypeOK, NEW f
  PROVE  RowAt(f) \in Row
  BY NoCmdsIsRow DEF TypeOK, RowAt

\* operator[] on the map of commands changes one entry and adds it if needed.
LEMMA SetRowIsMap ==
  ASSUME NEW f \in Frames, NEW row \in Row, TypeOK
  PROVE  /\ DOMAIN SetRow(f, row) = DOMAIN cmds \cup {f}
         /\ DOMAIN SetRow(f, row) \subseteq Frames
         /\ SetRow(f, row) \in [DOMAIN SetRow(f, row) -> Row]
         /\ SetRow(f, row)[f] = row
         /\ \A g \in DOMAIN cmds : g # f => SetRow(f, row)[g] = cmds[g]
  BY DEF SetRow, TypeOK

LEMMA WithAdditionType ==
  ASSUME TypeOK, NEW f, NEW add \in [Slots -> Buttons]
  PROVE  WithAddition(f, add) \in Row
  <1>1. RowAt(f) \in [Slots -> Buttons]
    BY RowAtType DEF Row
  <1> QED
    BY <1>1 DEF WithAddition, Row

\* Everybody who sits in the room is one of the players.
LEMMA OccupantsArePlayers ==
  ASSUME TypeOK
  PROVE  Occupants \subseteq Players
  BY DEF TypeOK, Occupants

-----------------------------------------------------------------------------
(* Type correctness. *)

THEOREM TypeInit == Init => TypeOK
  BY RoomAssumption
     DEF Init, TypeOK, PlayerStates, RoomStates, ClientStates, Buttons, Frames,
         Row, NoCmds, Occupants


\* A tick that may forward a frame keeps the commands and what was sent typed.
LEMMA GamingTickType ==
  ASSUME TypeOK,
         NEW ps,
         NEW add \in [Slots -> Buttons],
         NEW got \in [Players -> SUBSET (Frames \X Row)],
         GamingTick(ps, add, got)
  PROVE  /\ DOMAIN cmds' \subseteq Frames
         /\ cmds' \in [DOMAIN cmds' -> Row]
         /\ addition' \in [Slots -> Buttons]
         /\ frameId' \in Frames \cup {-1}
         /\ seen' \in [Players -> SUBSET (Frames \X Row)]
  <1>1. CASE addition' = add /\ seen' = got /\ UNCHANGED <<cmds, frameId>>
    BY <1>1 DEF TypeOK
  <1>2. ASSUME NEW d \in 1..MaxJump, frameId + d \in Frames,
               frameId' = frameId + d, Forward(frameId + d, ps, add, got)
        PROVE  /\ DOMAIN cmds' \subseteq Frames
               /\ cmds' \in [DOMAIN cmds' -> Row]
               /\ addition' \in [Slots -> Buttons]
               /\ frameId' \in Frames \cup {-1}
               /\ seen' \in [Players -> SUBSET (Frames \X Row)]
    <2> DEFINE f == frameId + d
               row == WithAddition(f, add)
    <2>1. f \in Frames /\ row \in Row
      BY <1>2, WithAdditionType
    <2>2. DOMAIN cmds' \subseteq Frames /\ cmds' \in [DOMAIN cmds' -> Row]
      <3> HIDE DEF f, row
      <3>1. cmds' = SetRow(f, row)
        BY <1>2 DEF Forward, f, row
      <3> QED
        BY <2>1, <3>1, SetRowIsMap
    <2>3. addition' \in [Slots -> Buttons]
      BY <1>2, NoCmdsIsRow DEF Forward, Row
    <2>4. seen' \in [Players -> SUBSET (Frames \X Row)]
      <3> HIDE DEF f, row
      <3>1. seen' = Sent(f, row, ps, got)
        BY <1>2 DEF Forward, f, row
      <3> QED
        BY <2>1, <3>1 DEF Sent
    <2> QED
      BY <1>2, <2>2, <2>3, <2>4
  <1> QED
    BY <1>1, <1>2 DEF GamingTick

LEMMA TypeMessage ==
  ASSUME TypeOK, NEW p \in Players, Message(p)
  PROVE  TypeOK'
  <1> USE DEF TypeOK, Handled, match, Occupants, PlayerStates, RoomStates,
              ClientStates
  <1>1. CASE AddPlayer(p)
    <2>1. PICK i \in Slots : slots[i] = Nobody /\ slots' = [slots EXCEPT ![i] = p]
      BY <1>1 DEF AddPlayer
    <2>2. Occupants' = Occupants \cup {p}
      BY <2>1, RoomAssumption
    <2>3. client' = [client EXCEPT ![p] = "idle"]
      BY <1>1 DEF AddPlayer
    <2>4. \A q \in Players : q \in Occupants' <=> client'[q] \notin {"out", "gone"}
      <3> USE <2>2, <2>3 DEF TypeOK
      <3> HIDE DEF Occupants
      <3> QED
        OBVIOUS
    <2> HIDE DEF Occupants
    <2> QED
      BY <1>1, <2>1, <2>4 DEF AddPlayer
  <1>2. CASE PlayerReady(p)
    BY <1>2 DEF PlayerReady
  <1>3. CASE PlayerReadyCancel(p)
    BY <1>3 DEF PlayerReadyCancel
  <1>4. CASE PlayerCutIn(p)
    BY <1>4 DEF PlayerCutIn
  <1>5. CASE GameReadyAck(p)
    BY <1>5 DEF GameReadyAck
  <1>6. CASE PlayerChaseUp(p)
    BY <1>6 DEF PlayerChaseUp
  <1>7. ASSUME NEW f \in Frames, NEW b \in Inputs, AddPlayerGameInput(p, f, b)
        PROVE  TypeOK'
    <2> DEFINE g == Later(frameId + 1, f)
               row == [i \in Slots |-> IF slots[i] = p THEN b ELSE RowAt(g)[i]]
    <2>1. g \in Frames /\ cmds' = SetRow(g, row)
      BY <1>7 DEF AddPlayerGameInput
    <2>2. row \in Row
      <3>1. RowAt(g) \in [Slots -> Buttons] /\ b \in Buttons
        BY RowAtType DEF Row, Buttons
      <3> HIDE DEF g
      <3> QED
        BY <3>1 DEF Row
    <2>3. DOMAIN cmds' \subseteq Frames /\ cmds' \in [DOMAIN cmds' -> Row]
      <3> HIDE DEF g, row
      <3> QED
        BY <2>1, <2>2, SetRowIsMap
    <2> QED
      BY <1>7, <2>3 DEF AddPlayerGameInput
  <1>8. CASE Leave(p)
    <2>1. CASE Occupants = {p} /\ DestroyRoom
      BY <1>8, <2>1, NoCmdsIsRow DEF Leave, DestroyRoom, Row
    <2>2. CASE RemovePlayer(p)
      BY <1>8, <2>2, RoomAssumption DEF Leave, RemovePlayer, Buttons
    <2> QED
      BY <1>8, <2>1, <2>2 DEF Leave
  <1> QED
    BY <1>1, <1>2, <1>3, <1>4, <1>5, <1>6, <1>7, <1>8 DEF Message

LEMMA TypeTick ==
  ASSUME TypeOK, Tick
  PROVE  TypeOK'
  <1>0. Occupants \subseteq Players
    BY OccupantsArePlayers
  <1>1. CASE OutGameTick
    BY <1>0, <1>1 DEF OutGameTick, JudgeIsAllReady, Tick, TypeOK, Occupants,
       InState, NotInState, Asked, RoomStates, ClientStates
  <1>2. CASE WaitingStartTick
    BY <1>0, <1>2 DEF WaitingStartTick, JudgeCanStart, AllStarted, Tick, TypeOK,
       Occupants, InState, RoomStates, ClientStates, PlayerStates
  <1>3. CASE GamingRoomTick
    <2> DEFINE cutIn == InState("CUT_IN")
               chaseUp == InState("CHASE_UP")
               ps == [p \in Players |->
                        IF p \in chaseUp THEN "GAMING" ELSE pstate[p]]
               add == WithCutIn(chaseUp)
    <2>1. /\ roomState' = IF cutIn = {} THEN "GAMING" ELSE "WAITING_CUT_IN"
          /\ client' = Asked(cutIn)
          /\ pstate' = ps
          /\ GamingTick(ps, add, seen)
          /\ UNCHANGED <<slots, initPlayers>>
      BY <1>3 DEF GamingRoomTick
    <2>2. add \in [Slots -> Buttons]
      BY DEF WithCutIn, TypeOK, Buttons
    <2>3. ps \in [Players -> PlayerStates]
      BY DEF TypeOK, PlayerStates
    <2>4. /\ DOMAIN cmds' \subseteq Frames
          /\ cmds' \in [DOMAIN cmds' -> Row]
          /\ addition' \in [Slots -> Buttons]
          /\ frameId' \in Frames \cup {-1}
          /\ seen' \in [Players -> SUBSET (Frames \X Row)]
      <3> HIDE DEF ps, add
      <3> QED
        BY <2>1, <2>2, GamingTickType DEF TypeOK
    <2>5. /\ client' \in [Players -> ClientStates]
          /\ \A p \in Players : p \in Occupants' <=> client'[p] \notin {"out", "gone"}
      BY <1>0, <2>1 DEF Asked, InState, TypeOK, ClientStates, Occupants
    <2> HIDE DEF ps, add, cutIn
    <2> QED
      BY <2>1, <2>3, <2>4, <2>5 DEF TypeOK, Tick, RoomStates
  <1>4. CASE WaitingCutInTick
    <2> DEFINE cutIn == InState("READY_START")
               ps == [p \in Players |->
                        IF AllArrived /\ p \in cutIn THEN "GAMING" ELSE pstate[p]]
               got == [p \in Players |->
                        IF AllArrived /\ p \in cutIn THEN History ELSE seen[p]]
    <2>1. /\ roomState' = IF AllArrived THEN "GAMING" ELSE roomState
          /\ client' = [p \in Players |->
                          IF AllArrived /\ p \in cutIn THEN "chasing" ELSE client[p]]
          /\ pstate' = ps
          /\ GamingTick(ps, addition, got)
          /\ UNCHANGED <<slots, initPlayers>>
      BY <1>4 DEF WaitingCutInTick
    <2>2. ps \in [Players -> PlayerStates]
      BY DEF TypeOK, PlayerStates
    <2>3. got \in [Players -> SUBSET (Frames \X Row)]
      <3>1. History \in SUBSET (Frames \X Row)
        BY DEF History, TypeOK
      <3> QED
        BY <3>1 DEF TypeOK
    <2>4. /\ DOMAIN cmds' \subseteq Frames
          /\ cmds' \in [DOMAIN cmds' -> Row]
          /\ addition' \in [Slots -> Buttons]
          /\ frameId' \in Frames \cup {-1}
          /\ seen' \in [Players -> SUBSET (Frames \X Row)]
      <3> HIDE DEF ps, got
      <3> QED
        BY <2>1, <2>3, GamingTickType DEF TypeOK
    <2>5. /\ client' \in [Players -> ClientStates]
          /\ \A p \in Players : p \in Occupants' <=> client'[p] \notin {"out", "gone"}
      BY <1>0, <2>1 DEF InState, TypeOK, ClientStates, Occupants
    <2> HIDE DEF ps, got, cutIn
    <2> QED
      BY <1>4, <2>1, <2>2, <2>4, <2>5
         DEF TypeOK, Tick, RoomStates, WaitingCutInTick
  <1> QED
    BY <1>1, <1>2, <1>3, <1>4 DEF Tick

LEMMA TypeStep ==
  ASSUME TypeOK, [Next]_vars
  PROVE  TypeOK'
  <1>1. CASE NoMessage
    BY <1>1 DEF NoMessage, Handled, match, TypeOK, Occupants
  <1>2. CASE UNCHANGED vars
    BY <1>2 DEF vars, TypeOK, Occupants
  <1> QED
    BY <1>1, <1>2, TypeMessage, TypeTick DEF Next

\* The state of a room is always well formed (TypeOK).
THEOREM TypeCorrect == Spec => []TypeOK
  BY TypeInit, TypeStep, PTL DEF Spec

-----------------------------------------------------------------------------
(* The past of a match is never rewritten. *)

\* The frames up to the current one are there still, as they were, and are
\* in the past still.
Frozen ==
  /\ frameId <= frameId'
  /\ \A f \in DOMAIN cmds : f <= frameId => /\ f \in DOMAIN cmds'
                                            /\ cmds'[f] = cmds[f]

\* The last player leaves, and the match goes with it.
Closed(p) == Leave(p) /\ Occupants = {p} /\ DestroyRoom

\* Commands that are filed under a frame that is to come leave the past alone.
LEMMA SetRowFrozen ==
  ASSUME TypeOK, NEW f \in Frames, NEW row \in Row,
         frameId < f, frameId' \in {frameId, f}, cmds' = SetRow(f, row)
  PROVE  Frozen
  <1>1. frameId \in Int /\ f \in Int
    BY RoomAssumption DEF TypeOK, Frames
  <1>2. frameId <= frameId'
    BY <1>1
  <1>3. ASSUME NEW g \in DOMAIN cmds, g <= frameId
        PROVE  g \in DOMAIN cmds' /\ cmds'[g] = cmds[g]
    <2>1. g # f
      BY <1>1, <1>3
    <2>2. /\ DOMAIN SetRow(f, row) = DOMAIN cmds \cup {f}
          /\ SetRow(f, row)[g] = cmds[g]
      BY <1>3, <2>1 DEF SetRow
    <2> QED
      BY <1>3, <2>2
  <1> QED
    BY <1>2, <1>3 DEF Frozen

\* A frame that is forwarded comes after the past.
LEMMA GamingTickFrozen ==
  ASSUME TypeOK,
         NEW ps,
         NEW add \in [Slots -> Buttons],
         NEW got,
         GamingTick(ps, add, got)
  PROVE  Frozen
  <1>1. CASE UNCHANGED <<cmds, frameId>>
    BY <1>1 DEF Frozen, TypeOK, Frames
  <1>2. ASSUME NEW d \in 1..MaxJump, frameId + d \in Frames,
               frameId' = frameId + d, Forward(frameId + d, ps, add, got)
        PROVE  Frozen
    <2> DEFINE f == frameId + d
               row == WithAddition(f, add)
    <2>1. cmds' = SetRow(f, row) /\ row \in Row /\ f \in Frames
      BY <1>2, WithAdditionType DEF Forward
    <2>2. frameId < f /\ frameId' = f
      BY <1>2, RoomAssumption DEF TypeOK, Frames
    <2> HIDE DEF f, row
    <2> QED
      BY <2>1, <2>2, SetRowFrozen
  <1> QED
    BY <1>1, <1>2 DEF GamingTick

\* Input that is late is filed under a frame that is still to come.
LEMMA InputFrozen ==
  ASSUME TypeOK, NEW p \in Players, NEW f \in Frames, NEW b \in Inputs,
         AddPlayerGameInput(p, f, b)
  PROVE  Frozen
  <1> DEFINE g == Later(frameId + 1, f)
             row == [i \in Slots |-> IF slots[i] = p THEN b ELSE RowAt(g)[i]]
  <1>1. g \in Frames /\ cmds' = SetRow(g, row) /\ frameId' = frameId
    BY DEF AddPlayerGameInput
  <1>2. row \in Row
    <2>1. RowAt(g) \in [Slots -> Buttons] /\ b \in Buttons
      BY RowAtType DEF Row, Buttons
    <2> HIDE DEF g
    <2> QED
      BY <2>1 DEF Row
  <1>3. frameId < g
    BY RoomAssumption DEF Later, TypeOK, Frames
  <1> HIDE DEF g, row
  <1> QED
    BY <1>1, <1>2, <1>3, SetRowFrozen

LEMMA MessageFrozen ==
  ASSUME TypeOK, NEW p \in Players, Message(p)
  PROVE  Frozen \/ Closed(p)
  <1>0. ASSUME UNCHANGED <<cmds, frameId>>
        PROVE  Frozen
    BY <1>0, RoomAssumption DEF Frozen, TypeOK, Frames
  <1>1. CASE AddPlayer(p) \/ PlayerReady(p) \/ PlayerReadyCancel(p)
             \/ PlayerCutIn(p) \/ GameReadyAck(p) \/ PlayerChaseUp(p)
    BY <1>0, <1>1 DEF AddPlayer, PlayerReady, PlayerReadyCancel, PlayerCutIn,
                      GameReadyAck, PlayerChaseUp, match
  <1>2. CASE \E f \in Frames, b \in Inputs : AddPlayerGameInput(p, f, b)
    BY <1>2, InputFrozen
  <1>3. CASE Leave(p)
    BY <1>0, <1>3 DEF Leave, RemovePlayer, Closed
  <1> QED
    BY <1>1, <1>2, <1>3 DEF Message

LEMMA TickFrozen ==
  ASSUME TypeOK, Tick
  PROVE  Frozen
  <1>0. ASSUME UNCHANGED <<cmds, frameId>>
        PROVE  Frozen
    BY <1>0, RoomAssumption DEF Frozen, TypeOK, Frames
  <1>1. CASE OutGameTick
    BY <1>0, <1>1 DEF OutGameTick
  <1>2. CASE WaitingStartTick
    BY <1>0, <1>2 DEF WaitingStartTick, JudgeCanStart, TypeOK
  <1>3. CASE GamingRoomTick
    <2>1. PICK ps : GamingTick(ps, WithCutIn(InState("CHASE_UP")), seen)
      BY <1>3 DEF GamingRoomTick
    <2>2. WithCutIn(InState("CHASE_UP")) \in [Slots -> Buttons]
      BY DEF WithCutIn, TypeOK, Buttons
    <2> QED
      BY <2>1, <2>2, GamingTickFrozen
  <1>4. CASE WaitingCutInTick
    <2>1. PICK ps, got : GamingTick(ps, addition, got)
      BY <1>4 DEF WaitingCutInTick
    <2> QED
      BY <2>1, GamingTickFrozen DEF TypeOK
  <1> QED
    BY <1>1, <1>2, <1>3, <1>4 DEF Tick

LEMMA StepFrozen ==
  ASSUME TypeOK, [Next]_vars
  PROVE  Frozen \/ \E p \in Players : Closed(p)
  <1>1. CASE NoMessage \/ UNCHANGED vars
    BY <1>1, RoomAssumption DEF NoMessage, match, vars, Frozen, TypeOK, Frames
  <1> QED
    BY <1>1, MessageFrozen, TickFrozen DEF Next

\* What was forwarded is never rewritten, and no match is restarted, however
\* late the input comes and however long the data thread stalls
\* (HistoryFrozen).
THEOREM HistoryIsFrozen == Spec => HistoryFrozen
  <1>1. TypeOK /\ [Next]_vars =>
          [\A f \in DOMAIN cmds :
             f <= frameId =>
               \/ \A i \in Slots : slots'[i] = Nobody
               \/ /\ f \in DOMAIN cmds'
                  /\ f <= frameId'
                  /\ cmds'[f] = cmds[f]]_vars
    <2> SUFFICES ASSUME TypeOK, [Next]_vars,
                        NEW f \in DOMAIN cmds, f <= frameId
                 PROVE  \/ \A i \in Slots : slots'[i] = Nobody
                        \/ /\ f \in DOMAIN cmds'
                           /\ f <= frameId'
                           /\ cmds'[f] = cmds[f]
      OBVIOUS
    <2>1. CASE Frozen
      <3>1. f \in Int /\ frameId \in Int /\ frameId' \in Int
        BY TypeStep, RoomAssumption DEF TypeOK, Frames
      <3> QED
        BY <2>1, <3>1 DEF Frozen
    <2>2. ASSUME NEW p \in Players, Closed(p)
          PROVE  \A i \in Slots : slots'[i] = Nobody
      BY <2>2 DEF Closed, DestroyRoom
    <2> QED
      BY <2>1, <2>2, StepFrozen
  <1> QED
    BY <1>1, TypeCorrect, PTL DEF Spec, HistoryFrozen

-----------------------------------------------------------------------------
(* Whoever was sent a frame was sent what the room holds for it. *)

\* e is a frame of the past, as the room holds it.
Past(e) ==
  /\ e[1] \in DOMAIN cmds
  /\ e[1] <= frameId
  /\ e[2] = cmds[e[1]]

\* A player that is not in the room has nothing of the match; otherwise the
\* last player to leave would close a match that somebody still remembers.
OutsidersSawNothing == \A p \in Players : p \notin Occupants => seen[p] = {}

AgreeInv == TypeOK /\ FramesAgree /\ OutsidersSawNothing

LEMMA PastFrozen ==
  ASSUME TypeOK, TypeOK', Frozen, NEW e, Past(e)
  PROVE  Past(e)'
  <1>1. e[1] \in Int /\ frameId \in Int /\ frameId' \in Int
    BY RoomAssumption DEF Past, TypeOK, Frames
  <1> QED
    BY <1>1 DEF Past, Frozen

LEMMA GamingTickAgree ==
  ASSUME TypeOK, TypeOK', Frozen,
         NEW ps,
         NEW add \in [Slots -> Buttons],
         NEW got \in [Players -> SUBSET (Frames \X Row)],
         \A p \in Players : \A e \in got[p] : Past(e),
         \A p \in Players : p \notin Occupants => got[p] = {},
         GamingTick(ps, add, got)
  PROVE  /\ \A p \in Players : \A e \in seen'[p] : Past(e)'
         /\ \A p \in Players : p \notin Occupants => seen'[p] = {}
  <1>1. CASE seen' = got
    BY <1>1, PastFrozen
  <1>2. ASSUME NEW d \in 1..MaxJump, frameId + d \in Frames,
               frameId' = frameId + d, Forward(frameId + d, ps, add, got)
        PROVE  /\ \A p \in Players : \A e \in seen'[p] : Past(e)'
               /\ \A p \in Players : p \notin Occupants => seen'[p] = {}
    <2>1. PICK f \in Frames, row \in Row :
            frameId' = f /\ cmds' = SetRow(f, row) /\ seen' = Sent(f, row, ps, got)
      BY <1>2, WithAdditionType DEF Forward
    <2>2. f \in Int
      BY DEF Frames
    <2>3. Past(<<f, row>>)'
      <3>1. f \in DOMAIN SetRow(f, row) /\ SetRow(f, row)[f] = row
        BY DEF SetRow
      <3>2. f \in DOMAIN cmds' /\ cmds'[f] = row /\ f <= frameId'
        BY <2>1, <2>2, <3>1
      <3> QED
        BY <3>2 DEF Past
    <2>4. \A p \in Players : \A e \in seen'[p] : e \in got[p] \/ e = <<f, row>>
      BY <2>1 DEF Sent
    <2>5. \A p \in Players : p \notin Occupants => seen'[p] = {}
      BY <2>1 DEF Sent
    <2> QED
      BY <2>3, <2>4, <2>5, PastFrozen
  <1> QED
    BY <1>1, <1>2 DEF GamingTick

LEMMA AgreeInit == Init => AgreeInv
  BY TypeInit DEF Init, AgreeInv, FramesAgree, OutsidersSawNothing

LEMMA AgreeMessage ==
  ASSUME AgreeInv, NEW p \in Players, Message(p)
  PROVE  AgreeInv'
  <1>0. TypeOK /\ TypeOK'
    BY TypeMessage DEF AgreeInv
  <1>1. CASE Closed(p)
    <2>1. \A q \in Players : seen'[q] = {}
      BY <1>0, <1>1 DEF Closed, Leave, AgreeInv, OutsidersSawNothing, TypeOK
    <2> QED
      BY <1>0, <2>1 DEF AgreeInv, FramesAgree, OutsidersSawNothing
  <1>2. CASE Frozen
    <2>1. \A q \in Players : seen'[q] \subseteq seen[q]
      BY <1>0 DEF Message, AddPlayer, PlayerReady, PlayerReadyCancel,
         PlayerCutIn, GameReadyAck, PlayerChaseUp, AddPlayerGameInput, Leave,
         match, TypeOK
    <2>2. FramesAgree'
      BY <1>0, <1>2, <2>1, PastFrozen DEF AgreeInv, FramesAgree, Past
    <2>3. OutsidersSawNothing'
      <3>1. CASE Leave(p)
        <4>1. seen' = [seen EXCEPT ![p] = {}]
          BY <3>1 DEF Leave
        <4>2. \A q \in Players \ {p} : q \in Occupants => q \in Occupants'
          BY <1>0, <3>1 DEF Leave, RemovePlayer, DestroyRoom, Occupants, TypeOK
        <4> QED
          BY <1>0, <4>1, <4>2 DEF AgreeInv, OutsidersSawNothing, TypeOK
      <3>2. CASE AddPlayer(p)
        <4>1. \A q \in Occupants : q \in Occupants'
          BY <1>0, <3>2 DEF AddPlayer, Occupants, TypeOK
        <4> QED
          BY <2>1, <4>1 DEF AgreeInv, OutsidersSawNothing
      <3>3. CASE UNCHANGED slots
        BY <2>1, <3>3 DEF AgreeInv, OutsidersSawNothing, Occupants
      <3> QED
        BY <3>1, <3>2, <3>3 DEF Message, PlayerReady, PlayerReadyCancel,
           PlayerCutIn, GameReadyAck, PlayerChaseUp, AddPlayerGameInput
    <2> QED
      BY <1>0, <2>2, <2>3 DEF AgreeInv
  <1> QED
    BY <1>0, <1>1, <1>2, MessageFrozen

LEMMA AgreeTick ==
  ASSUME AgreeInv, Tick
  PROVE  AgreeInv'
  <1>0. TypeOK /\ TypeOK' /\ Frozen
    BY TypeTick, TickFrozen DEF AgreeInv
  <1>1. \A p \in Players : \A e \in seen[p] : Past(e)
    BY DEF AgreeInv, FramesAgree, Past
  <1>2. Occupants' = Occupants
    BY DEF Tick, OutGameTick, WaitingStartTick, GamingRoomTick,
       WaitingCutInTick, Occupants
  <1>3. /\ \A p \in Players : \A e \in seen'[p] : Past(e)'
        /\ \A p \in Players : p \notin Occupants => seen'[p] = {}
    <2>1. CASE UNCHANGED seen
      BY <1>0, <1>1, <2>1, PastFrozen DEF AgreeInv, OutsidersSawNothing
    <2>2. CASE GamingRoomTick
      <3>1. PICK ps : GamingTick(ps, WithCutIn(InState("CHASE_UP")), seen)
        BY <2>2 DEF GamingRoomTick
      <3>2. WithCutIn(InState("CHASE_UP")) \in [Slots -> Buttons]
        BY <1>0 DEF WithCutIn, TypeOK, Buttons
      <3> QED
        BY <1>0, <1>1, <3>1, <3>2, GamingTickAgree
           DEF AgreeInv, OutsidersSawNothing, TypeOK
    <2>3. CASE WaitingCutInTick
      <3> DEFINE got == [p \in Players |->
                           IF AllArrived /\ p \in InState("READY_START")
                             THEN History ELSE seen[p]]
      <3>1. PICK ps : GamingTick(ps, addition, got)
        BY <2>3 DEF WaitingCutInTick
      <3>2. \A e \in History : Past(e) /\ e \in Frames \X Row
        BY <1>0 DEF History, Past, TypeOK
      <3>3. got \in [Players -> SUBSET (Frames \X Row)]
        BY <1>0, <3>2 DEF TypeOK
      <3>4. \A p \in Players : \A e \in got[p] : Past(e)
        BY <1>1, <3>2
      <3>5. \A p \in Players : p \notin Occupants => got[p] = {}
        BY DEF AgreeInv, OutsidersSawNothing, InState
      <3> HIDE DEF got
      <3> QED
        BY <1>0, <3>1, <3>3, <3>4, <3>5, GamingTickAgree DEF TypeOK
    <2> QED
      BY <2>1, <2>2, <2>3 DEF Tick, OutGameTick, WaitingStartTick
  <1> QED
    BY <1>0, <1>2, <1>3 DEF AgreeInv, FramesAgree, OutsidersSawNothing, Past

LEMMA AgreeStep ==
  ASSUME AgreeInv, [Next]_vars
  PROVE  AgreeInv'
  <1>1. CASE NoMessage \/ UNCHANGED vars
    <2>1. UNCHANGED <<slots, cmds, frameId, seen>>
      BY <1>1 DEF NoMessage, match, vars
    <2> QED
      BY <2>1, TypeStep
         DEF AgreeInv, FramesAgree, OutsidersSawNothing, Occupants
  <1> QED
    BY <1>1, AgreeMessage, AgreeTick DEF Next

\* No two clients disagree on a frame, and none on what the room holds for
\* it, however they came into the match (FramesAgree).
THEOREM FramesAlwaysAgree == Spec => []FramesAgree
  <1>1. AgreeInv => FramesAgree
    BY DEF AgreeInv
  <1> QED
    BY <1>1, AgreeInit, AgreeStep, PTL DEF Spec
=============================================================================
