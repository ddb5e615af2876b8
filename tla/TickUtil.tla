----------------------------- MODULE TickUtil -----------------------------
(***************************************************************************)
(* The frame clock of a room (Util/TickUtil.h).  It is polled: each Tick   *)
(* reads the system clock, adds what has passed to the time in the current *)
(* frame, and counts the periods that are full.  Room::GamingTick forwards *)
(* the frame GetFrameId() whenever IsNeedTick() holds after a Tick.        *)
(*                                                                         *)
(* Time is a whole number of units; the code's is a float of milliseconds. *)
(* `percent`, which nothing reads, is left out.                            *)
(***************************************************************************)
EXTENDS Integers

CONSTANTS
  Period,   \* tickTime
  Delay,    \* SIMULATE_PING, the delay before a match's first frame
  MaxTime   \* bound on the time that passes

ASSUME TickAssumption ==
  /\ Period \in Nat \ {0}
  /\ Delay \in Nat
  /\ MaxTime \in Nat

VARIABLES
  frameId,
  frameTime,    \* the time in the current frame, negative during the delay
  isNeedTick,
  isStart,
  preTime,      \* the system clock at the last Tick
  now,          \* the system clock
  startTime,    \* history: the system clock at the first Tick
  delay         \* history: the delay that was set

vars == <<frameId, frameTime, isNeedTick, isStart, preTime, now, startTime, delay>>

Init ==
  /\ frameId = -1
  /\ frameTime = Period
  /\ isNeedTick = FALSE
  /\ isStart = FALSE
  /\ preTime = 0
  /\ now = 0
  /\ startTime = 0
  /\ delay = 0

\* Room::GameStartInit: SetTickTime, which resets the clock, and SetDelay.
\* Seeded fault: the delay is lost.
GameStartInitWithoutDelay ==
  /\ frameId' = -1
  /\ frameTime' = Period
  /\ isNeedTick' = FALSE
  /\ isStart' = FALSE
  /\ delay' = Delay
  /\ UNCHANGED <<preTime, now, startTime>>
GameStartInit ==
  /\ frameId' = -1
  /\ frameTime' = Period - Delay
  /\ isNeedTick' = FALSE
  /\ isStart' = FALSE
  /\ delay' = Delay
  /\ UNCHANGED <<preTime, now, startTime>>

\* What Tick does once t is the time in the current frame.
\* Seeded fault: what is left of the last period is thrown away.
CountDropsRest(t) ==
  IF t > Period
    THEN frameTime' = 0 /\ frameId' = frameId + t \div Period /\ isNeedTick' = TRUE
    ELSE frameTime' = t /\ frameId' = frameId /\ isNeedTick' = FALSE
\* Seeded fault: one period at a time.
CountOne(t) ==
  IF t > Period
    THEN frameTime' = t - Period /\ frameId' = frameId + 1 /\ isNeedTick' = TRUE
    ELSE frameTime' = t /\ frameId' = frameId /\ isNeedTick' = FALSE
\* Seeded fault: isNeedTick is only ever set.
CountKeepsNeed(t) ==
  IF t > Period
    THEN /\ frameTime' = t - (t \div Period) * Period
         /\ frameId' = frameId + t \div Period
         /\ isNeedTick' = TRUE
    ELSE frameTime' = t /\ frameId' = frameId /\ UNCHANGED isNeedTick
Count(t) ==
  IF t > Period
    THEN /\ frameTime' = t - (t \div Period) * Period
         /\ frameId' = frameId + t \div Period
         /\ isNeedTick' = TRUE
    ELSE frameTime' = t /\ frameId' = frameId /\ isNeedTick' = FALSE

\* The first Tick reads the clock twice, at t1 and at t2; later ones at t2.
Tick ==
  \E t1 \in now..MaxTime : \E t2 \in t1..MaxTime :
    LET pre == IF isStart THEN preTime ELSE t1
    IN  /\ Count(frameTime + (t2 - pre))
        /\ startTime' = IF isStart THEN startTime ELSE t1
        /\ isStart' = TRUE
        /\ preTime' = t2
        /\ now' = t2
        /\ UNCHANGED delay

Next == GameStartInit \/ Tick

Spec == Init /\ [][Next]_vars

-----------------------------------------------------------------------------
(***************************************************************************)
(* Types and ranges: after a Tick the time in the frame is at most one     *)
(* period, and a clock that has not started is at frame -1.                *)
(***************************************************************************)
TypeOK ==
  /\ frameId \in Nat \cup {-1}
  /\ frameTime \in Int
  /\ isNeedTick \in BOOLEAN
  /\ isStart \in BOOLEAN
  /\ preTime \in Nat /\ now \in Nat /\ startTime \in Nat
  /\ delay \in {0, Delay}
  /\ -delay <= frameTime /\ frameTime <= Period
  /\ isStart => startTime <= preTime /\ preTime <= now
  /\ ~isStart => frameId = -1 /\ frameTime = Period - delay
  /\ frameId >= 0 => 0 <= frameTime

\* The time since the first Tick as far as the last one, less the delay.
Elapsed == preTime - startTime - delay

(***************************************************************************)
(* However irregularly it is polled, the clock does not drift: frames and  *)
(* the time in the current frame add up to the time that has passed.       *)
(***************************************************************************)
NoDrift == isStart => frameId * Period + frameTime = Elapsed

(***************************************************************************)
(* No frame comes before its time, the first one not before the delay.     *)
(***************************************************************************)
NotEarly == frameId >= 0 => frameId * Period <= Elapsed

(***************************************************************************)
(* No frame comes more than a period late: a Tick that finds several       *)
(* periods full counts them all.                                           *)
(***************************************************************************)
NotLate == isStart => Elapsed <= (frameId + 1) * Period

(***************************************************************************)
(* IsNeedTick holds after a step exactly when the frame id has grown, so   *)
(* Room::GamingTick forwards no frame id twice.                            *)
(***************************************************************************)
NeedTickIsNews == [][isNeedTick' <=> frameId' > frameId]_vars
=============================================================================
