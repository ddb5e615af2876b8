-------------------------- MODULE TickUtilProofs --------------------------
(***************************************************************************)
(* The frame clock keeps time for every period, every delay and every way  *)
(* of polling it.                                                          *)
(***************************************************************************)
EXTENDS TickUtil, TLAPS

\* Truncated division leaves less than a period.
LEMMA Division ==
  ASSUME NEW t \in Nat, NEW P \in Nat \ {0}
  PROVE  /\ t \div P \in Nat
         /\ 0 <= t - (t \div P) * P
         /\ t - (t \div P) * P < P
         /\ t >= P => t \div P >= 1
  OBVIOUS

Clock == TypeOK /\ NoDrift

LEMMA ClockInit == Init => Clock
  <1> SUFFICES ASSUME Init
               PROVE  TypeOK /\ NoDrift
    BY DEF Clock
  <1>0. isNeedTick \in BOOLEAN /\ isStart \in BOOLEAN
    BY DEF Init
  <1>1. TypeOK
    BY <1>0, TickAssumption DEF Init, TypeOK
  <1>2. NoDrift
    BY DEF Init, NoDrift
  <1> QED
    BY <1>1, <1>2

LEMMA ClockStart ==
  ASSUME Clock, GameStartInit
  PROVE  Clock'
  <1>0. isNeedTick' \in BOOLEAN /\ isStart' \in BOOLEAN
    BY DEF GameStartInit
  <1>1. TypeOK'
    BY <1>0, TickAssumption DEF GameStartInit, Clock, TypeOK
  <1>2. NoDrift'
    BY DEF GameStartInit, NoDrift
  <1> QED
    BY <1>1, <1>2 DEF Clock

\* What a Tick does to the frame id and the time in the frame.
LEMMA CountAdds ==
  ASSUME Clock, NEW t \in Int, -delay <= t, frameId >= 0 => 0 <= t, Count(t)
  PROVE  /\ frameId' \in Nat \cup {-1}
         /\ frameTime' \in Int
         /\ isNeedTick' \in BOOLEAN
         /\ -delay <= frameTime' /\ frameTime' <= Period
         /\ frameId' >= 0 => 0 <= frameTime'
         /\ frameId' * Period + frameTime' = frameId * Period + t
         /\ isNeedTick' <=> frameId' > frameId
  <1>1. CASE t > Period
    <2> DEFINE d == t \div Period
    <2>1. /\ d \in Nat /\ d >= 1
          /\ 0 <= t - d * Period /\ t - d * Period < Period
      BY <1>1, TickAssumption, Division
    <2>2. frameTime' = t - d * Period /\ frameId' = frameId + d /\ isNeedTick'
      BY <1>1 DEF Count
    <2>3. frameId \in Int /\ Period \in Int /\ delay \in Nat
      BY TickAssumption DEF Clock, TypeOK
    <2> HIDE DEF d
    <2>4. (frameId + d) * Period = frameId * Period + d * Period
      BY <2>1, <2>3
    <2>5. d * Period \in Int /\ frameId * Period \in Int
      BY <2>1, <2>3
    <2> QED
      BY <1>1, <2>1, <2>2, <2>3, <2>4, <2>5 DEF Clock, TypeOK, Count
  <1>2. CASE ~(t > Period)
    <2>1. frameTime' = t /\ frameId' = frameId /\ isNeedTick' = FALSE
      BY <1>2 DEF Count
    <2>2. frameId \in Int /\ Period \in Int
      BY TickAssumption DEF Clock, TypeOK
    <2>3. isNeedTick' \in BOOLEAN /\ (isNeedTick' <=> frameId' > frameId)
      <3>1. ~(frameId' > frameId)
        BY <2>1, <2>2
      <3> QED
        BY <2>1, <3>1
    <2> QED
      BY <1>2, <2>1, <2>2, <2>3 DEF Clock, TypeOK
  <1> QED
    BY <1>1, <1>2

\* A Tick whose first reading of the clock is t1.
Polled(t1) ==
  \E t2 \in t1..MaxTime :
    /\ Count(frameTime + (t2 - IF isStart THEN preTime ELSE t1))
    /\ startTime' = IF isStart THEN startTime ELSE t1
    /\ isStart' = TRUE
    /\ preTime' = t2
    /\ now' = t2
    /\ delay' = delay

LEMMA ClockTick ==
  ASSUME Clock, Tick
  PROVE  Clock' /\ (isNeedTick' <=> frameId' > frameId)
  <1>0. PICK t1 \in now..MaxTime : Polled(t1)
    BY DEF Tick, Polled
  <1>1. PICK t2 \in t1..MaxTime :
          /\ Count(frameTime + (t2 - IF isStart THEN preTime ELSE t1))
          /\ startTime' = IF isStart THEN startTime ELSE t1
          /\ isStart' = TRUE
          /\ preTime' = t2
          /\ now' = t2
          /\ delay' = delay
    BY <1>0 DEF Polled
  <1> DEFINE pre == IF isStart THEN preTime ELSE t1
             t == frameTime + (t2 - pre)
  <1>2. t1 \in Nat /\ t2 \in Nat /\ pre \in Nat /\ pre <= t2
    BY <1>0, <1>1, TickAssumption DEF Clock, TypeOK
  <1>3. frameTime <= t /\ t \in Int
    BY <1>2 DEF Clock, TypeOK
  <1>4. -delay <= t /\ (frameId >= 0 => 0 <= t)
    BY <1>2, <1>3, TickAssumption DEF Clock, TypeOK
  <1>5. Count(t)
    BY <1>1
  <1> HIDE DEF t
  <1>6. /\ frameId' \in Nat \cup {-1}
        /\ frameTime' \in Int
        /\ isNeedTick' \in BOOLEAN
        /\ -delay <= frameTime' /\ frameTime' <= Period
        /\ frameId' >= 0 => 0 <= frameTime'
        /\ frameId' * Period + frameTime' = frameId * Period + t
        /\ isNeedTick' <=> frameId' > frameId
    BY <1>3, <1>4, <1>5, CountAdds
  <1>7. TypeOK'
    BY <1>1, <1>2, <1>6 DEF Clock, TypeOK
  <1>8. NoDrift'
    <2> DEFINE passed == frameId * Period
               passes == frameId' * Period
    <2>1. passed \in Int /\ passes \in Int
      BY <1>6, TickAssumption DEF Clock, TypeOK
    <2>2. passes + frameTime' = passed + t
      BY <1>6
    <2>3. passed + t = t2 - startTime' - delay
      <3>1. CASE isStart
        <4>1. passed + frameTime = preTime - startTime - delay
          BY <3>1 DEF Clock, NoDrift, Elapsed
        <4>2. startTime' = startTime /\ t = frameTime + (t2 - preTime)
          BY <1>1, <3>1 DEF t
        <4> HIDE DEF passed
        <4> QED
          BY <1>2, <2>1, <4>1, <4>2, TickAssumption DEF Clock, TypeOK
      <3>2. CASE ~isStart
        <4>1. frameTime = Period - delay /\ passed = -Period
          BY <3>2, TickAssumption DEF Clock, TypeOK
        <4>2. startTime' = t1 /\ t = frameTime + (t2 - t1)
          BY <1>1, <3>2 DEF t
        <4> HIDE DEF passed
        <4> QED
          BY <1>2, <4>1, <4>2, TickAssumption DEF Clock, TypeOK
      <3> QED
        BY <3>1, <3>2
    <2>4. Elapsed' = t2 - startTime' - delay
      BY <1>1 DEF Elapsed
    <2>5. passes + frameTime' = Elapsed'
      BY <2>2, <2>3, <2>4
    <2> QED
      BY <2>5 DEF NoDrift
  <1> QED
    BY <1>6, <1>7, <1>8 DEF Clock

LEMMA ClockStep ==
  ASSUME Clock, [Next]_vars
  PROVE  Clock'
  <1>1. CASE UNCHANGED vars
    BY <1>1 DEF vars, Clock, TypeOK, NoDrift, Elapsed
  <1> QED
    BY <1>1, ClockStart, ClockTick DEF Next

THEOREM ClockInvariant == Spec => []Clock
  BY ClockInit, ClockStep, PTL DEF Spec

\* The state of the clock is well formed after any number of polls (TypeOK);
\* in particular the frame id never falls below the one before the match.
THEOREM ClockTypeCorrect == Spec => []TypeOK
  BY ClockInvariant, PTL DEF Clock

\* However the clock is polled, it does not drift (NoDrift).
THEOREM ClockNeverDrifts == Spec => []NoDrift
  BY ClockInvariant, PTL DEF Clock

LEMMA ClockBounds == Clock => NotEarly /\ NotLate
  <1> SUFFICES ASSUME Clock
               PROVE  NotEarly /\ NotLate
    OBVIOUS
  <1>1. /\ frameId \in Int /\ Period \in Int
        /\ frameId * Period \in Int
        /\ (frameId + 1) * Period = frameId * Period + Period
    BY TickAssumption DEF Clock, TypeOK
  <1> QED
    BY <1>1 DEF Clock, TypeOK, NoDrift, NotEarly, NotLate, Elapsed

\* No frame comes before its time, whatever the data thread does between two
\* polls and however little time passes between them.
THEOREM ClockNeverEarly == Spec => []NotEarly
  BY ClockInvariant, ClockBounds, PTL

\* Nor is a frame counted more than a period after its time, however long the
\* data thread was away.
THEOREM ClockNeverLate == Spec => []NotLate
  BY ClockInvariant, ClockBounds, PTL

\* Every frame that is announced is a new one (NeedTickIsNews).
THEOREM ClockAnnouncesNews == Spec => NeedTickIsNews
  <1>1. Clock /\ [Next]_vars => [isNeedTick' <=> frameId' > frameId]_vars
    <2>1. ASSUME Clock, GameStartInit
          PROVE  isNeedTick' <=> frameId' > frameId
      BY <2>1 DEF GameStartInit, Clock, TypeOK
    <2> QED
      BY <2>1, ClockTick DEF Next
  <1> QED
    BY <1>1, ClockInvariant, PTL DEF Spec, NeedTickIsNews
=============================================================================
