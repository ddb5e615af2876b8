--------------------------- MODULE FramingProofs ---------------------------
(***************************************************************************)
(* What SocketServer takes for granted of ReceiveFromSocket, for any size  *)
(* and number of messages: those that arrive whole are read whole.         *)
(***************************************************************************)
EXTENDS Framing, TLAPS

Sizes == Head \in Nat \ {0} /\ Body \in Nat \ {0} /\ Count \in Nat

\* Every time something arrives, it ends with the end of a message.
ArrivesWhole == \E k \in Nat : arrived = Start(k)
WholeMessages == [][ArrivesWhole']_arrived

-----------------------------------------------------------------------------
LEMMA MinOfTwo ==
  ASSUME NEW a \in Nat, NEW b \in Nat
  PROVE  Min({a, b}) = IF a <= b THEN a ELSE b
  BY DEF Min

LEMMA StartIsNat ==
  ASSUME Sizes, NEW i \in Nat
  PROVE  /\ Start(i) \in Nat
         /\ Start(i + 1) = Start(i) + Head + Body
  <1>1. PICK size \in Nat : size = Head + Body
    BY DEF Sizes
  <1>2. size * i \in Nat /\ size * (i + 1) = size * i + size
    BY <1>1
  <1> QED
    BY <1>1, <1>2 DEF Start, Sizes

\* No message begins inside of another.
LEMMA StartsApart ==
  ASSUME Sizes, NEW i \in Nat, NEW k \in Nat,
         Start(i) <= Start(k), Start(k) < Start(i) + Head + Body
  PROVE  Start(k) = Start(i)
  <1>1. PICK size \in Nat : size = Head + Body
    BY DEF Sizes
  <1>2. CASE k = i
    BY <1>2
  <1>3. CASE k > i
    <2>1. PICK d \in Nat : k = i + 1 + d
      <3>1. k - i - 1 \in Nat /\ k = i + 1 + (k - i - 1)
        BY <1>3
      <3> QED
        BY <3>1
    <2>2. size * k = size * i + size + size * d /\ size * d \in Nat /\ size * i \in Nat
      BY <2>1
    <2> QED
      BY <1>1, <2>2 DEF Start, Sizes
  <1>4. CASE k < i
    <2>1. PICK d \in Nat : i = k + 1 + d
      <3>1. i - k - 1 \in Nat /\ i = k + 1 + (i - k - 1)
        BY <1>4
      <3> QED
        BY <3>1
    <2>2. size * i = size * k + size + size * d /\ size * d \in Nat /\ size * k \in Nat
      BY <2>1
    <2> QED
      BY <1>1, <2>2 DEF Start, Sizes
  <1> QED
    BY <1>2, <1>3, <1>4

-----------------------------------------------------------------------------
\* What has been read of the message that is being read.
Reading ==
  /\ part = "none" => taken = Start(received)
  /\ part = "head" => begin = Start(received) /\ taken \in begin .. begin + Head - 1
  /\ part = "body" => begin = Start(received) + Head /\ taken \in begin .. begin + Body - 1

FrameInv ==
  /\ arrived \in Nat /\ taken \in Nat /\ begin \in Nat /\ received \in Nat
  /\ part \in {"none", "head", "body"}
  /\ taken <= arrived
  /\ ArrivesWhole
  /\ Reading

LEMMA FrameInit == Sizes /\ Init => FrameInv
  <1>1. Sizes => Start(0) = 0
    BY DEF Start, Sizes
  <1> QED
    BY <1>1 DEF Init, FrameInv, Reading, ArrivesWhole

LEMMA FrameStep ==
  ASSUME Sizes, FrameInv, [Next]_vars, [ArrivesWhole']_arrived
  PROVE  FrameInv'
  <1> USE DEF FrameInv
  <1>0. Head \in Nat \ {0} /\ Body \in Nat \ {0} /\ Start(received) \in Nat
    BY StartIsNat DEF Sizes
  <1>1. CASE Arrive
    <2>1. Start(Count) \in Nat
      BY StartIsNat DEF Sizes
    <2>2. arrived' \in Nat /\ arrived < arrived' /\ UNCHANGED <<taken, part, begin, received>>
      BY <1>1, <2>1 DEF Arrive
    <2>3. Reading'
      BY <2>2 DEF Reading, Start
    <2> QED
      BY <2>2, <2>3
  <1>2. CASE Visit
    <2>1. /\ part = "none" /\ part' = "head" /\ begin' = taken
          /\ UNCHANGED <<arrived, taken, received>>
      BY <1>2 DEF Visit
    <2>2. Reading'
      BY <1>0, <2>1 DEF Reading, Start
    <2> QED
      BY <2>1, <2>2 DEF ArrivesWhole, Start
  <1>3. CASE Recv
    <2>1. /\ begin + Length \in Nat /\ taken < begin + Length /\ taken < arrived
          /\ taken' = IF arrived <= begin + Length THEN arrived ELSE begin + Length
      <3>1. part = "head" \/ part = "body"
        BY <1>3 DEF Recv
      <3>2. begin + Length \in Nat /\ taken < begin + Length /\ taken < arrived
        BY <1>0, <1>3, <3>1 DEF Recv, Length, Reading
      <3> QED
        BY <1>3, <3>2, MinOfTwo DEF Recv
    <2>2. UNCHANGED arrived /\ ArrivesWhole'
      BY <1>3 DEF Recv, ArrivesWhole, Start
    <2>3. CASE taken' < begin + Length
      BY <1>0, <1>3, <2>1, <2>2, <2>3 DEF Recv, Reading, Length, Start
    <2>4. CASE taken' >= begin + Length /\ part = "head"
      <3>1. /\ part' = "body" /\ begin' = taken' /\ received' = received
            /\ taken' = begin + Head /\ begin = Start(received)
        BY <1>0, <1>3, <2>1, <2>4 DEF Recv, Reading, Length
      <3> QED
        BY <1>0, <2>1, <2>2, <3>1 DEF Reading, Start
    <2>5. CASE taken' >= begin + Length /\ part = "body"
      <3>1. /\ part' = "none" /\ begin' = taken' /\ received' = received + 1
            /\ taken' = begin + Body /\ begin = Start(received) + Head
        BY <1>0, <1>3, <2>1, <2>5 DEF Recv, Reading, Length
      <3>2. Start(received)' = Start(received + 1)
        BY <3>1 DEF Start
      <3>3. taken' = Start(received + 1)
        BY <1>0, <3>1, StartIsNat
      <3>4. Reading'
        BY <3>1, <3>2, <3>3 DEF Reading
      <3> QED
        BY <2>1, <2>2, <3>1, <3>4
    <2> QED
      BY <1>3, <2>1, <2>3, <2>4, <2>5 DEF Recv
  <1>4. CASE GiveUp
    <2>1. /\ part # "none" /\ arrived = taken /\ part' = "none"
          /\ UNCHANGED <<arrived, taken, begin, received>>
      BY <1>4 DEF GiveUp
    <2>2. PICK k \in Nat : taken = Start(k)
      BY <2>1 DEF ArrivesWhole
    <2>3. Start(received) <= taken /\ taken < Start(received) + Head + Body
      BY <1>0, <2>1 DEF Reading
    <2>4. taken = Start(received)
      BY <2>2, <2>3, StartsApart
    <2> QED
      BY <2>1, <2>4 DEF Reading, ArrivesWhole, Start
  <1>5. CASE UNCHANGED vars
    BY <1>5 DEF vars, Reading, ArrivesWhole, Start
  <1> QED
    BY <1>1, <1>2, <1>3, <1>4, <1>5 DEF Next

(***************************************************************************)
(* SocketServer.cpp:258, 273: if the messages of a client arrive whole,    *)
(* none or several at a time, then whatever the order of arrivals and      *)
(* visits, what is read as a header is the header of the next message and  *)
(* what is read as a body is its body.                                     *)
(***************************************************************************)
THEOREM WholeMessagesAreIntact == Sizes => (Spec /\ WholeMessages => []MessagesIntact)
  <1> SUFFICES ASSUME Sizes
               PROVE  Spec /\ WholeMessages => []MessagesIntact
    OBVIOUS
  <1>1. Init => FrameInv
    BY FrameInit
  <1>2. FrameInv /\ [Next]_vars /\ [ArrivesWhole']_arrived => FrameInv'
    BY FrameStep
  <1>3. FrameInv => MessagesIntact
    BY DEF FrameInv, Reading, MessagesIntact
  <1> QED
    BY <1>1, <1>2, <1>3, PTL DEF Spec, WholeMessages
=============================================================================
