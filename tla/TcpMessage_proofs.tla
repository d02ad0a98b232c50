------------------------- MODULE TcpMessage_proofs -------------------------
(***************************************************************************)
(* Messages of every size, through buffers of every size: what is returned *)
(* as a message is the message (for every way the stream can be cut), and  *)
(* a receive fails only with its sender when the length arrives in one     *)
(* piece and bodies take at most half of the buffer.                       *)
(***************************************************************************)
EXTENDS TcpMessage, TLAPS

\* The index of the call that goes on counts the bytes read.
Position ==
  /\ phase = "idle" => read = 0
  /\ phase = "header" => idx = read /\ n = Header
  /\ phase = "body" => read = Header + idx /\ n = size
  /\ DeliveredIntact

IInv == TypeOK /\ Position

LEMMA InitInv == Init => IInv
<1> SUFFICES ASSUME Init PROVE IInv
  OBVIOUS
<1> USE DEF Init, Header
<1>1. TypeOK
  <2>1. /\ size \in Sizes \cup {0} /\ n \in Sizes \cup {0, Header}
        /\ result \in Sizes \cup {0, -1}
    OBVIOUS
  <2>2. /\ written \in Nat /\ arrived \in Nat /\ read \in Nat /\ idx \in Nat
        /\ read <= arrived /\ arrived <= written /\ written <= Header + size
    OBVIOUS
  <2>3. open \in BOOLEAN /\ undefined \in BOOLEAN
    OBVIOUS
  <2> QED
    BY <2>1, <2>2, <2>3 DEF TypeOK
<1>2. Position
  BY DEF Position, DeliveredIntact
<1> QED
  BY <1>1, <1>2 DEF IInv

\* recv delivers no more than what has arrived.
LEMMA ReceivedFacts ==
  ASSUME TypeOK, Asked # 0, Asked \in Int
  PROVE  Received \in Nat /\ Received <= arrived - read
  BY DEF TypeOK, Received

LEMMA StepInv == IInv /\ [Next]_vars => IInv'
<1> SUFFICES ASSUME IInv, [Next]_vars PROVE IInv'
  OBVIOUS
<1> USE TcpAssumption DEF IInv, TypeOK, Position, DeliveredIntact, Header,
      senderVars, recvVars, Return
<1>1. ASSUME NEW s \in Sizes, SendHeader(s) PROVE IInv'
  <2>1. size' = s /\ written' = 4 /\ read = 0 /\ arrived = 0 /\ s \in Nat
        /\ UNCHANGED <<open, arrived, read, recvVars>>
    BY <1>1 DEF SendHeader
  <2>2. TypeOK'
    BY <2>1
  <2>3. Position'
    BY <2>1
  <2> QED
    BY <2>2, <2>3
<1>2. ASSUME NEW k \in 1 .. size, SendBody(k) PROVE IInv'
  BY <1>2 DEF SendBody
<1>3. ASSUME NEW to \in 1 .. Header + size, Arrive(to) PROVE IInv'
  BY <1>3 DEF Arrive
<1>4. CASE Close \/ BeginReceive \/ Answer
  <2>1. CASE Close
    BY <2>1 DEF Close
  <2>2. CASE BeginReceive
    BY <2>2 DEF BeginReceive
  <2>3. CASE Answer
    BY <2>3 DEF Answer
  <2> QED
    BY <1>4, <2>1, <2>2, <2>3
<1>5. CASE Recv
  <2>1. CASE Asked = 0
    BY <1>5, <2>1 DEF Recv, Looping
  <2>2. CASE Asked # 0
    <3>1. Asked \in Int
      BY <1>5 DEF Recv, Looping, Asked, CallSize
    <3>2. Received \in Nat /\ Received <= arrived - read
      BY <2>2, <3>1, ReceivedFacts
    <3>3. /\ read' = read + Received /\ idx' = idx + Received
          /\ undefined' \in BOOLEAN
          /\ UNCHANGED <<senderVars, arrived, phase, n, result>>
      BY <1>5, <2>2 DEF Recv
    <3> HIDE DEF Received
    <3> QED
      BY <1>5, <3>2, <3>3 DEF Recv, Looping
  <2> QED
    BY <2>1, <2>2
<1>6. CASE RecvClosed
  BY <1>6 DEF RecvClosed, Looping
<1>7. CASE HeaderDone
  BY <1>7 DEF HeaderDone
<1>8. CASE BodyDone
  BY <1>8 DEF BodyDone
<1>9. CASE UNCHANGED vars
  BY <1>9 DEF vars
<1> QED
  BY <1>1, <1>2, <1>3, <1>4, <1>5, <1>6, <1>7, <1>8, <1>9
     DEF Next, SendStep, ArriveStep, ReceiveStep

THEOREM Invariant == Spec => []IInv
  BY InitInv, StepInv, PTL DEF Spec

\* Every variable keeps its type, for all sizes.
THEOREM TypeCorrect == Spec => []TypeOK
<1>1. IInv => TypeOK
  BY DEF IInv
<1> QED
  BY Invariant, <1>1, PTL

\* tcp_message_receive never returns a part of a message, or of two.
THEOREM Intact == Spec => []DeliveredIntact
<1>1. IInv => DeliveredIntact
  BY DEF IInv, Position
<1> QED
  BY Invariant, <1>1, PTL

-----------------------------------------------------------------------------
\* The length is not cut, and a body has something in it and takes at most
\* half of the buffer.
SafeSizes ==
  /\ \A s \in Sizes : 0 < s /\ 2 * s <= BufferSize
  /\ BufferSize <= Room
  /\ Cuts \cap 1 .. Header - 1 = {}

\* No call reads past the end of its message.
NoOverrun ==
  /\ arrived = 0 \/ arrived >= Header
  /\ written = 0 \/ (written >= Header /\ size \in Sizes)
  /\ phase = "header" => idx \in {0, Header}
  /\ phase = "body" => idx <= n /\ size \in Sizes
  /\ NoFalseClose
  /\ StaysInBuffer

SafeInv == IInv /\ NoOverrun

LEMMA SafeStep == SafeSizes /\ SafeInv /\ [Next]_vars => SafeInv'
<1> SUFFICES ASSUME SafeSizes, SafeInv, [Next]_vars PROVE NoOverrun'
  BY StepInv DEF SafeInv
<1> USE TcpAssumption DEF SafeInv, IInv, TypeOK, Position, NoOverrun, Header,
      NoFalseClose, StaysInBuffer, senderVars, recvVars, Return
<1>1. ASSUME NEW s \in Sizes, SendHeader(s) PROVE NoOverrun'
  BY <1>1 DEF SendHeader
<1>2. ASSUME NEW k \in 1 .. size, SendBody(k) PROVE NoOverrun'
  BY <1>2 DEF SendBody
<1>3. ASSUME NEW to \in 1 .. Header + size, Arrive(to) PROVE NoOverrun'
  BY <1>3 DEF Arrive, SafeSizes
<1>4. CASE Close \/ BeginReceive \/ Answer
  BY <1>4 DEF Close, BeginReceive, Answer
<1>5. CASE Recv
  <2>1. CASE phase = "header"
    <3>1. idx = 0 /\ read = 0 /\ n = Header /\ arrived >= Header
      BY <1>5, <2>1 DEF Recv, Looping
    <3>2. Asked = Header /\ Received = Header
      BY <2>1, <3>1 DEF Asked, Received, CallSize
    <3> QED
      BY <1>5, <2>1, <3>1, <3>2 DEF Recv, CallRoom
  <2>2. CASE phase = "body"
    <3>1. n = size /\ size \in Sizes /\ idx < n /\ read = Header + idx
      BY <1>5, <2>2 DEF Recv, Looping
    <3>2. 0 < size /\ 2 * size <= BufferSize /\ BufferSize <= Room
      BY <3>1 DEF SafeSizes
    <3>3. Asked = BufferSize - idx - idx
      BY <2>2, <3>1, <3>2 DEF Asked, CallSize
    <3>4. Asked > 0
      BY <3>1, <3>2, <3>3
    <3>5. Received \in Nat /\ Received <= arrived - read
      BY <3>3, <3>4, ReceivedFacts
    <3>6. arrived - read <= size - idx
      BY <3>1
    <3>7. /\ idx' = idx + Received
          /\ undefined' = (idx + Received > Room)
          /\ UNCHANGED <<senderVars, arrived, phase, n, result>>
      BY <1>5, <2>2, <3>4 DEF Recv, CallRoom
    <3> HIDE DEF Received
    <3> QED
      BY <1>5, <2>2, <3>1, <3>2, <3>5, <3>6, <3>7
  <2> QED
    BY <1>5, <2>1, <2>2 DEF Recv, Looping
<1>6. CASE RecvClosed
  BY <1>6 DEF RecvClosed, Looping
<1>7. CASE HeaderDone
  BY <1>7 DEF HeaderDone, Looping, CallSize
<1>8. CASE BodyDone
  <2>1. n = size /\ size \in Sizes /\ idx <= n /\ 0 < size
        /\ 2 * size <= BufferSize
    BY <1>8 DEF BodyDone, SafeSizes
  <2>2. idx = n
    BY <1>8, <2>1 DEF BodyDone, Looping, CallSize
  <2> QED
    BY <1>8, <2>1, <2>2 DEF BodyDone
<1>9. CASE UNCHANGED vars
  BY <1>9 DEF vars
<1> QED
  BY <1>1, <1>2, <1>3, <1>4, <1>5, <1>6, <1>7, <1>8, <1>9
     DEF Next, SendStep, ArriveStep, ReceiveStep

LEMMA SafeInvariant == ASSUME SafeSizes PROVE Spec => []SafeInv
<1>1. Init => SafeInv
  BY InitInv DEF SafeInv, NoOverrun, Init, NoFalseClose, StaysInBuffer
<1>2. SafeInv /\ [Next]_vars => SafeInv'
  BY SafeStep
<1> QED
  BY <1>1, <1>2, PTL DEF Spec

\* Under SafeSizes a receive fails only if the sender closed, for every
\* segmentation of the bodies.
THEOREM Safe == ASSUME SafeSizes PROVE Spec => []NoFalseClose
<1>1. SafeInv => NoFalseClose
  BY DEF SafeInv, NoOverrun
<1> QED
  BY <1>1, SafeInvariant, PTL

\* Under SafeSizes recv is never told to write past the end of the buffer,
\* although the index is subtracted twice.
THEOREM BufferCorrect == ASSUME SafeSizes PROVE Spec => []StaysInBuffer
<1>1. SafeInv => StaysInBuffer
  BY DEF SafeInv, NoOverrun
<1> QED
  BY <1>1, SafeInvariant, PTL

-----------------------------------------------------------------------------
(* TcpMessage implements Channel.                                          *)

Sent == IF written = 0 THEN <<>> ELSE <<size>>
Got == IF phase = "returned" /\ result > 0 THEN <<result>> ELSE <<>>
Failed == phase = "returned" /\ result <= 0

LEMMA InitImplements == Init => Ch!Init
BY DEF Init, Ch!Init

\* The sender and the network.
LEMMA SendImplements ==
  ASSUME IInv, SendStep \/ Close \/ ArriveStep
  PROVE  [Ch!Next]_(Ch!vars)
<1> USE DEF senderVars, recvVars
<1>1. ASSUME NEW s \in Sizes, SendHeader(s) PROVE Ch!Send(s)
  BY <1>1 DEF SendHeader, Header, Ch!Send
<1>2. ASSUME NEW k \in 1 .. size, SendBody(k) PROVE UNCHANGED Ch!vars
  <2>1. written # 0 /\ written' # 0
    BY <1>2, TcpAssumption DEF SendBody, Header, IInv, TypeOK
  <2> QED
    BY <1>2, <2>1 DEF SendBody, Ch!vars
<1>3. CASE Close
  BY <1>3 DEF Close, Ch!Close, Ch!Next
<1>4. CASE ArriveStep
  BY <1>4 DEF ArriveStep, Arrive, Ch!vars
<1> QED
  BY <1>1, <1>2, <1>3, <1>4 DEF SendStep, Ch!Next

\* The receive: all of its rounds but the last are no step of the channel.
LEMMA ReceiveImplements ==
  ASSUME SafeSizes, SafeInv, ReceiveStep
  PROVE  [Ch!Next]_(Ch!vars)
<1> USE DEF senderVars, recvVars, Return
<1>0. /\ IInv /\ TypeOK /\ Position /\ NoOverrun
      /\ size \in Nat /\ idx \in Nat /\ read \in Nat
  BY TcpAssumption DEF SafeInv, IInv, TypeOK
<1>1. CASE BeginReceive
  BY <1>1 DEF BeginReceive, Ch!vars
<1>2. CASE Recv
  <2>1. (phase' = phase /\ result' = result) \/ Asked = 0
    BY <1>2 DEF Recv
  <2>2. Asked # 0
    <3>1. CASE phase = "header"
      <4>1. idx = 0 /\ n = Header
        BY <1>0, <1>2, <3>1 DEF Recv, Looping, Position, NoOverrun, CallSize, Header
      <4> QED
        BY <3>1, <4>1 DEF Asked, CallSize, Header
    <3>2. CASE phase = "body"
      <4>1. size \in Sizes /\ n = size /\ idx < n
        BY <1>0, <1>2, <3>2 DEF Recv, Looping, Position, NoOverrun
      <4>2. 2 * size <= BufferSize /\ BufferSize \in Nat
        BY <4>1, TcpAssumption DEF SafeSizes
      <4> QED
        BY <1>0, <3>2, <4>1, <4>2 DEF Asked, CallSize
    <3> QED
      BY <1>2, <3>1, <3>2 DEF Recv, Looping
  <2> QED
    BY <1>2, <2>1, <2>2 DEF Recv, Ch!vars
<1>3. CASE RecvClosed
  <2>1. phase # "returned" /\ ~open
    BY <1>3 DEF RecvClosed, Looping
  <2>2. phase' = "returned" /\ result' \in {0, -1} /\ UNCHANGED senderVars
    BY <1>3 DEF RecvClosed
  <2>3. Got = <<>> /\ ~Failed /\ Got' = <<>> /\ Failed'
    BY <2>1, <2>2 DEF Got, Failed
  <2> QED
    BY <2>1, <2>2, <2>3 DEF Ch!ReceiveFails, Ch!Next, Got, Failed
<1>4. CASE HeaderDone
  <2>1. idx = Header
    BY <1>0, <1>4 DEF HeaderDone, Looping, CallSize, NoOverrun, Position, Header
  <2> QED
    BY <1>4, <2>1 DEF HeaderDone, Ch!vars
<1>5. CASE BodyDone
  <2>1. phase = "body" /\ n = size /\ size \in Sizes /\ idx <= n
    BY <1>0, <1>5 DEF BodyDone, Position, NoOverrun
  <2>2. 0 < size /\ 2 * size <= BufferSize /\ BufferSize \in Nat
    BY <2>1, TcpAssumption DEF SafeSizes
  <2>3. idx = size
    BY <1>0, <1>5, <2>1, <2>2 DEF BodyDone, Looping, CallSize
  <2>4. written # 0
    BY <1>0, <2>1 DEF Position, TypeOK, Header
  <2>5. phase' = "returned" /\ result' = size /\ UNCHANGED senderVars
    BY <1>5, <2>1, <2>3 DEF BodyDone
  <2>6. /\ Sent = <<size>> /\ Got = <<>> /\ ~Failed
        /\ Sent' = Sent /\ Got' = <<size>> /\ ~Failed'
    <3>1. Sent = <<size>> /\ Sent' = Sent
      BY <2>4, <2>5 DEF Sent
    <3>2. Got = <<>> /\ ~Failed
      BY <2>1 DEF Got, Failed
    <3>3. size > 0 /\ ~(size <= 0)
      BY <1>0, <2>2
    <3>4. Got' = <<size>> /\ ~Failed'
      BY <2>5, <3>3 DEF Got, Failed
    <3> QED
      BY <3>1, <3>2, <3>4
  <2> QED
    BY <2>5, <2>6 DEF Ch!Receive, Ch!Next, Sent, Got, Failed
<1> QED
  BY <1>1, <1>2, <1>3, <1>4, <1>5 DEF ReceiveStep

LEMMA NextImplements ==
  SafeSizes /\ SafeInv /\ [Next]_vars => [Ch!Next]_(Ch!vars)
<1> SUFFICES ASSUME SafeSizes, SafeInv, [Next]_vars PROVE [Ch!Next]_(Ch!vars)
  OBVIOUS
<1>1. CASE Answer
  <2>1. result \in Int
    BY TcpAssumption DEF SafeInv, IInv, TypeOK
  <2>2. Got # <<>> /\ Sent' = <<>> /\ Got' = <<>> /\ ~Failed /\ ~Failed'
    BY <1>1, <2>1 DEF Answer, Got, Sent, Failed
  <2> QED
    BY <1>1, <2>2 DEF Answer, Ch!Answer, Ch!Next, Got, Sent, Failed
<1>2. CASE UNCHANGED vars
  BY <1>2 DEF vars, senderVars, recvVars, Ch!vars
<1> QED
  BY <1>1, <1>2, SendImplements, ReceiveImplements DEF Next, SafeInv

\* Under SafeSizes the stream with its pieces, lengths and loops implements a
\* channel on which a message is one step: none is lost, cut, repeated or mixed
\* with the next while the sender has the connection open.
THEOREM Refinement == ASSUME SafeSizes PROVE Spec => ImplementsChannel
<1>1. SafeInv /\ [Next]_vars => [Ch!Next]_(Ch!vars)
  BY NextImplements
<1> QED
  BY <1>1, InitImplements, SafeInvariant, PTL DEF Spec, Ch!Spec, ImplementsChannel
=============================================================================
