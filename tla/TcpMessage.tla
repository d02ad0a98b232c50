----------------------------- MODULE TcpMessage -----------------------------
(***************************************************************************)
(* Length prefixed messages on a tcp connection (util.c): one side writes  *)
(* a message with tcp_message_send, the other reads it with                *)
(* tcp_message_receive, which calls receive_tcp_n for the length and again *)
(* for the body.  The next message is written when this one was answered,  *)
(* as the servers and their clients do.                                    *)
(*                                                                         *)
(* The stream is a count of bytes: of the Header + size bytes of the       *)
(* message, `written` were handed to send, `arrived` of them reached the   *)
(* other host and recv has returned the first `read`.  Cuts are the places *)
(* where an arrival may end before the end of what was written: which      *)
(* segments the network makes of the message.                              *)
(***************************************************************************)
EXTENDS Integers

CONSTANTS Sizes,       \* the lengths of the bodies
          BufferSize,  \* the argument buffer_size of tcp_message_receive
          Room,        \* the bytes that the buffer really has
          Cuts         \* the offsets at which an arrival may end

Header == 4

ASSUME TcpAssumption ==
  /\ Sizes \subseteq Nat
  /\ BufferSize \in Nat \ {0} /\ Room \in Nat /\ Cuts \subseteq Nat

VARIABLES
  size,       \* the body of the message under way
  written, arrived, read,
  open,       \* the sender has the connection open
  phase,      \* tcp_message_receive: not called, in its two calls, returned
  n,          \* the argument n of receive_tcp_n
  idx,        \* buffer_index
  result,     \* what tcp_message_receive returned
  undefined   \* recv was given more than the buffer has room for

senderVars == <<size, written, open>>
recvVars == <<phase, n, idx, result, undefined>>
vars == <<senderVars, arrived, read, recvVars>>

Init ==
  /\ size = 0 /\ written = 0 /\ arrived = 0 /\ read = 0 /\ open = TRUE
  /\ phase = "idle" /\ n = 0 /\ idx = 0 /\ result = 0 /\ undefined = FALSE

-----------------------------------------------------------------------------
(* tcp_message_send.                                                       *)

\* The size goes first, in a send of its own.
SendHeader(s) ==
  /\ open /\ written = 0
  /\ size' = s /\ written' = Header
  /\ UNCHANGED <<open, arrived, read, recvVars>>

\* while(bytes_sent < buffer_size): send takes a part of the rest.
SendBody(k) ==
  /\ open /\ written >= Header /\ written + k <= Header + size
  /\ written' = written + k
  /\ UNCHANGED <<size, open, arrived, read, recvVars>>

\* The sender dies or gives up; it stalls by doing nothing.
Close ==
  /\ open /\ open' = FALSE
  /\ UNCHANGED <<size, written, arrived, read, recvVars>>

\* A segment arrives.
Arrive(to) ==
  /\ arrived < to /\ to <= written
  /\ to \in Cuts \/ to = written
  /\ arrived' = to
  /\ UNCHANGED <<senderVars, read, recvVars>>

-----------------------------------------------------------------------------
(* tcp_message_receive.                                                    *)

BeginReceive ==
  /\ phase = "idle"
  /\ phase' = "header" /\ n' = Header /\ idx' = 0 /\ result' = 0
  /\ UNCHANGED <<senderVars, arrived, read, undefined>>

\* The buffer of the call of receive_tcp_n that is going on.
CallSize == IF phase = "header" THEN Header ELSE BufferSize
CallRoom == IF phase = "header" THEN Header ELSE Room

\* Mutant: recv is called once.
Looping_once == phase \in {"header", "body"} /\ idx = 0 /\ n > 0

\* while(buffer_index < buffer_size && buffer_index < n)
Looping == phase \in {"header", "body"} /\ idx < CallSize /\ idx < n

\* Mutant: the size of the other buffer is passed for that of the length.
Asked_other == BufferSize - 2 * idx

\* max_recv - buffer_index: the index is subtracted twice.
Asked == (IF CallSize > n THEN CallSize - idx ELSE n - idx) - idx

\* Mutant: the index moves by what was asked for.
Received_asked == Asked

\* What recv delivers of the bytes there: a negative length is a size_t and
\* so larger than any of them.
Received == IF Asked < 0 \/ Asked > arrived - read THEN arrived - read ELSE Asked

Return(r) == phase' = "returned" /\ result' = r /\ UNCHANGED <<n, idx>>

\* recv on a socket with data; a length of 0 gets 0, as if it was closed.
\* When select times out instead, the loop goes on: no step.
Recv ==
  /\ Looping /\ ~undefined /\ read < arrived
  /\ IF Asked = 0 THEN Return(0) /\ UNCHANGED <<read, undefined>>
     ELSE /\ read' = read + Received
          /\ idx' = idx + Received
          /\ undefined' = (idx + Received > CallRoom)
          /\ UNCHANGED <<phase, n, result>>
  /\ UNCHANGED <<senderVars, arrived>>

\* Mutant: at the end of the stream, what came until then is returned.
RecvClosed_partial ==
  /\ Looping /\ ~undefined /\ read = arrived /\ ~open
  /\ (arrived = written /\ Return(idx)) \/ Return(-1)
  /\ UNCHANGED <<senderVars, arrived, read, undefined>>

\* Mutant: the timeout ends the call (util.c:361-365 in effect).
RecvClosed_timeout ==
  /\ Looping /\ ~undefined /\ read = arrived
  /\ (arrived = written /\ Return(0)) \/ Return(-1)
  /\ UNCHANGED <<senderVars, arrived, read, undefined>>

\* recv returns 0 at the end of the stream, -1 after a reset.
RecvClosed ==
  /\ Looping /\ ~undefined /\ read = arrived /\ ~open
  /\ (arrived = written /\ Return(0)) \/ Return(-1)
  /\ UNCHANGED <<senderVars, arrived, read, undefined>>

\* Mutant: the terminating 0 is waited for, which nobody sends.
HeaderDone_terminated ==
  /\ phase = "header" /\ ~Looping /\ ~undefined
  /\ IF idx = Header
       THEN phase' = "body" /\ n' = size + 1 /\ idx' = 0 /\ UNCHANGED result
       ELSE Return(0)
  /\ UNCHANGED <<senderVars, arrived, read, undefined>>

\* The length is there: message_size is known, the body is next.
HeaderDone ==
  /\ phase = "header" /\ ~Looping /\ ~undefined
  /\ IF idx = Header
       THEN phase' = "body" /\ n' = size /\ idx' = 0 /\ UNCHANGED result
       ELSE Return(0)
  /\ UNCHANGED <<senderVars, arrived, read, undefined>>

\* Only a full message is returned.
BodyDone ==
  /\ phase = "body" /\ ~Looping /\ ~undefined
  /\ Return(IF idx = n THEN idx ELSE 0)
  /\ UNCHANGED <<senderVars, arrived, read, undefined>>

\* The caller answers the message and the next one can be written.
Answer ==
  /\ phase = "returned" /\ result > 0 /\ open
  /\ phase' = "idle"
  /\ written' = 0 /\ arrived' = 0 /\ read' = 0
  /\ UNCHANGED <<size, open, n, idx, result, undefined>>

ReceiveStep == BeginReceive \/ Recv \/ RecvClosed \/ HeaderDone \/ BodyDone

SendStep == \/ \E s \in Sizes : SendHeader(s)
            \/ \E k \in 1 .. size : SendBody(k)

ArriveStep == \E to \in 1 .. Header + size : Arrive(to)

Next == SendStep \/ Close \/ ArriveStep \/ ReceiveStep \/ Answer

Spec == Init /\ [][Next]_vars

\* The receiving thread runs, so does the sender, and what it wrote arrives.
FairSpec == /\ Spec /\ WF_vars(ReceiveStep)
            /\ WF_vars(SendStep) /\ WF_vars(ArriveStep) /\ WF_vars(Answer)

-----------------------------------------------------------------------------
(* Properties.                                                             *)

TypeOK ==
  /\ size \in Sizes \cup {0}
  /\ written \in Nat /\ arrived \in Nat /\ read \in Nat /\ idx \in Nat
  /\ read <= arrived /\ arrived <= written /\ written <= Header + size
  /\ open \in BOOLEAN /\ undefined \in BOOLEAN
  /\ phase \in {"idle", "header", "body", "returned"}
  /\ n \in Sizes \cup {0, Header}
  /\ result \in Sizes \cup {0, -1}

\* A message that is returned is the message that was written, all of it and
\* nothing else, however the network cut it up.
DeliveredIntact ==
  phase = "returned" /\ result > 0 => result = size /\ read = Header + size

\* The receive ends without a message only if the sender closed.
NoFalseClose == phase = "returned" /\ result <= 0 => ~open

\* recv is never told to write past the end of the buffer.
StaysInBuffer == ~undefined

\* To the two sides a message is one step: what is returned is what was sent,
\* whole and once, and no return is without a message before the sender
\* closed, wherever the stream was cut and whoever was ahead.
Ch == INSTANCE Channel WITH
        Messages <- Sizes,
        sent <- IF written = 0 THEN <<>> ELSE <<size>>,
        got <- IF phase = "returned" /\ result > 0 THEN <<result>> ELSE <<>>,
        failed <- phase = "returned" /\ result <= 0
ImplementsChannel == Ch!Spec

\* A message that is being sent is received, or the sender closes.
Delivered ==
  written > 0 /\ open ~> (phase = "returned" /\ result = size) \/ ~open
=============================================================================
