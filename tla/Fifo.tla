-------------------------------- MODULE Fifo --------------------------------
(***************************************************************************)
(* What message_queue.h promises a thread that uses a queue: messages come *)
(* out one at a time, in the order in which they went in, each of them     *)
(* once.  `out` is the message the reading thread holds, NULL if none.     *)
(***************************************************************************)
EXTENDS Sequences

CONSTANTS Messages,  \* the messages that can be sent
          NULL       \* "no message"

VARIABLES q,         \* the messages in the queue, oldest first
          out        \* the message handed to the reader

vars == <<q, out>>

Init == q = <<>> /\ out = NULL

\* A message enters at the tail; it is not yet in the queue or in use.
Enqueue(m) ==
  /\ m # out
  /\ \A i \in DOMAIN q : q[i] # m
  /\ q' = Append(q, m)
  /\ UNCHANGED out

\* The oldest message leaves the queue for a reader that holds none.
Dequeue ==
  /\ q # <<>>
  /\ out = NULL
  /\ out' = Head(q)
  /\ q' = Tail(q)

\* The reader is done with the message it holds.
Release == out # NULL /\ out' = NULL /\ UNCHANGED q

\* The queue is discarded with what it still holds.
Discard == q' = <<>> /\ UNCHANGED out

Next == (\E m \in Messages : Enqueue(m)) \/ Dequeue \/ Release \/ Discard

Spec == Init /\ [][Next]_vars
=============================================================================
