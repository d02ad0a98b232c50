------------------------------ MODULE Channel ------------------------------
(***************************************************************************)
(* What tcp_message_send and tcp_message_receive are to their callers:     *)
(* "we are only interested in full messages".  A message that is sent is   *)
(* received once and whole, or the connection is at its end.               *)
(***************************************************************************)
CONSTANT Messages

VARIABLES sent,    \* <<m>> while m is under way, or <<>>
          got,     \* <<m>> when m was returned, or <<>>
          failed,  \* the receive has returned without a message
          open     \* the sender has the connection open

vars == <<sent, got, failed, open>>

Init == sent = <<>> /\ got = <<>> /\ failed = FALSE /\ open = TRUE

Send(m) ==
  /\ open /\ sent = <<>>
  /\ sent' = <<m>>
  /\ UNCHANGED <<got, failed, open>>

Receive ==
  /\ sent # <<>> /\ got = <<>> /\ ~failed
  /\ got' = sent
  /\ UNCHANGED <<sent, failed, open>>

\* A return value of 0 or -1.
ReceiveFails ==
  /\ ~open /\ got = <<>> /\ ~failed
  /\ failed' = TRUE
  /\ UNCHANGED <<sent, got, open>>

Close ==
  /\ open /\ open' = FALSE
  /\ UNCHANGED <<sent, got, failed>>

\* The receiver has answered, and the next message may follow.
Answer ==
  /\ open /\ got # <<>>
  /\ sent' = <<>> /\ got' = <<>>
  /\ UNCHANGED <<failed, open>>

Next == (\E m \in Messages : Send(m)) \/ Receive \/ ReceiveFails \/ Close \/ Answer

Spec == Init /\ [][Next]_vars
=============================================================================
