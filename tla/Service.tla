------------------------------ MODULE Service ------------------------------
(***************************************************************************)
(* What the command server and the file server promise their clients:      *)
(* connections are accepted in the order in which they were made, and      *)
(* requests are answered in rounds.  A round includes every accepted       *)
(* client that has asked, so that nobody is answered twice while another   *)
(* waits; an answer goes to whoever has asked, once.  Between rounds the   *)
(* server stops when it is told to; otherwise it fails at a request only,  *)
(* and by a signal only at that of a client that has left.                 *)
(***************************************************************************)
EXTENDS Sequences

CONSTANT Clients

VARIABLES
  conn,      \* "new", "open" or "closed" by the client
  request,   \* "none", "whole", "cut" (it cannot be read) or "answered"
  waiting,   \* the connections that are not accepted yet
  accepted,  \* the accepted ones
  turn,      \* those that are still to be looked at in this round
  status,    \* "up", or how the server ended
  stopping   \* it was told to

clients == <<conn, request>>
server == <<waiting, accepted, turn, status, stopping>>
vars == <<clients, server>>

Init ==
  /\ conn = [c \in Clients |-> "new"] /\ request = [c \in Clients |-> "none"]
  /\ waiting = <<>> /\ accepted = {} /\ turn = {}
  /\ status = "up" /\ stopping = FALSE

Connect(c) ==
  /\ conn[c] = "new"
  /\ conn' = [conn EXCEPT ![c] = "open"] /\ waiting' = Append(waiting, c)
  /\ UNCHANGED <<request, accepted, turn, status, stopping>>

Ask(c) ==
  /\ conn[c] = "open" /\ request[c] = "none"
  /\ \E r \in {"whole", "cut"} : request' = [request EXCEPT ![c] = r]
  /\ UNCHANGED <<conn, server>>

ReadAnswer(c) ==
  /\ conn[c] = "open" /\ request[c] = "answered"
  /\ request' = [request EXCEPT ![c] = "none"]
  /\ UNCHANGED <<conn, server>>

Leave(c) ==
  /\ conn[c] = "open" /\ conn' = [conn EXCEPT ![c] = "closed"]
  /\ UNCHANGED <<request, server>>

Accept ==
  /\ status = "up" /\ waiting # <<>>
  /\ accepted' = accepted \cup {Head(waiting)} /\ waiting' = Tail(waiting)
  /\ UNCHANGED <<clients, turn, status, stopping>>

\* The accepted clients that wait for an answer.
Waits == {c \in accepted : request[c] = "whole" /\ conn[c] = "open"}

Round ==
  /\ status = "up" /\ ~stopping /\ turn = {}
  /\ turn' \in SUBSET accepted /\ Waits \subseteq turn'
  /\ UNCHANGED <<clients, waiting, accepted, status, stopping>>

\* One that has left does not get its answer.  The server may hang up then.
Answer(c) ==
  /\ status = "up" /\ c \in turn /\ request[c] = "whole"
  /\ request' = [request EXCEPT ![c] = IF conn[c] = "open" THEN "answered" ELSE "none"]
  /\ turn' = turn \ {c} /\ accepted' \in {accepted, accepted \ {c}}
  /\ UNCHANGED <<conn, waiting, status, stopping>>

\* There is no request that can be read, and none will come.
GiveUp(c) ==
  /\ status = "up" /\ c \in turn
  /\ request[c] = "cut" \/ (request[c] # "whole" /\ conn[c] = "closed")
  /\ turn' = turn \ {c}
  /\ UNCHANGED <<clients, waiting, accepted, status, stopping>>

Asked(c) == c \in turn /\ request[c] = "whole"

End ==
  /\ status = "up"
  /\ \/ status' = "ended" /\ stopping /\ turn = {}
     \/ status' = "crashed" /\ \E c \in Clients : Asked(c)
     \/ status' = "killed" /\ \E c \in Clients : Asked(c) /\ conn[c] = "closed"
  /\ accepted' = {} /\ turn' = {}
  /\ UNCHANGED <<clients, waiting, stopping>>

Stop ==
  /\ ~stopping /\ stopping' = TRUE
  /\ UNCHANGED <<clients, waiting, accepted, turn, status>>

Next ==
  \/ \E c \in Clients :
       Connect(c) \/ Ask(c) \/ ReadAnswer(c) \/ Leave(c) \/ Answer(c) \/ GiveUp(c)
  \/ Accept \/ Round \/ End \/ Stop

Spec == Init /\ [][Next]_vars
=============================================================================
