---------------------------- MODULE SelectServer ----------------------------
(***************************************************************************)
(* The loop of the command server and of the file server: one thread       *)
(* watches its listener and all accepted sockets with select, accepts,     *)
(* receives a request and answers it.  Descriptors are numbers that the    *)
(* kernel gives out lowest first, from a table that the other threads of   *)
(* the process use as well.                                                *)
(*                                                                         *)
(* A request is a length and a body, in two sends; that its receive needs  *)
(* both is TcpMessage.  A client is one connection of a command or file    *)
(* client; it waits for the answer to its request, unless it dies.         *)
(***************************************************************************)
EXTENDS Naturals, Sequences

CONSTANTS Clients,      \* connections from other hosts, each made once
          Fds,          \* the descriptors a process may have
          MaxRequests,  \* bound on the requests of a client
          MaxCuts       \* bound on the requests that come in pieces

ASSUME ServerAssumption ==
  /\ Fds \subseteq Nat /\ MaxRequests \in Nat /\ MaxCuts \in Nat
  /\ Clients \cap {"free", "other", "listener", "left"} = {}

VARIABLES
  kind,             \* which of the two servers it is
  owner,            \* what a descriptor is: free, a file of another thread,
                    \* the listener, an accepted connection or a file or
                    \* directory that a reply has opened
  listener_socket, master_read_set, maxfd,
  read_set,         \* what select found ready
  socketfd,         \* the loop variable of the pass over it
  pc, shutdown,
  backlog,          \* connections that wait for accept
  conn,             \* a client's end: "new", "open", "closed"
  request,          \* what the server has to read of it
  asked,            \* how many requests a client has sent
  cuts              \* how many of all requests came in pieces

clientVars == <<backlog, conn, request, asked, cuts>>
setVars == <<listener_socket, master_read_set, maxfd>>
vars == <<kind, owner, setVars, read_set, socketfd, pc, shutdown, clientVars>>

Lowest(fd) == owner[fd] = "free" /\ \A f \in Fds : owner[f] = "free" => fd <= f

\* create_tcp_listener, listen.
Init ==
  /\ kind \in {"command", "file"}
  /\ listener_socket \in Fds
  /\ owner = [fd \in Fds |-> IF fd = listener_socket THEN "listener"
                             ELSE IF fd < listener_socket THEN "other" ELSE "free"]
  /\ master_read_set = {listener_socket} /\ maxfd = listener_socket
  /\ read_set = {} /\ socketfd = 0 /\ pc = "select" /\ shutdown = FALSE
  /\ backlog = <<>> /\ conn = [c \in Clients |-> "new"]
  /\ request = [c \in Clients |-> "none"] /\ asked = [c \in Clients |-> 0]
  /\ cuts = 0

-----------------------------------------------------------------------------
(* The loop.                                                               *)

\* A connection is readable when something was sent or it was closed.
Readable(fd) ==
  \/ owner[fd] = "listener" /\ backlog # <<>>
  \/ owner[fd] \in Clients /\ \/ request[owner[fd]] \in {"partial", "whole", "cut"}
                              \/ conn[owner[fd]] = "closed"

\* select reports the ready ones; without any it times out after a second,
\* and with a closed descriptor in the set it fails: the loop goes on.
Select ==
  /\ pc = "select" /\ ~shutdown
  /\ \A fd \in master_read_set : owner[fd] # "free"
  /\ read_set' = {fd \in master_read_set : fd <= maxfd /\ Readable(fd)}
  /\ read_set' # {}
  /\ pc' = "scan" /\ socketfd' = 0
  /\ UNCHANGED <<kind, owner, setVars, shutdown, clientVars>>

\* The next descriptor for which FD_ISSET holds.
Ready(fd) ==
  /\ pc = "scan" /\ fd \in read_set /\ socketfd <= fd
  /\ \A f \in read_set : socketfd <= f => fd <= f

\* Mutant: maxfd stays that of the listener.
Accept_unseen ==
  \E fd \in Fds :
    /\ Ready(listener_socket) /\ Lowest(fd) /\ backlog # <<>>
    /\ owner' = [owner EXCEPT ![fd] = Head(backlog)]
    /\ backlog' = Tail(backlog)
    /\ master_read_set' = master_read_set \cup {fd}
    /\ socketfd' = listener_socket + 1
    /\ UNCHANGED <<kind, listener_socket, maxfd, read_set, pc, shutdown, conn,
                   request, asked, cuts>>

\* Mutant: maxfd is one more than the highest number, the way select takes it.
Accept_past ==
  \E fd \in Fds :
    /\ Ready(listener_socket) /\ Lowest(fd) /\ backlog # <<>>
    /\ owner' = [owner EXCEPT ![fd] = Head(backlog)]
    /\ backlog' = Tail(backlog)
    /\ master_read_set' = master_read_set \cup {fd}
    /\ maxfd' = IF fd > maxfd THEN fd + 1 ELSE maxfd
    /\ socketfd' = listener_socket + 1
    /\ UNCHANGED <<kind, listener_socket, read_set, pc, shutdown, conn,
                   request, asked, cuts>>

\* Mutant: the new socket is looked at in this pass already.
Accept_ready ==
  \E fd \in Fds :
    /\ Ready(listener_socket) /\ Lowest(fd) /\ backlog # <<>>
    /\ owner' = [owner EXCEPT ![fd] = Head(backlog)]
    /\ backlog' = Tail(backlog)
    /\ master_read_set' = master_read_set \cup {fd}
    /\ read_set' = read_set \cup {fd}
    /\ maxfd' = IF fd > maxfd THEN fd ELSE maxfd
    /\ socketfd' = listener_socket + 1
    /\ UNCHANGED <<kind, listener_socket, pc, shutdown, conn,
                   request, asked, cuts>>

Accept ==
  \E fd \in Fds :
    /\ Ready(listener_socket) /\ Lowest(fd) /\ backlog # <<>>
    /\ owner' = [owner EXCEPT ![fd] = Head(backlog)]
    /\ backlog' = Tail(backlog)
    /\ master_read_set' = master_read_set \cup {fd}
    /\ maxfd' = IF fd > maxfd THEN fd ELSE maxfd
    /\ socketfd' = listener_socket + 1
    /\ UNCHANGED <<kind, listener_socket, read_set, pc, shutdown, conn, request,
                   asked, cuts>>

\* No descriptor is left: the connection stays in the backlog.
AcceptFails ==
  /\ Ready(listener_socket) /\ \A fd \in Fds : owner[fd] # "free"
  /\ socketfd' = listener_socket + 1
  /\ UNCHANGED <<kind, owner, setVars, read_set, pc, shutdown, clientVars>>

\* Mutant: the file server leaves the socket in the set.
Receive_kept(fd) ==
  /\ Ready(fd) /\ owner[fd] \in Clients /\ request[owner[fd]] = "whole"
  /\ pc' = "reply" /\ socketfd' = fd
  /\ UNCHANGED <<kind, owner, setVars, read_set, shutdown, clientVars>>

\* Mutant: the command server takes the socket out of the set as well.
Receive_cleared(fd) ==
  /\ Ready(fd) /\ owner[fd] \in Clients /\ request[owner[fd]] = "whole"
  /\ pc' = "reply" /\ socketfd' = fd
  /\ master_read_set' = master_read_set \ {fd}
  /\ UNCHANGED <<kind, owner, listener_socket, maxfd, read_set, shutdown, clientVars>>

\* tcp_message_receive returned a request.  The file server takes the socket
\* out of the set first.  Until then the thread waits for this client.
Receive(fd) ==
  /\ Ready(fd) /\ owner[fd] \in Clients /\ request[owner[fd]] = "whole"
  /\ pc' = "reply" /\ socketfd' = fd
  /\ master_read_set' = IF kind = "file" THEN master_read_set \ {fd}
                                         ELSE master_read_set
  /\ UNCHANGED <<kind, owner, listener_socket, maxfd, read_set, shutdown, clientVars>>

\* What makes tcp_message_receive return 0 or -1.
Broken(c) == request[c] = "cut" \/ (request[c] # "whole" /\ conn[c] = "closed")

\* The socket leaves the set; nobody closes it.
GiveUp(fd) ==
  /\ Ready(fd) /\ owner[fd] \in Clients /\ Broken(owner[fd])
  /\ master_read_set' = master_read_set \ {fd} /\ socketfd' = fd + 1
  /\ UNCHANGED <<kind, owner, listener_socket, maxfd, read_set, pc, shutdown,
                 clientVars>>

\* handle_client asks for what is not there, or opens what it sends, once, and
\* does not close it.  Without a descriptor the file server sends a buffer that
\* it has freed.
Opened ==
  {owner} \cup {[owner EXCEPT ![fd] = "left"] : fd \in {f \in Fds : Lowest(f)}}

\* Mutant: after an answer the thread goes back to select.
Reply_one ==
  /\ pc = "reply" /\ pc' = "select" /\ socketfd' = 0 /\ read_set' = {}
  /\ \E own \in Opened :
       owner' = IF kind = "file" THEN [own EXCEPT ![socketfd] = "free"] ELSE own
  /\ LET c == owner[socketfd]
     IN  request' = [request EXCEPT ![c] = IF conn[c] = "open" THEN "answered" ELSE "none"]
  /\ UNCHANGED <<kind, setVars, shutdown, backlog, conn, asked, cuts>>

\* The answer and its tcp_message_send; a client that is gone does not read.
\* The file server closes the socket.
Reply ==
  /\ pc = "reply" /\ pc' = "scan" /\ socketfd' = socketfd + 1
  /\ \E own \in Opened :
       owner' = IF kind = "file" THEN [own EXCEPT ![socketfd] = "free"] ELSE own
  /\ LET c == owner[socketfd]
     IN  request' = [request EXCEPT ![c] = IF conn[c] = "open" THEN "answered" ELSE "none"]
  /\ UNCHANGED <<kind, setVars, read_set, shutdown, backlog, conn, asked, cuts>>

\* opendir finds no descriptor, and readdir gets the null pointer.
NoDirectory ==
  /\ pc = "reply" /\ kind = "command" /\ \A fd \in Fds : owner[fd] # "free"
  /\ pc' = "crashed"
  /\ UNCHANGED <<kind, owner, setVars, read_set, socketfd, shutdown, clientVars>>

\* The second send after the client has reset the connection: SIGPIPE.
SigPipe ==
  /\ pc = "reply" /\ conn[owner[socketfd]] = "closed"
  /\ pc' = "killed"
  /\ UNCHANGED <<kind, owner, setVars, read_set, socketfd, shutdown, clientVars>>

\* The pass is over; sleep(1).
EndScan ==
  /\ pc = "scan" /\ \A fd \in read_set : fd < socketfd
  /\ pc' = "select" /\ read_set' = {} /\ socketfd' = 0
  /\ UNCHANGED <<kind, owner, setVars, shutdown, clientVars>>

\* The command server closes what is in the set, but for the highest number.
Closed(fd) == kind = "command" /\ fd \in master_read_set /\ fd < maxfd

\* Mutant: the loop goes on while clients are connected.
End_idle ==
  /\ pc = "select" /\ shutdown /\ master_read_set = {listener_socket}
  /\ owner' = [fd \in Fds |-> IF Closed(fd) THEN "free" ELSE owner[fd]]
  /\ pc' = "ended"
  /\ UNCHANGED <<kind, setVars, read_set, socketfd, shutdown, clientVars>>

End ==
  /\ pc = "select" /\ shutdown
  /\ owner' = [fd \in Fds |-> IF Closed(fd) THEN "free" ELSE owner[fd]]
  /\ pc' = "ended"
  /\ UNCHANGED <<kind, setVars, read_set, socketfd, shutdown, clientVars>>

-----------------------------------------------------------------------------
(* The clients, the other threads of the process, and SIGINT.              *)

Connect(c) ==
  /\ conn[c] = "new"
  /\ conn' = [conn EXCEPT ![c] = "open"] /\ backlog' = Append(backlog, c)
  /\ UNCHANGED <<request, asked, cuts>>

\* tcp_message_send: the length, then the body.
SendLength(c) ==
  /\ conn[c] = "open" /\ request[c] = "none"
  /\ asked[c] < (IF kind = "file" THEN 1 ELSE MaxRequests)
  /\ request' = [request EXCEPT ![c] = "partial"]
  /\ asked' = [asked EXCEPT ![c] = @ + 1]
  /\ UNCHANGED <<backlog, conn, cuts>>

SendBody(c) ==
  /\ conn[c] = "open" /\ request[c] = "partial"
  /\ request' = [request EXCEPT ![c] = "whole"]
  /\ UNCHANGED <<backlog, conn, asked, cuts>>

\* A body of more than 8 bytes comes in two pieces (TcpMessage).
SendCutBody(c) ==
  /\ conn[c] = "open" /\ request[c] = "partial" /\ cuts < MaxCuts
  /\ request' = [request EXCEPT ![c] = "cut"] /\ cuts' = cuts + 1
  /\ UNCHANGED <<backlog, conn, asked>>

ReadAnswer(c) ==
  /\ conn[c] = "open" /\ request[c] = "answered"
  /\ request' = [request EXCEPT ![c] = "none"]
  /\ UNCHANGED <<backlog, conn, asked, cuts>>

\* The client has what it wanted.
Close(c) ==
  /\ conn[c] = "open" /\ request[c] = "none" /\ asked[c] > 0
  /\ conn' = [conn EXCEPT ![c] = "closed"]
  /\ UNCHANGED <<backlog, request, asked, cuts>>

\* The client's process dies.
Die(c) ==
  /\ conn[c] = "open"
  /\ conn' = [conn EXCEPT ![c] = "closed"]
  /\ UNCHANGED <<backlog, request, asked, cuts>>

Client(c) ==
  /\ \/ Connect(c) \/ SendLength(c) \/ SendBody(c) \/ SendCutBody(c)
     \/ ReadAnswer(c) \/ Close(c) \/ Die(c)
  /\ UNCHANGED <<kind, owner, setVars, read_set, socketfd, pc, shutdown>>

OtherOpens(fd) ==
  /\ Lowest(fd) /\ owner' = [owner EXCEPT ![fd] = "other"]
  /\ UNCHANGED <<kind, setVars, read_set, socketfd, pc, shutdown, clientVars>>

OtherCloses(fd) ==
  /\ owner[fd] = "other" /\ owner' = [owner EXCEPT ![fd] = "free"]
  /\ UNCHANGED <<kind, setVars, read_set, socketfd, pc, shutdown, clientVars>>

SetShutdown ==
  /\ ~shutdown /\ shutdown' = TRUE
  /\ UNCHANGED <<kind, owner, setVars, read_set, socketfd, pc, clientVars>>

ServerStep ==
  \/ Select \/ Accept \/ AcceptFails \/ Reply \/ EndScan \/ End
  \/ \E fd \in Fds : Receive(fd) \/ GiveUp(fd)

Running == pc \notin {"ended", "killed", "crashed"}

Next ==
  \/ ServerStep \/ NoDirectory \/ SigPipe \/ SetShutdown
  \/ \E c \in Clients : Client(c)
  \/ Running /\ \E fd \in Fds : OtherOpens(fd) \/ OtherCloses(fd)

Spec == Init /\ [][Next]_vars

\* The server runs; a client that has sent a length sends the body, reads the
\* answer it waits for and closes in the end.
FairSpec ==
  /\ Spec /\ WF_vars(ServerStep)
  /\ \A c \in Clients :
       WF_vars(Client(c) /\ (SendBody(c) \/ SendCutBody(c) \/ ReadAnswer(c) \/ Close(c)))

-----------------------------------------------------------------------------
(* Properties.                                                             *)

TypeOK ==
  /\ kind \in {"command", "file"}
  /\ owner \in [Fds -> {"free", "other", "listener", "left"} \cup Clients]
  /\ listener_socket \in Fds /\ maxfd \in Fds
  /\ master_read_set \in SUBSET Fds /\ read_set \in SUBSET Fds
  /\ socketfd \in Nat /\ pc \in {"select", "scan", "reply", "ended", "killed", "crashed"}
  /\ shutdown \in BOOLEAN /\ backlog \in Seq(Clients)
  /\ conn \in [Clients -> {"new", "open", "closed"}]
  /\ request \in [Clients -> {"none", "partial", "whole", "cut", "answered"}]
  /\ asked \in [Clients -> 0 .. MaxRequests + 1] /\ cuts \in 0 .. MaxCuts

\* The set holds the listener and connections that this server accepted,
\* never a number that was closed, which the kernel may have given to another
\* thread since: the server reads no foreign file, and select does not fail.
OwnDescriptors == Running =>
  \A fd \in master_read_set : fd <= maxfd /\ owner[fd] \in {"listener"} \cup Clients

\* What select found ready is still so when the pass reaches it, although
\* sockets are accepted and closed on the way, here and in other threads.
ReadyIsCurrent == pc = "scan" =>
  \A fd \in read_set : socketfd <= fd => fd \in master_read_set /\ Readable(fd)

\* An accepted connection is watched as long as its client is there and was
\* not given up.
Watched == Running =>
  \A fd \in Fds : owner[fd] \in Clients =>
    LET c == owner[fd]
    IN  \/ conn[c] = "closed" \/ request[c] = "cut"
        \/ fd \in master_read_set
        \/ kind = "file" /\ pc = "reply" /\ socketfd = fd

\* What a client sees: half a request is none.  The connections at descriptors
\* are accepted; the pass is a round, with what is left of the read set.
Srv == INSTANCE Service WITH
  waiting <- backlog, stopping <- shutdown, status <- IF Running THEN "up" ELSE pc,
  request <- [c \in Clients |-> IF request[c] = "partial" THEN "none" ELSE request[c]],
  accepted <- {c \in Clients : Running /\ \E fd \in Fds : owner[fd] = c},
  turn <- {c \in Clients : /\ pc \in {"scan", "reply"}
                           /\ \E fd \in read_set : socketfd <= fd /\ owner[fd] = c}

\* Clients are served in rounds: none is answered twice while another that has
\* asked waits, or answered what it has not asked, although descriptors are
\* given out anew during a pass.  The process ends at a request only, and by
\* SIGPIPE only when the client is dead.
ImplementsService == Srv!Spec

\* A client that has sent its request is answered, whatever the others do,
\* unless it was given up; before it is accepted only if there is a descriptor.
Answered ==
  \A c \in Clients :
    LET Over == \/ request[c] = "answered" \/ conn[c] = "closed"
                \/ shutdown \/ ~Running
        Asks == request[c] = "whole" /\ conn[c] = "open"
    IN  /\ Asks /\ (\E fd \in Fds : owner[fd] = c) ~> Over
        /\ Asks ~> Over \/ (\A fd \in Fds : owner[fd] # "free")

\* The thread ends after SIGINT, with any number of clients connected.
Ends == shutdown ~> ~Running
=============================================================================
