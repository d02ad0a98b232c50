------------------------- MODULE SelectServer_proofs -------------------------
(* Theorems about SelectServer, for any clients, descriptors and bounds.   *)
EXTENDS SelectServer, TLAPS, SequenceTheorems

(***************************************************************************)
(* The inductive invariant.                                                *)
(***************************************************************************)

\* The listener is watched, and there is one.
Listens ==
  /\ Running => listener_socket \in master_read_set /\ owner[listener_socket] = "listener"
  /\ \A fd \in Fds : owner[fd] = "listener" => fd = listener_socket

\* A connection is in one place: not made, in the backlog, or at one descriptor.
OnePlace ==
  /\ \A f, g \in Fds : owner[f] \in Clients /\ owner[f] = owner[g] => f = g
  /\ \A f \in Fds : owner[f] \in Clients => conn[owner[f]] # "new"
  /\ \A i, j \in DOMAIN backlog : backlog[i] = backlog[j] => i = j
  /\ \A i \in DOMAIN backlog :
       conn[backlog[i]] # "new" /\ \A f \in Fds : owner[f] # backlog[i]

\* ReadyIsCurrent, also during a reply.
Pending ==
  /\ pc = "scan" => \A fd \in read_set : socketfd <= fd =>
       fd \in master_read_set /\ Readable(fd)
  /\ pc = "reply" => \A fd \in read_set : socketfd < fd =>
       fd \in master_read_set /\ Readable(fd)

\* A reply, and a signal at it, is to a request that is there, and in the file
\* server on a socket that nobody watches.
Replying ==
  /\ pc \in {"reply", "killed"} =>
       socketfd \in Fds /\ owner[socketfd] \in Clients /\ request[owner[socketfd]] = "whole"
  /\ pc = "reply" => socketfd \in read_set /\ (kind = "command" <=> socketfd \in master_read_set)
  /\ pc = "killed" => conn[owner[socketfd]] = "closed"

IInv ==
  /\ TypeOK /\ Listens /\ OnePlace /\ OwnDescriptors /\ Pending /\ Replying /\ Watched

\* The values of owner that are no clients.
LEMMA NoClients ==
  "free" \notin Clients /\ "other" \notin Clients /\ "listener" \notin Clients
  /\ "left" \notin Clients
BY ServerAssumption

LEMMA Numbers == MaxRequests \in Nat /\ MaxCuts \in Nat /\ Fds \subseteq Nat
BY ServerAssumption

LEMMA InitSafe == Init => IInv
<1> SUFFICES ASSUME Init PROVE IInv
  OBVIOUS
<1> USE NoClients, Numbers
<1>1. TypeOK
  <2>1. owner \in [Fds -> {"free", "other", "listener", "left"} \cup Clients]
    BY DEF Init
  <2>2. backlog \in Seq(Clients) /\ cuts \in 0 .. MaxCuts /\ asked \in [Clients -> 0 .. MaxRequests + 1]
    BY DEF Init
  <2> QED
    BY <2>1, <2>2 DEF Init, TypeOK
<1>2. Listens /\ OnePlace
  BY DEF Init, Listens, OnePlace
<1>3. OwnDescriptors /\ Pending /\ Replying /\ Watched
  BY DEF Init, OwnDescriptors, Pending, Replying, Watched
<1> QED
  BY <1>1, <1>2, <1>3 DEF IInv

LEMMA SelectSafe ==
  ASSUME IInv, Select
  PROVE  IInv'
<1> USE NoClients, Numbers DEF IInv, Select, setVars, clientVars
<1>1. TypeOK'
  BY DEF TypeOK
<1>2. Listens'
  BY DEF TypeOK, Listens, Running
<1>3. OnePlace'
  BY DEF TypeOK, OnePlace
<1>4. OwnDescriptors'
  BY DEF TypeOK, OwnDescriptors, Running
<1>5. Pending'
  BY DEF TypeOK, Pending, Readable, Listens, OnePlace, Replying, Running
<1>6. Replying'
  BY DEF TypeOK, Replying
<1>7. Watched'
  BY DEF TypeOK, Watched, Running, Replying, OnePlace
<1> QED
  BY <1>1, <1>2, <1>3, <1>4, <1>5, <1>6, <1>7 DEF IInv

LEMMA AcceptSafe ==
  ASSUME IInv, Accept
  PROVE  IInv'
<1> USE NoClients, Numbers DEF IInv
<1>1. PICK fd \in Fds : Lowest(fd) /\ owner' = [owner EXCEPT ![fd] = Head(backlog)]
                        /\ master_read_set' = master_read_set \cup {fd}
                        /\ maxfd' = IF fd > maxfd THEN fd ELSE maxfd
  BY DEF Accept
<1>2. /\ Ready(listener_socket) /\ backlog # <<>> /\ backlog' = Tail(backlog)
      /\ socketfd' = listener_socket + 1
      /\ UNCHANGED <<kind, listener_socket, read_set, pc, shutdown, conn, request, asked, cuts>>
  BY DEF Accept
<1>3. PICK c \in Clients : c = Head(backlog)
  BY <1>2 DEF TypeOK
<1>4. /\ owner[fd] = "free" /\ owner'[fd] = c
      /\ \A f \in Fds \ {fd} : owner'[f] = owner[f]
  BY <1>1, <1>3 DEF Lowest, TypeOK
<1>5. /\ Tail(backlog) \in Seq(Clients)
      /\ \A i \in DOMAIN Tail(backlog) :
           i + 1 \in DOMAIN backlog /\ Tail(backlog)[i] = backlog[i + 1] /\ i \in Nat
      /\ 1 \in DOMAIN backlog /\ c = backlog[1]
  BY <1>2, <1>3 DEF TypeOK
<1>6. conn[c] # "new" /\ (\A f \in Fds : owner[f] # c)
      /\ \A i \in DOMAIN Tail(backlog) : Tail(backlog)[i] # c
  BY <1>5 DEF OnePlace
<1>7. TypeOK'
  BY <1>1, <1>2, <1>3, <1>5 DEF TypeOK
<1>8. Listens'
  BY <1>1, <1>2, <1>4 DEF Listens, TypeOK, Running
<1>9. OnePlace'
  <2>1. \A i, j \in DOMAIN Tail(backlog) : Tail(backlog)[i] = Tail(backlog)[j] => i = j
    BY <1>5 DEF OnePlace
  <2> QED
    BY <1>2, <1>4, <1>5, <1>6, <2>1 DEF OnePlace
<1>10. OwnDescriptors'
  BY <1>1, <1>2, <1>4 DEF OwnDescriptors, Running, TypeOK
<1>11. Pending'
  <2>1. ASSUME NEW f \in read_set, listener_socket + 1 <= f PROVE
          f \in master_read_set /\ owner[f] \in Clients /\ f # fd /\ Readable(f)
    BY <1>2, <1>4, <2>1 DEF Ready, Pending, Readable, Listens, TypeOK
  <2> QED
    BY <1>1, <1>2, <1>4, <2>1 DEF Pending, Ready, Readable, TypeOK
<1>12. Replying'
  BY <1>2 DEF Ready, Replying
<1>13. Watched'
  BY <1>1, <1>2, <1>4 DEF Watched, Running, Ready
<1> QED
  BY <1>7, <1>8, <1>9, <1>10, <1>11, <1>12, <1>13

LEMMA AcceptFailsSafe ==
  ASSUME IInv, AcceptFails
  PROVE  IInv'
<1> USE NoClients, Numbers DEF IInv, AcceptFails, Ready, setVars, clientVars
<1>1. TypeOK'
  BY DEF TypeOK
<1>2. Listens'
  BY DEF TypeOK, Listens, Running
<1>3. OnePlace'
  BY DEF TypeOK, OnePlace
<1>4. OwnDescriptors'
  BY DEF TypeOK, OwnDescriptors, Running
<1>5. Pending'
  BY DEF TypeOK, Pending, Readable, Listens, OnePlace, Replying, Running
<1>6. Replying'
  BY DEF TypeOK, Replying
<1>7. Watched'
  BY DEF TypeOK, Watched, Running, Replying, OnePlace
<1> QED
  BY <1>1, <1>2, <1>3, <1>4, <1>5, <1>6, <1>7 DEF IInv

LEMMA ReceiveSafe ==
  ASSUME IInv, NEW fd \in Fds, Receive(fd)
  PROVE  IInv'
<1> USE NoClients, Numbers DEF IInv, Receive, Ready, setVars, clientVars
<1>1. TypeOK'
  BY DEF TypeOK
<1>2. Listens'
  BY DEF TypeOK, Listens, Running
<1>3. OnePlace'
  BY DEF TypeOK, OnePlace
<1>4. OwnDescriptors'
  BY DEF TypeOK, OwnDescriptors, Running
<1>5. Pending'
  BY DEF TypeOK, Pending, Readable, Listens, OnePlace, Replying, Running
<1>6. Replying'
  BY DEF TypeOK, Pending, Replying
<1>7. Watched'
  BY DEF TypeOK, Watched, Running, Replying, OnePlace
<1> QED
  BY <1>1, <1>2, <1>3, <1>4, <1>5, <1>6, <1>7 DEF IInv

LEMMA GiveUpSafe ==
  ASSUME IInv, NEW fd \in Fds, GiveUp(fd)
  PROVE  IInv'
<1> USE NoClients, Numbers DEF IInv, GiveUp, Broken, Ready, setVars, clientVars
<1>1. TypeOK'
  BY DEF TypeOK
<1>2. Listens'
  BY DEF TypeOK, Listens, Running
<1>3. OnePlace'
  BY DEF TypeOK, OnePlace
<1>4. OwnDescriptors'
  BY DEF TypeOK, OwnDescriptors, Running
<1>5. Pending'
  BY DEF TypeOK, Pending, Readable, Listens, OnePlace, Replying, Running
<1>6. Replying'
  BY DEF TypeOK, Replying
<1>7. Watched'
  BY DEF TypeOK, Watched, Running, Replying, OnePlace
<1> QED
  BY <1>1, <1>2, <1>3, <1>4, <1>5, <1>6, <1>7 DEF IInv

LEMMA ReplySafe ==
  ASSUME IInv, Reply
  PROVE  IInv'
<1> USE NoClients, Numbers DEF IInv
<1>1. PICK own \in Opened :
        owner' = IF kind = "file" THEN [own EXCEPT ![socketfd] = "free"] ELSE own
  BY DEF Reply
<1>2. /\ pc = "reply" /\ pc' = "scan" /\ socketfd' = socketfd + 1
      /\ UNCHANGED <<kind, setVars, read_set, shutdown, backlog, conn, asked, cuts>>
  BY DEF Reply
<1>3. PICK c \in Clients : c = owner[socketfd]
  BY <1>2 DEF Replying
<1>4. \E r \in {"answered", "none"} : request' = [request EXCEPT ![c] = r]
  BY <1>3 DEF Reply
<1>5. socketfd \in Fds
  BY <1>2 DEF Replying
<1>6. \A f \in Fds : \/ owner'[f] = owner[f] /\ (f = socketfd => kind = "command")
                     \/ owner[f] = "free" /\ owner'[f] = "left"
                     \/ f = socketfd /\ owner'[f] = "free" /\ kind = "file"
  <2>1. \A f \in Fds : \/ own[f] = owner[f]
                       \/ owner[f] = "free" /\ own[f] = "left"
    BY <1>1 DEF Opened, Lowest, TypeOK
  <2>2. DOMAIN own = Fds
    BY <1>1 DEF Opened, TypeOK
  <2> QED
    BY <1>1, <1>3, <1>5, <2>1, <2>2 DEF TypeOK
<1>7. owner' \in [Fds -> {"free", "other", "listener", "left"} \cup Clients]
  <2>1. own \in [Fds -> {"free", "other", "listener", "left"} \cup Clients]
    BY <1>1 DEF Opened, TypeOK
  <2> QED
    BY <1>1, <2>1
<1>8. TypeOK'
  BY <1>2, <1>4, <1>5, <1>7 DEF TypeOK, setVars
<1>9. Listens'
  BY <1>2, <1>3, <1>6 DEF Listens, TypeOK, Running, setVars
<1>10. OnePlace'
  <2>1. \A i \in DOMAIN backlog : backlog[i] \in Clients
    BY DEF TypeOK
  <2>2. \A f \in Fds : owner'[f] \in Clients => owner'[f] = owner[f]
    BY <1>6
  <2> QED
    BY <1>2, <2>1, <2>2 DEF OnePlace
<1>11. OwnDescriptors'
  <2>1. kind = "file" => socketfd \notin master_read_set
    BY <1>2 DEF Replying
  <2> QED
    BY <1>2, <1>6, <2>1 DEF OwnDescriptors, Running, TypeOK, setVars
<1>12. Pending'
  <2>1. ASSUME NEW f \in read_set, socketfd + 1 <= f
        PROVE  f \in master_read_set' /\ Readable(f)'
    <3>1. f \in master_read_set /\ Readable(f) /\ f \in Fds /\ f # socketfd
      BY <1>2, <1>5, <2>1 DEF Pending, TypeOK
    <3>2. owner'[f] = owner[f] /\ owner[f] # c
      BY <1>3, <1>5, <1>6, <3>1 DEF Readable, OnePlace
    <3> QED
      BY <1>2, <1>4, <3>1, <3>2 DEF Readable, TypeOK, setVars
  <2> QED
    BY <1>2, <2>1 DEF Pending
<1>13. Replying'
  BY <1>2 DEF Replying
<1>14. Watched'
  <2>1. ASSUME NEW f \in Fds, owner'[f] \in Clients, f # socketfd
        PROVE  owner[f] = owner'[f] /\ owner[f] # c
    BY <1>3, <1>5, <1>6, <2>1 DEF OnePlace
  <2>2. owner'[socketfd] \in Clients => socketfd \in master_read_set
    BY <1>2, <1>5, <1>6 DEF Replying, TypeOK
  <2> QED
    BY <1>2, <1>4, <2>1, <2>2 DEF Watched, Running, TypeOK, setVars
<1> QED
  BY <1>8, <1>9, <1>10, <1>11, <1>12, <1>13, <1>14

LEMMA EndScanSafe ==
  ASSUME IInv, EndScan
  PROVE  IInv'
<1> USE NoClients, Numbers DEF IInv, EndScan, setVars, clientVars
<1>1. TypeOK'
  BY DEF TypeOK
<1>2. Listens'
  BY DEF TypeOK, Listens, Running
<1>3. OnePlace'
  BY DEF TypeOK, OnePlace
<1>4. OwnDescriptors'
  BY DEF TypeOK, OwnDescriptors, Running
<1>5. Pending'
  BY DEF TypeOK, Pending, Readable, Listens, OnePlace, Replying, Running
<1>6. Replying'
  BY DEF TypeOK, Replying
<1>7. Watched'
  BY DEF TypeOK, Watched, Running, Replying, OnePlace
<1> QED
  BY <1>1, <1>2, <1>3, <1>4, <1>5, <1>6, <1>7 DEF IInv

LEMMA EndSafe ==
  ASSUME IInv, End
  PROVE  IInv'
<1> USE NoClients, Numbers DEF IInv, End, Closed, setVars, clientVars
<1>1. TypeOK'
  BY DEF TypeOK
<1>2. Listens'
  BY DEF TypeOK, Listens, Running
<1>3. OnePlace'
  BY DEF TypeOK, OnePlace
<1>4. OwnDescriptors'
  BY DEF TypeOK, OwnDescriptors, Running
<1>5. Pending'
  BY DEF TypeOK, Pending, Readable, Listens, OnePlace, Replying, Running
<1>6. Replying'
  BY DEF TypeOK, Replying
<1>7. Watched'
  BY DEF TypeOK, Watched, Running, Replying, OnePlace
<1> QED
  BY <1>1, <1>2, <1>3, <1>4, <1>5, <1>6, <1>7 DEF IInv

LEMMA StopSafe ==
  ASSUME IInv, NoDirectory \/ SigPipe \/ SetShutdown
  PROVE  IInv'
<1> USE NoClients, Numbers DEF IInv, NoDirectory, SigPipe, SetShutdown, setVars, clientVars
<1>1. TypeOK'
  BY DEF TypeOK
<1>2. Listens'
  BY DEF TypeOK, Listens, Running
<1>3. OnePlace'
  BY DEF TypeOK, OnePlace
<1>4. OwnDescriptors'
  BY DEF TypeOK, OwnDescriptors, Running
<1>5. Pending'
  BY DEF TypeOK, Pending, Readable, Listens, OnePlace, Replying, Running
<1>6. Replying'
  BY DEF TypeOK, Replying
<1>7. Watched'
  BY DEF TypeOK, Watched, Running, Replying, OnePlace
<1> QED
  BY <1>1, <1>2, <1>3, <1>4, <1>5, <1>6, <1>7 DEF IInv

LEMMA ClientSafe ==
  ASSUME IInv, NEW c \in Clients, Client(c)
  PROVE  IInv'
<1> USE NoClients, Numbers DEF IInv
<1>1. UNCHANGED <<kind, owner, listener_socket, master_read_set, maxfd, read_set, socketfd, pc,
                  shutdown>>
  BY DEF Client, setVars
<1>2. TypeOK'
  <2>1. CASE Connect(c)
    BY <1>1, <2>1 DEF Connect, TypeOK
  <2>2. CASE SendLength(c)
    <3>1. asked[c] + 1 \in 0 .. MaxRequests + 1
      BY <2>2 DEF SendLength, TypeOK
    <3>2. asked' = [asked EXCEPT ![c] = asked[c] + 1] /\ UNCHANGED <<backlog, conn, cuts>>
          /\ request' = [request EXCEPT ![c] = "partial"]
      BY <2>2 DEF SendLength
    <3>3. asked' \in [Clients -> 0 .. MaxRequests + 1]
      BY <3>1, <3>2 DEF TypeOK
    <3> QED
      BY <1>1, <3>2, <3>3 DEF TypeOK
  <2>3. CASE SendBody(c) \/ ReadAnswer(c)
    BY <1>1, <2>3 DEF SendBody, ReadAnswer, TypeOK
  <2>5. CASE SendCutBody(c)
    BY <1>1, <2>5 DEF SendCutBody, TypeOK
  <2>4. CASE Close(c) \/ Die(c)
    BY <1>1, <2>4 DEF Close, Die, TypeOK
  <2> QED
    BY <2>1, <2>2, <2>3, <2>4, <2>5 DEF Client
<1>3. Listens' /\ OwnDescriptors'
  BY <1>1 DEF Listens, OwnDescriptors, Running
<1>4. OnePlace'
  <2>1. CASE Connect(c)
    <3>1. \A f \in Fds : owner[f] # c
      BY <2>1 DEF Connect, OnePlace, TypeOK
    <3>2. \A i \in DOMAIN backlog : backlog[i] # c
      BY <2>1 DEF Connect, OnePlace, TypeOK
    <3>3. /\ DOMAIN backlog' = 1 .. Len(backlog) + 1 /\ backlog'[Len(backlog) + 1] = c
          /\ \A i \in 1 .. Len(backlog) : i \in DOMAIN backlog /\ backlog'[i] = backlog[i]
      BY <2>1 DEF Connect, TypeOK
    <3>4. \A d \in Clients : conn[d] # "new" => conn'[d] # "new"
      BY <2>1 DEF Connect, TypeOK
    <3>5. conn'[c] # "new" /\ Len(backlog) \in Nat
          /\ \A i \in DOMAIN backlog : backlog[i] \in Clients
      BY <2>1 DEF Connect, TypeOK
    <3>6. \A i \in 1 .. Len(backlog) + 1 : i \in DOMAIN backlog \/ i = Len(backlog) + 1
      BY <3>5 DEF TypeOK
    <3> QED
      BY <1>1, <3>1, <3>2, <3>3, <3>4, <3>5, <3>6 DEF OnePlace
  <2>2. CASE UNCHANGED backlog /\ \A d \in Clients : conn[d] # "new" => conn'[d] # "new"
    <3>1. \A i \in DOMAIN backlog : backlog[i] \in Clients
      BY DEF TypeOK
    <3> QED
      BY <1>1, <2>2, <3>1 DEF OnePlace
  <2> QED
    BY <2>1, <2>2 DEF Client, SendLength, SendBody, SendCutBody, ReadAnswer, Close, Die, TypeOK
<1>5. \A f : Readable(f) => Readable(f)'
  <2>1. backlog # <<>> => backlog' # <<>>
    BY DEF Client, Connect, SendLength, SendBody, SendCutBody, ReadAnswer, Close, Die, TypeOK
  <2>2. \A d \in Clients : conn[d] = "closed" => conn'[d] = "closed"
    BY DEF Client, Connect, SendLength, SendBody, SendCutBody, ReadAnswer, Close, Die, TypeOK
  <2>3. \A d \in Clients : request[d] \in {"partial", "whole", "cut"}
                           => request'[d] \in {"partial", "whole", "cut"}
    BY DEF Client, Connect, SendLength, SendBody, SendCutBody, ReadAnswer, Close, Die, TypeOK
  <2> QED
    BY <1>1, <2>1, <2>2, <2>3 DEF Readable
<1>6. Pending'
  BY <1>1, <1>5 DEF Pending
<1>7. \A d \in Clients : /\ request[d] = "whole" => request'[d] = "whole"
                         /\ request[d] = "cut" => request'[d] = "cut"
                         /\ conn[d] = "closed" => conn'[d] = "closed"
  BY DEF Client, Connect, SendLength, SendBody, SendCutBody, ReadAnswer, Close, Die, TypeOK
<1>8. Replying'
  BY <1>1, <1>7 DEF Replying
<1>9. Watched'
  BY <1>1, <1>7 DEF Watched, Running
<1> QED
  BY <1>2, <1>3, <1>4, <1>6, <1>8, <1>9

LEMMA OthersSafe ==
  ASSUME IInv, Running, NEW fd \in Fds, OtherOpens(fd) \/ OtherCloses(fd)
  PROVE  IInv'
<1> USE NoClients, Numbers DEF IInv
<1>1. /\ owner[fd] \in {"free", "other"} /\ owner'[fd] \in {"free", "other"}
      /\ \A f \in Fds \ {fd} : owner'[f] = owner[f]
      /\ owner' \in [Fds -> {"free", "other", "listener", "left"} \cup Clients]
  BY DEF OtherOpens, OtherCloses, Lowest, TypeOK
<1>2. UNCHANGED <<kind, setVars, read_set, socketfd, pc, shutdown, clientVars>>
  BY DEF OtherOpens, OtherCloses
<1>3. TypeOK'
  BY <1>1, <1>2 DEF TypeOK, setVars, clientVars
<1>4. Listens'
  BY <1>1, <1>2 DEF TypeOK, Listens, Running, setVars
<1>5. OnePlace'
  <2>1. \A i \in DOMAIN backlog : backlog[i] \in Clients
    BY DEF TypeOK
  <2>2. \A f \in Fds : owner'[f] \in Clients => owner'[f] = owner[f]
    BY <1>1
  <2> QED
    BY <1>2, <2>1, <2>2 DEF OnePlace, clientVars
<1>6. OwnDescriptors'
  BY <1>1, <1>2 DEF OwnDescriptors, Running, TypeOK, setVars
<1>7. \A f \in Fds : Readable(f) => Readable(f)'
  BY <1>1, <1>2 DEF Readable, clientVars
<1>8. Pending'
  BY <1>2, <1>7 DEF Pending, TypeOK, setVars
<1>9. Replying'
  BY <1>1, <1>2 DEF Replying, clientVars, setVars
<1>10. Watched'
  BY <1>1, <1>2 DEF Watched, Running, clientVars, setVars
<1> QED
  BY <1>3, <1>4, <1>5, <1>6, <1>8, <1>9, <1>10

LEMMA NextSafe ==
  ASSUME IInv, [Next]_vars
  PROVE  IInv'
<1>1. CASE UNCHANGED vars
  BY <1>1 DEF IInv, vars, setVars, clientVars, TypeOK, Listens, OnePlace, OwnDescriptors,
              Pending, Readable, Replying, Watched, Running
<1>2. CASE Next
  BY <1>2, SelectSafe, AcceptSafe, AcceptFailsSafe, ReceiveSafe, GiveUpSafe, ReplySafe,
     EndScanSafe, EndSafe, StopSafe, ClientSafe, OthersSafe DEF Next, ServerStep
<1> QED
  BY <1>1, <1>2

LEMMA Inductive == Spec => []IInv
BY InitSafe, NextSafe, PTL DEF Spec

(***************************************************************************)
(* The theorems.                                                           *)
(***************************************************************************)

\* Every variable has its type.
THEOREM TypeCorrect == Spec => []TypeOK
<1>1. IInv => TypeOK
  BY DEF IInv
<1> QED
  BY <1>1, Inductive, PTL

\* The server watches its listener and connections it has accepted and not
\* closed, for any number of threads that open and close descriptors besides.
THEOREM OwnDescriptorsCorrect == Spec => []OwnDescriptors
<1>1. IInv => OwnDescriptors
  BY DEF IInv
<1> QED
  BY <1>1, Inductive, PTL

\* A socket that select found ready is ready when its turn comes.
THEOREM ReadyIsCurrentCorrect == Spec => []ReadyIsCurrent
<1>1. IInv => ReadyIsCurrent
  BY DEF IInv, Pending, ReadyIsCurrent
<1> QED
  BY <1>1, Inductive, PTL

\* No accepted client is forgotten.
THEOREM WatchedCorrect == Spec => []Watched
<1>1. IInv => Watched
  BY DEF IInv
<1> QED
  BY <1>1, Inductive, PTL

(***************************************************************************)
(* SelectServer implements Service.                                        *)
(***************************************************************************)

\* The mapping: what clients see of their requests, the accepted connections,
\* those that this pass has still to look at, and how the process does.
Requests == [c \in Clients |-> IF request[c] = "partial" THEN "none" ELSE request[c]]
Accepted == {c \in Clients : Running /\ \E fd \in Fds : owner[fd] = c}
Turn == {c \in Clients : /\ pc \in {"scan", "reply"}
                         /\ \E fd \in read_set : socketfd <= fd /\ owner[fd] = c}
Status == IF Running THEN "up" ELSE pc

LEMMA InitImplements == Init => Srv!Init
<1> SUFFICES ASSUME Init PROVE Srv!Init
  OBVIOUS
<1>1. Requests = [c \in Clients |-> "none"]
  BY DEF Init, Requests
<1>2. Accepted = {} /\ Turn = {} /\ Status = "up"
  BY NoClients DEF Init, Accepted, Turn, Status, Running
<1> QED
  BY <1>1, <1>2 DEF Init, Srv!Init, Requests, Accepted, Turn, Status

\* The pass goes on behind fd: a client there had its turn, and was the first.
LEMMA NextTurn ==
  ASSUME TypeOK, OnePlace, pc \in {"scan", "reply"}, pc' = "scan",
         NEW fd \in read_set, owner[fd] \in Clients, socketfd <= fd, socketfd' = fd + 1,
         \A f \in read_set : socketfd <= f => fd <= f, read_set' = read_set,
         \A f \in read_set : fd < f => owner'[f] = owner[f]
  PROVE  owner[fd] \in Turn /\ Turn' = Turn \ {owner[fd]}
<1> USE Numbers DEF TypeOK
<1>1. owner[fd] \in Turn
  BY DEF Turn
<1>2. ASSUME NEW c \in Turn'
      PROVE  c \in Turn /\ c # owner[fd]
  <2>1. PICK f \in read_set : fd + 1 <= f /\ owner'[f] = c
    BY DEF Turn
  <2>2. f \in Fds /\ fd \in Fds /\ fd < f /\ socketfd <= f /\ owner[f] = c
    BY <2>1
  <2> QED
    BY <2>2 DEF Turn, OnePlace
<1>3. ASSUME NEW c \in Turn, c # owner[fd] PROVE c \in Turn'
  <2>1. PICK f \in read_set : socketfd <= f /\ owner[f] = c
    BY DEF Turn
  <2>2. f \in Fds /\ fd \in Fds /\ fd <= f /\ f # fd
    BY <1>3, <2>1
  <2>3. fd < f /\ fd + 1 <= f
    BY <2>2
  <2>4. owner'[f] = c
    BY <2>1, <2>3
  <2> QED
    BY <2>3, <2>4 DEF Turn
<1> QED
  BY <1>1, <1>2, <1>3

\* The pass goes on to fd, or behind it when nobody is there.
LEMMA SameTurn ==
  ASSUME TypeOK, pc = "scan", pc' \in {"scan", "reply"},
         NEW fd \in read_set, socketfd <= fd,
         socketfd' = fd \/ (socketfd' = fd + 1 /\ owner[fd] \notin Clients),
         \A f \in read_set : socketfd <= f => fd <= f, read_set' = read_set,
         \A f \in read_set : fd <= f => owner'[f] = owner[f]
  PROVE  Turn' = Turn
<1> USE Numbers DEF TypeOK
<1>1. ASSUME NEW c \in Turn' PROVE c \in Turn
  <2>1. PICK f \in read_set : socketfd' <= f /\ owner'[f] = c
    BY DEF Turn
  <2>2. f \in Fds /\ fd \in Fds /\ fd <= f
    BY <2>1
  <2>3. socketfd <= f /\ owner[f] = c
    BY <2>1, <2>2
  <2> QED
    BY <2>3 DEF Turn
<1>2. ASSUME NEW c \in Turn PROVE c \in Turn'
  <2>1. PICK f \in read_set : socketfd <= f /\ owner[f] = c
    BY DEF Turn
  <2>2. f \in Fds /\ fd \in Fds /\ fd <= f /\ owner'[f] = c /\ c \in Clients
    BY <2>1 DEF Turn
  <2>3. socketfd' <= f
    BY <2>1, <2>2
  <2> QED
    BY <2>2, <2>3 DEF Turn
<1> QED
  BY <1>1, <1>2

LEMMA SelectImplements ==
  ASSUME IInv, Select
  PROVE  Srv!Round
<1> USE DEF IInv, Select, setVars, clientVars
<1>1. Turn = {} /\ Status = "up" /\ Status' = "up"
  BY DEF Turn, Status, Running
<1>2. Accepted' = Accepted /\ Requests' = Requests
  BY DEF Accepted, Requests, Running
<1>3. Turn' \in SUBSET Accepted
  BY DEF Turn, Accepted, Running, TypeOK
<1>4. ASSUME NEW c \in Accepted, Requests[c] = "whole", conn[c] = "open"
      PROVE  c \in Turn'
  <2>1. PICK fd \in Fds : owner[fd] = c
    BY DEF Accepted
  <2>2. c \in Clients /\ request[c] = "whole"
    BY <1>4 DEF Accepted, Requests
  <2>3. fd \in master_read_set /\ fd <= maxfd
    BY <1>4, <2>1, <2>2 DEF Watched, OwnDescriptors, Running
  <2>4. fd \in read_set' /\ 0 <= fd
    BY <2>1, <2>2, <2>3, Numbers DEF Readable
  <2> QED
    BY <2>1, <2>2, <2>4 DEF Turn
<1> QED
  BY <1>1, <1>2, <1>3, <1>4
     DEF Srv!Round, Srv!Waits, Srv!clients, Requests, Accepted, Turn, Status

LEMMA AcceptImplements ==
  ASSUME IInv, Accept
  PROVE  Srv!Accept
<1> USE NoClients, Numbers DEF IInv
<1>1. PICK fd \in Fds : Lowest(fd) /\ owner' = [owner EXCEPT ![fd] = Head(backlog)]
  BY DEF Accept
<1>2. /\ Ready(listener_socket) /\ backlog # <<>> /\ backlog' = Tail(backlog)
      /\ socketfd' = listener_socket + 1
      /\ UNCHANGED <<kind, listener_socket, read_set, pc, shutdown, conn, request, asked, cuts>>
  BY DEF Accept
<1>3. PICK c \in Clients : c = Head(backlog)
  BY <1>2 DEF TypeOK
<1>4. /\ owner[fd] = "free" /\ owner'[fd] = c
      /\ \A f \in Fds \ {fd} : owner'[f] = owner[f]
  BY <1>1, <1>3 DEF Lowest, TypeOK
<1>5. Status = "up" /\ Status' = "up" /\ Requests' = Requests
  BY <1>2 DEF Ready, Status, Requests, Running
<1>6. Accepted' = Accepted \cup {c}
  BY <1>2, <1>3, <1>4 DEF Accepted, Ready, Running
<1>7. Turn' = Turn
  <2>1. \A f \in read_set : listener_socket <= f => owner'[f] = owner[f]
    <3>1. \A f \in read_set : socketfd <= f => Readable(f)
      BY <1>2 DEF Ready, Pending
    <3>2. ASSUME NEW f \in read_set, listener_socket <= f PROVE f # fd
      BY <1>2, <1>4, <3>1, <3>2 DEF Ready, Readable, TypeOK
    <3> QED
      BY <1>4, <3>2 DEF TypeOK
  <2>2. owner[listener_socket] \notin Clients
    BY <1>2 DEF Ready, Listens, Running
  <2> QED
    BY <1>2, <2>1, <2>2, SameTurn DEF Ready
<1> QED
  BY <1>2, <1>3, <1>5, <1>6, <1>7
     DEF Srv!Accept, Srv!clients, Requests, Accepted, Turn, Status

\* A step that clients see nothing of.
LEMMA Stutter ==
  ASSUME UNCHANGED <<conn, backlog, shutdown>>, Requests' = Requests,
         Accepted' = Accepted, Turn' = Turn, Status' = Status
  PROVE  UNCHANGED Srv!vars
BY DEF Srv!vars, Srv!clients, Srv!server, Requests, Accepted, Turn, Status

LEMMA PassImplements ==
  ASSUME IInv, \/ AcceptFails \/ EndScan \/ \E fd \in Fds : Receive(fd)
  PROVE  UNCHANGED Srv!vars
<1> USE NoClients, Numbers DEF IInv, setVars, clientVars
<1>1. UNCHANGED <<conn, backlog, shutdown, request, owner>> /\ Running /\ Running'
  BY DEF AcceptFails, EndScan, Receive, Ready, Running
<1>2. Requests' = Requests /\ Accepted' = Accepted /\ Status' = Status
  BY <1>1 DEF Requests, Accepted, Status
<1>3. CASE AcceptFails
  <2>1. owner[listener_socket] \notin Clients
    BY <1>1 DEF Listens
  <2> QED
    BY <1>1, <1>2, <1>3, <2>1, SameTurn, Stutter DEF AcceptFails, Ready
<1>4. ASSUME NEW fd \in Fds, Receive(fd) PROVE Turn' = Turn
  BY <1>4, <1>1, SameTurn DEF Receive, Ready
<1>5. CASE EndScan
  <2>1. Turn = {} /\ Turn' = {}
    BY <1>5 DEF EndScan, Turn, TypeOK
  <2> QED
    BY <1>1, <1>2, <2>1, Stutter
<1> QED
  BY <1>1, <1>2, <1>3, <1>4, <1>5, Stutter

LEMMA GiveUpImplements ==
  ASSUME IInv, NEW fd \in Fds, GiveUp(fd), NEW c \in Clients, c = owner[fd]
  PROVE  Srv!GiveUp(c)
<1> USE NoClients, Numbers DEF IInv, GiveUp, Ready, clientVars
<1>1. c \in Turn /\ Turn' = Turn \ {c}
  BY NextTurn
<1>2. /\ Requests' = Requests /\ Accepted' = Accepted
      /\ Status = "up" /\ Status' = "up"
  BY DEF Requests, Accepted, Status, Running
<1>3. \/ Requests[c] = "cut"
      \/ Requests[c] # "whole" /\ conn[c] = "closed"
  BY DEF Requests, Broken
<1> QED
  BY <1>1, <1>2, <1>3
     DEF Srv!GiveUp, Srv!clients, Requests, Accepted, Turn, Status

LEMMA ReplyImplements ==
  ASSUME IInv, Reply, NEW c \in Clients, c = owner[socketfd]
  PROVE  Srv!Answer(c)
<1> USE NoClients, Numbers DEF IInv
<1>1. PICK own \in Opened :
        owner' = IF kind = "file" THEN [own EXCEPT ![socketfd] = "free"] ELSE own
  BY DEF Reply
<1>2. /\ pc = "reply" /\ pc' = "scan" /\ socketfd' = socketfd + 1
      /\ UNCHANGED <<read_set, shutdown, backlog, conn>>
      /\ request' = [request EXCEPT ![c] = IF conn[c] = "open" THEN "answered" ELSE "none"]
  BY DEF Reply
<1>3. socketfd \in Fds /\ c \in Clients /\ request[c] = "whole" /\ socketfd \in read_set
  BY <1>2 DEF Replying
<1>4. \A f \in Fds : \/ owner'[f] = owner[f]
                     \/ owner[f] = "free" /\ owner'[f] = "left"
                     \/ f = socketfd /\ owner'[f] = "free"
  <2>1. \A f \in Fds : \/ own[f] = owner[f]
                       \/ owner[f] = "free" /\ own[f] = "left"
    BY <1>1 DEF Opened, Lowest, TypeOK
  <2>2. DOMAIN own = Fds
    BY <1>1 DEF Opened, TypeOK
  <2> QED
    BY <1>1, <1>3, <2>1, <2>2 DEF TypeOK
<1>5. c \in Turn /\ Turn' = Turn \ {c}
  <2>1. ASSUME NEW f \in read_set, socketfd < f PROVE owner'[f] = owner[f]
    <3>1. f \in Fds /\ socketfd # f
      BY <1>3, <2>1 DEF TypeOK
    <3>2. owner[f] # "free"
      BY <1>2, <2>1 DEF Pending, Readable
    <3> QED
      BY <1>4, <3>1, <3>2
  <2>2. \A f \in read_set : socketfd <= f => socketfd <= f
    OBVIOUS
  <2> QED
    BY <1>2, <1>3, <2>1, <2>2, NextTurn
<1>6. Accepted' \in {Accepted, Accepted \ {c}}
  <2>1. \A d \in Clients, f \in Fds : owner'[f] = d => owner[f] = d
    BY <1>4
  <2>2. \A d \in Clients, f \in Fds : owner[f] = d /\ d # c => owner'[f] = d
    BY <1>3, <1>4
  <2>3. Running /\ Running'
    BY <1>2 DEF Running
  <2>4. Accepted' \subseteq Accepted /\ Accepted \ {c} \subseteq Accepted'
    BY <2>1, <2>2, <2>3 DEF Accepted
  <2> QED
    BY <2>4
<1>7. Requests[c] = "whole"
      /\ Requests' = [Requests EXCEPT ![c] = IF conn[c] = "open" THEN "answered" ELSE "none"]
  BY <1>2, <1>3 DEF Requests, TypeOK
<1>8. Status = "up" /\ Status' = "up"
  BY <1>2 DEF Status, Running
<1> QED
  BY <1>2, <1>5, <1>6, <1>7, <1>8
     DEF Srv!Answer, Requests, Accepted, Turn, Status

\* The process ends, by itself or at a reply.
LEMMA EndImplements ==
  ASSUME IInv, End \/ NoDirectory \/ SigPipe
  PROVE  Srv!End
<1> USE DEF IInv, clientVars
<1>1. /\ UNCHANGED <<conn, request, backlog, shutdown>>
      /\ pc' \in {"ended", "crashed", "killed"}
  BY DEF End, NoDirectory, SigPipe
<1>2. Accepted' = {} /\ Turn' = {} /\ Status' = pc' /\ Requests' = Requests
  BY <1>1 DEF Accepted, Turn, Status, Requests, Running
<1>3. Status = "up"
  BY DEF End, NoDirectory, SigPipe, Status, Running
<1>4. CASE End
  <2>1. Turn = {} /\ pc' = "ended" /\ shutdown
    BY <1>4 DEF End, Turn
  <2> QED
    BY <1>1, <1>2, <1>3, <2>1
       DEF Srv!End, Srv!clients, Requests, Accepted, Turn, Status
<1>5. CASE NoDirectory \/ SigPipe
  <2> DEFINE c == owner[socketfd]
  <2>1. pc = "reply"
    BY <1>5 DEF NoDirectory, SigPipe
  <2>2. c \in Clients /\ request[c] = "whole" /\ socketfd \in read_set /\ socketfd \in Nat
    BY <2>1 DEF Replying, TypeOK
  <2>3. c \in Turn /\ Requests[c] = "whole"
    BY <2>1, <2>2 DEF Turn, Requests
  <2>4. pc' = "crashed" \/ (pc' = "killed" /\ conn[c] = "closed")
    BY <1>5 DEF NoDirectory, SigPipe
  <2> QED
    BY <1>1, <1>2, <1>3, <2>2, <2>3, <2>4
       DEF Srv!End, Srv!Asked, Srv!clients, Requests, Accepted, Turn, Status
<1> QED
  BY <1>4, <1>5

LEMMA ClientImplements ==
  ASSUME IInv, NEW c \in Clients, Client(c)
  PROVE  [Srv!Next]_(Srv!vars)
<1> USE DEF IInv
<1>1. UNCHANGED <<owner, read_set, socketfd, pc, shutdown>>
  BY DEF Client
<1>2. Accepted' = Accepted /\ Turn' = Turn /\ Status' = Status
  BY <1>1 DEF Accepted, Turn, Status, Running
<1>3. CASE Connect(c)
  <2>1. Requests' = Requests
    BY <1>3 DEF Connect, Requests
  <2> QED
    BY <1>1, <1>2, <1>3, <2>1
       DEF Connect, Srv!Connect, Srv!Next, Requests, Accepted, Turn, Status
<1>4. CASE SendLength(c)
  <2>1. Requests' = Requests
    BY <1>4 DEF SendLength, Requests, TypeOK
  <2> QED
    BY <1>1, <1>2, <1>4, <2>1, Stutter DEF SendLength
<1>5. CASE SendBody(c) \/ SendCutBody(c)
  <2>1. /\ conn[c] = "open" /\ request[c] = "partial" /\ UNCHANGED <<conn, backlog>>
        /\ \E r \in {"whole", "cut"} : request' = [request EXCEPT ![c] = r]
    BY <1>5 DEF SendBody, SendCutBody
  <2>2. Requests[c] = "none"
    BY <2>1 DEF Requests
  <2>3. \E r \in {"whole", "cut"} : Requests' = [Requests EXCEPT ![c] = r]
    <3>1. PICK r \in {"whole", "cut"} : request' = [request EXCEPT ![c] = r]
      BY <2>1
    <3>2. Requests' = [Requests EXCEPT ![c] = r]
      BY <3>1 DEF Requests, TypeOK
    <3> QED
      BY <3>2
  <2> QED
    BY <1>1, <1>2, <2>1, <2>2, <2>3
       DEF Srv!Ask, Srv!server, Srv!Next, Requests, Accepted, Turn, Status
<1>6. CASE ReadAnswer(c)
  <2>1. /\ conn[c] = "open" /\ Requests[c] = "answered" /\ UNCHANGED <<conn, backlog>>
        /\ Requests' = [Requests EXCEPT ![c] = "none"]
    BY <1>6 DEF ReadAnswer, Requests, TypeOK
  <2> QED
    BY <1>1, <1>2, <2>1
       DEF Srv!ReadAnswer, Srv!server, Srv!Next, Requests, Accepted, Turn, Status
<1>7. CASE Close(c) \/ Die(c)
  <2>1. /\ conn[c] = "open" /\ conn' = [conn EXCEPT ![c] = "closed"]
        /\ UNCHANGED backlog /\ Requests' = Requests
    BY <1>7 DEF Close, Die, Requests
  <2> QED
    BY <1>1, <1>2, <2>1
       DEF Srv!Leave, Srv!server, Srv!Next, Requests, Accepted, Turn, Status
<1> QED
  BY <1>3, <1>4, <1>5, <1>6, <1>7 DEF Client

LEMMA OthersImplement ==
  ASSUME IInv, NEW fd \in Fds, OtherOpens(fd) \/ OtherCloses(fd)
  PROVE  UNCHANGED Srv!vars
<1> USE NoClients DEF IInv
<1>1. /\ owner[fd] \in {"free", "other"} /\ owner'[fd] \in {"free", "other"}
      /\ \A f \in Fds \ {fd} : owner'[f] = owner[f]
  BY DEF OtherOpens, OtherCloses, Lowest, TypeOK
<1>2. UNCHANGED <<read_set, socketfd, pc, shutdown, backlog, conn, request>>
  BY DEF OtherOpens, OtherCloses, clientVars
<1>3. \A c \in Clients, f \in Fds : owner'[f] = c <=> owner[f] = c
  BY <1>1
<1>4. /\ Requests' = Requests /\ Accepted' = Accepted /\ Status' = Status
  BY <1>2, <1>3 DEF Requests, Accepted, Status, Running
<1>5. Turn' = Turn
  BY <1>2, <1>3 DEF Turn, TypeOK
<1> QED
  BY <1>2, <1>4, <1>5, Stutter

LEMMA NextImplements == IInv /\ [Next]_vars => [Srv!Next]_(Srv!vars)
<1> SUFFICES ASSUME IInv, [Next]_vars PROVE [Srv!Next]_(Srv!vars)
  OBVIOUS
<1>1. ASSUME NEW fd \in Fds, GiveUp(fd) PROVE Srv!Next
  <2>1. PICK c \in Clients : c = owner[fd]
    BY <1>1 DEF GiveUp
  <2>2. Srv!GiveUp(c)
    BY <1>1, <2>1, GiveUpImplements
  <2> QED
    BY <2>2 DEF Srv!Next
<1>2. ASSUME Reply PROVE Srv!Next
  <2>1. PICK c \in Clients : c = owner[socketfd]
    BY <1>2 DEF Reply, IInv, Replying
  <2>2. Srv!Answer(c)
    BY <1>2, <2>1, ReplyImplements
  <2> QED
    BY <2>2 DEF Srv!Next
<1>3. ASSUME Select \/ Accept \/ End \/ NoDirectory \/ SigPipe PROVE Srv!Next
  BY <1>3, SelectImplements, AcceptImplements, EndImplements DEF Srv!Next
<1>4. ASSUME AcceptFails \/ EndScan \/ \E fd \in Fds : Receive(fd)
      PROVE  UNCHANGED Srv!vars
  BY <1>4, PassImplements
<1>5. ASSUME SetShutdown PROVE Srv!Next
  <2>1. /\ Requests' = Requests /\ Accepted' = Accepted /\ Turn' = Turn
        /\ Status' = Status
    BY <1>5 DEF SetShutdown, setVars, clientVars, Requests, Accepted, Turn, Status, Running
  <2> QED
    BY <1>5, <2>1 DEF SetShutdown, clientVars, Srv!Stop, Srv!clients, Srv!Next,
                      Requests, Accepted, Turn, Status
<1>6. CASE UNCHANGED vars
  <2>1. /\ Requests' = Requests /\ Accepted' = Accepted /\ Turn' = Turn
        /\ Status' = Status /\ UNCHANGED <<conn, backlog, shutdown>>
    BY <1>6 DEF vars, setVars, clientVars, Requests, Accepted, Turn, Status, Running
  <2> QED
    BY <2>1, Stutter
<1> QED
  BY <1>1, <1>2, <1>3, <1>4, <1>5, <1>6, ClientImplements, OthersImplement
     DEF Next, ServerStep

\* The loop over descriptor numbers, which the kernel gives out anew all the
\* time, implements a server that knows only connections and answers in
\* rounds, for any number of clients and descriptors.
THEOREM Refinement == Spec => ImplementsService
<1>1. IInv /\ [Next]_vars => [Srv!Next]_(Srv!vars)
  BY NextImplements
<1> QED
  BY <1>1, InitImplements, Inductive, PTL DEF Spec, Srv!Spec, ImplementsService
=============================================================================
