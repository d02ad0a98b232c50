-------------------------- MODULE Discovery_proofs --------------------------
(***************************************************************************)
(* The invariants of Discovery, for any number of hosts, interfaces and    *)
(* starts.  Types need nothing but the assumptions on the constants; that  *)
(* peers are genuine and announced once needs hosts with distinct hardware *)
(* addresses, without which two hosts may have the same id.                *)
(***************************************************************************)
EXTENDS Discovery, PeerLists_proofs, FiniteSetTheorems

Macs == {Mac[g] : g \in Hosts}
Senders == Macs \cup 0 .. MaxSeconds \cup {"stray"}
Packets == [type : {"DISCOVER", "AVAILABLE", "other"}, sender : Senders,
            from : AllAddrs, to : Hosts]
Handling == {"seen", "announce", "add", "reply"}
Labels == {"ended", "loop", "select"} \cup Handling

DistinctMacs == \A g, h \in Hosts : Mac[g] # NULL /\ (Mac[g] = Mac[h] => g = h)

-----------------------------------------------------------------------------
(* Types.                                                                  *)

CountersOK ==
  /\ running \in SUBSET Hosts
  /\ starts \in [Hosts -> Nat] /\ \A h \in Hosts : starts[h] <= MaxStarts[h]
  /\ second \in 0 .. MaxSeconds
  /\ leaked \in [Hosts -> Nat]
  /\ \A h \in Hosts : leaked[h] = 0 \/ (FdLimit # NULL /\ leaked[h] <= FdLimit)

ThreadsOK ==
  /\ pc \in [Hosts -> Labels]
  /\ packet \in [Hosts -> Packets \cup {NULL}]
  /\ DOMAIN own_id = Hosts
  /\ \A h \in Hosts :
       /\ h \in running <=> pc[h] # "ended"
       /\ h \in running => own_id[h] \in Senders
       /\ packet[h] # NULL <=> pc[h] \in Handling

TypeInv ==
  /\ CountersOK /\ ThreadsOK
  /\ net \in SUBSET Packets
  /\ DOMAIN peer_list = Hosts /\ DOMAIN announced = Hosts

LEMMA NullIsNoPacket == NULL \notin Packets
BY DiscoveryAssumption DEF Packets, Senders, Macs, AllAddrs

LEMMA InitTypes == Init => TypeInv
BY DiscoveryAssumption
   DEF Init, TypeInv, CountersOK, ThreadsOK, Labels, Handling

LEMMA StartTypes ==
  ASSUME TypeInv, NEW h \in Hosts, Start(h)
  PROVE  TypeInv'
<1>1. CountersOK'
  BY DiscoveryAssumption DEF TypeInv, CountersOK, Start
<1>2. get_own_id(h) \in Senders
  BY DEF TypeInv, CountersOK, get_own_id, Senders, Macs
<1>3. packet[h] = NULL
  BY DEF TypeInv, ThreadsOK, Start, Handling
<1>4. ThreadsOK'
  BY <1>2, <1>3 DEF TypeInv, CountersOK, ThreadsOK, Start, Goto, Labels, Handling
<1> QED  BY <1>1, <1>4 DEF TypeInv, Start

LEMMA StopTypes ==
  ASSUME TypeInv, NEW h \in Hosts, Stop(h)
  PROVE  TypeInv'
<1>1. CountersOK'
  BY DEF TypeInv, CountersOK, Stop
<1>2. ThreadsOK'
  BY DEF TypeInv, CountersOK, ThreadsOK, Stop, Goto, Labels, Handling
<1> QED  BY <1>1, <1>2 DEF TypeInv, Stop

\* A step of one thread to another place of its loop.
LEMMA ThreadTypes ==
  ASSUME TypeInv, NEW h \in Hosts, pc[h] # "ended", UNCHANGED hostVars,
         NEW q \in Labels \ {"ended"}, Goto(h, q),
         NEW x \in Packets \cup {NULL}, packet' = [packet EXCEPT ![h] = x],
         x # NULL <=> q \in Handling
  PROVE  ThreadsOK'
BY DEF TypeInv, CountersOK, ThreadsOK, Goto, Labels, Handling, hostVars

LEMMA DiscoverTypes ==
  ASSUME TypeInv, NEW h \in Hosts, Discover(h)
  PROVE  TypeInv'
<1>1. own_id[h] \in Senders /\ packet[h] = NULL /\ packet = [packet EXCEPT ![h] = NULL]
  BY DEF TypeInv, ThreadsOK, Discover, Handling
<1>2. ThreadsOK'
  BY <1>1, ThreadTypes DEF Discover, Labels, Handling
<1>3. \A a \in Addr[h] : a \in AllAddrs
  BY DEF AllAddrs
<1>4. net' \in SUBSET Packets
  <2>1. PICK reached \in SUBSET {x \in Addr[h] \X Hosts : Reaches(x[1], x[2])} :
          net' = net \cup {Packet("DISCOVER", own_id[h], x[1], x[2]) : x \in reached}
    BY DEF Discover
  <2>2. \A x \in reached : Packet("DISCOVER", own_id[h], x[1], x[2]) \in Packets
    BY <1>1, <1>3 DEF Packet, Packets
  <2> QED  BY <2>1, <2>2 DEF TypeInv
<1>5. CountersOK'
  BY DEF TypeInv, CountersOK, Discover, hostVars
<1> QED  BY <1>2, <1>4, <1>5 DEF TypeInv, Discover

LEMMA WaitTypes ==
  ASSUME TypeInv, NEW h \in Hosts, TooEarly(h) \/ TimedOut(h)
  PROVE  TypeInv'
<1>1. packet = [packet EXCEPT ![h] = NULL]
  BY DEF TypeInv, ThreadsOK, TooEarly, TimedOut, Handling
<1>2. ThreadsOK'
  BY <1>1, ThreadTypes DEF TooEarly, TimedOut, Labels, Handling
<1>3. CountersOK'
  BY DEF TypeInv, CountersOK, TooEarly, TimedOut, hostVars
<1> QED  BY <1>2, <1>3 DEF TypeInv, TooEarly, TimedOut

LEMMA ReceiveTypes ==
  ASSUME TypeInv, NEW h \in Hosts, NEW p \in net, Receive(h, p)
  PROVE  TypeInv'
<1>1. p \in Packets /\ p # NULL
  BY NullIsNoPacket DEF TypeInv
<1>2. packet = [packet EXCEPT ![h] = NULL]
  BY DEF TypeInv, ThreadsOK, Receive, Handling
<1>3. ThreadsOK'
  <2>1. CASE Accepted(h, p)
    BY <1>1, <2>1, ThreadTypes DEF Receive, Labels, Handling
  <2>2. CASE ~Accepted(h, p)
    BY <1>2, <2>2, ThreadTypes DEF Receive, Labels, Handling
  <2> QED  BY <2>1, <2>2
<1>4. CountersOK'
  BY DEF TypeInv, CountersOK, Receive, hostVars
<1> QED  BY <1>3, <1>4 DEF TypeInv, Receive

\* The packet in the buffer while it is handled.
LEMMA InBuffer ==
  ASSUME TypeInv, NEW h \in Hosts, pc[h] \in Handling
  PROVE  packet[h] \in Packets /\ packet[h] # NULL /\ pc[h] # "ended"
         /\ packet = [packet EXCEPT ![h] = packet[h]]
BY DEF TypeInv, ThreadsOK, Handling

LEMMA SeenTypes ==
  ASSUME TypeInv, NEW h \in Hosts, IsPeerInList(h) \/ Announce(h)
  PROVE  TypeInv'
<1>1. pc[h] \in Handling
  BY DEF IsPeerInList, Announce, Handling
<1>2. ThreadsOK'
  <2>1. packet[h] \in Packets /\ packet[h] # NULL /\ pc[h] # "ended"
        /\ packet = [packet EXCEPT ![h] = packet[h]]
    BY <1>1, InBuffer
  <2>2. \E q \in {"add", "announce"} : Goto(h, q)
    BY DEF IsPeerInList, Announce
  <2> QED  BY <2>1, <2>2, ThreadTypes DEF IsPeerInList, Announce, Labels, Handling
<1>3. CountersOK'
  BY DEF TypeInv, CountersOK, IsPeerInList, Announce, hostVars
<1>4. DOMAIN announced' = Hosts /\ peer_list' = peer_list /\ net' = net
  BY DEF TypeInv, IsPeerInList, Announce
<1> QED  BY <1>2, <1>3, <1>4 DEF TypeInv

LEMMA AddIpTypes ==
  ASSUME TypeInv, NEW h \in Hosts, AddIp(h)
  PROVE  TypeInv'
<1>1. packet[h] \in Packets /\ packet[h] # NULL /\ pc[h] # "ended"
      /\ packet = [packet EXCEPT ![h] = packet[h]]
  BY InBuffer DEF AddIp, Handling
<1>2. ThreadsOK'
  <2>1. CASE packet[h].type = "DISCOVER"
    BY <1>1, <2>1, ThreadTypes DEF AddIp, Labels, Handling
  <2>2. CASE packet[h].type # "DISCOVER"
    BY <1>1, <2>2, ThreadTypes DEF AddIp, Labels, Handling
  <2> QED  BY <2>1, <2>2
<1>3. CountersOK'
  BY DEF TypeInv, CountersOK, AddIp, hostVars
<1>4. DOMAIN peer_list' = Hosts /\ announced' = announced /\ net' = net
  BY DEF TypeInv, AddIp
<1> QED  BY <1>2, <1>3, <1>4 DEF TypeInv

LEMMA SendAvailableTypes ==
  ASSUME TypeInv, NEW h \in Hosts, SendAvailable(h)
  PROVE  TypeInv'
<1>1. pc[h] # "ended" /\ own_id[h] \in Senders
  BY DEF SendAvailable, TypeInv, ThreadsOK
<1>2. ThreadsOK'
  <2>1. UNCHANGED hostVars /\ Goto(h, "loop") /\ packet' = [packet EXCEPT ![h] = NULL]
    BY DEF SendAvailable
  <2>2. "loop" \in Labels \ {"ended"} /\ "loop" \notin Handling
    BY DEF Labels, Handling
  <2> QED  BY <1>1, <2>1, <2>2, ThreadTypes
<1>3. net' \in SUBSET Packets
  <2>1. CASE net' = net
    BY <2>1 DEF TypeInv
  <2>2. CASE net' # net
    <3>1. PICK g \in Hosts, a \in Addr[h] :
            net' = net \cup {Packet("AVAILABLE", own_id[h], a, g)}
      BY <2>2 DEF SendAvailable
    <3>2. Packet("AVAILABLE", own_id[h], a, g) \in Packets
      BY <1>1 DEF Packet, Packets, AllAddrs
    <3> QED  BY <3>1, <3>2 DEF TypeInv
  <2> QED  BY <2>1, <2>2
<1>4. CountersOK'
  <2>1. CASE leaked' = leaked
    BY <2>1 DEF TypeInv, CountersOK, SendAvailable, hostVars
  <2>2. CASE leaked' # leaked
    <3>1. /\ FdLimit # NULL /\ leaked[h] < FdLimit
          /\ leaked' = [leaked EXCEPT ![h] = @ + 1]
      BY <2>2 DEF SendAvailable, SocketAvailable
    <3> QED
      BY <3>1, DiscoveryAssumption DEF TypeInv, CountersOK, SendAvailable, hostVars
  <2> QED  BY <2>1, <2>2
<1> QED  BY <1>2, <1>3, <1>4 DEF TypeInv, SendAvailable

LEMMA EnvironmentTypes ==
  ASSUME TypeInv,
         \/ Second \/ (\E p \in net : Drop(p))
         \/ (\E h \in Hosts : Stray(h)) \/ UNCHANGED vars
  PROVE  TypeInv'
<1>1. CASE Second
  BY <1>1, DiscoveryAssumption DEF Second, TypeInv, CountersOK, ThreadsOK
<1>2. CASE \E p \in net : Drop(p)
  BY <1>2 DEF Drop, TypeInv, CountersOK, ThreadsOK, hostVars
<1>3. ASSUME NEW h \in Hosts, Stray(h) PROVE TypeInv'
  <2>1. PICK a \in AllAddrs : net' = net \cup {Packet("other", "stray", a, h)}
    BY <1>3 DEF Stray
  <2>2. Packet("other", "stray", a, h) \in Packets
    BY DEF Packet, Packets, Senders
  <2> QED  BY <1>3, <2>1, <2>2 DEF Stray, TypeInv, CountersOK, ThreadsOK, hostVars
<1>4. CASE UNCHANGED vars
  BY <1>4 DEF vars, TypeInv, CountersOK, ThreadsOK, hostVars
<1> QED  BY <1>1, <1>2, <1>3, <1>4

LEMMA NextTypes == TypeInv /\ [Next]_vars => TypeInv'
<1> SUFFICES ASSUME TypeInv, [Next]_vars PROVE TypeInv'
  OBVIOUS
<1>1. ASSUME NEW h \in Hosts, Start(h) \/ Stop(h) PROVE TypeInv'
  BY <1>1, StartTypes, StopTypes
<1>2. ASSUME NEW h \in Hosts, Loop(h) PROVE TypeInv'
  BY <1>2, DiscoverTypes, WaitTypes, ReceiveTypes DEF Loop
<1>3. ASSUME NEW h \in Hosts, Handle(h) PROVE TypeInv'
  BY <1>3, SeenTypes, AddIpTypes, SendAvailableTypes DEF Handle
<1>4. ASSUME \/ Second \/ (\E p \in net : Drop(p))
             \/ (\E h \in Hosts : Stray(h)) \/ UNCHANGED vars
      PROVE  TypeInv'
  BY <1>4, EnvironmentTypes
<1> QED  BY <1>1, <1>2, <1>3, <1>4 DEF Next

\* The state of every host and of the network has its type: a packet is in
\* the buffer exactly while it is handled, and the sockets that are never
\* closed do not exceed the limit.
THEOREM TypeCorrect == Spec => []TypeOK
<1>1. TypeInv => TypeOK
  <2> SUFFICES ASSUME TypeInv PROVE TypeOK
    OBVIOUS
  <2>1. \A h \in Hosts : starts[h] \in 0 .. MaxStarts[h]
    BY DiscoveryAssumption DEF TypeInv, CountersOK
  <2>2. \A p \in net : /\ p.type \in {"DISCOVER", "AVAILABLE", "other"}
                       /\ p.from \in AllAddrs /\ p.to \in Hosts
    BY DEF TypeInv, Packets
  <2>3. \A h \in Hosts : leaked[h] = 0 \/ leaked[h] \in 0 .. FdLimit
    BY DiscoveryAssumption DEF TypeInv, CountersOK
  <2>4. /\ pc \in [Hosts -> {"ended", "loop", "select", "seen", "announce", "add",
                             "reply"}]
        /\ \A h \in Hosts :
             /\ h \in running <=> pc[h] # "ended"
             /\ packet[h] # NULL <=> pc[h] \in {"seen", "announce", "add", "reply"}
    BY DEF TypeInv, ThreadsOK, Labels, Handling
  <2> QED  BY <2>1, <2>2, <2>3, <2>4 DEF TypeInv, CountersOK, TypeOK
<1> QED  BY <1>1, InitTypes, NextTypes, PTL DEF Spec

-----------------------------------------------------------------------------
(* Peers are genuine and announced once.                                   *)

\* A packet of host g comes from one of its addresses, with its hardware
\* address as the sender.
SentBy(p, g) == p.sender = Mac[g] /\ p.from \in Addr[g]

NetInv == \A p \in net : p.type # "other" => \E g \in Hosts : SentBy(p, g)

\* What threads handle comes from another host.
PacketInv(h) ==
  /\ h \in running => own_id[h] = Mac[h]
  /\ packet[h] # NULL => \E g \in Hosts \ {h} : SentBy(packet[h], g)

Genuine(h, peer) == \E g \in Hosts \ {h} :
  /\ peer.id = Mac[g]
  /\ \A i \in DOMAIN peer.ip_address : peer.ip_address[i].addr \in Addr[g]

ListInv(h) ==
  /\ peer_list[h] \in Seq(Peers(Macs, AllAddrs, {1}))
  /\ UniqueIds(peer_list[h])
  /\ \A p \in DOMAIN peer_list[h] : /\ UniqueIps(peer_list[h][p].ip_address)
                                    /\ Genuine(h, peer_list[h][p])

Unlisted(h, id) == \A p \in DOMAIN peer_list[h] : peer_list[h][p].id # id

\* The messages are the list, or one ahead of it: while the thread is about to
\* insert the peer, or has ended there.
AnnouncedInv(h) ==
  \/ /\ announced[h] = ListedIds(h)
     /\ pc[h] = "announce" => Unlisted(h, packet[h].sender)
     /\ pc[h] = "add" => ~Unlisted(h, packet[h].sender)
  \/ \E id \in Macs :
       /\ announced[h] = Append(ListedIds(h), id) /\ Unlisted(h, id)
       /\ pc[h] = "ended" \/ (pc[h] = "add" /\ packet[h].sender = id)

HostInv(h) == PacketInv(h) /\ ListInv(h) /\ AnnouncedInv(h)

SafeInv == TypeInv /\ NetInv /\ \A h \in Hosts : HostInv(h)

LEMMA InitSafe == Init => SafeInv
<1> SUFFICES ASSUME Init PROVE SafeInv
  OBVIOUS
<1>1. TypeInv
  BY InitTypes
<1>2. NetInv
  BY DEF Init, NetInv
<1>3. ASSUME NEW h \in Hosts PROVE HostInv(h)
  <2>1. PacketInv(h) /\ ListInv(h)
    BY DEF Init, PacketInv, ListInv, UniqueIds
  <2>2. ListedIds(h) = <<>>
    BY DEF Init, ListedIds
  <2> QED  BY <2>1, <2>2 DEF Init, HostInv, AnnouncedInv
<1> QED  BY <1>1, <1>2, <1>3 DEF SafeInv

\* Host g is as it was: its thread, its list and its messages.
Still(g) ==
  /\ g \in running' <=> g \in running
  /\ own_id'[g] = own_id[g] /\ pc'[g] = pc[g] /\ packet'[g] = packet[g]
  /\ peer_list'[g] = peer_list[g] /\ announced'[g] = announced[g]

LEMMA StillSafe ==
  ASSUME NEW g \in Hosts, HostInv(g), Still(g)
  PROVE  HostInv(g)'
<1>1. ListedIds(g)' = ListedIds(g) /\ \A id : Unlisted(g, id)' = Unlisted(g, id)
  BY DEF ListedIds, Unlisted, Still
<1>2. PacketInv(g)' /\ ListInv(g)'
  BY DEF HostInv, PacketInv, ListInv, Still
<1>3. AnnouncedInv(g)'
  BY <1>1 DEF HostInv, AnnouncedInv, Still
<1> QED  BY <1>2, <1>3 DEF HostInv

\* The list is as it was and the thread at a place where the list and the
\* messages agree.
LEMMA ListKept ==
  ASSUME NEW h \in Hosts, HostInv(h), UNCHANGED <<peer_list, announced>>
  PROVE  /\ ListInv(h)'
         /\ ListedIds(h)' = ListedIds(h)
         /\ \A id : Unlisted(h, id)' = Unlisted(h, id)
BY DEF HostInv, ListInv, ListedIds, Unlisted

LEMMA StartSafe ==
  ASSUME SafeInv, DistinctMacs, NEW h \in Hosts, Start(h)
  PROVE  SafeInv'
<1>1. NetInv' /\ TypeInv'
  BY StartTypes DEF SafeInv, NetInv, Start
<1>2. ASSUME NEW g \in Hosts \ {h} PROVE HostInv(g)'
  <2>1. Still(g)
    BY DEF Start, Goto, Still, SafeInv, TypeInv, ThreadsOK
  <2> QED  BY <2>1, StillSafe DEF SafeInv
<1>3. HostInv(h)'
  <2>1. /\ own_id'[h] = Mac[h] /\ packet'[h] = NULL /\ pc'[h] = "loop"
        /\ peer_list'[h] = <<>> /\ announced'[h] = <<>>
    BY DEF Start, Goto, SafeInv, TypeInv, ThreadsOK, get_own_id, DistinctMacs, Handling
  <2>2. PacketInv(h)' /\ ListInv(h)'
    BY <2>1 DEF PacketInv, ListInv, UniqueIds
  <2>3. ListedIds(h)' = <<>>
    BY <2>1 DEF ListedIds
  <2> QED  BY <2>1, <2>2, <2>3 DEF HostInv, AnnouncedInv
<1> QED  BY <1>1, <1>2, <1>3 DEF SafeInv

LEMMA StopSafe ==
  ASSUME SafeInv, NEW h \in Hosts, Stop(h)
  PROVE  SafeInv'
<1>1. NetInv' /\ TypeInv'
  BY StopTypes DEF SafeInv, NetInv, Stop
<1>2. ASSUME NEW g \in Hosts \ {h} PROVE HostInv(g)'
  <2>1. Still(g)
    BY DEF Stop, Goto, Still, SafeInv, TypeInv, ThreadsOK
  <2> QED  BY <2>1, StillSafe DEF SafeInv
<1>3. HostInv(h)'
  <2>1. /\ packet'[h] = NULL /\ pc'[h] = "ended" /\ h \notin running'
        /\ UNCHANGED <<peer_list, announced>>
    BY DEF Stop, Goto, SafeInv, TypeInv, ThreadsOK
  <2>2. HostInv(h)
    BY DEF SafeInv
  <2>3. /\ ListInv(h)' /\ ListedIds(h)' = ListedIds(h)
        /\ \A id : Unlisted(h, id)' = Unlisted(h, id)
    BY <2>1, <2>2, ListKept
  <2>4. PacketInv(h)'
    BY <2>1 DEF PacketInv
  <2>5. AnnouncedInv(h)'
    BY <2>1, <2>2, <2>3 DEF HostInv, AnnouncedInv
  <2> QED  BY <2>3, <2>4, <2>5 DEF HostInv
<1> QED  BY <1>1, <1>2, <1>3 DEF SafeInv

\* A step of a thread between two places where the list and the messages
\* agree, which leaves nothing in the buffer.
LEMMA QuietSafe ==
  ASSUME SafeInv, NEW h \in Hosts, TypeInv', NetInv', UNCHANGED hostVars,
         UNCHANGED <<peer_list, announced>>, pc[h] \notin {"ended", "announce", "add"},
         NEW q \in {"loop", "select"}, Goto(h, q), packet' = [packet EXCEPT ![h] = NULL]
  PROVE  SafeInv'
<1>1. ASSUME NEW g \in Hosts \ {h} PROVE HostInv(g)'
  <2>1. Still(g)
    BY DEF Goto, Still, SafeInv, TypeInv, ThreadsOK, hostVars
  <2> QED  BY <2>1, StillSafe DEF SafeInv
<1>2. HostInv(h) /\ packet'[h] = NULL /\ pc'[h] = q
  BY DEF SafeInv, TypeInv, ThreadsOK, Goto
<1>3. /\ ListInv(h)' /\ ListedIds(h)' = ListedIds(h)
      /\ \A id : Unlisted(h, id)' = Unlisted(h, id)
  BY <1>2, ListKept
<1>4. PacketInv(h)'
  BY <1>2 DEF HostInv, PacketInv, hostVars
<1>5. AnnouncedInv(h)'
  BY <1>2, <1>3 DEF HostInv, AnnouncedInv
<1> QED  BY <1>1, <1>3, <1>4, <1>5 DEF SafeInv, HostInv

LEMMA DiscoverSafe ==
  ASSUME SafeInv, NEW h \in Hosts, Discover(h)
  PROVE  SafeInv'
<1>1. TypeInv'
  BY DiscoverTypes DEF SafeInv
<1>2. /\ own_id[h] = Mac[h] /\ packet = [packet EXCEPT ![h] = NULL]
      /\ pc[h] \notin {"ended", "announce", "add"}
  BY DEF SafeInv, HostInv, PacketInv, TypeInv, ThreadsOK, Discover, Handling
<1>3. NetInv'
  <2>1. PICK reached \in SUBSET {x \in Addr[h] \X Hosts : Reaches(x[1], x[2])} :
          net' = net \cup {Packet("DISCOVER", own_id[h], x[1], x[2]) : x \in reached}
    BY DEF Discover
  <2>2. \A x \in reached : SentBy(Packet("DISCOVER", own_id[h], x[1], x[2]), h)
    BY <1>2 DEF SentBy, Packet
  <2> QED  BY <2>1, <2>2 DEF NetInv, SafeInv
<1>4. UNCHANGED <<hostVars, peer_list, announced>> /\ Goto(h, "select") /\ packet' = packet
  BY DEF Discover
<1> QED  BY <1>1, <1>2, <1>3, <1>4, QuietSafe

LEMMA WaitSafe ==
  ASSUME SafeInv, NEW h \in Hosts, TooEarly(h) \/ TimedOut(h)
  PROVE  SafeInv'
<1>1. TypeInv'
  BY WaitTypes DEF SafeInv
<1>2. /\ packet = [packet EXCEPT ![h] = NULL]
      /\ pc[h] \notin {"ended", "announce", "add"}
  BY DEF SafeInv, TypeInv, ThreadsOK, TooEarly, TimedOut, Handling
<1>3. NetInv'
  BY DEF SafeInv, NetInv, TooEarly, TimedOut
<1>4. /\ UNCHANGED <<hostVars, peer_list, announced>> /\ packet' = packet
      /\ \E q \in {"loop", "select"} : Goto(h, q)
  BY DEF TooEarly, TimedOut
<1> QED  BY <1>1, <1>2, <1>3, <1>4, QuietSafe

LEMMA ReceiveSafe ==
  ASSUME SafeInv, NEW h \in Hosts, NEW p \in net, Receive(h, p)
  PROVE  SafeInv'
<1>1. TypeInv' /\ NetInv'
  BY ReceiveTypes DEF SafeInv, NetInv, Receive
<1>2. UNCHANGED <<hostVars, peer_list, announced>> /\ pc[h] = "select"
  BY DEF Receive
<1>3. CASE ~Accepted(h, p)
  <2>1. packet' = [packet EXCEPT ![h] = NULL] /\ Goto(h, "loop")
    BY <1>3 DEF Receive, SafeInv, TypeInv, ThreadsOK, Handling
  <2> QED  BY <1>1, <1>2, <2>1, QuietSafe
<1>4. CASE Accepted(h, p)
  <2>1. packet' = [packet EXCEPT ![h] = p] /\ Goto(h, "seen")
    BY <1>4 DEF Receive
  <2>2. \E g \in Hosts \ {h} : SentBy(p, g)
    BY <1>2, <1>4
       DEF Accepted, SafeInv, NetInv, HostInv, PacketInv, TypeInv, ThreadsOK, SentBy
  <2>3. ASSUME NEW g \in Hosts \ {h} PROVE HostInv(g)'
    <3>1. Still(g)
      BY <1>2, <2>1 DEF Goto, Still, SafeInv, TypeInv, ThreadsOK, hostVars
    <3> QED  BY <3>1, StillSafe DEF SafeInv
  <2>4. HostInv(h) /\ packet'[h] = p /\ pc'[h] = "seen"
    BY <2>1 DEF SafeInv, TypeInv, ThreadsOK, Goto
  <2>5. /\ ListInv(h)' /\ ListedIds(h)' = ListedIds(h)
        /\ \A id : Unlisted(h, id)' = Unlisted(h, id)
    BY <1>2, <2>4, ListKept
  <2>6. PacketInv(h)'
    BY <1>2, <2>2, <2>4 DEF HostInv, PacketInv, hostVars
  <2>7. AnnouncedInv(h)'
    BY <1>2, <2>4, <2>5 DEF HostInv, AnnouncedInv
  <2> QED  BY <1>1, <2>3, <2>5, <2>6, <2>7 DEF SafeInv, HostInv
<1> QED  BY <1>3, <1>4

\* A step of peer_seen: the packet stays in the buffer.
LEMMA SeenSafe ==
  ASSUME SafeInv, NEW h \in Hosts, IsPeerInList(h) \/ Announce(h)
  PROVE  SafeInv'
<1>1. TypeInv' /\ NetInv'
  BY SeenTypes DEF SafeInv, NetInv, IsPeerInList, Announce
<1>2. UNCHANGED <<hostVars, peer_list, packet>>
  BY DEF IsPeerInList, Announce
<1>3. ASSUME NEW g \in Hosts \ {h} PROVE HostInv(g)'
  <2>1. Still(g)
    BY <1>2 DEF IsPeerInList, Announce, Goto, Still, SafeInv, TypeInv, ThreadsOK, hostVars
  <2> QED  BY <2>1, StillSafe DEF SafeInv
<1>4. HostInv(h) /\ pc \in [Hosts -> Labels] /\ DOMAIN announced = Hosts
  BY DEF SafeInv, TypeInv, ThreadsOK
<1>5. PacketInv(h)' /\ ListInv(h)'
  BY <1>2, <1>4 DEF HostInv, PacketInv, ListInv, hostVars
<1>6. ListedIds(h)' = ListedIds(h) /\ \A id : Unlisted(h, id)' = Unlisted(h, id)
  BY <1>2 DEF ListedIds, Unlisted
<1>7. CASE IsPeerInList(h)
  <2>1. is_peer_in_list(peer_list[h], packet[h].sender) <=> ~Unlisted(h, packet[h].sender)
    <3>1. /\ peer_list[h] \in Seq(Peers(Macs, AllAddrs, {1}))
          /\ UniqueIds(peer_list[h])
      BY <1>4 DEF HostInv, ListInv
    <3> QED  BY <3>1, FindPeer DEF is_peer_in_list, Unlisted
  <2>2. /\ pc[h] = "seen" /\ announced' = announced
        /\ pc'[h] = IF Unlisted(h, packet[h].sender) THEN "announce" ELSE "add"
    BY <1>4, <1>7, <2>1 DEF IsPeerInList, Goto
  <2>3. AnnouncedInv(h)'
    BY <1>2, <1>4, <1>6, <2>2 DEF HostInv, AnnouncedInv
  <2> QED  BY <1>1, <1>3, <1>5, <2>3 DEF SafeInv, HostInv
<1>8. CASE Announce(h)
  <2>1. /\ pc[h] = "announce" /\ pc'[h] = "add"
        /\ announced'[h] = Append(announced[h], packet[h].sender)
    BY <1>4, <1>8 DEF Announce, Goto
  <2>2. packet[h].sender \in Macs
    BY <1>4, <2>1
       DEF HostInv, PacketInv, SentBy, Macs, SafeInv, TypeInv, ThreadsOK, Handling
  <2>3. announced[h] = ListedIds(h) /\ Unlisted(h, packet[h].sender)
    BY <1>4, <2>1 DEF HostInv, AnnouncedInv
  <2>4. AnnouncedInv(h)'
    BY <1>2, <1>6, <2>1, <2>2, <2>3 DEF AnnouncedInv
  <2> QED  BY <1>1, <1>3, <1>5, <2>4 DEF SafeInv, HostInv
<1> QED  BY <1>7, <1>8

LEMMA AddIpSafe ==
  ASSUME SafeInv, DistinctMacs, NEW h \in Hosts, AddIp(h)
  PROVE  SafeInv'
<1> DEFINE list == peer_list[h]
           id == packet[h].sender
           a == packet[h].from
           r == add_ip_to_peer(list, id, a, 1)
<1>1. TypeInv' /\ NetInv'
  BY AddIpTypes DEF SafeInv, NetInv, AddIp
<1>2. ASSUME NEW g \in Hosts \ {h} PROVE HostInv(g)'
  <2>1. Still(g)
    BY DEF AddIp, Goto, Still, SafeInv, TypeInv, ThreadsOK, hostVars
  <2> QED  BY <2>1, StillSafe DEF SafeInv
<1>3. HostInv(h) /\ pc[h] = "add" /\ packet[h] # NULL
  BY DEF SafeInv, TypeInv, ThreadsOK, AddIp, Handling
<1>4. PICK g \in Hosts \ {h} : id = Mac[g] /\ a \in Addr[g]
  BY <1>3 DEF HostInv, PacketInv, SentBy
<1>5. id \in Macs /\ a \in AllAddrs /\ 1 \in {1}
  BY <1>4 DEF Macs, AllAddrs
<1>6. /\ list \in Seq(Peers(Macs, AllAddrs, {1})) /\ UniqueIds(list)
      /\ \A p \in DOMAIN list : /\ UniqueIps(list[p].ip_address)
                                /\ Genuine(h, list[p])
  BY <1>3 DEF HostInv, ListInv
<1>7. /\ peer_list'[h] = r /\ announced' = announced
      /\ pc'[h] \in {"reply", "loop"} /\ packet'[h] \in {packet[h], NULL}
      /\ running' = running /\ own_id' = own_id
  BY DEF AddIp, Goto, SafeInv, TypeInv, ThreadsOK, hostVars
<1> HIDE DEF list, id, a, r
<1>8. PICK k \in DOMAIN r :
        /\ r \in Seq(Peers(Macs, AllAddrs, {1}))
        /\ UniqueIds(r)
        /\ r[k].id = id
        /\ \/ /\ is_peer_in_list(list, id)
              /\ k \in DOMAIN list /\ DOMAIN r = DOMAIN list
              /\ list[k].id = id
              /\ r[k].ip_address = add_or_update_entry(list[k].ip_address, a, 1)
           \/ /\ ~is_peer_in_list(list, id)
              /\ k = Len(list) + 1 /\ DOMAIN r = 1 .. Len(list) + 1
              /\ \A p \in DOMAIN list : list[p].id # id
              /\ r[k].ip_address = add_or_update_entry(<<>>, a, 1)
        /\ \A p \in DOMAIN r : p # k => p \in DOMAIN list /\ r[p] = list[p]
  BY <1>5, <1>6, AddIpToPeer DEF r
<1> DEFINE old == IF k \in DOMAIN list THEN list[k].ip_address ELSE <<>>
           new == r[k].ip_address
<1>9. DOMAIN list = 1 .. Len(list) /\ Len(list) \in Nat
  BY <1>6
<1>10. new = add_or_update_entry(old, a, 1)
  BY <1>8, <1>9
<1>11. old \in Seq(Entries(AllAddrs, {1})) /\ UniqueIps(old)
  <2>1. CASE k \in DOMAIN list
    <3>1. list[k] \in Peers(Macs, AllAddrs, {1})
      BY <1>6, <2>1
    <3> QED  BY <1>6, <2>1, <3>1 DEF Peers
  <2>2. CASE k \notin DOMAIN list
    BY <2>2 DEF UniqueIps
  <2> QED  BY <2>1, <2>2
<1> HIDE DEF old, new
<1>12. new \in Seq(Entries(AllAddrs, {1})) /\ IsUpdate(new, old, a, 1)
  BY <1>5, <1>10, <1>11, AddOrUpdateEntry
<1>13. \A j \in DOMAIN old : old[j].addr \in Addr[g]
  <2>1. CASE k \in DOMAIN list
    <3>1. old = list[k].ip_address /\ Genuine(h, list[k]) /\ list[k].id = Mac[g]
      BY <1>4, <1>6, <1>8, <1>9, <2>1 DEF old
    <3> QED  BY <3>1 DEF Genuine, DistinctMacs
  <2>2. CASE k \notin DOMAIN list
    BY <2>2 DEF old
  <2> QED  BY <2>1, <2>2
<1>14. Genuine(h, r[k])
  <2>1. \A i \in DOMAIN new : new[i].addr \in Addr[g]
    BY <1>4, <1>12, <1>13 DEF IsUpdate
  <2> QED  BY <1>4, <1>8, <2>1 DEF Genuine, new
<1>15. ListInv(h)'
  <2>1. ASSUME NEW p \in DOMAIN r
        PROVE  UniqueIps(r[p].ip_address) /\ Genuine(h, r[p])
    <3>1. CASE p = k  BY <1>12, <1>14, <3>1 DEF IsUpdate, new
    <3>2. CASE p # k  BY <1>6, <1>8, <3>2
    <3> QED  BY <3>1, <3>2
  <2> QED  BY <1>7, <1>8, <2>1 DEF ListInv, Genuine
<1>16. PacketInv(h)'
  BY <1>3, <1>7 DEF HostInv, PacketInv
<1>17. AnnouncedInv(h)'
  <2>1. CASE k \in DOMAIN list
    <3>1. DOMAIN r = DOMAIN list /\ \A p \in DOMAIN list : r[p].id = list[p].id
      BY <1>8, <1>9, <2>1
    <3>2. ListedIds(h)' = ListedIds(h)
      BY <1>7, <3>1 DEF ListedIds, list
    <3>3. ~Unlisted(h, id)
      BY <1>8, <1>9, <2>1 DEF Unlisted, list
    <3>4. announced[h] = ListedIds(h)
      BY <1>3, <3>3 DEF HostInv, AnnouncedInv, id
    <3> QED  BY <1>7, <3>2, <3>4 DEF AnnouncedInv
  <2>2. CASE k \notin DOMAIN list
    <3>1. /\ k = Len(list) + 1 /\ DOMAIN r = 1 .. Len(list) + 1 /\ r[k].id = id
          /\ \A p \in DOMAIN list : list[p].id # id /\ r[p].id = list[p].id
      BY <1>8, <1>9, <2>2
    <3>2. Unlisted(h, id)
      BY <3>1 DEF Unlisted, list
    <3>3. announced[h] = Append(ListedIds(h), id)
      BY <1>3, <3>2 DEF HostInv, AnnouncedInv, id
    <3>4. ListedIds(h) = [i \in 1 .. Len(list) |-> list[i].id]
      BY <1>9 DEF ListedIds, list
    <3>5. ListedIds(h)' = [i \in 1 .. Len(list) + 1 |-> r[i].id]
      BY <1>7, <3>1 DEF ListedIds
    <3>6. [i \in 1 .. Len(list) + 1 |-> r[i].id]
            = Append([i \in 1 .. Len(list) |-> list[i].id], id)
      BY <1>9, <3>1
    <3> QED  BY <1>7, <3>3, <3>4, <3>5, <3>6 DEF AnnouncedInv
  <2> QED  BY <2>1, <2>2
<1> QED  BY <1>1, <1>2, <1>15, <1>16, <1>17 DEF SafeInv, HostInv

LEMMA SendAvailableSafe ==
  ASSUME SafeInv, NEW h \in Hosts, SendAvailable(h)
  PROVE  SafeInv'
<1>1. TypeInv'
  BY SendAvailableTypes DEF SafeInv
<1>2. pc[h] = "reply" /\ own_id[h] = Mac[h]
  BY DEF SafeInv, HostInv, PacketInv, TypeInv, ThreadsOK, SendAvailable
<1>3. NetInv'
  <2>1. CASE net' = net
    BY <2>1 DEF SafeInv, NetInv
  <2>2. CASE net' # net
    <3>1. PICK g \in Hosts, a \in Addr[h] :
            net' = net \cup {Packet("AVAILABLE", own_id[h], a, g)}
      BY <2>2 DEF SendAvailable
    <3>2. SentBy(Packet("AVAILABLE", own_id[h], a, g), h)
      BY <1>2 DEF SentBy, Packet
    <3> QED  BY <3>1, <3>2 DEF SafeInv, NetInv
  <2> QED  BY <2>1, <2>2
<1>4. /\ UNCHANGED <<hostVars, peer_list, announced>> /\ Goto(h, "loop")
      /\ packet' = [packet EXCEPT ![h] = NULL]
  BY DEF SendAvailable
<1> QED  BY <1>1, <1>2, <1>3, <1>4, QuietSafe

LEMMA EnvironmentSafe ==
  ASSUME SafeInv,
         \/ Second \/ (\E p \in net : Drop(p))
         \/ (\E h \in Hosts : Stray(h)) \/ UNCHANGED vars
  PROVE  SafeInv'
<1>1. TypeInv'
  BY EnvironmentTypes DEF SafeInv
<1>2. NetInv'
  BY DEF SafeInv, NetInv, Second, Drop, Stray, Packet, vars
<1>3. ASSUME NEW g \in Hosts PROVE HostInv(g)'
  <2>1. Still(g)
    BY DEF Still, Second, Drop, Stray, vars, hostVars
  <2> QED  BY <2>1, StillSafe DEF SafeInv
<1> QED  BY <1>1, <1>2, <1>3 DEF SafeInv

LEMMA NextSafe == DistinctMacs => (SafeInv /\ [Next]_vars => SafeInv')
<1> SUFFICES ASSUME DistinctMacs, SafeInv, [Next]_vars PROVE SafeInv'
  OBVIOUS
<1>1. ASSUME NEW h \in Hosts, Start(h) \/ Stop(h) PROVE SafeInv'
  BY <1>1, StartSafe, StopSafe
<1>2. ASSUME NEW h \in Hosts, Loop(h) PROVE SafeInv'
  BY <1>2, DiscoverSafe, WaitSafe, ReceiveSafe DEF Loop
<1>3. ASSUME NEW h \in Hosts, Handle(h) PROVE SafeInv'
  BY <1>3, SeenSafe, AddIpSafe, SendAvailableSafe DEF Handle
<1>4. ASSUME \/ Second \/ (\E p \in net : Drop(p))
             \/ (\E h \in Hosts : Stray(h)) \/ UNCHANGED vars
      PROVE  SafeInv'
  BY <1>4, EnvironmentSafe
<1> QED  BY <1>1, <1>2, <1>3, <1>4 DEF Next

\* Every new peer is announced to the command client once and in the order of
\* the list, however packets and starts interleave.
THEOREM AnnouncedCorrect == DistinctMacs => (Spec => []AnnouncedOnce)
<1> SUFFICES ASSUME DistinctMacs PROVE Spec => []AnnouncedOnce
  OBVIOUS
<1>1. SafeInv => AnnouncedOnce
  <2> SUFFICES ASSUME SafeInv, NEW h \in Hosts
               PROVE  /\ \A i, j \in DOMAIN announced[h] :
                           announced[h][i] = announced[h][j] => i = j
                      /\ \/ announced[h] = ListedIds(h)
                         \/ /\ pc[h] \in {"add", "ended"}
                            /\ \E id \in {Mac[g] : g \in Hosts} :
                                 announced[h] = Append(ListedIds(h), id)
    BY DEF AnnouncedOnce
  <2> DEFINE n == Len(peer_list[h])
  <2>1. HostInv(h)
    BY DEF SafeInv
  <2>2. n \in Nat /\ DOMAIN peer_list[h] = 1 .. n
    BY <2>1 DEF HostInv, ListInv
  <2> HIDE DEF n
  <2>3. ListedIds(h) = [i \in 1 .. n |-> peer_list[h][i].id]
    BY <2>2 DEF ListedIds
  <2>4. \A i, j \in 1 .. n : peer_list[h][i].id = peer_list[h][j].id => i = j
    BY <2>1, <2>2 DEF HostInv, ListInv, UniqueIds
  <2>5. CASE announced[h] = ListedIds(h)
    BY <2>3, <2>4, <2>5
  <2>6. ASSUME NEW id \in Macs, announced[h] = Append(ListedIds(h), id),
               Unlisted(h, id), pc[h] \in {"add", "ended"}
        PROVE  \A i, j \in DOMAIN announced[h] :
                 announced[h][i] = announced[h][j] => i = j
    <3>1. /\ DOMAIN announced[h] = 1 .. n + 1
          /\ announced[h][n + 1] = id
          /\ \A i \in 1 .. n : announced[h][i] = peer_list[h][i].id
      BY <2>2, <2>3, <2>6
    <3>2. \A i \in 1 .. n : peer_list[h][i].id # id
      BY <2>2, <2>6 DEF Unlisted
    <3> QED  BY <2>2, <2>4, <3>1, <3>2
  <2> QED  BY <2>1, <2>5, <2>6 DEF HostInv, AnnouncedInv, Macs
<1> QED  BY <1>1, InitSafe, NextSafe, PTL DEF Spec

\* No host lists itself, and what it lists of a peer are addresses of that
\* peer, whatever else arrives on the port.
THEOREM GenuineCorrect == DistinctMacs => (Spec => []GenuinePeers)
<1> SUFFICES ASSUME DistinctMacs PROVE Spec => []GenuinePeers
  OBVIOUS
<1>1. SafeInv => GenuinePeers
  <2> SUFFICES ASSUME SafeInv, NEW h \in running PROVE \A p \in DOMAIN peer_list[h] :
                                                   Genuine(h, peer_list[h][p])
    BY DEF GenuinePeers, Genuine
  <2>1. h \in Hosts
    BY DEF SafeInv, TypeInv, CountersOK
  <2> QED  BY <2>1 DEF SafeInv, HostInv, ListInv
<1> QED  BY <1>1, InitSafe, NextSafe, PTL DEF Spec

-----------------------------------------------------------------------------
(* A DISCOVER packet is answered once, an AVAILABLE packet never.          *)

\* What is answered is a DISCOVER packet.
OwedInv ==
  /\ TypeInv /\ IsFiniteSet(net)
  /\ \A h \in Hosts : pc[h] = "reply" => packet[h].type = "DISCOVER"

\* The DISCOVER packets under way and the hosts that handle one.
Questions == {p \in net : p.type = "DISCOVER"}
Answerers == {h \in Hosts : packet[h] # NULL /\ packet[h].type = "DISCOVER"}

LEMMA InitOwed == Init => OwedInv
BY InitTypes, FS_EmptySet DEF OwedInv, Init

\* Where a broadcast reaches: finitely many hosts, whatever gets lost.
LEMMA BroadcastFinite ==
  ASSUME IsFiniteSet(net), NEW h \in Hosts, Discover(h)
  PROVE  IsFiniteSet(net')
<1>1. PICK reached \in SUBSET {x \in Addr[h] \X Hosts : Reaches(x[1], x[2])} :
        net' = net \cup {Packet("DISCOVER", own_id[h], x[1], x[2]) : x \in reached}
  BY DEF Discover
<1> DEFINE sent == {Packet("DISCOVER", own_id[h], x[1], x[2]) : x \in reached}
           f == [x \in reached |-> Packet("DISCOVER", own_id[h], x[1], x[2])]
<1>2. IsFiniteSet(reached)
  <2>1. IsFiniteSet(Addr[h] \X Hosts)
    BY DiscoveryAssumption, FS_Product
  <2> QED
    BY <2>1, FS_Subset
<1>3. f \in Surjection(reached, sent)
  BY DEF Surjection
<1>4. IsFiniteSet(sent)
  BY <1>2, <1>3, FS_Surjection
<1> QED
  BY <1>1, <1>4, FS_Union

LEMMA NextOwed == OwedInv /\ [Next]_vars => OwedInv'
<1> SUFFICES ASSUME OwedInv, [Next]_vars PROVE OwedInv'
  OBVIOUS
<1>1. TypeInv'
  BY NextTypes DEF OwedInv
<1>2. IsFiniteSet(net')
  <2>1. ASSUME NEW h \in Hosts, Discover(h) PROVE IsFiniteSet(net')
    BY <2>1, BroadcastFinite DEF OwedInv
  <2>2. ASSUME NEW x, net' = net \cup {x} PROVE IsFiniteSet(net')
    BY <2>2, FS_AddElement DEF OwedInv
  <2>3. ASSUME net' \subseteq net PROVE IsFiniteSet(net')
    BY <2>3, FS_Subset DEF OwedInv
  <2>4. ASSUME NEW h \in Hosts, Loop(h), ~Discover(h) PROVE net' \subseteq net
    BY <2>4 DEF Loop, TooEarly, TimedOut, Receive
  <2>5. ASSUME NEW h \in Hosts, Handle(h) \/ Stray(h)
        PROVE  net' = net \/ \E x : net' = net \cup {x}
    BY <2>5 DEF Handle, IsPeerInList, Announce, AddIp, SendAvailable, Stray
  <2>6. ASSUME \/ \E h \in Hosts : Start(h) \/ Stop(h)
               \/ Second \/ \E p \in net : Drop(p)
               \/ UNCHANGED vars
        PROVE  net' \subseteq net
    BY <2>6 DEF Start, Stop, Second, Drop, vars
  <2> QED
    BY <2>1, <2>2, <2>3, <2>4, <2>5, <2>6 DEF Next
<1>3. ASSUME NEW h \in Hosts, pc'[h] = "reply" PROVE packet'[h].type = "DISCOVER"
  <2> USE DEF OwedInv, TypeInv, ThreadsOK
  <2>1. CASE AddIp(h)
    BY <2>1, <1>3 DEF AddIp, Goto
  <2>2. CASE ~AddIp(h)
    <3>1. pc'[h] = pc[h] /\ packet'[h] = packet[h]
      <4>1. ASSUME NEW g \in Hosts, Start(g) \/ Stop(g) \/ Stray(g)
            PROVE  pc'[h] = pc[h] /\ packet'[h] = packet[h]
        BY <4>1, <1>3 DEF Start, Stop, Stray, Goto
      <4>2. ASSUME NEW g \in Hosts, Loop(g)
            PROVE  pc'[h] = pc[h] /\ packet'[h] = packet[h]
        BY <4>2, <1>3 DEF Loop, Discover, TooEarly, TimedOut, Receive, Goto
      <4>3. ASSUME NEW g \in Hosts, Handle(g)
            PROVE  pc'[h] = pc[h] /\ packet'[h] = packet[h]
        BY <4>3, <1>3, <2>2 DEF Handle, IsPeerInList, Announce, AddIp, SendAvailable, Goto
      <4>4. CASE Second \/ (\E p \in net : Drop(p)) \/ UNCHANGED vars
        BY <4>4 DEF Second, Drop, vars
      <4> QED
        BY <4>1, <4>2, <4>3, <4>4 DEF Next
    <3> QED
      BY <1>3, <3>1
  <2> QED
    BY <2>1, <2>2
<1> QED
  BY <1>1, <1>2, <1>3 DEF OwedInv

\* Nothing is sent and no buffer gets a DISCOVER packet.
LEMMA NothingSent ==
  ASSUME OwedInv, net' \subseteq net, Answerers' \subseteq Answerers
  PROVE  Owed' + Cardinality(net' \ net) <= Owed
<1>1. /\ IsFiniteSet(Questions) /\ Questions' \subseteq Questions
      /\ IsFiniteSet(Answerers)
  BY DiscoveryAssumption, FS_Subset DEF OwedInv, Questions, Answerers
<1>2. /\ Cardinality(Questions) \in Nat /\ Cardinality(Answerers) \in Nat
      /\ Cardinality(Questions') \in Nat /\ Cardinality(Answerers') \in Nat
      /\ Cardinality(Questions') <= Cardinality(Questions)
      /\ Cardinality(Answerers') <= Cardinality(Answerers)
  BY <1>1, FS_Subset, FS_CardinalityType
<1>3. Cardinality(net' \ net) = 0
  <2>1. net' \ net = {}
    OBVIOUS
  <2> QED
    BY <2>1, FS_EmptySet
<1>4. /\ Owed = Cardinality(Questions) + Cardinality(Answerers)
      /\ Owed' = Cardinality(Questions') + Cardinality(Answerers')
  BY DEF Owed, Questions, Answerers
<1> QED
  BY <1>2, <1>3, <1>4

\* A DISCOVER packet moves from the network to the buffer.
LEMMA ReceiveOwed ==
  ASSUME OwedInv, NEW h \in Hosts, NEW p \in net, Receive(h, p)
  PROVE  Owed' + Cardinality(net' \ net) <= Owed
<1>1. CASE Accepted(h, p) /\ p.type = "DISCOVER"
  <2>1. /\ net' = net \ {p} /\ packet' = [packet EXCEPT ![h] = p]
        /\ p # NULL /\ DOMAIN packet = Hosts
    BY <1>1, NullIsNoPacket DEF Receive, OwedInv, TypeInv, ThreadsOK
  <2>2. Questions' = Questions \ {p} /\ p \in Questions
    BY <1>1, <2>1 DEF Questions
  <2>3. Answerers' \subseteq Answerers \cup {h}
    BY <1>1, <2>1 DEF Answerers
  <2>4. IsFiniteSet(Questions) /\ IsFiniteSet(Answerers)
    BY DiscoveryAssumption, FS_Subset DEF OwedInv, Questions, Answerers
  <2>5. Cardinality(Questions') = Cardinality(Questions) - 1
    BY <2>2, <2>4, FS_RemoveElement
  <2>6. /\ IsFiniteSet(Answerers \cup {h})
        /\ Cardinality(Answerers \cup {h}) <= Cardinality(Answerers) + 1
    <3>1. Cardinality(Answerers) \in Nat
      BY <2>4, FS_CardinalityType
    <3>2. /\ IsFiniteSet(Answerers \cup {h})
          /\ Cardinality(Answerers \cup {h})
               = IF h \in Answerers THEN Cardinality(Answerers)
                                    ELSE Cardinality(Answerers) + 1
      BY <2>4, FS_AddElement
    <3> QED
      BY <3>1, <3>2
  <2>7. /\ Cardinality(Answerers') <= Cardinality(Answerers \cup {h})
        /\ IsFiniteSet(Answerers')
    BY <2>3, <2>6, FS_Subset
  <2>8. /\ Cardinality(Questions) \in Nat /\ Cardinality(Answerers) \in Nat
        /\ Cardinality(Answerers') \in Nat /\ Cardinality(Answerers \cup {h}) \in Nat
    BY <2>4, <2>6, <2>7, FS_CardinalityType
  <2>9. Cardinality(net' \ net) = 0
    <3>1. net' \ net = {}
      BY <2>1
    <3> QED
      BY <3>1, FS_EmptySet
  <2>10. /\ Owed = Cardinality(Questions) + Cardinality(Answerers)
         /\ Owed' = Cardinality(Questions') + Cardinality(Answerers')
    BY DEF Owed, Questions, Answerers
  <2> QED
    BY <2>5, <2>6, <2>7, <2>8, <2>9, <2>10
<1>2. CASE ~(Accepted(h, p) /\ p.type = "DISCOVER")
  <2>1. net' \subseteq net
    BY DEF Receive
  <2>2. Answerers' \subseteq Answerers
    BY <1>2 DEF Receive, Answerers, OwedInv, TypeInv, ThreadsOK
  <2> QED
    BY <2>1, <2>2, NothingSent
<1> QED
  BY <1>1, <1>2

\* The answer empties the buffer.
LEMMA SendAvailableOwed ==
  ASSUME OwedInv, NEW h \in Hosts, SendAvailable(h)
  PROVE  Owed' + Cardinality(net' \ net) <= Owed
<1>1. h \in Answerers /\ Answerers' = Answerers \ {h}
  BY DEF SendAvailable, OwedInv, TypeInv, ThreadsOK, Handling, Answerers
<1>2. CASE net' = net
  BY <1>1, <1>2, NothingSent
<1>3. CASE net' # net
  <2>1. PICK x : net' = net \cup {x} /\ x.type = "AVAILABLE"
    BY <1>3 DEF SendAvailable, Packet
  <2>2. Questions' = Questions
    BY <2>1 DEF Questions
  <2>3. net' \ net = {x}
    BY <1>3, <2>1
  <2>4. Cardinality(net' \ net) = 1
    BY <2>3, FS_Singleton
  <2>5. IsFiniteSet(Questions) /\ IsFiniteSet(Answerers)
    BY DiscoveryAssumption, FS_Subset DEF OwedInv, Questions, Answerers
  <2>6. Cardinality(Answerers') = Cardinality(Answerers) - 1
    BY <1>1, <2>5, FS_RemoveElement
  <2>7. Cardinality(Questions) \in Nat /\ Cardinality(Answerers) \in Nat
    BY <2>5, FS_CardinalityType
  <2>8. /\ Owed = Cardinality(Questions) + Cardinality(Answerers)
        /\ Owed' = Cardinality(Questions') + Cardinality(Answerers')
    BY DEF Owed, Questions, Answerers
  <2> QED
    BY <2>2, <2>4, <2>6, <2>7, <2>8
<1> QED
  BY <1>2, <1>3

LEMMA StepOwed ==
  ASSUME OwedInv, [Next]_vars, \A p \in net' \ net : p.type = "AVAILABLE"
  PROVE  Owed' + Cardinality(net' \ net) <= Owed
<1> USE DEF OwedInv, TypeInv, ThreadsOK
<1>1. ASSUME NEW h \in Hosts, Start(h) \/ Stop(h)
      PROVE  net' \subseteq net /\ Answerers' \subseteq Answerers
  BY <1>1 DEF Start, Stop, Answerers
<1>2. ASSUME NEW h \in Hosts, Discover(h)
      PROVE  net' \subseteq net /\ Answerers' \subseteq Answerers
  BY <1>2 DEF Discover, Packet, Answerers
<1>3. ASSUME NEW h \in Hosts, Stray(h)
      PROVE  net' \subseteq net /\ Answerers' \subseteq Answerers
  BY <1>3 DEF Stray, Packet, Answerers
<1>4. ASSUME NEW h \in Hosts, Loop(h), ~Discover(h), ~\E p \in net : Receive(h, p)
      PROVE  net' \subseteq net /\ Answerers' \subseteq Answerers
  BY <1>4 DEF Loop, TooEarly, TimedOut, Answerers
<1>5. ASSUME NEW h \in Hosts, Handle(h), ~SendAvailable(h)
      PROVE  net' \subseteq net /\ Answerers' \subseteq Answerers
  BY <1>5 DEF Handle, IsPeerInList, Announce, AddIp, Answerers
<1>6. CASE Second \/ (\E p \in net : Drop(p)) \/ UNCHANGED vars
  <2>1. net' \subseteq net /\ packet' = packet
    BY <1>6 DEF Second, Drop, vars
  <2> QED
    BY <2>1, NothingSent DEF Answerers
<1> QED
  BY <1>1, <1>2, <1>3, <1>4, <1>5, <1>6, NothingSent, ReceiveOwed, SendAvailableOwed
     DEF Next

\* No broadcast storm, for any number of hosts and interfaces: each answer
\* that is sent is to a DISCOVER packet of its own.
THEOREM AnsweredCorrect == Spec => AnsweredOnce
<1>1. OwedInv /\ [Next]_vars
        => [(\A p \in net' \ net : p.type = "AVAILABLE")
              => Owed' + Cardinality(net' \ net) <= Owed]_vars
  BY StepOwed
<1> QED
  BY <1>1, InitOwed, NextOwed, PTL DEF Spec, AnsweredOnce
=============================================================================
