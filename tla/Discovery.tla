----------------------------- MODULE Discovery -----------------------------
(***************************************************************************)
(* The broadcast threads (broadcast.c) of several hosts and the datagrams  *)
(* between them: every host announces itself by DISCOVER packets, answers  *)
(* those of others with AVAILABLE, lists the peers it hears of             *)
(* (peer_list.c) and tells its command client of each new one.  Datagrams  *)
(* may be lost, delayed and reordered.                                     *)
(*                                                                         *)
(* A step of peer_seen is one action for each lock it takes: peer_list in  *)
(* is_peer_in_list, the queue of the command client, peer_list again in    *)
(* add_ip_to_peer.  The timestamps of the list are left out (PeerList has  *)
(* them).                                                                  *)
(***************************************************************************)
EXTENDS PeerLists

CONSTANTS Hosts,
          Addr,       \* host -> the addresses of its interfaces
          Mac,        \* host -> its hardware address, NULL if it has none
          FdLimit,    \* descriptors for the thread's sockets, or NULL: no limit
          MaxStarts,  \* host -> bound on its starts
          Strays,     \* the hosts that receive datagrams of other programs
          MaxSeconds, \* bound on the seconds in which hosts start
          NULL

ASSUME DiscoveryAssumption ==
  /\ IsFiniteSet(Hosts) /\ \A h \in Hosts : Addr[h] # {} /\ IsFiniteSet(Addr[h])
  /\ \A g, h \in Hosts : g # h => Addr[g] \cap Addr[h] = {}
  /\ DOMAIN MaxStarts = Hosts /\ \A h \in Hosts : MaxStarts[h] \in Nat
  /\ MaxSeconds \in Nat /\ (FdLimit # NULL => FdLimit \in Nat)
  /\ LET Packets(senders) == [type : {"DISCOVER", "AVAILABLE", "other"},
                              sender : senders,
                              from : UNION {Addr[h] : h \in Hosts}, to : Hosts]
     IN  /\ NULL \notin Packets({Mac[h] : h \in Hosts})
         /\ NULL \notin Packets(0 .. MaxSeconds) /\ NULL \notin Packets({"stray"})

VARIABLES
  running,    \* the hosts on which the program runs
  starts,     \* how often each host was started
  second,     \* time(0)
  own_id,     \* own_id of the broadcast thread
  net,        \* the datagrams under way
  pc,         \* where the broadcast thread is
  packet,     \* the packet in receive_buffer
  peer_list,  \* the peer list
  announced,  \* the peers of the peer_seen messages pushed since the start
  leaked      \* sockets of send_available_packet that were never closed

hostVars == <<running, starts, second, own_id>>
vars == <<hostVars, net, pc, packet, peer_list, announced, leaked>>

AllAddrs == UNION {Addr[h] : h \in Hosts}

\* `from` is the source address of the datagram, `to` the host it reaches.
Packet(type, sender, from, to) ==
  [type |-> type, sender |-> sender, from |-> from, to |-> to]

Init ==
  /\ running = {} /\ starts = [h \in Hosts |-> 0] /\ second = 0
  /\ own_id = [h \in Hosts |-> NULL] /\ net = {}
  /\ pc = [h \in Hosts |-> "ended"] /\ packet = [h \in Hosts |-> NULL]
  /\ peer_list = [h \in Hosts |-> <<>>] /\ announced = [h \in Hosts |-> <<>>]
  /\ leaked = [h \in Hosts |-> 0]

Goto(h, label) == pc' = [pc EXCEPT ![h] = label]

\* The hardware address of an interface, or numbers from a generator that
\* is seeded with the second of the start.
get_own_id(h) == IF Mac[h] # NULL THEN Mac[h] ELSE second

Start(h) ==
  /\ h \notin running /\ starts[h] < MaxStarts[h]
  /\ running' = running \cup {h}
  /\ starts' = [starts EXCEPT ![h] = @ + 1]
  /\ own_id' = [own_id EXCEPT ![h] = get_own_id(h)]
  /\ peer_list' = [peer_list EXCEPT ![h] = <<>>]
  /\ announced' = [announced EXCEPT ![h] = <<>>]
  /\ leaked' = [leaked EXCEPT ![h] = 0]
  /\ Goto(h, "loop")
  /\ UNCHANGED <<second, net, packet>>

\* The program ends, by SIGINT or otherwise; nothing of it is kept.
Stop(h) ==
  /\ h \in running
  /\ running' = running \ {h}
  /\ packet' = [packet EXCEPT ![h] = NULL]
  /\ Goto(h, "ended")
  /\ UNCHANGED <<starts, second, own_id, net, peer_list, announced, leaked>>

Second ==
  /\ second < MaxSeconds
  /\ second' = second + 1
  /\ UNCHANGED <<running, starts, own_id, net, pc, packet, peer_list, announced,
                 leaked>>

-----------------------------------------------------------------------------
(* The loop of broadcast_thread.                                           *)

\* A further socket can be had.
SocketAvailable(h) == FdLimit # NULL => leaked[h] < FdLimit

\* The host has an interface for the family of the address.
Reaches(a, g) == \E b \in Addr[g] : b.family = a.family

\* send_ipv6_multicast and send_ipv4_broadcast from every interface; any of
\* the packets may be lost, and without a socket nothing is sent.  The sender
\* receives its own packets too.
Discover(h) ==
  /\ pc[h] = "loop"
  /\ \E reached \in SUBSET {x \in Addr[h] \X Hosts : Reaches(x[1], x[2])} :
       /\ ~SocketAvailable(h) => reached = {}
       /\ net' = net \cup {Packet("DISCOVER", own_id[h], x[1], x[2]) : x \in reached}
  /\ Goto(h, "select")
  /\ UNCHANGED <<hostVars, packet, peer_list, announced, leaked>>

\* Less than 10 seconds have passed since the last broadcast.
TooEarly(h) ==
  /\ pc[h] = "loop"
  /\ Goto(h, "select")
  /\ UNCHANGED <<hostVars, net, packet, peer_list, announced, leaked>>

\* select times out after a second.
TimedOut(h) ==
  /\ pc[h] = "select"
  /\ Goto(h, "loop")
  /\ UNCHANGED <<hostVars, net, packet, peer_list, announced, leaked>>

\* Mutant: packets of other protocols on the port are not recognised.
Accepted_any(h, p) == p.sender # own_id[h]

\* Mutant: the first of the packet types is not among the valid ones.
Accepted_available(h, p) == p.type = "AVAILABLE" /\ p.sender # own_id[h]

\* is_packet_valid, and the packet is not our own.
Accepted(h, p) == p.type \in {"DISCOVER", "AVAILABLE"} /\ p.sender # own_id[h]

\* Mutant: a packet that is not accepted stays in the buffer.
Receive_kept(h, p) ==
  /\ pc[h] = "select"
  /\ p \in net /\ p.to = h
  /\ net' = net \ {p}
  /\ packet' = [packet EXCEPT ![h] = p]
  /\ Goto(h, IF Accepted(h, p) THEN "seen" ELSE "loop")
  /\ UNCHANGED <<hostVars, peer_list, announced, leaked>>

Receive(h, p) ==
  /\ pc[h] = "select"
  /\ p \in net /\ p.to = h
  /\ net' = net \ {p}
  /\ IF Accepted(h, p)
       THEN packet' = [packet EXCEPT ![h] = p] /\ Goto(h, "seen")
       ELSE UNCHANGED packet /\ Goto(h, "loop")
  /\ UNCHANGED <<hostVars, peer_list, announced, leaked>>

\* Mutant: the message is sent for every packet, "new peer or seen again".
IsPeerInList_ignored(h) ==
  /\ pc[h] = "seen"
  /\ Goto(h, "announce")
  /\ UNCHANGED <<hostVars, net, packet, peer_list, announced, leaked>>

\* peer_seen: if(!is_peer_in_list(peer_id)).
IsPeerInList(h) ==
  /\ pc[h] = "seen"
  /\ Goto(h, IF is_peer_in_list(peer_list[h], packet[h].sender)
               THEN "add" ELSE "announce")
  /\ UNCHANGED <<hostVars, net, packet, peer_list, announced, leaked>>

\* The peer_seen message goes to the queue of the command client.
Announce(h) ==
  /\ pc[h] = "announce"
  /\ announced' = [announced EXCEPT ![h] = Append(@, packet[h].sender)]
  /\ Goto(h, "add")
  /\ UNCHANGED <<hostVars, net, packet, peer_list, leaked>>

\* Mutant: no break after the case MESSAGE_TYPE_AVAILABLE.
AddIp_fallthrough(h) ==
  /\ pc[h] = "add"
  /\ peer_list' = [peer_list EXCEPT
       ![h] = add_ip_to_peer(@, packet[h].sender, packet[h].from, 1)]
  /\ Goto(h, "reply")
  /\ UNCHANGED <<hostVars, net, packet, announced, leaked>>

\* add_ip_to_peer; only a DISCOVER packet is answered.
AddIp(h) ==
  /\ pc[h] = "add"
  /\ peer_list' = [peer_list EXCEPT
       ![h] = add_ip_to_peer(@, packet[h].sender, packet[h].from, 1)]
  /\ IF packet[h].type = "DISCOVER"
       THEN Goto(h, "reply") /\ UNCHANGED packet
       ELSE Goto(h, "loop") /\ packet' = [packet EXCEPT ![h] = NULL]
  /\ UNCHANGED <<hostVars, net, announced, leaked>>

\* send_available_packet to the source of the packet, from an address of the
\* same family; it may be lost, and the socket stays open.
SendAvailable(h) ==
  /\ pc[h] = "reply"
  /\ \/ /\ SocketAvailable(h)
        /\ leaked' = IF FdLimit = NULL THEN leaked ELSE [leaked EXCEPT ![h] = @ + 1]
        /\ \/ \E g \in Hosts, a \in Addr[h] :
                /\ packet[h].from \in Addr[g] /\ a.family = packet[h].from.family
                /\ net' = net \cup {Packet("AVAILABLE", own_id[h], a, g)}
           \/ UNCHANGED net
     \/ ~SocketAvailable(h) /\ UNCHANGED <<leaked, net>>
  /\ packet' = [packet EXCEPT ![h] = NULL]
  /\ Goto(h, "loop")
  /\ UNCHANGED <<hostVars, peer_list, announced>>

-----------------------------------------------------------------------------
(* The network.                                                            *)

\* A datagram to a host on which the program does not run.
Drop(p) ==
  /\ p \in net /\ p.to \notin running
  /\ net' = net \ {p}
  /\ UNCHANGED <<hostVars, pc, packet, peer_list, announced, leaked>>

\* A datagram of another program is sent to the port, one at a time.
Stray(h) ==
  /\ h \in Strays
  /\ \A p \in net : p.to = h => p.type # "other"
  /\ \E a \in AllAddrs : net' = net \cup {Packet("other", "stray", a, h)}
  /\ UNCHANGED <<hostVars, pc, packet, peer_list, announced, leaked>>

Handle(h) == IsPeerInList(h) \/ Announce(h) \/ AddIp(h) \/ SendAvailable(h)

Loop(h) == Discover(h) \/ TooEarly(h) \/ TimedOut(h) \/ \E p \in net : Receive(h, p)

Next ==
  \/ \E h \in Hosts : Start(h) \/ Stop(h) \/ Stray(h) \/ Loop(h) \/ Handle(h)
  \/ Second
  \/ \E p \in net : Drop(p)

Spec == Init /\ [][Next]_vars

\* Every thread runs; a packet under way is received while its host runs, and
\* dropped when it does not.
FairSpec ==
  /\ Spec
  /\ \A h \in Hosts :
       /\ WF_vars(Loop(h)) /\ WF_vars(Handle(h))
       /\ WF_vars(\E p \in net : p.to = h /\ Drop(p))
       /\ SF_vars(\E p \in net : Receive(h, p))

DiscoverOf(g, p) == p.type = "DISCOVER" /\ p.from \in Addr[g]

\* The timer of a loop that keeps running runs out every 10 seconds, and not
\* every packet that is sent from a host to another is lost or overtaken by
\* others for ever.
BroadcastFair == \A g, h \in Hosts : g # h =>
  /\ SF_vars(Discover(g) /\ \E p \in net' : DiscoverOf(g, p) /\ p.to = h)
  /\ SF_vars(\E p \in net : DiscoverOf(g, p) /\ Receive(h, p))

-----------------------------------------------------------------------------
(* Properties.                                                             *)

TypeOK ==
  /\ running \in SUBSET Hosts
  /\ (\A h \in Hosts : starts[h] \in 0 .. MaxStarts[h]) /\ second \in 0 .. MaxSeconds
  /\ \A p \in net : /\ p.type \in {"DISCOVER", "AVAILABLE", "other"}
                    /\ p.from \in AllAddrs /\ p.to \in Hosts
  /\ pc \in [Hosts -> {"ended", "loop", "select", "seen", "announce", "add",
                        "reply"}]
  /\ \A h \in Hosts :
       /\ h \in running <=> pc[h] # "ended"
       /\ packet[h] # NULL <=> pc[h] \in {"seen", "announce", "add", "reply"}
       /\ leaked[h] = 0 \/ leaked[h] \in 0 .. FdLimit

ListedIds(h) == [i \in DOMAIN peer_list[h] |-> peer_list[h][i].id]

\* The command client hears of every peer once, in the order of the list,
\* although the test for the peer, the message and the insertion are three
\* critical sections: between the last two the list is one peer behind.
AnnouncedOnce == \A h \in Hosts :
  /\ \A i, j \in DOMAIN announced[h] : announced[h][i] = announced[h][j] => i = j
  /\ \/ announced[h] = ListedIds(h)
     \/ /\ pc[h] \in {"add", "ended"}
        /\ \E id \in {Mac[g] : g \in Hosts} :
             announced[h] = Append(ListedIds(h), id)

\* A host is never its own peer, and every address in its list is one of the
\* peer it is listed with, whatever arrives on the port.
GenuinePeers == \A h \in running : \A p \in DOMAIN peer_list[h] :
  LET peer == peer_list[h][p]
  IN  \E g \in Hosts \ {h} :
        /\ peer.id = Mac[g]
        /\ \A i \in DOMAIN peer.ip_address : peer.ip_address[i].addr \in Addr[g]

\* The DISCOVER packets that may still be answered: under way or being handled.
Owed == Cardinality({p \in net : p.type = "DISCOVER"})
        + Cardinality({h \in Hosts : packet[h] # NULL /\ packet[h].type = "DISCOVER"})

\* No broadcast storm: a packet that is not sent by the timer, as
\* AVAILABLE packets are, uses up a DISCOVER packet, under way or in a buffer.
\* None is answered twice, and no answer is answered, from its arrival to its
\* reply four steps later, whatever the hosts do meanwhile.
AnsweredOnce == [][
  (\A p \in net' \ net : p.type = "AVAILABLE")
    => Owed' + Cardinality(net' \ net) <= Owed ]_vars

\* Hosts on one network that keep running find each other, unless they
\* started with the same id, which hosts without a hardware address do when
\* they start in the same second.
Discovered == BroadcastFair => \A g, h \in Hosts :
  ( /\ {g, h} \subseteq running /\ own_id[g] # own_id[h]
    /\ \E a \in Addr[g] : Reaches(a, h) )
    ~> (is_peer_in_list(peer_list[h], own_id[g]) \/ ~({g, h} \subseteq running))

\* Answers do not beget answers: once nobody broadcasts any more, so that only
\* AVAILABLE packets are new, the network falls silent.
Settles ==
  <>[][\A p \in net' \ net : p.type = "AVAILABLE"]_vars => <>[](net = {})
=============================================================================
