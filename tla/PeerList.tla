------------------------------ MODULE PeerList ------------------------------
(***************************************************************************)
(* The peer list as the module peer_list.c keeps it: calls of any threads, *)
(* each a single step under peer_list_lock, while time passes.             *)
(***************************************************************************)
EXTENDS PeerLists

CONSTANTS Ids,      \* the peers
          Addrs,    \* the sockaddrs packets come from
          MaxTime   \* bound on the clock

ASSUME PeerListAssumption ==
  /\ \A a \in Addrs : a.family \in {"v4", "v6"}
  /\ MaxTime \in Nat \ {0}

VARIABLES peer_list, clock,
          seen  \* auxiliary: the table that the list stands for, which says
                \* when an ip was last seen with a peer, 0 if never

vars == <<peer_list, clock, seen>>

Ip(a) == [family |-> a.family, ip |-> a.ip]
Ips == {Ip(a) : a \in Addrs}
Never == [ip \in Ips |-> 0]

Init == peer_list = <<>> /\ clock = 1 /\ seen = [id \in Ids |-> Never]

AddIp(id, a) ==
  /\ peer_list' = add_ip_to_peer(peer_list, id, a, clock)
  /\ seen' = [seen EXCEPT ![id][Ip(a)] = clock]
  /\ UNCHANGED clock

RemovePeer(id) ==
  /\ peer_list' = remove_peer(peer_list, id)
  /\ seen' = [seen EXCEPT ![id] = Never]
  /\ UNCHANGED clock

\* free_peer_list.
Free ==
  /\ peer_list' = <<>>
  /\ seen' = [id \in Ids |-> Never]
  /\ UNCHANGED clock

Tick == clock < MaxTime /\ clock' = clock + 1 /\ UNCHANGED <<peer_list, seen>>

Next == \/ \E id \in Ids : RemovePeer(id) \/ \E a \in Addrs : AddIp(id, a)
        \/ Free \/ Tick

Spec == Init /\ [][Next]_vars

-----------------------------------------------------------------------------
(* Properties.                                                             *)

TypeOK ==
  /\ clock \in 1 .. MaxTime
  /\ seen \in [Ids -> [Ips -> 0 .. MaxTime]]
  /\ \A p \in DOMAIN peer_list :
       /\ peer_list[p].id \in Ids
       /\ \A i \in DOMAIN peer_list[p].ip_address :
            /\ peer_list[p].ip_address[i].addr \in Addrs
            /\ peer_list[p].ip_address[i].last_seen \in 1 .. MaxTime

\* A peer has one entry in the list, and an ip one entry with that peer,
\* however its packets arrive; a listed peer has an address to connect to.
UniqueEntries ==
  /\ \A p, r \in DOMAIN peer_list : peer_list[p].id = peer_list[r].id => p = r
  /\ \A p \in DOMAIN peer_list :
       LET ips == peer_list[p].ip_address
       IN  /\ ips # <<>>
           /\ \A i, j \in DOMAIN ips :
                /\ ips[i].addr.family = ips[j].addr.family
                /\ ips[i].addr.ip = ips[j].addr.ip
                => i = j

\* The list is the table that peer_list.h describes: a call changes the entry
\* it is about, loses no other, and each ip has the time it was last seen.
ListIsTable ==
  /\ \A p \in DOMAIN peer_list : \A i \in DOMAIN peer_list[p].ip_address :
       LET e == peer_list[p].ip_address[i]
       IN  e.last_seen = seen[peer_list[p].id][Ip(e.addr)]
  /\ \A id \in Ids, ip \in Ips : seen[id][ip] # 0 =>
       \E p \in DOMAIN peer_list : \E i \in DOMAIN peer_list[p].ip_address :
         peer_list[p].id = id /\ Ip(peer_list[p].ip_address[i].addr) = ip

\* An IPv6 address is preferred over an IPv4 one, wherever it stands.
PrefersIPv6 == \A p \in DOMAIN peer_list :
  LET ips == peer_list[p].ip_address
  IN  (\E i \in DOMAIN ips : ips[i].addr.family = "v6")
        => get_best_address(ips).family = "v6"
=============================================================================
