--------------------------- MODULE PeerList_proofs ---------------------------
(***************************************************************************)
(* The peer list is a table from peers and ips to times, for any peers and *)
(* addresses: the invariants of PeerList and the proof that every call     *)
(* keeps them.                                                             *)
(***************************************************************************)
EXTENDS PeerList, PeerLists_proofs

Times == 1 .. MaxTime

\* The list is a sequence of peers with sequences of addresses.
ListOK ==
  /\ clock \in Times
  /\ peer_list \in Seq(Peers(Ids, Addrs, Times))
  /\ seen \in [Ids -> [Ips -> 0 .. MaxTime]]

\* Each peer is listed once with addresses that each are listed once.
Unique ==
  /\ UniqueIds(peer_list)
  /\ \A p \in DOMAIN peer_list : /\ UniqueIps(peer_list[p].ip_address)
                                 /\ peer_list[p].ip_address # <<>>

IInv == ListOK /\ Unique /\ ListIsTable

LEMMA EntryType ==
  ASSUME ListOK, NEW p \in DOMAIN peer_list, NEW i \in DOMAIN peer_list[p].ip_address
  PROVE  /\ peer_list[p].id \in Ids
         /\ peer_list[p].ip_address \in Seq(Entries(Addrs, Times))
         /\ peer_list[p].ip_address[i].addr \in Addrs
         /\ peer_list[p].ip_address[i].last_seen \in Times
<1>1. peer_list[p] \in Peers(Ids, Addrs, Times)
  BY DEF ListOK
<1>2. /\ peer_list[p].id \in Ids
      /\ peer_list[p].ip_address \in Seq(Entries(Addrs, Times))
  BY <1>1 DEF Peers
<1>3. peer_list[p].ip_address[i] \in Entries(Addrs, Times)
  BY <1>2
<1> QED  BY <1>2, <1>3 DEF Entries

LEMMA IpsType == \A a \in Addrs : Ip(a) \in Ips
BY DEF Ips

LEMMA SameIpIsIp == \A a, b : SameIp(a, b) <=> Ip(a) = Ip(b)
BY DEF SameIp, Ip

LEMMA InitIInv == Init => IInv
<1> SUFFICES ASSUME Init PROVE IInv
  OBVIOUS
<1> USE DEF Init
<1>1. 1 \in Times /\ 0 \in 0 .. MaxTime
  BY PeerListAssumption DEF Times
<1>2. Never \in [Ips -> 0 .. MaxTime]
  BY <1>1 DEF Never
<1>3. ListOK
  BY <1>1, <1>2 DEF ListOK
<1>4. Unique
  BY DEF Unique, UniqueIds
<1>5. ListIsTable
  BY DEF ListIsTable, Never
<1> QED  BY <1>3, <1>4, <1>5 DEF IInv

LEMMA AddIpStep ==
  ASSUME IInv, NEW id \in Ids, NEW a \in Addrs, AddIp(id, a)
  PROVE  IInv'
<1> USE DEF IInv
<1> DEFINE r == add_ip_to_peer(peer_list, id, a, clock)
<1>1. /\ peer_list \in Seq(Peers(Ids, Addrs, Times)) /\ UniqueIds(peer_list)
      /\ \A p \in DOMAIN peer_list : UniqueIps(peer_list[p].ip_address)
      /\ clock \in Times
  BY DEF ListOK, Unique
<1>2. PICK k \in DOMAIN r :
        /\ r \in Seq(Peers(Ids, Addrs, Times))
        /\ UniqueIds(r)
        /\ r[k].id = id
        /\ \/ /\ is_peer_in_list(peer_list, id)
              /\ k \in DOMAIN peer_list /\ DOMAIN r = DOMAIN peer_list
              /\ peer_list[k].id = id
              /\ r[k].ip_address =
                   add_or_update_entry(peer_list[k].ip_address, a, clock)
           \/ /\ ~is_peer_in_list(peer_list, id)
              /\ k = Len(peer_list) + 1 /\ DOMAIN r = 1 .. Len(peer_list) + 1
              /\ \A p \in DOMAIN peer_list : peer_list[p].id # id
              /\ r[k].ip_address = add_or_update_entry(<<>>, a, clock)
        /\ \A p \in DOMAIN r : p # k => p \in DOMAIN peer_list /\ r[p] = peer_list[p]
  <2> HIDE DEF r
  <2> QED  BY <1>1, AddIpToPeer DEF r
<1>3. peer_list' = r /\ seen' = [seen EXCEPT ![id][Ip(a)] = clock] /\ clock' = clock
  BY DEF AddIp
<1> DEFINE old == IF k \in DOMAIN peer_list THEN peer_list[k].ip_address ELSE <<>>
           new == r[k].ip_address
<1> HIDE DEF r
<1>4. new = add_or_update_entry(old, a, clock)
  BY <1>1, <1>2
<1>5. old \in Seq(Entries(Addrs, Times)) /\ UniqueIps(old)
  <2>1. CASE k \in DOMAIN peer_list
    <3>1. peer_list[k] \in Peers(Ids, Addrs, Times)
      BY <1>1, <2>1
    <3> QED  BY <1>1, <2>1, <3>1 DEF Peers
  <2>2. CASE k \notin DOMAIN peer_list
    BY <2>2 DEF UniqueIps
  <2> QED  BY <2>1, <2>2
<1>6. \A p \in DOMAIN peer_list : peer_list[p].id = id => p = k /\ old = peer_list[p].ip_address
  BY <1>1, <1>2 DEF UniqueIds
<1>7. DOMAIN peer_list \subseteq DOMAIN r
  BY <1>1, <1>2
<1> HIDE DEF old, new
<1>8. new \in Seq(Entries(Addrs, Times)) /\ IsUpdate(new, old, a, clock)
  <2>1. clock \in Times
    BY <1>1
  <2> QED  BY <1>4, <1>5, <2>1, AddOrUpdateEntry
<1>9. ListOK'
  <2>1. clock \in 0 .. MaxTime /\ Ip(a) \in Ips
    BY <1>1, IpsType, PeerListAssumption DEF Times
  <2>2. seen' \in [Ids -> [Ips -> 0 .. MaxTime]]
    BY <1>3, <2>1 DEF ListOK
  <2> QED  BY <1>1, <1>2, <1>3, <2>2 DEF ListOK, Times
<1>10. Unique'
  <2>1. \A p \in DOMAIN r : UniqueIps(r[p].ip_address) /\ r[p].ip_address # <<>>
    <3> SUFFICES ASSUME NEW p \in DOMAIN r
                 PROVE  UniqueIps(r[p].ip_address) /\ r[p].ip_address # <<>>
      OBVIOUS
    <3>1. CASE p = k  BY <1>8, <3>1 DEF new, IsUpdate
    <3>2. CASE p # k  BY <1>2, <3>2 DEF Unique
    <3> QED  BY <3>1, <3>2
  <2> QED  BY <1>2, <1>3, <2>1 DEF Unique
<1>11. ListIsTable'
  <2>1. \A x \in Ids, ip \in Ips :
          seen'[x][ip] = IF x = id /\ ip = Ip(a) THEN clock ELSE seen[x][ip]
    BY <1>3, IpsType DEF ListOK
  <2>2. ASSUME NEW p \in DOMAIN r, NEW i \in DOMAIN r[p].ip_address
        PROVE  r[p].ip_address[i].last_seen = seen'[r[p].id][Ip(r[p].ip_address[i].addr)]
    <3>1. CASE p # k
      <4>1. p \in DOMAIN peer_list /\ r[p] = peer_list[p] /\ peer_list[p].id # id
        BY <1>2, <1>6, <3>1
      <4>2. peer_list[p].id \in Ids /\ Ip(peer_list[p].ip_address[i].addr) \in Ips
        BY <2>2, <4>1, EntryType, IpsType
      <4>3. peer_list[p].ip_address[i].last_seen
              = seen[peer_list[p].id][Ip(peer_list[p].ip_address[i].addr)]
        BY <2>2, <4>1 DEF ListIsTable
      <4> QED  BY <2>1, <4>1, <4>2, <4>3
    <3>2. CASE p = k
      <4>1. i \in DOMAIN new /\ r[p].ip_address = new /\ r[p].id = id
        BY <1>2, <2>2, <3>2 DEF new
      <4>2. new[i] \in Entries(Addrs, Times)
        BY <1>8, <4>1
      <4>3. Ip(new[i].addr) \in Ips
        BY <4>2, IpsType DEF Entries
      <4>4. CASE SameIp(new[i].addr, a)
        BY <1>8, <2>1, <4>1, <4>3, <4>4, SameIpIsIp DEF IsUpdate
      <4>5. CASE ~SameIp(new[i].addr, a)
        <5>1. PICK j \in DOMAIN old : old[j] = new[i]
          BY <1>8, <4>1, <4>5 DEF IsUpdate
        <5>2. k \in DOMAIN peer_list /\ old = peer_list[k].ip_address
          BY <5>1 DEF old
        <5>3. peer_list[k].id = id
          BY <1>1, <1>2, <5>2
        <5>4. new[i].last_seen = seen[id][Ip(new[i].addr)]
          BY <5>1, <5>2, <5>3 DEF ListIsTable
        <5>5. Ip(new[i].addr) # Ip(a)
          BY <4>5, SameIpIsIp
        <5> QED  BY <2>1, <4>1, <4>3, <5>4, <5>5
      <4> QED  BY <4>4, <4>5
    <3> QED  BY <3>1, <3>2
  <2>3. ASSUME NEW x \in Ids, NEW ip \in Ips, seen'[x][ip] # 0
        PROVE  \E p \in DOMAIN r : \E i \in DOMAIN r[p].ip_address :
                 r[p].id = x /\ Ip(r[p].ip_address[i].addr) = ip
    <3>1. CASE x = id /\ ip = Ip(a)
      <4>1. PICK i \in DOMAIN new : SameIp(new[i].addr, a)
        BY <1>8 DEF IsUpdate
      <4> QED  BY <1>2, <3>1, <4>1, SameIpIsIp DEF new
    <3>2. CASE ~(x = id /\ ip = Ip(a))
      <4>1. seen[x][ip] # 0
        BY <2>1, <2>3, <3>2
      <4>2. PICK p \in DOMAIN peer_list : \E i \in DOMAIN peer_list[p].ip_address :
              peer_list[p].id = x /\ Ip(peer_list[p].ip_address[i].addr) = ip
        BY <4>1 DEF ListIsTable
      <4>5. PICK i \in DOMAIN peer_list[p].ip_address :
              Ip(peer_list[p].ip_address[i].addr) = ip
        BY <4>2
      <4>3. CASE p = k
        <5>1. old = peer_list[k].ip_address /\ i \in DOMAIN old /\ x = id
          BY <1>1, <1>2, <4>2, <4>3, <4>5 DEF old
        <5>2. PICK j \in DOMAIN new : new[j].addr = old[i].addr
          BY <1>8, <5>1 DEF IsUpdate
        <5> QED  BY <1>2, <4>3, <4>5, <5>1, <5>2, SameIpIsIp DEF new, Ip
      <4>4. CASE p # k
        <5>1. p \in DOMAIN r /\ r[p] = peer_list[p]
          BY <1>2, <1>7, <4>4
        <5> QED  BY <4>2, <5>1
      <4> QED  BY <4>3, <4>4
    <3> QED  BY <3>1, <3>2
  <2> QED  BY <1>3, <2>2, <2>3 DEF ListIsTable
<1> QED  BY <1>9, <1>10, <1>11

LEMMA RemoveStep ==
  ASSUME IInv, NEW id \in Ids, RemovePeer(id)
  PROVE  IInv'
<1> USE DEF IInv
<1> DEFINE r == remove_peer(peer_list, id)
<1>1. peer_list' = r /\ seen' = [seen EXCEPT ![id] = Never] /\ clock' = clock
  BY DEF RemovePeer
<1>2. peer_list \in Seq(Peers(Ids, Addrs, Times)) /\ UniqueIds(peer_list)
  BY DEF ListOK, Unique
<1> HIDE DEF r
<1>3. /\ r \in Seq(Peers(Ids, Addrs, Times))
      /\ UniqueIds(r)
      /\ \A p \in DOMAIN r :
           r[p].id # id /\ \E q \in DOMAIN peer_list : peer_list[q] = r[p]
      /\ \A q \in DOMAIN peer_list :
           peer_list[q].id # id => \E p \in DOMAIN r : r[p] = peer_list[q]
  BY <1>2, RemoveKeeps DEF r
<1>4. ListOK'
  <2>1. Never \in [Ips -> 0 .. MaxTime]
    BY PeerListAssumption DEF Never
  <2>2. seen' \in [Ids -> [Ips -> 0 .. MaxTime]]
    BY <1>1, <2>1 DEF ListOK
  <2> QED  BY <1>1, <1>3, <2>2 DEF ListOK, Times
<1>5. Unique'
  BY <1>1, <1>3 DEF Unique
<1>6. ListIsTable'
  <2>1. \A x \in Ids, ip \in Ips : seen'[x][ip] = IF x = id THEN 0 ELSE seen[x][ip]
    BY <1>1 DEF ListOK, Never
  <2>2. ASSUME NEW p \in DOMAIN r, NEW i \in DOMAIN r[p].ip_address
        PROVE  r[p].ip_address[i].last_seen = seen'[r[p].id][Ip(r[p].ip_address[i].addr)]
    <3>1. PICK q \in DOMAIN peer_list : peer_list[q] = r[p]
      BY <1>3
    <3>2. peer_list[q].id \in Ids /\ Ip(peer_list[q].ip_address[i].addr) \in Ips
      BY <2>2, <3>1, EntryType, IpsType
    <3>3. peer_list[q].ip_address[i].last_seen
            = seen[peer_list[q].id][Ip(peer_list[q].ip_address[i].addr)]
      BY <2>2, <3>1 DEF ListIsTable
    <3>4. r[p].id # id
      BY <1>3
    <3> QED  BY <2>1, <3>1, <3>2, <3>3, <3>4
  <2>3. ASSUME NEW x \in Ids, NEW ip \in Ips, seen'[x][ip] # 0
        PROVE  \E p \in DOMAIN r : \E i \in DOMAIN r[p].ip_address :
                 r[p].id = x /\ Ip(r[p].ip_address[i].addr) = ip
    <3>1. x # id /\ seen[x][ip] # 0
      BY <2>1, <2>3
    <3>2. PICK q \in DOMAIN peer_list : \E i \in DOMAIN peer_list[q].ip_address :
            peer_list[q].id = x /\ Ip(peer_list[q].ip_address[i].addr) = ip
      BY <3>1 DEF ListIsTable
    <3>3. PICK p \in DOMAIN r : r[p] = peer_list[q]
      BY <1>3, <3>1, <3>2
    <3> QED  BY <3>2, <3>3
  <2> QED  BY <1>1, <2>2, <2>3 DEF ListIsTable
<1> QED  BY <1>4, <1>5, <1>6

LEMMA FreeStep ==
  ASSUME IInv, Free
  PROVE  IInv'
<1>1. peer_list' = <<>> /\ seen' = [id \in Ids |-> Never] /\ clock' = clock
  BY DEF Free
<1>2. Never \in [Ips -> 0 .. MaxTime]
  BY PeerListAssumption DEF Never
<1>3. ListOK'
  BY <1>1, <1>2 DEF IInv, ListOK, Times
<1>4. Unique'
  BY <1>1 DEF Unique, UniqueIds
<1>5. ListIsTable'
  BY <1>1 DEF ListIsTable, Never
<1> QED  BY <1>3, <1>4, <1>5 DEF IInv

LEMMA TickStep ==
  ASSUME IInv, Tick
  PROVE  IInv'
<1>1. ListOK'
  BY PeerListAssumption DEF IInv, ListOK, Tick, Times
<1>2. Unique' /\ ListIsTable'
  BY DEF IInv, Unique, ListIsTable, Tick
<1> QED  BY <1>1, <1>2 DEF IInv

LEMMA Inductive == IInv /\ [Next]_vars => IInv'
<1> SUFFICES ASSUME IInv, [Next]_vars PROVE IInv'
  OBVIOUS
<1>1. CASE \E id \in Ids, a \in Addrs : AddIp(id, a)
  BY <1>1, AddIpStep
<1>2. CASE \E id \in Ids : RemovePeer(id)
  BY <1>2, RemoveStep
<1>3. CASE Free
  BY <1>3, FreeStep
<1>4. CASE Tick
  BY <1>4, TickStep
<1>5. CASE UNCHANGED vars
  BY <1>5 DEF IInv, ListOK, Unique, ListIsTable, vars, Times
<1> QED  BY <1>1, <1>2, <1>3, <1>4, <1>5 DEF Next

THEOREM Invariance == Spec => []IInv
<1> QED  BY InitIInv, Inductive, PTL DEF Spec

\* The lists hold peers and addresses that were seen, with times of the clock.
THEOREM TypeCorrect == Spec => []TypeOK
<1>1. IInv => TypeOK
  <2> SUFFICES ASSUME IInv PROVE TypeOK
    OBVIOUS
  <2>1. \A p \in DOMAIN peer_list : peer_list[p].id \in Ids
    <3>1. \A p \in DOMAIN peer_list : peer_list[p] \in Peers(Ids, Addrs, Times)
      BY DEF IInv, ListOK
    <3> QED  BY <3>1 DEF Peers
  <2>2. \A p \in DOMAIN peer_list : \A i \in DOMAIN peer_list[p].ip_address :
          /\ peer_list[p].ip_address[i].addr \in Addrs
          /\ peer_list[p].ip_address[i].last_seen \in Times
    BY EntryType DEF IInv
  <2> QED  BY <2>1, <2>2 DEF IInv, ListOK, TypeOK, Times
<1> QED  BY <1>1, Invariance, PTL

\* No peer and no ip of a peer is listed twice, and every listed peer has an
\* address, for any number of peers and addresses.
THEOREM UniqueCorrect == Spec => []UniqueEntries
<1>1. IInv => UniqueEntries
  BY DEF IInv, Unique, UniqueIds, UniqueIps, SameIp, UniqueEntries
<1> QED  BY <1>1, Invariance, PTL

\* The linked lists are the table of the times at which each ip was last seen
\* with each peer.
THEOREM TableCorrect == Spec => []ListIsTable
<1>1. IInv => ListIsTable
  BY DEF IInv
<1> QED  BY <1>1, Invariance, PTL

\* The command client gets an IPv6 address of a peer that has one, wherever it
\* stands in the list.
THEOREM PreferenceCorrect == Spec => []PrefersIPv6
<1>1. ASSUME IInv, NEW p \in DOMAIN peer_list,
             NEW i \in DOMAIN peer_list[p].ip_address
      PROVE  peer_list[p].ip_address \in Seq(Entries(Addrs, Times))
  BY <1>1, EntryType DEF IInv
<1>2. IInv => PrefersIPv6
  BY <1>1, BestIsIPv6 DEF PrefersIPv6
<1> QED  BY <1>2, Invariance, PTL
=============================================================================
