-------------------------- MODULE PeerLists_proofs --------------------------
(***************************************************************************)
(* What the operations of PeerLists return, for lists of any length.       *)
(***************************************************************************)
EXTENDS PeerLists, TLAPS, WellFoundedInduction

Entries(A, T) == [addr : A, last_seen : T]
Peers(I, A, T) == [id : I, ip_address : Seq(Entries(A, T))]

SameIp(a, b) == a.family = b.family /\ a.ip = b.ip

UniqueIps(ips) ==
  \A i, j \in DOMAIN ips : SameIp(ips[i].addr, ips[j].addr) => i = j
UniqueIds(list) == \A p, r \in DOMAIN list : list[p].id = list[r].id => p = r

\* The search of peer_list.c finds the peer where it is, and NULL if it is
\* not there.
LEMMA FindPeer ==
  ASSUME NEW P, NEW list \in Seq(P), NEW id, UniqueIds(list)
  PROVE  \/ /\ find_peer(list, id) = 0
            /\ \A p \in DOMAIN list : list[p].id # id
         \/ /\ find_peer(list, id) \in DOMAIN list
            /\ list[find_peer(list, id)].id = id
<1>1. DOMAIN list = 1 .. Len(list) /\ Len(list) \in Nat
  OBVIOUS
<1>2. CASE \A p \in DOMAIN list : list[p].id # id
  <2>1. {p \in 1 .. Len(list) : list[p].id = id} = {}
    BY <1>1, <1>2
  <2>2. find_peer(list, id) = 0
    BY <2>1 DEF find_peer, SelectInSeq
  <2> QED  BY <1>2, <2>2
<1>3. CASE \E p \in DOMAIN list : list[p].id = id
  <2>1. PICK p \in DOMAIN list : list[p].id = id
    BY <1>3
  <2>2. {r \in 1 .. Len(list) : list[r].id = id} = {p}
    BY <1>1, <2>1 DEF UniqueIds
  <2>3. Min({p}) = p
    BY <1>1, <2>1 DEF Min
  <2>4. find_peer(list, id) = p
    BY <2>2, <2>3 DEF find_peer, SelectInSeq
  <2> QED  BY <2>1, <2>4
<1> QED  BY <1>2, <1>3

\* The same of the search for an ip in ip_address_list.c.
LEMMA FindEntry ==
  ASSUME NEW E, NEW ips \in Seq(E), NEW a, UniqueIps(ips)
  PROVE  \/ /\ find_entry(ips, a) = 0
            /\ \A i \in DOMAIN ips : ~SameIp(ips[i].addr, a)
         \/ /\ find_entry(ips, a) \in DOMAIN ips
            /\ SameIp(ips[find_entry(ips, a)].addr, a)
<1> DEFINE Test(e) == e.addr.family = a.family /\ e.addr.ip = a.ip
<1>1. DOMAIN ips = 1 .. Len(ips) /\ Len(ips) \in Nat
  OBVIOUS
<1>2. CASE \A i \in DOMAIN ips : ~SameIp(ips[i].addr, a)
  <2>1. {i \in 1 .. Len(ips) : Test(ips[i])} = {}
    BY <1>1, <1>2 DEF SameIp
  <2>2. find_entry(ips, a) = 0
    BY <2>1 DEF find_entry, SelectInSeq
  <2> QED  BY <1>2, <2>2
<1>3. CASE \E i \in DOMAIN ips : SameIp(ips[i].addr, a)
  <2>1. PICK i \in DOMAIN ips : SameIp(ips[i].addr, a)
    BY <1>3
  <2>2. {j \in 1 .. Len(ips) : Test(ips[j])} = {i}
    BY <1>1, <2>1 DEF UniqueIps, SameIp
  <2>3. Min({i}) = i
    BY <1>1, <2>1 DEF Min
  <2>4. find_entry(ips, a) = i
    BY <2>2, <2>3 DEF find_entry, SelectInSeq
  <2> QED  BY <2>1, <2>4
<1> QED  BY <1>2, <1>3

\* An address is added or its time replaced; no other entry changes, and no
\* ip gets a second entry.
IsUpdate(r, ips, a, time) ==
  /\ r # <<>>
  /\ UniqueIps(r)
  /\ \E i \in DOMAIN r : SameIp(r[i].addr, a)
  /\ \A i \in DOMAIN r :
       \/ /\ SameIp(r[i].addr, a) /\ r[i].last_seen = time
          /\ r[i].addr = a \/ \E j \in DOMAIN ips : r[i].addr = ips[j].addr
       \/ ~SameIp(r[i].addr, a) /\ \E j \in DOMAIN ips : ips[j] = r[i]
  /\ \A j \in DOMAIN ips : \E i \in DOMAIN r : r[i].addr = ips[j].addr

\* add_or_update_entry does that, and keeps the types.
LEMMA AddOrUpdateEntry ==
  ASSUME NEW A, NEW T, NEW ips \in Seq(Entries(A, T)), UniqueIps(ips),
         NEW a \in A, NEW time \in T
  PROVE  /\ add_or_update_entry(ips, a, time) \in Seq(Entries(A, T))
         /\ IsUpdate(add_or_update_entry(ips, a, time), ips, a, time)
<1> DEFINE i == find_entry(ips, a)
           r == add_or_update_entry(ips, a, time)
           e == [addr |-> a, last_seen |-> time]
<1>1. DOMAIN ips = 1 .. Len(ips) /\ Len(ips) \in Nat
  OBVIOUS
<1>2. CASE i = 0 /\ \A j \in DOMAIN ips : ~SameIp(ips[j].addr, a)
  <2>1. r = Append(ips, e)
    BY <1>2 DEF add_or_update_entry
  <2> HIDE DEF r
  <2>2. e \in Entries(A, T) /\ e.addr = a /\ e.last_seen = time
    BY DEF Entries
  <2> HIDE DEF e
  <2>3. /\ r \in Seq(Entries(A, T)) /\ r # <<>>
        /\ DOMAIN r = 1 .. Len(ips) + 1
        /\ \A j \in 1 .. Len(ips) : r[j] = ips[j]
        /\ r[Len(ips) + 1] = e
    BY <1>1, <2>1, <2>2
  <2>4. SameIp(r[Len(ips) + 1].addr, a)
    BY <2>2, <2>3 DEF SameIp
  <2>5. UniqueIps(r)
    BY <1>1, <1>2, <2>2, <2>3, <2>4 DEF UniqueIps, SameIp
  <2>6. \A k \in DOMAIN r :
          \/ /\ SameIp(r[k].addr, a) /\ r[k].last_seen = time
             /\ r[k].addr = a \/ \E j \in DOMAIN ips : r[k].addr = ips[j].addr
          \/ ~SameIp(r[k].addr, a) /\ \E j \in DOMAIN ips : ips[j] = r[k]
    BY <1>1, <1>2, <2>2, <2>3, <2>4
  <2>7. \A j \in DOMAIN ips : \E k \in DOMAIN r : r[k].addr = ips[j].addr
    BY <1>1, <2>3
  <2>8. \E k \in DOMAIN r : SameIp(r[k].addr, a)
    BY <1>1, <2>3, <2>4
  <2> QED  BY <2>3, <2>5, <2>6, <2>7, <2>8 DEF r, IsUpdate
<1>3. CASE i \in DOMAIN ips /\ SameIp(ips[i].addr, a)
  <2> DEFINE u == [ips[i] EXCEPT !.last_seen = time]
  <2>1. r = [ips EXCEPT ![i] = u]
    <3>1. find_entry(ips, a) # 0
      BY <1>1, <1>3
    <3> QED  BY <3>1 DEF add_or_update_entry
  <2> HIDE DEF r, i
  <2>9. u \in Entries(A, T) /\ u.addr = ips[i].addr /\ u.last_seen = time
    <3>1. ips[i] \in Entries(A, T)
      BY <1>3
    <3> QED  BY <3>1 DEF Entries
  <2> HIDE DEF u
  <2>2. /\ r \in Seq(Entries(A, T)) /\ DOMAIN r = DOMAIN ips
        /\ \A j \in DOMAIN ips : j # i => r[j] = ips[j]
        /\ r[i].addr = ips[i].addr /\ r[i].last_seen = time
    BY <1>1, <1>3, <2>1, <2>9
  <2>3. r # <<>>
    BY <1>3, <2>2
  <2>4. \A j \in DOMAIN ips : r[j].addr = ips[j].addr
    BY <2>2
  <2>5. UniqueIps(r)
    BY <2>2, <2>4 DEF UniqueIps
  <2>6. \A k \in DOMAIN r :
          \/ /\ SameIp(r[k].addr, a) /\ r[k].last_seen = time
             /\ r[k].addr = a \/ \E j \in DOMAIN ips : r[k].addr = ips[j].addr
          \/ ~SameIp(r[k].addr, a) /\ \E j \in DOMAIN ips : ips[j] = r[k]
    <3> SUFFICES ASSUME NEW k \in DOMAIN r
                 PROVE  \/ /\ SameIp(r[k].addr, a) /\ r[k].last_seen = time
                           /\ \/ r[k].addr = a
                              \/ \E j \in DOMAIN ips : r[k].addr = ips[j].addr
                        \/ ~SameIp(r[k].addr, a) /\ \E j \in DOMAIN ips : ips[j] = r[k]
      OBVIOUS
    <3>1. CASE k = i
      BY <1>3, <2>2, <2>4, <3>1 DEF SameIp
    <3>2. CASE k # i
      <4>1. r[k] = ips[k] /\ k \in DOMAIN ips
        BY <2>2, <3>2
      <4>2. ~SameIp(ips[k].addr, a)
        BY <1>3, <3>2, <4>1 DEF UniqueIps, SameIp
      <4> QED  BY <4>1, <4>2
    <3> QED  BY <3>1, <3>2
  <2>7. \E k \in DOMAIN r : SameIp(r[k].addr, a)
    BY <1>3, <2>2, <2>4
  <2> QED  BY <2>2, <2>3, <2>5, <2>6, <2>7 DEF r, IsUpdate
<1> QED  BY <1>2, <1>3, FindEntry

\* add_ip_to_peer keeps the list well formed, changes the entry of the one
\* peer, which it appends if it was unknown, and leaves the others alone.
LEMMA AddIpToPeer ==
  ASSUME NEW I, NEW A, NEW T, NEW list \in Seq(Peers(I, A, T)), UniqueIds(list),
         NEW id \in I, NEW a \in A, NEW time \in T,
         \A p \in DOMAIN list : UniqueIps(list[p].ip_address)
  PROVE  LET r == add_ip_to_peer(list, id, a, time)
         IN  \E k \in DOMAIN r :
               /\ r \in Seq(Peers(I, A, T))
               /\ UniqueIds(r)
               /\ r[k].id = id
               /\ \/ /\ is_peer_in_list(list, id)
                     /\ k \in DOMAIN list /\ DOMAIN r = DOMAIN list
                     /\ list[k].id = id
                     /\ r[k].ip_address =
                          add_or_update_entry(list[k].ip_address, a, time)
                  \/ /\ ~is_peer_in_list(list, id)
                     /\ k = Len(list) + 1 /\ DOMAIN r = 1 .. Len(list) + 1
                     /\ \A p \in DOMAIN list : list[p].id # id
                     /\ r[k].ip_address = add_or_update_entry(<<>>, a, time)
               /\ \A p \in DOMAIN r : p # k => p \in DOMAIN list /\ r[p] = list[p]
<1> DEFINE i == find_peer(list, id)
           r == add_ip_to_peer(list, id, a, time)
           l == append_peer(list, id)
           k == find_peer(l, id)
           new(p) == add_or_update_entry(l[p].ip_address, a, time)
<1>1. DOMAIN list = 1 .. Len(list) /\ Len(list) \in Nat
  OBVIOUS
<1>2. CASE i = 0 /\ \A p \in DOMAIN list : list[p].id # id
  <2> DEFINE e == [id |-> id, ip_address |-> <<>>]
  <2>1. l = Append(list, e)
    BY <1>2 DEF append_peer, is_peer_in_list
  <2>2. e \in Peers(I, A, T) /\ e.id = id /\ e.ip_address = <<>>
    BY DEF Peers
  <2> HIDE DEF l, e
  <2>3. /\ l \in Seq(Peers(I, A, T))
        /\ DOMAIN l = 1 .. Len(list) + 1
        /\ \A p \in 1 .. Len(list) : l[p] = list[p]
        /\ l[Len(list) + 1] = e
    BY <1>1, <2>1, <2>2
  <2>4. UniqueIds(l)
    BY <1>1, <1>2, <2>2, <2>3 DEF UniqueIds
  <2>5. k \in DOMAIN l /\ l[k].id = id
    BY <1>1, <2>2, <2>3, <2>4, FindPeer
  <2>6. k = Len(list) + 1
    BY <1>1, <1>2, <2>3, <2>5
  <2>7. r = [l EXCEPT ![k].ip_address = new(k)]
    BY <2>3, <2>5 DEF add_ip_to_peer, l
  <2>8. new(k) \in Seq(Entries(A, T))
    <3>1. l[k].ip_address = <<>>
      BY <2>2, <2>3, <2>6
    <3>2. <<>> \in Seq(Entries(A, T)) /\ UniqueIps(<<>>)
      BY DEF UniqueIps
    <3> QED  BY <3>1, <3>2, AddOrUpdateEntry
  <2>9. new(k) = add_or_update_entry(<<>>, a, time)
    BY <2>2, <2>3, <2>6
  <2> HIDE DEF k, r, new
  <2> DEFINE u == [l[k] EXCEPT !.ip_address = new(k)]
  <2>15. u \in Peers(I, A, T) /\ u.id = l[k].id /\ u.ip_address = new(k)
    <3>1. l[k] \in Peers(I, A, T)
      BY <2>3, <2>5
    <3> QED  BY <2>8, <3>1 DEF Peers
  <2>16. r = [l EXCEPT ![k] = u]
    BY <2>7
  <2> HIDE DEF u
  <2>10. /\ r \in Seq(Peers(I, A, T)) /\ DOMAIN r = DOMAIN l
         /\ \A p \in DOMAIN l : r[p].id = l[p].id
         /\ \A p \in DOMAIN l : p # k => r[p] = l[p]
         /\ r[k].ip_address = new(k)
    BY <2>3, <2>5, <2>15, <2>16
  <2>11. UniqueIds(r)
    BY <2>4, <2>10 DEF UniqueIds
  <2>12. ~is_peer_in_list(list, id)
    BY <1>2 DEF is_peer_in_list
  <2>13. \A p \in DOMAIN r : p # k => p \in DOMAIN list /\ r[p] = list[p]
    BY <1>1, <2>3, <2>6, <2>10
  <2>14. /\ k \in DOMAIN r /\ r[k].id = id /\ DOMAIN r = 1 .. Len(list) + 1
    BY <2>3, <2>5, <2>10
  <2> QED  BY <1>2, <2>6, <2>9, <2>10, <2>11, <2>12, <2>13, <2>14 DEF r
<1>3. CASE i \in DOMAIN list /\ list[i].id = id
  <2>1. is_peer_in_list(list, id)
    BY <1>1, <1>3 DEF is_peer_in_list
  <2>2. l = list
    BY <2>1 DEF append_peer
  <2>3. r = [list EXCEPT ![i].ip_address = new(i)]
    BY <1>3, <2>2 DEF add_ip_to_peer
  <2>4. new(i) = add_or_update_entry(list[i].ip_address, a, time)
    BY <2>2
  <2> HIDE DEF i, r, l, new
  <2>5. list[i].ip_address \in Seq(Entries(A, T))
    <3>1. list[i] \in Peers(I, A, T)
      BY <1>3
    <3> QED  BY <3>1 DEF Peers
  <2>6. new(i) \in Seq(Entries(A, T))
    BY <1>3, <2>4, <2>5, AddOrUpdateEntry
  <2> DEFINE u == [list[i] EXCEPT !.ip_address = new(i)]
  <2>9. u \in Peers(I, A, T) /\ u.id = list[i].id /\ u.ip_address = new(i)
    <3>1. list[i] \in Peers(I, A, T)
      BY <1>3
    <3> QED  BY <2>6, <3>1 DEF Peers
  <2>10. r = [list EXCEPT ![i] = u]
    BY <2>3
  <2> HIDE DEF u
  <2>7. /\ r \in Seq(Peers(I, A, T)) /\ DOMAIN r = DOMAIN list
        /\ \A p \in DOMAIN list : r[p].id = list[p].id
        /\ \A p \in DOMAIN list : p # i => r[p] = list[p]
        /\ r[i].ip_address = new(i)
    BY <1>1, <1>3, <2>9, <2>10
  <2>8. UniqueIds(r)
    BY <2>7 DEF UniqueIds
  <2> QED  BY <1>3, <2>1, <2>4, <2>7, <2>8 DEF r
<1> QED  BY <1>2, <1>3, FindPeer

\* remove_peer takes out the peer and keeps the others, each with its
\* addresses.
LEMMA RemoveKeeps ==
  ASSUME NEW P, NEW list \in Seq(P), UniqueIds(list), NEW id
  PROVE  LET r == remove_peer(list, id)
         IN  /\ r \in Seq(P)
             /\ UniqueIds(r)
             /\ \A p \in DOMAIN r :
                  r[p].id # id /\ \E q \in DOMAIN list : list[q] = r[p]
             /\ \A q \in DOMAIN list :
                  list[q].id # id => \E p \in DOMAIN r : r[p] = list[q]
<1> DEFINE i == find_peer(list, id)
           r == remove_peer(list, id)
<1>1. DOMAIN list = 1 .. Len(list) /\ Len(list) \in Nat
  OBVIOUS
<1>2. CASE i = 0 /\ \A p \in DOMAIN list : list[p].id # id
  <2>1. r = list
    BY <1>2 DEF remove_peer, is_peer_in_list
  <2> QED  BY <1>2, <2>1
<1>3. CASE i \in DOMAIN list /\ list[i].id = id
  <2> DEFINE n == Len(list) - 1
             s == SubSeq(list, 1, i - 1)
             t == SubSeq(list, i + 1, Len(list))
  <2>1. r = s \o t
    <3>1. is_peer_in_list(list, id)
      BY <1>1, <1>3 DEF is_peer_in_list
    <3> QED  BY <3>1 DEF remove_peer, RemoveAt
  <2> HIDE DEF r, i
  <2>2. /\ s \in Seq(P) /\ Len(s) = i - 1
        /\ \A p \in 1 .. i - 1 : s[p] = list[p]
    BY <1>1, <1>3
  <2>3. /\ t \in Seq(P) /\ Len(t) = Len(list) - i
        /\ \A p \in 1 .. Len(list) - i : t[p] = list[p + i]
    BY <1>1, <1>3
  <2> HIDE DEF s, t
  <2>9. /\ r \in Seq(P) /\ Len(r) = n /\ n \in Nat
        /\ i \in Nat
    <3>1. i \in 1 .. Len(list)
      BY <1>1, <1>3
    <3>2. s \in Seq(P) /\ t \in Seq(P)
      BY <2>2, <2>3
    <3>3. r \in Seq(P) /\ Len(r) = Len(s) + Len(t)
      BY <2>1, <3>2
    <3> QED  BY <1>1, <2>2, <2>3, <3>1, <3>3
  <2>10. \A p \in 1 .. i - 1 : r[p] = list[p]
    BY <2>1, <2>2, <2>3, <2>9
  <2>11. ASSUME NEW p \in 1 .. n, p >= i
         PROVE  r[p] = list[p + 1]
    <3>1. /\ p - (i - 1) \in 1 .. Len(list) - i
          /\ p - (i - 1) + i = p + 1
      BY <1>1, <2>9, <2>11
    <3>2. r[p] = t[p - (i - 1)]
      BY <1>1, <2>1, <2>2, <2>3, <2>9, <2>11
    <3>3. t[p - (i - 1)] = list[p - (i - 1) + i]
      BY <2>3, <3>1
    <3> QED  BY <3>1, <3>2, <3>3
  <2>4. /\ r \in Seq(P) /\ DOMAIN r = 1 .. n
        /\ \A p \in 1 .. n : r[p] = IF p < i THEN list[p] ELSE list[p + 1]
    BY <1>1, <2>9, <2>10, <2>11
  <2>5. ASSUME NEW p \in 1 .. n
        PROVE  \E q \in DOMAIN list : q # i /\ list[q] = r[p]
    <3>1. CASE p < i
      BY <1>1, <2>4, <2>9, <3>1
    <3>2. CASE p >= i
      <4>1. p + 1 \in DOMAIN list /\ p + 1 # i /\ r[p] = list[p + 1]
        BY <1>1, <2>9, <2>11, <3>2
      <4> QED  BY <4>1
    <3> QED  BY <2>9, <3>1, <3>2
  <2>6. \A p \in DOMAIN r : r[p].id # id
    BY <1>3, <2>4, <2>5 DEF UniqueIds
  <2>7. \A q \in DOMAIN list : q # i => \E p \in DOMAIN r : r[p] = list[q]
    <3> SUFFICES ASSUME NEW q \in DOMAIN list, q # i
                 PROVE  \E p \in DOMAIN r : r[p] = list[q]
      OBVIOUS
    <3>1. CASE q < i  BY <1>1, <1>3, <2>4, <3>1
    <3>2. CASE q > i
      <4>1. q - 1 \in 1 .. n /\ r[q - 1] = list[q]
        BY <1>1, <1>3, <2>4, <3>2
      <4> QED  BY <2>4, <4>1
    <3> QED  BY <1>1, <1>3, <3>1, <3>2
  <2>8. UniqueIds(r)
    <3> SUFFICES ASSUME NEW p \in 1 .. n, NEW q \in 1 .. n, r[p].id = r[q].id
                 PROVE  p = q
      BY <2>4 DEF UniqueIds
    <3> DEFINE at(j) == IF j < i THEN j ELSE j + 1
    <3>1. /\ at(p) \in DOMAIN list /\ at(q) \in DOMAIN list
          /\ r[p] = list[at(p)] /\ r[q] = list[at(q)]
      BY <1>1, <1>3, <2>4
    <3>2. at(p) = at(q)
      BY <3>1 DEF UniqueIds
    <3> QED  BY <1>1, <1>3, <3>2
  <2> QED  BY <1>3, <2>4, <2>5, <2>6, <2>7, <2>8 DEF r
<1> QED  BY <1>2, <1>3, FindPeer

\* A set of positions has a last one.
LEMMA LastPosition ==
  ASSUME NEW n \in Nat, NEW S \in SUBSET (1 .. n), S # {}
  PROVE  Max(S) \in S
<1>0. \A i \in S : i \in Nat /\ n - i \in Nat
  OBVIOUS
<1> DEFINE R == OpToRel(<, Nat)
           T == {n - i : i \in S}
<1>1. IsWellFoundedOn(R, Nat)
  BY NatLessThanWellFounded
<1>2. T \subseteq Nat /\ T # {}
  BY <1>0
<1>3. \A x, y \in Nat : x < y => <<x, y>> \in R
  BY DEF OpToRel
<1> HIDE DEF R, T
<1>4. PICK x \in T : \A y \in T : ~ (<<y, x>> \in R)
  BY <1>1, <1>2, WFMin
<1>5. PICK i \in S : x = n - i
  BY <1>4 DEF T
<1>6. ASSUME NEW j \in S PROVE i >= j
  <2>1. n - j \in T /\ n - j \in Nat /\ x \in Nat
    BY <1>2, <1>4 DEF T
  <2>2. ~ (n - j < x)
    BY <1>3, <1>4, <2>1
  <2> QED  BY <1>5, <2>1, <2>2
<1> QED  BY <1>6 DEF Max

\* get_best_address returns an IPv6 address if there is one.
LEMMA BestIsIPv6 ==
  ASSUME NEW E, NEW ips \in Seq(E),
         \E i \in DOMAIN ips : ips[i].addr.family = "v6"
  PROVE  get_best_address(ips).family = "v6"
<1> DEFINE later == {i \in 2 .. Len(ips) : ips[i].addr.family = "v6"}
<1>1. Len(ips) \in Nat /\ DOMAIN ips = 1 .. Len(ips)
  OBVIOUS
<1>2. CASE later = {}
  <2>1. ips[1].addr.family = "v6"
    BY <1>1, <1>2
  <2> QED  BY <1>2, <2>1 DEF get_best_address
<1>3. CASE later # {}
  <2>1. later \in SUBSET (1 .. Len(ips))
    BY <1>1
  <2>2. Max(later) \in later
    BY <1>1, <1>3, <2>1, LastPosition
  <2>3. get_best_address(ips) = ips[Max(later)].addr
    BY <1>3 DEF get_best_address
  <2> QED  BY <2>2, <2>3
<1> QED  BY <1>2, <1>3
=============================================================================
