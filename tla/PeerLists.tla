----------------------------- MODULE PeerLists -----------------------------
(***************************************************************************)
(* The operations of peer_list.c and ip_address_list.c on the list of      *)
(* known peers, as functions from list to list.  A linked list is the      *)
(* sequence of its entries; each operation runs as a whole under           *)
(* peer_list_lock.  An address is a sockaddr: its family ("v4", "v6"), its *)
(* ip and the rest of it (port, scope), which the list keeps but does not  *)
(* compare.  Comparing addresses of two families reads one of them at the  *)
(* offsets of the other (flow label, padding) and finds no address that a  *)
(* peer has: they differ.  An IPv4 address that came through an IPv6       *)
(* socket has the family "v6", as its sockaddr does.                       *)
(***************************************************************************)
EXTENDS Naturals, Sequences, FiniteSets, SequencesExt, FiniteSetsExt

\* Position of the peer in the list, 0 (NULL) if it is not there.
find_peer(list, id) == SelectInSeq(list, LAMBDA peer : peer.id = id)

is_peer_in_list(list, id) == find_peer(list, id) # 0

\* Position of the first entry with the same ip, whatever its port and scope.
find_entry(ips, a) ==
  SelectInSeq(ips, LAMBDA e : e.addr.family = a.family /\ e.addr.ip = a.ip)

\* Mutant: a known address keeps the time it was first seen.
add_or_keep_entry(ips, a, time) ==
  IF find_entry(ips, a) # 0 THEN ips ELSE Append(ips, [addr |-> a, last_seen |-> time])

\* Mutant: a new entry is zeroed and its time never copied.
add_untimed_entry(ips, a, time) ==
  LET i == find_entry(ips, a)
  IN  IF i # 0 THEN [ips EXCEPT ![i].last_seen = time]
               ELSE Append(ips, [addr |-> a, last_seen |-> 0])

\* A known address gets the new time, an unknown one becomes the last entry.
add_or_update_entry(ips, a, time) ==
  LET i == find_entry(ips, a)
  IN  IF i # 0 THEN [ips EXCEPT ![i].last_seen = time]
               ELSE Append(ips, [addr |-> a, last_seen |-> time])

\* Mutant: append_peer without its search for the peer.
append_peer_twice(list, id) == Append(list, [id |-> id, ip_address |-> <<>>])

append_peer(list, id) ==
  IF is_peer_in_list(list, id) THEN list
  ELSE Append(list, [id |-> id, ip_address |-> <<>>])

\* The peer is appended first if it is unknown.
add_ip_to_peer(list, id, a, time) ==
  LET l == append_peer(list, id)
  IN  [l EXCEPT ![find_peer(l, id)].ip_address = add_or_update_entry(@, a, time)]

\* The peer is unlinked; an unknown one leaves the list as it is.
remove_peer(list, id) ==
  IF is_peer_in_list(list, id) THEN RemoveAt(list, find_peer(list, id)) ELSE list

\* Mutant: the first entry is never replaced by an IPv6 one.
get_first_address(ips) == Head(ips).addr

\* The first entry, replaced by each IPv6 entry that comes after it.
get_best_address(ips) ==
  LET later == {i \in 2 .. Len(ips) : ips[i].addr.family = "v6"}
  IN  ips[IF later = {} THEN 1 ELSE Max(later)].addr
=============================================================================
