-------------------------------- MODULE Sync --------------------------------
(***************************************************************************)
(* What p2pfsync promises (mainpage.dox): a file that is present at        *)
(* another peer is downloaded and added here.  A file gets to a host only  *)
(* as its user's or as a copy of a peer's, whole, and stays as it is,      *)
(* until users change the file or something else is sent for it; then      *)
(* nothing is promised about its path.                                     *)
(***************************************************************************)
CONSTANTS Hosts, Paths

VARIABLES have,    \* the paths of which a host has the whole file
          spoilt   \* the paths that users changed or that something else was sent for

Init == have = [h \in Hosts |-> {}] /\ spoilt = {}

Make(h, p) ==
  /\ p \notin spoilt /\ \A g \in Hosts : p \notin have[g]
  /\ have' = [have EXCEPT ![h] = @ \cup {p}]
  /\ UNCHANGED spoilt

Copy(h, p) ==
  /\ p \notin spoilt /\ \E g \in Hosts : p \in have[g]
  /\ have' = [have EXCEPT ![h] = @ \cup {p}]
  /\ UNCHANGED spoilt

Spoil ==
  \E ps \in SUBSET Paths :
    /\ spoilt' = spoilt \cup ps
    /\ have' = [h \in Hosts |-> have[h] \ ps]

Next == Spoil \/ \E h \in Hosts, p \in Paths : Make(h, p) \/ Copy(h, p)

Spec == Init /\ [][Next]_<<have, spoilt>>
=============================================================================
