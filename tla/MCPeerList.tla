----------------------------- MODULE MCPeerList -----------------------------
(* PeerList with two peers, one IPv4 and two IPv6 addresses, one of these  *)
(* seen with two ports.                                                    *)
EXTENDS PeerList

Sockaddr(f, ip, r) == [family |-> f, ip |-> ip, rest |-> r]

MCAddrs == {Sockaddr("v4", 1, 1), Sockaddr("v6", 2, 1), Sockaddr("v6", 2, 2),
            Sockaddr("v6", 3, 1)}
=============================================================================
