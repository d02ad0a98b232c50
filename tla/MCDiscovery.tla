---------------------------- MODULE MCDiscovery ----------------------------
(* Discovery with two hosts; `a` has two interfaces in TwoAddr.             *)
EXTENDS Discovery, TLC

CONSTANTS a, b, macA, macB

Sockaddr(f, ip) == [family |-> f, ip |-> ip]

MCHosts == {a, b}
OneAddr == (a :> {Sockaddr("v6", 1)}) @@ (b :> {Sockaddr("v6", 2)})
TwoAddr == (a :> {Sockaddr("v6", 1), Sockaddr("v6", 3)}) @@ (b :> {Sockaddr("v6", 2)})
Macs == (a :> macA) @@ (b :> macB)
NoMacs == (a :> NULL) @@ (b :> NULL)
Once == (a :> 1) @@ (b :> 1)
BTwice == (a :> 1) @@ (b :> 2)
=============================================================================
