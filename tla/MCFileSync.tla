----------------------------- MODULE MCFileSync -----------------------------
(* A file of two blocks in a directory, and a file in a directory whose    *)
(* name begins with a space.                                               *)
EXTENDS FileSync, TLC
CONSTANTS a1, a2, b1

Spaced == <<" e", "z">>
MCPaths == {<<"d", "y">>, Spaced}
MCOnePath == {<<"x">>}
MCContents == [p \in Paths |-> IF p = Spaced THEN {<<b1>>} ELSE {<<a1, a2>>}]
MCCut == [n \in {" e"} |-> <<>>]
Symmetry == Permutations(Hosts)
MCBlocks == {a1, a2, b1, Text, Garbage}

\* Either there is the second file, or something fails.
OneOrOther == Spaced \in DOMAIN made' => faults' = 0
=============================================================================
