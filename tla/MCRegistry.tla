------------------------------ MODULE MCRegistry ------------------------------
(***************************************************************************)
(* An instance of Registry for TLC: two nodes of a registry, two servers   *)
(* that offer the same function, one client.                              *)
(***************************************************************************)
EXTENDS Registry, TLC

CONSTANTS r1, r2, s1, s2

Both == [s \in Server |-> Func]
OnlySecond == (s1 :> {}) @@ (s2 :> Func)
\* The second server is configured with the second node.
EachItsOwn == [p \in Server \cup Client |-> IF p = s2 THEN r2 ELSE r1]
FirstTwice == (s1 :> 2) @@ (s2 :> 1)
=============================================================================
