------------------------------- MODULE MCRaft -------------------------------
(***************************************************************************)
(* Instances of RaftNode for TLC: which elections take place, which        *)
(* sessions open, break and carry heartbeats, and what clients register.   *)
(***************************************************************************)
EXTENDS RaftNode

CONSTANTS n1, n2, n3, n4, n5

\* Sets of sessions.
NoSession    == {}
EverySession == {<<i, j>> \in Node \X Node : i # j}
FromN1       == {<<n1, j>> : j \in Node \ {n1}}
N2ToN1       == {<<n2, n1>>}
N2ToN3       == {<<n2, n3>>}
\* In a cluster of five n3 is asked by both n1 and n2, who each need one more
\* grant: n1 that of n4, n2 that of n1.
Overlapping  == {n1} \X {n3, n4} \cup {n2} \X {n1, n3}
\* n1 and n2 reach each other, n2 reaches n3 and n3 reaches n1.
Ring         == {<<n1, n2>>, <<n2, n1>>, <<n2, n3>>, <<n3, n1>>}

\* Sets of elections.
Single      == {<<n1, 1>>}
\* Two stand in the first term and again in the second, or one of them only.
Contested   == {n1, n2} \X {1, 2}
Handover    == {<<n1, 1>>, <<n2, 2>>}
InTurn      == {<<n1, 1>>, <<n2, 2>>, <<n3, 3>>}
\* n1 and n2 depose each other twice.
ReturnTwice == {<<n1, 1>>, <<n2, 2>>, <<n1, 3>>, <<n2, 4>>}

\* Sets of register messages.
NoRegistration == {}
OneOrNone      == {<<"add">>, <<>>}
=============================================================================
