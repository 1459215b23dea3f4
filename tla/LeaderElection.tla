--------------------------- MODULE LeaderElection ---------------------------
(***************************************************************************)
(* What the election of RaftNode promises to the rest of the system: terms *)
(* only grow, a node leads in the term it is in or not at all, a term has  *)
(* at most one leader ever, and a leader gives up only by moving to a      *)
(* newer term.  Votes, timers and messages are gone.                       *)
(***************************************************************************)
EXTENDS Naturals

CONSTANTS Node, MaxTerm

VARIABLES
    term,       \* the term each node is in
    leads,      \* whether it leads in that term
    elected     \* the nodes that ever led in a term

vars == <<term, leads, elected>>

Term == 1..MaxTerm

Init ==
    /\ term = [i \in Node |-> 0]
    /\ leads = [i \in Node |-> FALSE]
    /\ elected = [t \in Term |-> {}]

\* i takes the lead of the term it is in, which nobody has led.
Elect(i) ==
    /\ term[i] \in Term
    /\ elected[term[i]] = {}
    /\ leads' = [leads EXCEPT ![i] = TRUE]
    /\ elected' = [elected EXCEPT ![term[i]] = {i}]
    /\ UNCHANGED term

\* i moves on to a newer term.
Advance(i) ==
    /\ \E t \in Term : t > term[i] /\ term' = [term EXCEPT ![i] = t]
    /\ leads' = [leads EXCEPT ![i] = FALSE]
    /\ UNCHANGED elected

Next == \E i \in Node : Elect(i) \/ Advance(i)

Spec == Init /\ [][Next]_vars
=============================================================================
