---------------------------- MODULE BoundedQueue ----------------------------
(***************************************************************************)
(* What a number of CoroutineChannals promise: each is a queue that never  *)
(* grows beyond its capacity, hands out every message once and in order,   *)
(* and takes and gives nothing any more once it is closed.                 *)
(***************************************************************************)
EXTENDS Naturals, Sequences

CONSTANTS Channal, Message, capacity

VARIABLES queue, closed

Init ==
    /\ queue = [ch \in Channal |-> <<>>]
    /\ closed = [ch \in Channal |-> FALSE]

Put(ch) ==
    /\ ~closed[ch]
    /\ Len(queue[ch]) < capacity[ch]
    /\ \E m \in Message : queue' = [queue EXCEPT ![ch] = Append(@, m)]
    /\ UNCHANGED closed

Get(ch) ==
    /\ ~closed[ch]
    /\ queue[ch] # <<>>
    /\ queue' = [queue EXCEPT ![ch] = Tail(@)]
    /\ UNCHANGED closed

Close(ch) ==
    /\ closed' = [closed EXCEPT ![ch] = TRUE]
    /\ UNCHANGED queue

Next == \E ch \in Channal : Put(ch) \/ Get(ch) \/ Close(ch)

Spec == Init /\ [][Next]_<<queue, closed>>

=============================================================================
