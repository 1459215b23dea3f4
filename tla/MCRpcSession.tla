---------------------------- MODULE MCRpcSession ----------------------------
(***************************************************************************)
(* Instances of RpcSession: one or two calls, one or two worker threads.   *)
(***************************************************************************)
EXTENDS RpcSession, TLC

CONSTANTS k1, k2, t1, t2

\* The names of the timers' callbacks.
Timers == [k \in Calls |-> IF k = k1 THEN t1 ELSE t2]

\* Response channels hold one message. m_send_channal holds 1024: more than there are
\* calls, as here.
Capacities == [ch \in Channal |-> IF ch = Requests THEN Cardinality(Calls) + 1 ELSE 1]

\* The threads are interchangeable.
Threads == Permutations(Worker)

\* The timers of both calls may fall into one millisecond.
Together == {{t1, t2}}

=============================================================================
