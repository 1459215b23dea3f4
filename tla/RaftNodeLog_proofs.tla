------------------------- MODULE RaftNodeLog_proofs -------------------------
(***************************************************************************)
(* The logs of RaftNode.                                                   *)
(*                                                                         *)
(* In every cluster: a log is ordered, because a request carries an entry  *)
(* with the one before it from the log of a leader of its term (LogInv); a *)
(* replicator finds that entry unless its session is late; and the hint    *)
(* m_leaderId says who leads.                                              *)
(*                                                                         *)
(* With one leader per term, hence in an odd cluster: a leader's log only  *)
(* grows, the leaked logger mutex never meets a leader, and two logs agree *)
(* up to an entry of the same index and term.  The last needs MatchInv:    *)
(* over all logs and requests, index and term of an entry determine it and *)
(* the term before it, and a leader's log is past every entry of its term. *)
(***************************************************************************)
EXTENDS RaftNodeElection_proofs

\* What LogsOrdered says of one log.
Ordered(log) ==
    \A k \in DOMAIN log : /\ log[k].index = k - 1
                          /\ \A m \in 1..k : log[m].term <= log[k].term

\* A log has positions from 1, each with an entry.
LEMMA LogShape ==
    ASSUME NEW log \in Log
    PROVE  /\ Len(log) \in Nat /\ Len(log) >= 1
           /\ DOMAIN log = 1..Len(log)
           /\ \A k \in 1..Len(log) :
                 log[k] \in Entry /\ log[k].index \in Nat /\ log[k].term \in Nat
<1>1. log \in Seq(Entry) /\ Len(log) \in Nat \ {0}
  BY LastType DEF Log
<1>2. DOMAIN log = 1..Len(log) /\ \A k \in 1..Len(log) : log[k] \in Entry
  BY <1>1, LenProperties, ElementOfSeq
<1>3. \A e \in Entry : e.index \in Nat /\ e.term \in Nat
  BY DEF Entry
<1> HIDE DEF Entry
<1> QED
  BY <1>1, <1>2, <1>3

\* appendNew keeps what is there and adds one entry per op.
LEMMA AppendNewShape ==
    ASSUME NEW log \in Log, NEW term \in Nat, NEW ops \in Seq(Op)
    PROVE  LET new == appendNew(log, term, ops) IN
           /\ Len(ops) \in Nat
           /\ Len(new) = Len(log) + Len(ops)
           /\ DOMAIN new = 1..(Len(log) + Len(ops))
           /\ \A k \in 1..Len(log) : new[k] = log[k]
           /\ \A k \in 1..Len(ops) :
                 /\ new[Len(log) + k].index = getLastIndex(log) + k
                 /\ new[Len(log) + k].term = term
<1> DEFINE added == [k \in DOMAIN ops |->
                       [index |-> getLastIndex(log) + k, term |-> term, op |-> ops[k]]]
<1>1. log \in Seq(Entry) /\ Len(log) \in Nat
  BY LogShape DEF Log
<1>2. Len(ops) \in Nat /\ DOMAIN ops = 1..Len(ops)
  BY LenProperties
<1>3. added \in Seq(Entry) /\ Len(added) = Len(ops)
  <2>1. \A k \in 1..Len(ops) : [index |-> getLastIndex(log) + k, term |-> term, op |-> ops[k]] \in Entry
    BY LastType DEF Entry
  <2> QED
    BY <1>2, <2>1
<1>4. appendNew(log, term, ops) = log \o added
  BY DEF appendNew
<1>5. \A k \in 1..Len(ops) :
         added[k].index = getLastIndex(log) + k /\ added[k].term = term
  BY <1>2
<1> HIDE DEF added
<1>6. /\ Len(log \o added) = Len(log) + Len(added)
      /\ \A k \in 1..(Len(log) + Len(added)) :
            (log \o added)[k] = IF k <= Len(log) THEN log[k] ELSE added[k - Len(log)]
  BY <1>1, <1>3, ConcatProperties
<1>7. DOMAIN (log \o added) = 1..(Len(log) + Len(ops))
  BY <1>1, <1>3, <1>6, ConcatProperties, LenProperties
<1>8. \A k \in 1..Len(log) : (log \o added)[k] = log[k]
  BY <1>1, <1>2, <1>3, <1>6
<1>9. \A k \in 1..Len(ops) : (log \o added)[Len(log) + k] = added[k]
  <2> TAKE k \in 1..Len(ops)
  <2>1. Len(log) + k \in 1..(Len(log) + Len(added)) /\ ~(Len(log) + k <= Len(log))
        /\ Len(log) + k - Len(log) = k
    BY <1>1, <1>2, <1>3
  <2> QED
    BY <1>6, <2>1
<1>10. \A k \in 1..Len(ops) : /\ (log \o added)[Len(log) + k].index = getLastIndex(log) + k
                              /\ (log \o added)[Len(log) + k].term = term
  BY <1>5, <1>9
<1> QED
  BY <1>2, <1>3, <1>4, <1>6, <1>7, <1>8, <1>10

\* appendEntry stops at the position of prevLogIndex, keeps the log up to it and
\* puts the entry behind.
LEMMA AppendAfterShape ==
    ASSUME NEW log \in Log, Ordered(log), NEW e \in Entry, NEW prevLogIndex \in Nat,
           NEW prevLogTerm \in Nat, Matches(log, prevLogIndex, prevLogTerm)
    PROVE  LET new == appendAfter(log, e, prevLogIndex)
               p   == prevLogIndex + 1
           IN
           /\ p \in 1..Len(log)
           /\ log[p].term = prevLogTerm
           /\ Len(new) = p + 1
           /\ DOMAIN new = 1..(p + 1)
           /\ \A k \in 1..p : new[k] = log[k]
           /\ new[p + 1] = e
<1> DEFINE p == prevLogIndex + 1
           q == CHOOSE q \in DOMAIN log : StopsAt(log, q, prevLogIndex)
<1>1. log \in Seq(Entry) /\ Len(log) \in Nat /\ DOMAIN log = 1..Len(log)
  BY LogShape DEF Log
<1>2. \A s \in DOMAIN log : StopsAt(log, s, prevLogIndex) => s = p
  BY <1>1 DEF StopsAt, Ordered
<1>3. PICK s \in DOMAIN log : StopsAt(log, s, prevLogIndex) /\ log[s].term = prevLogTerm
  BY DEF Matches
<1>4. q \in DOMAIN log /\ StopsAt(log, q, prevLogIndex)
  BY <1>3
<1>5. q = p /\ p \in 1..Len(log) /\ log[p].term = prevLogTerm
  BY <1>1, <1>2, <1>3, <1>4
<1>6. appendAfter(log, e, prevLogIndex) = Append(SubSeq(log, 1, p), e)
  BY <1>5 DEF appendAfter
<1> HIDE DEF p, q
<1>7. /\ SubSeq(log, 1, p) \in Seq(Entry)
      /\ Len(SubSeq(log, 1, p)) = p
      /\ \A k \in 1..p : SubSeq(log, 1, p)[k] = log[k]
  BY <1>1, <1>5, SubSeqProperties
<1> DEFINE kept == SubSeq(log, 1, p)
<1> HIDE DEF kept
<1>8. /\ Append(kept, e) \in Seq(Entry)
      /\ Len(Append(kept, e)) = p + 1
      /\ \A k \in 1..p : Append(kept, e)[k] = kept[k]
      /\ Append(kept, e)[p + 1] = e
  BY <1>7, AppendProperties DEF kept
<1>9. DOMAIN Append(kept, e) = 1..(p + 1)
  BY <1>8, LenProperties
<1> QED
  BY <1>5, <1>6, <1>7, <1>8, <1>9 DEF p, kept

\* An ordered log stays so when its node appends in a term that is not older.
LEMMA AppendNewOrdered ==
    ASSUME NEW log \in Log, Ordered(log), NEW term \in Nat, getLastTerm(log) <= term,
           NEW ops \in Seq(Op)
    PROVE  LET new == appendNew(log, term, ops) IN Ordered(new) /\ getLastTerm(new) <= term
<1> DEFINE new == appendNew(log, term, ops)
           n == Len(log)
<1>1. /\ n \in Nat /\ n >= 1 /\ DOMAIN log = 1..n
      /\ \A k \in 1..n : log[k].index \in Nat /\ log[k].term \in Nat
  BY LogShape
<1>2. /\ Len(ops) \in Nat
      /\ Len(new) = n + Len(ops)
      /\ DOMAIN new = 1..(n + Len(ops))
      /\ \A k \in 1..n : new[k] = log[k]
      /\ \A k \in 1..Len(ops) : /\ new[n + k].index = getLastIndex(log) + k
                                /\ new[n + k].term = term
  BY AppendNewShape
<1>3. getLastIndex(log) = n - 1 /\ getLastTerm(log) = log[n].term
  BY <1>1 DEF Ordered, getLastIndex, getLastTerm, Last
<1> HIDE DEF new, n
<1>4. \A k \in 1..n : log[k].index = k - 1 /\ log[k].term <= term
  <2> TAKE k \in 1..n
  <2>1. n \in 1..n
    BY <1>1
  <2>2. log[k].term <= log[n].term
    BY <1>1, <2>1 DEF Ordered
  <2>3. log[k].term \in Nat /\ log[n].term \in Nat
    BY <1>1, <2>1
  <2>4. log[k].index = k - 1
    BY <1>1 DEF Ordered
  <2>5. log[n].term <= term
    BY <1>3
  <2> QED
    BY <2>2, <2>3, <2>4, <2>5
<1>5. \A k \in (n + 1)..(n + Len(ops)) : new[k].index = k - 1 /\ new[k].term = term
  <2> TAKE k \in (n + 1)..(n + Len(ops))
  <2>1. k - n \in 1..Len(ops) /\ n + (k - n) = k /\ (n - 1) + (k - n) = k - 1
    BY <1>1, <1>2
  <2> QED
    BY <1>2, <1>3, <2>1
<1>6. \A k \in 1..(n + Len(ops)) : k \in 1..n \/ k \in (n + 1)..(n + Len(ops))
  BY <1>1, <1>2
<1>7. \A k \in 1..(n + Len(ops)) : new[k].term <= term
  BY <1>2, <1>4, <1>5, <1>6
<1>8. Ordered(new)
  <2> SUFFICES ASSUME NEW k \in 1..(n + Len(ops))
               PROVE  new[k].index = k - 1 /\ \A m \in 1..k : new[m].term <= new[k].term
    BY <1>2 DEF Ordered
  <2>1. CASE k \in 1..n
    <3>1. \A m \in 1..k : m \in 1..n
      BY <1>1, <2>1
    <3> QED
      BY <1>1, <1>2, <2>1, <3>1 DEF Ordered
  <2>2. CASE k \in (n + 1)..(n + Len(ops))
    <3>1. \A m \in 1..k : m \in 1..(n + Len(ops))
      BY <1>1, <1>2
    <3> QED
      BY <1>5, <1>7, <2>2, <3>1
  <2> QED
    BY <1>6, <2>1, <2>2
<1>9. getLastTerm(new) <= term
  <2>1. n + Len(ops) \in 1..(n + Len(ops))
    BY <1>1, <1>2
  <2> QED
    BY <1>2, <1>7, <2>1 DEF getLastTerm, Last
<1> QED
  BY <1>8, <1>9 DEF new

\* And when it takes an entry that continues it.
LEMMA AppendAfterOrdered ==
    ASSUME NEW log \in Log, Ordered(log), NEW e \in Entry, NEW prevLogIndex \in Nat,
           NEW prevLogTerm \in Nat, Matches(log, prevLogIndex, prevLogTerm),
           e.index = prevLogIndex + 1, prevLogTerm <= e.term
    PROVE  LET new == appendAfter(log, e, prevLogIndex)
           IN  Ordered(new) /\ getLastTerm(new) = e.term
<1> DEFINE new == appendAfter(log, e, prevLogIndex)
           p == prevLogIndex + 1
<1>1. /\ p \in 1..Len(log)
      /\ log[p].term = prevLogTerm
      /\ Len(new) = p + 1
      /\ DOMAIN new = 1..(p + 1)
      /\ \A k \in 1..p : new[k] = log[k]
      /\ new[p + 1] = e
  BY AppendAfterShape
<1>2. /\ Len(log) \in Nat /\ DOMAIN log = 1..Len(log)
      /\ \A k \in 1..Len(log) : log[k].index \in Nat /\ log[k].term \in Nat
  BY LogShape
<1>3. e.term \in Nat
  BY DEF Entry
<1>4. e.index = p /\ p \in Nat
  OBVIOUS
<1> HIDE DEF new, p
<1>5. \A k \in 1..p : /\ new[k].index = k - 1 /\ new[k].term <= e.term
                      /\ \A m \in 1..k : new[m].term <= new[k].term
  <2> TAKE k \in 1..p
  <2>1. k \in 1..Len(log) /\ \A m \in 1..k : m \in 1..p /\ m \in 1..Len(log)
    BY <1>1, <1>2, <1>4
  <2>2. log[k].term <= log[p].term
    BY <1>1, <1>2 DEF Ordered
  <2>3. log[k].index = k - 1 /\ \A m \in 1..k : log[m].term <= log[k].term
    BY <1>2, <2>1 DEF Ordered
  <2>4. log[k].term <= e.term
    BY <1>1, <1>2, <1>3, <2>1, <2>2
  <2> QED
    BY <1>1, <2>1, <2>3, <2>4
<1>6. Ordered(new)
  <2> SUFFICES ASSUME NEW k \in 1..(p + 1)
               PROVE  new[k].index = k - 1 /\ \A m \in 1..k : new[m].term <= new[k].term
    BY <1>1 DEF Ordered
  <2>1. CASE k = p + 1
    <3>1. \A m \in 1..k : m \in 1..p \/ m = p + 1
      BY <1>4, <2>1
    <3>2. (p + 1) - 1 = p
      BY <1>4
    <3> QED
      BY <1>1, <1>3, <1>4, <1>5, <2>1, <3>1, <3>2
  <2>2. CASE k # p + 1
    <3>1. k \in 1..p
      BY <1>4, <2>2
    <3> QED
      BY <1>5, <3>1
  <2> QED
    BY <2>1, <2>2
<1> QED
  BY <1>1, <1>6 DEF new, getLastTerm, Last
----------------------------------------------------------------------------
\* Requests on their way.

\* What is said of a request that does not depend on who waits for its answer.
SameRequest(r, s) ==
    /\ r.term = s.term /\ r.entry = s.entry
    /\ r.prevLogIndex = s.prevLogIndex /\ r.prevLogTerm = s.prevLogTerm

\* A leader sends a heartbeat, an entry of its log with the one before it, or
\* one with an index that wrapped.
Sends(i, j, r) ==
    /\ i # j
    /\ state[i] = "Leader"
    /\ r.term = currentTerm[i]
    /\ \/ r.entry = HeartbeatEntry /\ r.prevLogIndex # Wrapped
       \/ r.prevLogIndex = Wrapped /\ nextIndex[i][j] = 0
       \/ \E n \in Nat \ {0} :
             /\ HasEntry(entries[i], n)
             /\ r.entry = getEntry(entries[i], n)
             /\ r.prevLogIndex = n - 1
             /\ r.prevLogTerm = getEntry(entries[i], n - 1).term
    /\ UNCHANGED <<roleVars, logVars, history>>

\* What the proofs below need of the types.
LEMMA LogTypes ==
    ASSUME TypeOK
    PROVE  /\ state \in [Node -> {"Follower", "Candidate", "Leader"}]
           /\ currentTerm \in [Node -> Nat]
           /\ leaderId \in [Node -> Node \cup {Nil}]
           /\ leaderOf \in [Term -> SUBSET Node]
           /\ Term \subseteq Nat
           /\ entries \in [Node -> Log]
           /\ net \in [Node -> [Node -> Seq(AppendEntriesParams)]]
           /\ \A i, j \in Node :
                 /\ Len(net[i][j]) \in Nat
                 /\ DOMAIN net[i][j] = 1..Len(net[i][j])
                 /\ \A k \in DOMAIN net[i][j] : net[i][j][k] \in AppendEntriesParams
<1>1. /\ net \in [Node -> [Node -> Seq(AppendEntriesParams)]]
      /\ entries \in [Node -> Log]
      /\ leaderId \in [Node -> Node \cup {Nil}]
  BY DEF TypeOK, ReplType, LogType, RoleType
<1>2. \A i, j \in Node : net[i][j] \in Seq(AppendEntriesParams)
  BY <1>1
<1>3. \A i, j \in Node :
         /\ Len(net[i][j]) \in Nat
         /\ DOMAIN net[i][j] = 1..Len(net[i][j])
         /\ \A k \in DOMAIN net[i][j] : net[i][j][k] \in AppendEntriesParams
  <2> HIDE DEF AppendEntriesParams
  <2> QED
    BY <1>2, LenProperties, ElementOfSeq
<1> HIDE DEF AppendEntriesParams
<1> QED
  BY <1>1, <1>3, ElectionTypes

\* The fields of a request.
LEMMA RequestFields ==
    ASSUME NEW r \in AppendEntriesParams
    PROVE  /\ r.term \in Nat /\ r.prevLogIndex \in Nat \cup {Wrapped} /\ r.prevLogTerm \in Nat
           /\ r.entry # HeartbeatEntry =>
                 r.entry \in Entry /\ r.entry.index \in Nat /\ r.entry.term \in Nat
<1>1. 0..MaxTerm \subseteq Nat
  BY BoundAssumption
<1>2. \A e \in Entry : e.index \in Nat /\ e.term \in Nat
  BY DEF Entry
<1> HIDE DEF Entry
<1> QED
  BY <1>1, <1>2 DEF AppendEntriesParams

\* A sequence with one more element, whatever that is.
LEMMA AppendShape ==
    ASSUME NEW S, NEW seq \in Seq(S), NEW x
    PROVE  /\ DOMAIN Append(seq, x) = 1..(Len(seq) + 1)
           /\ \A m \in 1..Len(seq) : Append(seq, x)[m] = seq[m]
           /\ Append(seq, x)[Len(seq) + 1] = x
<1>1. seq \in Seq(S \cup {x}) /\ x \in S \cup {x}
  BY SeqMonotonic
<1> QED
  BY <1>1, AppendProperties

\* A request on its way was there before, or a leader has just sent it.
LEMMA RequestsStep ==
    ASSUME TypeOK, [Next]_vars,
           NEW i \in Node, NEW j \in Node, NEW k \in DOMAIN net'[i][j]
    PROVE  \/ \E m \in DOMAIN net[i][j] : SameRequest(net'[i][j][k], net[i][j][m])
           \/ Sends(i, j, net'[i][j][k])
<1> DEFINE r == net'[i][j][k]
           Old == \E m \in DOMAIN net[i][j] : SameRequest(r, net[i][j][m])
<1> HIDE DEF AppendEntriesParams
<1>0. /\ net[i][j] \in Seq(AppendEntriesParams)
      /\ Len(net[i][j]) \in Nat
      /\ DOMAIN net[i][j] = 1..Len(net[i][j])
      /\ \A m \in DOMAIN net[i][j] : net[i][j][m] \in AppendEntriesParams
      /\ DOMAIN net = Node /\ \A a \in Node : DOMAIN net[a] = Node
  BY LogTypes
<1>1. ASSUME net'[i][j] = net[i][j]
      PROVE  Old
  BY <1>1 DEF SameRequest
<1>2. ASSUME NEW a \in Node, NEW b \in Node, NEW request, Send(a, b, request)
      PROVE  Old \/ (a = i /\ b = j /\ r = request)
  <2>1. CASE a = i /\ b = j
    <3>1. net'[i][j] = Append(net[i][j], request)
      BY <1>0, <1>2, <2>1 DEF Send
    <3>2. /\ DOMAIN net'[i][j] = 1..(Len(net[i][j]) + 1)
          /\ \A m \in 1..Len(net[i][j]) : net'[i][j][m] = net[i][j][m]
          /\ net'[i][j][Len(net[i][j]) + 1] = request
      BY <1>0, <3>1, AppendShape
    <3>3. k \in 1..Len(net[i][j]) \/ k = Len(net[i][j]) + 1
      BY <1>0, <3>2
    <3>4. CASE k \in 1..Len(net[i][j])
      BY <1>0, <3>2, <3>4 DEF SameRequest
    <3>5. CASE k = Len(net[i][j]) + 1
      BY <2>1, <3>2, <3>5
    <3> QED
      BY <3>3, <3>4, <3>5
  <2>2. CASE ~(a = i /\ b = j)
    BY <1>0, <1>1, <1>2, <2>2 DEF Send
  <2> QED
    BY <2>1, <2>2
<1>3. ASSUME NEW a \in Node, NEW b \in Node, net[a][b] # <<>>,
             net' = [net EXCEPT ![a][b] = Tail(@)]
      PROVE  Old
  <2>1. CASE a = i /\ b = j
    <3>1. net'[i][j] = Tail(net[i][j])
      BY <1>0, <1>3, <2>1
    <3>2. k \in 1..(Len(net[i][j]) - 1) /\ r = net[i][j][k + 1]
      BY <1>0, <1>3, <2>1, <3>1
    <3>3. k + 1 \in DOMAIN net[i][j]
      BY <1>0, <3>2
    <3> QED
      BY <1>0, <3>2, <3>3 DEF SameRequest
  <2>2. CASE ~(a = i /\ b = j)
    BY <1>0, <1>1, <1>3, <2>2
  <2> QED
    BY <2>1, <2>2
<1>4. ASSUME NEW a \in Node, NEW b \in Node, Heartbeat(a, b)
      PROVE  Old \/ Sends(i, j, r)
  <2> DEFINE request == [term |-> currentTerm[a], leaderCommit |-> commitIndex[a],
                         prevLogIndex |-> 0, prevLogTerm |-> 0,
                         entry |-> HeartbeatEntry, call |-> 0]
  <2>1. /\ Send(a, b, request)
        /\ state[a] = "Leader" /\ a # b
        /\ UNCHANGED <<roleVars, logVars, history>>
    BY <1>4, BoundAssumption DEF Heartbeat, MaySend
  <2>2. /\ request.term = currentTerm[a] /\ request.entry = HeartbeatEntry
        /\ request.prevLogIndex # Wrapped
    BY DEF Wrapped
  <2> HIDE DEF request
  <2> QED
    BY <1>2, <2>1, <2>2 DEF Sends
<1>5. ASSUME NEW a \in Node, NEW b \in Node, NEW t \in Term, Replicate(a, b, t)
      PROVE  Old \/ Sends(i, j, r)
  <2> DEFINE n == nextIndex[a][b]
             request == [term |-> currentTerm[a], leaderCommit |-> commitIndex[a],
                         prevLogIndex |-> PrevIndex(n),
                         prevLogTerm |-> PrevTerm(entries[a], n),
                         entry |-> getEntry(entries[a], n), call |-> t]
  <2>1. /\ Send(a, b, request)
        /\ state[a] = "Leader" /\ a # b
        /\ HasEntry(entries[a], n)
        /\ UNCHANGED <<roleVars, logVars, history>>
    BY <1>5, BoundAssumption DEF Replicate, MaySend
  <2>2. /\ request.term = currentTerm[a] /\ request.entry = getEntry(entries[a], n)
        /\ request.prevLogIndex = PrevIndex(n)
        /\ request.prevLogTerm = PrevTerm(entries[a], n)
    OBVIOUS
  <2>3. n \in Nat /\ (n = 0 <=> nextIndex[a][b] = 0)
    BY DEF TypeOK, ReplType
  <2>4. n = 0 => request.prevLogIndex = Wrapped
    BY <2>2 DEF PrevIndex
  <2>5. n # 0 => /\ request.prevLogIndex = n - 1
                 /\ request.prevLogTerm = getEntry(entries[a], n - 1).term
    BY <2>2 DEF PrevIndex, PrevTerm
  <2> HIDE DEF request, n
  <2>6. Sends(a, b, request)
    BY <2>1, <2>2, <2>3, <2>4, <2>5 DEF Sends
  <2> QED
    BY <1>2, <2>1, <2>6
<1>6. ASSUME NEW a \in Node, NEW b \in Node, NEW t \in Term, ReplicateTimeout(a, b, t)
      PROVE  Old
  <2>1. CASE a = i /\ b = j
    <3>1. net'[i][j] = [m \in DOMAIN net[i][j] |->
                          IF net[i][j][m].call = t THEN [net[i][j][m] EXCEPT !.call = 0]
                                                   ELSE net[i][j][m]]
      BY <1>0, <1>6, <2>1 DEF ReplicateTimeout
    <3>2. k \in DOMAIN net[i][j] /\ (r = net[i][j][k] \/ r = [net[i][j][k] EXCEPT !.call = 0])
      BY <3>1
    <3>3. ASSUME NEW s \in AppendEntriesParams
          PROVE  SameRequest([s EXCEPT !.call = 0], s)
      BY DEF AppendEntriesParams, SameRequest
    <3>4. SameRequest(r, net[i][j][k])
      BY <1>0, <3>2, <3>3 DEF SameRequest
    <3> QED
      BY <3>2, <3>4
  <2>2. CASE ~(a = i /\ b = j)
    BY <1>0, <1>1, <1>6, <2>2 DEF ReplicateTimeout
  <2> QED
    BY <2>1, <2>2
<1>7. ASSUME NEW a \in Node, NEW b \in Node, Lose(a, b)
      PROVE  Old
  <2>1. net' = [net EXCEPT ![a][b] = <<>>]
    BY <1>7 DEF Lose
  <2>2. ~(a = i /\ b = j)
    <3>1. DOMAIN <<>> = {}
      OBVIOUS
    <3> QED
      BY <1>0, <2>1, <3>1
  <2> QED
    BY <1>0, <1>1, <2>1, <2>2
<1>8. ASSUME NEW a \in Node, NEW b \in Node,
             RefuseAppend(a, b) \/ HandleAppend(a, b) \/ HandleAppendMismatch(a, b)
      PROVE  Old
  BY <1>3, <1>8 DEF RefuseAppend, HandleAppend, HandleAppendMismatch, Receives, AppendAnswered
<1>9. ASSUME NEW a \in Node, NEW b \in Node, NEW t \in Term,
             \/ ReplicatorQuits(a, b, t) \/ ReplicateAcked(a, b, t)
             \/ ReplicateNacked(a, b, t) \/ ReplicateOutdated(a, b, t)
             \/ ReplicatorFaults(a, b, t)
      PROVE  Old
  BY <1>1, <1>9 DEF ReplicatorQuits, ReplicateAcked, ReplicateNacked, ReplicateOutdated,
                    ReplicatorFaults, replVars
<1>10. ASSUME NEW a \in Node, Election(a)
       PROVE  Old
  BY <1>1, <1>10 DEF Election, ElectionTimeout, StartElection, StartElectionBlocks, HandleVote,
                     CountVote, BecomeLeader, DeposedByVote, replVars
<1>11. ASSUME NEW a \in Node, Apply(a) \/ Registering(a)
       PROVE  Old
  BY <1>1, <1>11 DEF Apply, Registering, RegisterBegin, RegisterReady, RegisterAppend,
                     RegisterReply, replVars
<1>12. ASSUME UNCHANGED vars
       PROVE  Old
  BY <1>1, <1>12 DEF vars, replVars
<1>13. ASSUME NEW a \in Node, NEW b \in Node, AddRemoteNode(a, b)
       PROVE  Old
  BY <1>1, <1>13 DEF AddRemoteNode, replVars
<1> HIDE DEF Old, r
<1>14. ASSUME NEW a \in Node, NEW b \in Node, Replication(a, b)
       PROVE  Old \/ Sends(i, j, r)
  BY <1>4, <1>5, <1>6, <1>7, <1>8, <1>9, <1>13, <1>14 DEF Replication
<1>15. Old \/ Sends(i, j, r)
  BY <1>10, <1>11, <1>12, <1>14 DEF Next
<1> QED
  BY <1>15 DEF Old, r
----------------------------------------------------------------------------
\* Who leads, and what a request may carry.

\* Whoever leads is among the winners of its term.
LeadInv ==
    \A i \in Node : state[i] = "Leader" =>
        currentTerm[i] \in Term /\ i \in leaderOf[currentTerm[i]]

\* A request was sent by a leader of its term, to another node; its entry goes
\* behind prevLogIndex, unless that wrapped, and is no older than the one there
\* and no newer than the request.
RequestInv ==
    \A i, j \in Node : \A k \in DOMAIN net[i][j] :
        LET r == net[i][j][k] IN
        /\ i # j
        /\ r.term \in Term /\ r.term <= currentTerm[i] /\ i \in leaderOf[r.term]
        /\ r.entry # HeartbeatEntry /\ r.prevLogIndex # Wrapped =>
              /\ r.entry.index = r.prevLogIndex + 1
              /\ r.prevLogTerm <= r.entry.term /\ r.entry.term <= r.term

\* Terms only grow, and so does the history of leaders.
LEMMA TermsGrow ==
    ASSUME TypeOK, [Next]_vars
    PROVE  /\ \A i \in Node : currentTerm[i] <= currentTerm'[i]
           /\ \A u \in Term : leaderOf[u] \subseteq leaderOf'[u]
<1>0. /\ currentTerm \in [Node -> Nat]
      /\ leaderOf \in [Term -> SUBSET Node]
  BY LogTypes
<1> DEFINE Grow == /\ \A i \in Node : currentTerm[i] <= currentTerm'[i]
                   /\ \A u \in Term : leaderOf[u] \subseteq leaderOf'[u]
<1>1. ASSUME NEW i \in Node, NEW term \in Nat, currentTerm[i] <= term,
             currentTerm' = [currentTerm EXCEPT ![i] = term], UNCHANGED leaderOf
      PROVE  Grow
  BY <1>0, <1>1
<1>2. ASSUME UNCHANGED currentTerm, \A u \in Term : leaderOf[u] \subseteq leaderOf'[u]
      PROVE  Grow
  BY <1>0, <1>2
<1>3. ASSUME NEW i \in Node, ElectionTimeout(i)
      PROVE  Grow
  BY <1>0, <1>1, <1>3 DEF ElectionTimeout, history
<1>4. ASSUME NEW i \in Node, NEW t \in Term, StartElection(i, t) \/ StartElectionBlocks(i, t)
      PROVE  Grow
  BY <1>2, <1>4 DEF StartElection, StartElectionBlocks, roleVars, history
<1>5. ASSUME NEW i \in Node, NEW j \in Node, NEW t \in Term, HandleVote(i, t, j)
      PROVE  Grow
  <2>1. UNCHANGED leaderOf
    BY <1>5 DEF HandleVote, history
  <2>2. ASSUME NEW voted, ballot[i][t].term > currentTerm[j],
               StepDown(j, ballot[i][t].term, voted, i)
        PROVE  Grow
    <3>1. ballot[i][t].term \in Nat /\ currentTerm[j] <= ballot[i][t].term
      BY <1>0, <2>2, ElectionTypes
    <3> QED
      BY <1>1, <2>1, <2>2, <3>1 DEF StepDown, Demote
  <2> QED
    BY <1>2, <1>5, <2>1, <2>2 DEF HandleVote, roleVars
<1>6. ASSUME NEW i \in Node, NEW j \in Node, NEW t \in Term, CountVote(i, t, j)
      PROVE  Grow
  BY <1>2, <1>6 DEF CountVote, roleVars, history
<1>7. ASSUME NEW i \in Node, NEW j \in Node, NEW t \in Term, BecomeLeader(i, t, j)
      PROVE  Grow
  BY <1>0, <1>2, <1>7 DEF BecomeLeader
<1>8. ASSUME NEW i \in Node, NEW term \in Nat, GivesUp(i, term)
      PROVE  Grow
  BY <1>0, <1>1, <1>8 DEF GivesUp
<1>9. ASSUME UNCHANGED electionVars
      PROVE  Grow
  BY <1>0, <1>2, <1>9 DEF electionVars
<1>10. Grow
  <2> HIDE DEF Grow
  <2> QED
    BY <1>3, <1>4, <1>5, <1>6, <1>7, <1>8, <1>9, ElectionSteps
<1> QED
  BY <1>10

\* A leader was one before, in the same term, or has just won.
LEMMA LeadersStep ==
    ASSUME TypeOK, [Next]_vars, NEW i \in Node, state'[i] = "Leader"
    PROVE  \/ state[i] = "Leader" /\ currentTerm'[i] = currentTerm[i]
           \/ \E j \in Node, t \in Term : BecomeLeader(i, t, j)
<1>0. /\ state \in [Node -> {"Follower", "Candidate", "Leader"}]
      /\ currentTerm \in [Node -> Nat]
  BY LogTypes
<1> DEFINE Kept == state[i] = "Leader" /\ currentTerm'[i] = currentTerm[i]
<1>1. ASSUME NEW a \in Node, NEW role \in {"Follower", "Candidate"}, NEW term,
             state' = [state EXCEPT ![a] = role],
             currentTerm' = [currentTerm EXCEPT ![a] = term]
      PROVE  Kept
  BY <1>0, <1>1
<1>2. ASSUME UNCHANGED <<state, currentTerm>>
      PROVE  Kept
  BY <1>2
<1>3. ASSUME NEW a \in Node, ElectionTimeout(a)
      PROVE  Kept
  BY <1>1, <1>3 DEF ElectionTimeout
<1>4. ASSUME NEW a \in Node, NEW t \in Term, StartElection(a, t) \/ StartElectionBlocks(a, t)
      PROVE  Kept
  BY <1>2, <1>4 DEF StartElection, StartElectionBlocks, roleVars
<1>5. ASSUME NEW a \in Node, NEW b \in Node, NEW t \in Term, HandleVote(a, t, b)
      PROVE  Kept
  BY <1>1, <1>2, <1>5 DEF HandleVote, StepDown, Demote, roleVars
<1>6. ASSUME NEW a \in Node, NEW b \in Node, NEW t \in Term, CountVote(a, t, b)
      PROVE  Kept
  BY <1>2, <1>6 DEF CountVote, roleVars
<1>7. ASSUME NEW a \in Node, NEW b \in Node, NEW t \in Term, BecomeLeader(a, t, b), a # i
      PROVE  Kept
  BY <1>0, <1>7 DEF BecomeLeader
<1>8. ASSUME NEW a \in Node, NEW term \in Nat, GivesUp(a, term)
      PROVE  Kept
  BY <1>1, <1>8 DEF GivesUp
<1>9. ASSUME UNCHANGED electionVars
      PROVE  Kept
  BY <1>2, <1>9 DEF electionVars
<1> HIDE DEF Kept
<1>10. Kept \/ \E b \in Node, t \in Term : BecomeLeader(i, t, b)
  BY <1>3, <1>4, <1>5, <1>6, <1>7, <1>8, <1>9, ElectionSteps
<1> QED
  BY <1>10 DEF Kept

\* The term of a winner is one of Term.
LEMMA WinnerTerm ==
    ASSUME TypeOK, ElectionInv, NEW i \in Node, NEW j \in Node, NEW t \in Term,
           BecomeLeader(i, t, j)
    PROVE  /\ currentTerm[i] \in Term
           /\ state[i] = "Candidate"
           /\ leaderOf' = [leaderOf EXCEPT ![currentTerm[i]] = @ \cup {i}]
           /\ UNCHANGED currentTerm
<1>1. /\ state[i] = "Candidate"
      /\ voteCall[i][t][j].pc # "none"
      /\ leaderOf' = [leaderOf EXCEPT ![currentTerm[i]] = @ \cup {i}]
      /\ UNCHANGED currentTerm
  BY DEF BecomeLeader, GrantCounts
<1>2. t <= currentTerm[i]
  BY <1>1 DEF ElectionInv, BallotInv
<1>3. currentTerm[i] \in 0..MaxTerm
  BY DEF TypeOK, RoleType
<1> QED
  BY <1>1, <1>2, <1>3, BoundAssumption DEF Term

\* LeadInv is inductive.
LEMMA LeadInvStep ==
    ASSUME TypeOK, ElectionInv, LeadInv, [Next]_vars
    PROVE  LeadInv'
<1> SUFFICES ASSUME NEW i \in Node, state'[i] = "Leader"
             PROVE  currentTerm'[i] \in Term /\ i \in leaderOf'[currentTerm'[i]]
  BY DEF LeadInv
<1>1. CASE state[i] = "Leader" /\ currentTerm'[i] = currentTerm[i]
  <2>1. currentTerm[i] \in Term /\ i \in leaderOf[currentTerm[i]]
    BY <1>1 DEF LeadInv
  <2> QED
    BY <1>1, <2>1, TermsGrow
<1>2. ASSUME NEW j \in Node, NEW t \in Term, BecomeLeader(i, t, j)
      PROVE  currentTerm'[i] \in Term /\ i \in leaderOf'[currentTerm'[i]]
  <2>1. leaderOf \in [Term -> SUBSET Node]
    BY LogTypes
  <2> QED
    BY <1>2, <2>1, WinnerTerm
<1> QED
  BY <1>1, <1>2, LeadersStep

\* Two entries of an ordered log that follow one another.
LEMMA Neighbours ==
    ASSUME NEW log \in Log, Ordered(log), NEW n \in Nat \ {0}, HasEntry(log, n)
    PROVE  /\ n \in 1..Len(log) /\ n + 1 \in 1..Len(log)
           /\ getEntry(log, n) = log[n + 1] /\ getEntry(log, n - 1) = log[n]
           /\ getEntry(log, n).index = n
           /\ getEntry(log, n - 1).term <= getEntry(log, n).term
           /\ getEntry(log, n).term <= getLastTerm(log)
<1>1. /\ Len(log) \in Nat /\ DOMAIN log = 1..Len(log)
      /\ \A k \in 1..Len(log) : log[k].index \in Nat /\ log[k].term \in Nat
  BY LogShape
<1>2. n + 1 \in 1..Len(log) /\ n \in 1..Len(log) /\ Len(log) \in 1..Len(log)
  BY <1>1 DEF HasEntry
<1>3. getEntry(log, n) = log[n + 1] /\ getEntry(log, n - 1) = log[n]
  BY DEF getEntry
<1>4. log[n + 1].index = n
  BY <1>1, <1>2 DEF Ordered
<1>5. log[n].term <= log[n + 1].term
  <2>1. n \in 1..(n + 1)
    OBVIOUS
  <2> QED
    BY <1>1, <1>2, <2>1 DEF Ordered
<1>6. log[n + 1].term <= getLastTerm(log)
  <2>1. n + 1 \in 1..Len(log)
    BY <1>2
  <2> QED
    BY <1>1, <1>2, <2>1 DEF Ordered, getLastTerm, Last
<1> QED
  BY <1>2, <1>3, <1>4, <1>5, <1>6

\* RequestInv is inductive.
LEMMA RequestInvStep ==
    ASSUME TypeOK, TypeOK', LeadInv, LogsOrdered, RequestInv, [Next]_vars
    PROVE  RequestInv'
<1> DEFINE Valid(i, j, r) ==
             /\ i # j
             /\ r.term \in Term /\ r.term <= currentTerm'[i] /\ i \in leaderOf'[r.term]
             /\ r.entry # HeartbeatEntry /\ r.prevLogIndex # Wrapped =>
                   /\ r.entry.index = r.prevLogIndex + 1
                   /\ r.prevLogTerm <= r.entry.term /\ r.entry.term <= r.term
<1> SUFFICES ASSUME NEW i \in Node, NEW j \in Node, NEW k \in DOMAIN net'[i][j]
             PROVE  Valid(i, j, net'[i][j][k])
  BY DEF RequestInv
<1> DEFINE r == net'[i][j][k]
<1> HIDE DEF r
<1>0. /\ currentTerm \in [Node -> Nat] /\ currentTerm' \in [Node -> Nat] /\ Term \subseteq Nat
      /\ currentTerm[i] <= currentTerm'[i]
      /\ \A u \in Term : leaderOf[u] \subseteq leaderOf'[u]
  <2>1. currentTerm' \in [Node -> Nat]
    BY BoundAssumption DEF TypeOK, RoleType
  <2> QED
    BY <2>1, LogTypes, TermsGrow
<1>1. ASSUME NEW m \in DOMAIN net[i][j], SameRequest(r, net[i][j][m])
      PROVE  Valid(i, j, r)
  <2> DEFINE s == net[i][j][m]
  <2>1. /\ i # j
        /\ s.term \in Term /\ s.term <= currentTerm[i] /\ i \in leaderOf[s.term]
        /\ s.entry # HeartbeatEntry /\ s.prevLogIndex # Wrapped =>
              /\ s.entry.index = s.prevLogIndex + 1
              /\ s.prevLogTerm <= s.entry.term /\ s.entry.term <= s.term
    BY DEF RequestInv
  <2>2. SameRequest(r, s)
    BY <1>1
  <2> HIDE DEF s
  <2>3. s.term <= currentTerm'[i]
    <3>1. s.term \in Nat /\ currentTerm[i] \in Nat /\ currentTerm'[i] \in Nat
      BY <1>0, <2>1
    <3> QED
      BY <1>0, <2>1, <3>1
  <2> QED
    BY <1>0, <2>1, <2>2, <2>3 DEF SameRequest
<1>2. ASSUME Sends(i, j, r)
      PROVE  Valid(i, j, r)
  <2>1. /\ i # j /\ state[i] = "Leader" /\ r.term = currentTerm[i]
        /\ UNCHANGED <<currentTerm, leaderOf>>
    BY <1>2 DEF Sends, roleVars, history
  <2>2. r.term \in Term /\ r.term <= currentTerm'[i] /\ i \in leaderOf'[r.term]
    BY <1>0, <2>1 DEF LeadInv
  <2>3. ASSUME r.entry # HeartbeatEntry, r.prevLogIndex # Wrapped
        PROVE  /\ r.entry.index = r.prevLogIndex + 1
               /\ r.prevLogTerm <= r.entry.term /\ r.entry.term <= r.term
    <3> DEFINE log == entries[i]
    <3>1. PICK n \in Nat \ {0} : /\ HasEntry(log, n)
                                 /\ r.entry = getEntry(log, n)
                                 /\ r.prevLogIndex = n - 1
                                 /\ r.prevLogTerm = getEntry(log, n - 1).term
      BY <1>2, <2>3 DEF Sends
    <3>2. log \in Log /\ Ordered(log) /\ getLastTerm(log) <= r.term
      BY <2>1, LogTypes DEF LogsOrdered, Ordered
    <3> HIDE DEF log
    <3>3. /\ r.entry.index = n
          /\ r.prevLogTerm <= r.entry.term
          /\ r.entry.term <= getLastTerm(log)
      BY <3>1, <3>2, Neighbours
    <3>4. r.entry.term \in Nat /\ getLastTerm(log) \in Nat /\ r.term \in Nat
      <4>1. getEntry(log, n) \in Entry
        BY <3>1, <3>2, Neighbours, LogShape
      <4> QED
        BY <1>0, <2>1, <3>1, <3>2, <4>1, LastType DEF Entry
    <3>5. n = (n - 1) + 1
      OBVIOUS
    <3> QED
      BY <3>1, <3>2, <3>3, <3>4, <3>5
  <2> QED
    BY <2>1, <2>2, <2>3
<1>3. Valid(i, j, r)
  <2> HIDE DEF Valid
  <2> QED
    BY <1>1, <1>2, RequestsStep DEF r
<1> QED
  BY <1>3 DEF r

----------------------------------------------------------------------------
\* Logs change in three places.

\* A winner's no-op, a registration, an entry that a follower takes.
LEMMA EntriesSteps ==
    ASSUME [Next]_vars
    PROVE  \/ \E i, j \in Node, t \in Term : BecomeLeader(i, t, j)
           \/ \E i \in Node : RegisterAppend(i)
           \/ \E i, j \in Node : HandleAppend(i, j) /\ Head(net[i][j]).entry # HeartbeatEntry
           \/ UNCHANGED entries
<1>1. ASSUME NEW i \in Node, Election(i), ~\E j \in Node, t \in Term : BecomeLeader(i, t, j)
      PROVE  UNCHANGED entries
  BY <1>1 DEF Election, ElectionTimeout, StartElection, StartElectionBlocks, HandleVote,
              CountVote, DeposedByVote, logVars
<1>2. ASSUME NEW i \in Node, NEW j \in Node, Replication(i, j),
             ~(HandleAppend(i, j) /\ Head(net[i][j]).entry # HeartbeatEntry)
      PROVE  UNCHANGED entries
  <2>1. CASE HandleAppend(i, j)
    BY <1>2, <2>1 DEF HandleAppend
  <2>2. CASE \/ Heartbeat(i, j) \/ RefuseAppend(i, j) \/ HandleAppendMismatch(i, j)
             \/ Lose(i, j) \/ AddRemoteNode(i, j)
    BY <2>2 DEF Heartbeat, RefuseAppend, HandleAppendMismatch, Lose, AddRemoteNode, logVars
  <2>3. ASSUME NEW t \in Term,
               \/ Replicate(i, j, t) \/ ReplicatorQuits(i, j, t) \/ ReplicateTimeout(i, j, t)
               \/ ReplicateAcked(i, j, t) \/ ReplicateNacked(i, j, t) \/ ReplicateOutdated(i, j, t)
               \/ ReplicatorFaults(i, j, t)
        PROVE  UNCHANGED entries
    BY <2>3 DEF Replicate, ReplicatorQuits, ReplicateTimeout, ReplicateAcked, ReplicateNacked,
                ReplicateOutdated, ReplicatorFaults, logVars
  <2> QED
    BY <1>2, <2>1, <2>2, <2>3 DEF Replication
<1>3. ASSUME NEW i \in Node, Apply(i) \/ Registering(i), ~RegisterAppend(i)
      PROVE  UNCHANGED entries
  BY <1>3 DEF Apply, Registering, RegisterBegin, RegisterReady, RegisterReply, logVars
<1>4. CASE UNCHANGED vars
  BY <1>4 DEF vars, logVars
<1> QED
  BY <1>1, <1>2, <1>3, <1>4 DEF Next

\* The entries of a registration are ops of the log.
LEMMA RegistrationOps ==
    ASSUME TypeOK, NEW i \in Node
    PROVE  regMsg[i] \in Seq(Op)
<1>1. regMsg[i] \in Seq(Service) /\ Service \subseteq Op
  BY DEF TypeOK, RunType, Op
<1> HIDE DEF Op
<1> QED
  BY <1>1, SeqMonotonic

\* No entry is at the index that wrapped.
LEMMA WrappedNoIndex == Wrapped \notin Nat
BY DEF Wrapped

\* A follower that takes an entry: which one, where, and in which term.
Takes(i, j, r) ==
    /\ r.entry # HeartbeatEntry
    /\ r.prevLogIndex \in Nat
    /\ Matches(entries[j], r.prevLogIndex, r.prevLogTerm)
    /\ entries' = [entries EXCEPT ![j] = appendAfter(@, r.entry, r.prevLogIndex)]
    /\ r.term >= currentTerm[j]
    /\ currentTerm' = [currentTerm EXCEPT ![j] = r.term]
    /\ UNCHANGED <<leaderOf, strayed>>

\* The backward search finds no index that wrapped.
LEMMA MatchesNumber ==
    ASSUME NEW log \in Log, NEW prevLogIndex, NEW prevLogTerm,
           Matches(log, prevLogIndex, prevLogTerm)
    PROVE  prevLogIndex \in Nat
<1>1. PICK p \in DOMAIN log : StopsAt(log, p, prevLogIndex)
  BY DEF Matches
<1>2. log[p].index = prevLogIndex
  BY <1>1 DEF StopsAt
<1>3. log[p].index \in Nat
  BY LogShape
<1> QED
  BY <1>2, <1>3

\* The request that appendEntries does not find a heartbeat, too old or misfit.
LEMMA HandleAppendTakes ==
    ASSUME TypeOK, NEW i \in Node, NEW j \in Node, HandleAppend(i, j),
           Head(net[i][j]).entry # HeartbeatEntry
    PROVE  \E k \in DOMAIN net[i][j] : Takes(i, j, net[i][j][k])
<1> DEFINE r == Head(net[i][j])
<1>1. 1 \in DOMAIN net[i][j] /\ r = net[i][j][1]
  <2>1. net[i][j] # <<>> /\ net[i][j] \in Seq(AppendEntriesParams)
    BY LogTypes DEF HandleAppend, Receives
  <2> QED
    BY <2>1, EmptySeq, LenProperties
<1>2. r.term \in Nat /\ currentTerm \in [Node -> Nat]
  BY <1>1, RequestFields, LogTypes
<1>3. /\ ~(r.term < currentTerm[j])
      /\ Matches(entries[j], r.prevLogIndex, r.prevLogTerm)
      /\ entries' = [entries EXCEPT ![j] = appendAfter(@, r.entry, r.prevLogIndex)]
      /\ Follow(i, j, r)
      /\ UNCHANGED <<leaderOf, strayed>>
  BY DEF HandleAppend, Outdated, Fits, history
<1> HIDE DEF r
<1>4. currentTerm' = [currentTerm EXCEPT ![j] = r.term]
  <2>1. CASE \/ r.term > currentTerm[j]
             \/ r.term = currentTerm[j] /\ state[j] = "Candidate"
    BY <1>3, <2>1 DEF Follow, StepDown, Demote
  <2>2. CASE ~(\/ r.term > currentTerm[j]
               \/ r.term = currentTerm[j] /\ state[j] = "Candidate")
    <3>1. r.term = currentTerm[j] /\ currentTerm' = currentTerm
      BY <1>2, <1>3, <2>2 DEF Follow, roleVars
    <3> QED
      BY <1>2, <3>1
  <2> QED
    BY <2>1, <2>2
<1>5. r.entry # HeartbeatEntry
  BY DEF r
<1>6. r.prevLogIndex \in Nat
  <2>1. entries[j] \in Log
    BY LogTypes
  <2> QED
    BY <1>3, <2>1, MatchesNumber
<1>7. Takes(i, j, r)
  BY <1>2, <1>3, <1>4, <1>5, <1>6 DEF Takes
<1> QED
  BY <1>1, <1>7

\* LogsOrdered is inductive.
LEMMA LogsOrderedStep ==
    ASSUME TypeOK, TypeOK', LogsOrdered, RequestInv, [Next]_vars
    PROVE  LogsOrdered'
<1> DEFINE Good(log, term) == Ordered(log) /\ getLastTerm(log) <= term
<1>0. /\ entries \in [Node -> Log] /\ currentTerm \in [Node -> Nat]
      /\ \A i \in Node : Good(entries[i], currentTerm[i])
      /\ \A i \in Node : currentTerm[i] <= currentTerm'[i]
  BY LogTypes, TermsGrow DEF LogsOrdered, Ordered
<1> SUFFICES \A i \in Node : Good(entries'[i], currentTerm'[i])
  BY DEF LogsOrdered, Ordered
<1>1. ASSUME NEW i \in Node, NEW log, Good(log, currentTerm'[i]),
             entries' = [entries EXCEPT ![i] = log],
             currentTerm' = [currentTerm EXCEPT ![i] = currentTerm'[i]]
      PROVE  \A k \in Node : Good(entries'[k], currentTerm'[k])
  <2> HIDE DEF Good
  <2> QED
    BY <1>0, <1>1
<1>2. ASSUME NEW i \in Node, NEW j \in Node, NEW t \in Term, BecomeLeader(i, t, j)
      PROVE  \A k \in Node : Good(entries'[k], currentTerm'[k])
  <2> DEFINE log == appendNew(entries[i], currentTerm[i], <<"no-op">>)
  <2>1. entries' = [entries EXCEPT ![i] = log] /\ UNCHANGED currentTerm
    BY <1>2 DEF BecomeLeader
  <2>2. <<"no-op">> \in Seq(Op)
    BY DEF Op
  <2>3. Good(log, currentTerm[i])
    BY <1>0, <2>2, AppendNewOrdered
  <2> HIDE DEF Good, log
  <2> QED
    BY <1>0, <1>1, <2>1, <2>3
<1>3. ASSUME NEW i \in Node, RegisterAppend(i)
      PROVE  \A k \in Node : Good(entries'[k], currentTerm'[k])
  <2> DEFINE log == appendNew(entries[i], currentTerm[i], regMsg[i])
  <2>1. entries' = [entries EXCEPT ![i] = log] /\ UNCHANGED currentTerm
    BY <1>3 DEF RegisterAppend, roleVars
  <2>2. Good(log, currentTerm[i])
    BY <1>0, RegistrationOps, AppendNewOrdered
  <2> HIDE DEF Good, log
  <2> QED
    BY <1>0, <1>1, <2>1, <2>2
<1>4. ASSUME NEW i \in Node, NEW j \in Node, NEW m \in DOMAIN net[i][j], Takes(i, j, net[i][j][m])
      PROVE  \A k \in Node : Good(entries'[k], currentTerm'[k])
  <2> DEFINE r == net[i][j][m]
             log == appendAfter(entries[j], r.entry, r.prevLogIndex)
  <2>1. /\ r.entry \in Entry /\ r.entry.term \in Nat
        /\ r.prevLogIndex \in Nat /\ r.prevLogTerm \in Nat
    BY <1>4, LogTypes, RequestFields DEF Takes
  <2>2. /\ r.entry.index = r.prevLogIndex + 1
        /\ r.prevLogTerm <= r.entry.term /\ r.entry.term <= r.term
    BY <1>4, WrappedNoIndex DEF RequestInv, Takes
  <2>3. Ordered(log) /\ getLastTerm(log) = r.entry.term
    BY <1>0, <1>4, <2>1, <2>2, AppendAfterOrdered DEF Takes
  <2>4. /\ entries' = [entries EXCEPT ![j] = log]
        /\ currentTerm' = [currentTerm EXCEPT ![j] = r.term]
    BY <1>4 DEF Takes
  <2>5. currentTerm'[j] = r.term
    BY <1>0, <2>4
  <2>6. Good(log, currentTerm'[j])
    BY <2>2, <2>3, <2>5
  <2> HIDE DEF Good, log, r
  <2> QED
    BY <1>0, <1>1, <2>4, <2>5, <2>6
<1>5. CASE UNCHANGED entries
  <2> SUFFICES ASSUME NEW i \in Node
               PROVE  Good(entries[i], currentTerm'[i])
    BY <1>5
  <2>1. getLastTerm(entries[i]) \in Nat /\ currentTerm[i] \in Nat
    BY <1>0, LastType
  <2>2. currentTerm'[i] \in Nat
    BY BoundAssumption DEF TypeOK, RoleType
  <2> QED
    BY <1>0, <2>1, <2>2
<1> QED
  BY <1>2, <1>3, <1>4, <1>5, EntriesSteps, HandleAppendTakes

\* All of this holds at the start.
LEMMA LogsInit == Init => LeadInv /\ RequestInv /\ LogsOrdered
<1> SUFFICES ASSUME Init PROVE LeadInv /\ RequestInv /\ LogsOrdered
  OBVIOUS
<1>1. LeadInv
  BY DEF Init, LeadInv
<1>2. RequestInv
  <2>1. \A i, j \in Node : DOMAIN net[i][j] = {}
    <3>1. DOMAIN <<>> = {}
      OBVIOUS
    <3> QED
      BY <3>1 DEF Init
  <2> QED
    BY <2>1 DEF RequestInv
<1>3. LogsOrdered
  <2> SUFFICES ASSUME NEW i \in Node
               PROVE  Ordered(entries[i]) /\ getLastTerm(entries[i]) <= currentTerm[i]
    BY DEF LogsOrdered, Ordered
  <2> DEFINE e == [index |-> 0, term |-> 0, op |-> ""]
  <2>1. e.index = 0 /\ e.term = 0
    OBVIOUS
  <2>2. entries[i] = <<e>> /\ currentTerm[i] = 0
    BY DEF Init, InitialLog
  <2> HIDE DEF e
  <2>3. Len(entries[i]) = 1 /\ DOMAIN entries[i] = {1} /\ entries[i][1] = e
    BY <2>2
  <2>4. 1..1 = {1}
    OBVIOUS
  <2>5. Ordered(entries[i])
    BY <2>1, <2>3, <2>4 DEF Ordered
  <2>6. getLastTerm(entries[i]) = 0
    BY <2>1, <2>3 DEF getLastTerm, Last
  <2> QED
    BY <2>2, <2>5, <2>6
<1> QED
  BY <1>1, <1>2, <1>3

\* What holds in every cluster.
LogInv == TypeOK /\ ElectionInv /\ LeadInv /\ RequestInv /\ LogsOrdered

\* LogInv is inductive.
LEMMA LogInvStep ==
    ASSUME LogInv, [Next]_vars
    PROVE  LogInv'
<1>1. TypeOK' /\ ElectionInv'
  BY TypeStep, ElectionInvStep DEF LogInv
<1>2. LeadInv' /\ RequestInv' /\ LogsOrdered'
  BY <1>1, LeadInvStep, RequestInvStep, LogsOrderedStep DEF LogInv
<1> QED
  BY <1>1, <1>2 DEF LogInv

\* LogInv holds in every cluster, with an even number of nodes too.
LEMMA LogInvCorrect == Spec => []LogInv
<1>1. Init => LogInv
  BY TypeInit, ElectionInvInit, LogsInit DEF LogInv
<1>2. LogInv /\ [Next]_vars => LogInv'
  BY LogInvStep
<1> QED
  BY <1>1, <1>2, PTL DEF Spec

\* Entries sit at their index, terms do not decrease along a log and are not
\* ahead of the node's: getEntry by offset and appendEntry's backward search by
\* index find the same entry.
THEOREM LogsOrderedCorrect == Spec => []LogsOrdered
<1>1. LogInv => LogsOrdered
  BY DEF LogInv
<1> QED
  BY <1>1, LogInvCorrect, PTL

----------------------------------------------------------------------------
\* Sessions that come late.

\* The three parts of PrevLogIndexDefined.
IndexesSet ==
    \A i, j \in Node : i # j /\ state[i] = "Leader" =>
        \/ nextIndex[i][j] >= 1 /\ j \in remoteNodes[i]
        \/ <<i, j, currentTerm[i]>> \in early

WrapsEarly ==
    \A i, j \in Node : \A k \in DOMAIN net[i][j] :
        net[i][j][k].prevLogIndex = Wrapped => <<i, j, net[i][j][k].term>> \in early

EndsEarly == \A i \in ended : \E j \in Node : <<i, j, currentTerm[i]>> \in early

\* The coroutine that connects, and the fault, apart from all other steps: a
\* session once made stays, and early only grows.
LEMMA PeersStep ==
    ASSUME TypeOK, [Next]_vars
    PROVE  /\ early \subseteq early'
           /\ \A i \in Node : remoteNodes[i] \subseteq remoteNodes'[i]
           /\ \A i \in ended' \ ended :
                 i \in Node /\ \E j \in Node, t \in Term : ReplicatorFaults(i, j, t)
<1>0. remoteNodes \in [Node -> SUBSET Node]
  BY DEF TypeOK, PeerType
<1> DEFINE Kept == early \subseteq early' /\ UNCHANGED peerVars
           Grow == /\ early \subseteq early'
                   /\ \A i \in Node : remoteNodes[i] \subseteq remoteNodes'[i]
                   /\ \A i \in ended' \ ended :
                         i \in Node /\ \E j \in Node, t \in Term : ReplicatorFaults(i, j, t)
<1>1. ASSUME NEW i \in Node, Election(i)
      PROVE  Kept
  BY <1>1 DEF Election, ElectionTimeout, StartElection, StartElectionBlocks, HandleVote,
              CountVote, BecomeLeader, DeposedByVote, history
<1>2. ASSUME NEW i \in Node, Apply(i) \/ Registering(i)
      PROVE  Kept
  BY <1>2 DEF Apply, Registering, RegisterBegin, RegisterReady, RegisterAppend, RegisterReply,
              history
<1>3. ASSUME UNCHANGED vars
      PROVE  Kept
  BY <1>3 DEF vars, history
<1>4. ASSUME NEW i \in Node, NEW j \in Node,
             \/ Heartbeat(i, j) \/ RefuseAppend(i, j) \/ HandleAppend(i, j)
             \/ HandleAppendMismatch(i, j) \/ Lose(i, j)
      PROVE  Kept
  BY <1>4 DEF Heartbeat, RefuseAppend, HandleAppend, HandleAppendMismatch, Lose, history
<1>5. ASSUME NEW i \in Node, NEW j \in Node, NEW t \in Term,
             \/ Replicate(i, j, t) \/ ReplicatorQuits(i, j, t) \/ ReplicateTimeout(i, j, t)
             \/ ReplicateAcked(i, j, t) \/ ReplicateNacked(i, j, t) \/ ReplicateOutdated(i, j, t)
      PROVE  Kept
  BY <1>5 DEF Replicate, ReplicatorQuits, ReplicateTimeout, ReplicateAcked, ReplicateNacked,
              ReplicateOutdated, history
<1>6. Kept => Grow
  BY DEF peerVars
<1>7. ASSUME NEW i \in Node, NEW j \in Node, AddRemoteNode(i, j)
      PROVE  Grow
  BY <1>0, <1>7 DEF AddRemoteNode, history
<1>8. ASSUME NEW i \in Node, NEW j \in Node, NEW t \in Term, ReplicatorFaults(i, j, t)
      PROVE  Grow
  <2>1. UNCHANGED <<early, remoteNodes>> /\ ended' = ended \cup {i}
    BY <1>8 DEF ReplicatorFaults, history
  <2> QED
    BY <1>8, <2>1
<1> HIDE DEF Kept, Grow
<1>9. ASSUME NEW i \in Node, NEW j \in Node, Replication(i, j)
      PROVE  Grow
  BY <1>4, <1>5, <1>6, <1>7, <1>8, <1>9 DEF Replication
<1>10. Grow
  BY <1>1, <1>2, <1>3, <1>6, <1>9 DEF Next
<1> QED
  BY <1>10 DEF Grow

\* No step takes a next index down to 0.
LEMMA IndexStep ==
    ASSUME TypeOK, [Next]_vars, NEW i \in Node, NEW j \in Node, nextIndex[i][j] >= 1
    PROVE  nextIndex'[i][j] >= 1
<1>0. /\ nextIndex \in [Node -> [Node -> Nat]]
      /\ \A a, b \in Node : nextIndex[a][b] \in Nat
      /\ \A a \in Node : getLastIndex(entries[a]) \in Nat
  <2>1. nextIndex \in [Node -> [Node -> Nat]]
    BY DEF TypeOK, ReplType
  <2>2. \A a \in Node : getLastIndex(entries[a]) \in Nat
    BY LastType, LogTypes
  <2> QED
    BY <2>1, <2>2
<1> DEFINE Stays == nextIndex'[i][j] >= 1
<1>1. ASSUME UNCHANGED nextIndex
      PROVE  Stays
  BY <1>1
<1>2. ASSUME NEW a \in Node, Election(a), \A t \in Term, b \in Node : ~BecomeLeader(a, t, b)
      PROVE  UNCHANGED nextIndex
  BY <1>2 DEF Election, ElectionTimeout, StartElection, StartElectionBlocks, HandleVote,
              CountVote, DeposedByVote, replVars
<1>3. ASSUME NEW a \in Node, NEW b \in Node, NEW t \in Term, BecomeLeader(a, t, b)
      PROVE  Stays
  <2>1. nextIndex' = [nextIndex EXCEPT ![a] =
                        [k \in Node |-> IF k \in remoteNodes[a]
                                       THEN getLastIndex(entries[a]) + 1 ELSE @[k]]]
    BY <1>3 DEF BecomeLeader, SetIndexes
  <2>2. CASE a = i /\ j \in remoteNodes[i]
    <3>1. nextIndex'[i][j] = getLastIndex(entries[i]) + 1
      BY <1>0, <2>1, <2>2
    <3> QED
      BY <1>0, <3>1
  <2>3. CASE ~(a = i /\ j \in remoteNodes[i])
    <3>1. nextIndex'[i][j] = nextIndex[i][j]
      BY <1>0, <2>1, <2>3
    <3> QED
      BY <3>1
  <2> QED
    BY <2>2, <2>3
<1>4. ASSUME NEW a \in Node, NEW b \in Node, NEW n \in Nat,
             nextIndex' = [nextIndex EXCEPT ![a][b] = n], nextIndex[a][b] >= 1 => n >= 1
      PROVE  Stays
  BY <1>0, <1>4
<1>5. ASSUME NEW a \in Node, NEW b \in Node, NEW t \in Term, ReplicateAcked(a, b, t)
      PROVE  Stays
  <2>1. nextIndex[a][b] + 1 \in Nat /\ nextIndex[a][b] + 1 >= 1
    BY <1>0
  <2>2. nextIndex' = [nextIndex EXCEPT ![a][b] = nextIndex[a][b] + 1]
    BY <1>5 DEF ReplicateAcked
  <2> QED
    BY <1>4, <2>1, <2>2
<1>6. ASSUME NEW a \in Node, NEW b \in Node, NEW t \in Term, ReplicateNacked(a, b, t)
      PROVE  Stays
  <2>1. /\ OneBack(nextIndex[a][b]) \in Nat
        /\ nextIndex[a][b] >= 1 => OneBack(nextIndex[a][b]) >= 1
    BY <1>0 DEF OneBack
  <2>2. nextIndex' = [nextIndex EXCEPT ![a][b] = OneBack(nextIndex[a][b])]
    BY <1>6 DEF ReplicateNacked
  <2> QED
    BY <1>4, <2>1, <2>2
<1>7. ASSUME NEW a \in Node, NEW b \in Node, NEW t \in Term,
             \/ Replicate(a, b, t) \/ ReplicatorQuits(a, b, t) \/ ReplicateTimeout(a, b, t)
             \/ ReplicateOutdated(a, b, t) \/ ReplicatorFaults(a, b, t)
      PROVE  UNCHANGED nextIndex
  BY <1>7 DEF Replicate, ReplicatorQuits, ReplicateTimeout, ReplicateOutdated,
              ReplicatorFaults, replVars
<1>8. ASSUME NEW a \in Node, NEW b \in Node,
             \/ Heartbeat(a, b) \/ RefuseAppend(a, b) \/ HandleAppend(a, b)
             \/ HandleAppendMismatch(a, b) \/ Lose(a, b) \/ AddRemoteNode(a, b)
      PROVE  UNCHANGED nextIndex
  BY <1>8 DEF Heartbeat, RefuseAppend, HandleAppend, HandleAppendMismatch, Lose,
              AddRemoteNode, replVars
<1>9. ASSUME NEW a \in Node, Apply(a) \/ Registering(a)
      PROVE  UNCHANGED nextIndex
  BY <1>9 DEF Apply, Registering, RegisterBegin, RegisterReady, RegisterAppend, RegisterReply,
              replVars
<1>10. ASSUME UNCHANGED vars
       PROVE  UNCHANGED nextIndex
  BY <1>10 DEF vars, replVars
<1> HIDE DEF Stays
<1>11. ASSUME NEW a \in Node, NEW b \in Node, Replication(a, b)
       PROVE  Stays
  BY <1>1, <1>5, <1>6, <1>7, <1>8, <1>11 DEF Replication
<1>12. ASSUME NEW a \in Node, Election(a)
       PROVE  Stays
  BY <1>1, <1>2, <1>3, <1>12
<1>13. Stays
  BY <1>1, <1>9, <1>10, <1>11, <1>12 DEF Next
<1> QED
  BY <1>13 DEF Stays

\* A process that has ended stays in its term.
LEMMA EndedStays ==
    ASSUME TypeOK, [Next]_vars, NEW i \in Node, i \in ended
    PROVE  currentTerm'[i] = currentTerm[i]
<1>0. currentTerm \in [Node -> Nat]
  BY LogTypes
<1> DEFINE Stays == currentTerm'[i] = currentTerm[i]
<1>1. ASSUME UNCHANGED currentTerm
      PROVE  Stays
  BY <1>1
<1>2. ASSUME NEW a \in Node, a # i, NEW term, currentTerm' = [currentTerm EXCEPT ![a] = term]
      PROVE  Stays
  BY <1>0, <1>2
<1>3. ASSUME NEW a \in Node, NEW term, NEW voted, NEW leader,
             UNCHANGED currentTerm \/ StepDown(a, term, voted, leader),
             LockFree(a) \/ RunAtEpoll(a)
      PROVE  Stays
  <2>1. a # i
    BY <1>3 DEF LockFree, RunAtEpoll
  <2> QED
    BY <1>1, <1>2, <1>3, <2>1 DEF StepDown, Demote
<1>4. ASSUME NEW a \in Node, ElectionTimeout(a)
      PROVE  Stays
  <2>1. a # i
    BY <1>4 DEF ElectionTimeout, LockFree
  <2> QED
    BY <1>2, <1>4, <2>1 DEF ElectionTimeout
<1>5. ASSUME NEW a \in Node, NEW t \in Term, NEW b \in Node, HandleVote(a, t, b)
      PROVE  Stays
  BY <1>3, <1>5 DEF HandleVote, roleVars
<1>6. ASSUME NEW a \in Node, NEW t \in Term, NEW b \in Node, DeposedByVote(a, t, b)
      PROVE  Stays
  BY <1>3, <1>6 DEF DeposedByVote
<1>7. ASSUME NEW a \in Node, NEW t \in Term, NEW b \in Node,
             \/ StartElection(a, t) \/ StartElectionBlocks(a, t)
             \/ CountVote(a, t, b) \/ BecomeLeader(a, t, b)
      PROVE  UNCHANGED currentTerm
  BY <1>7 DEF StartElection, StartElectionBlocks, CountVote, BecomeLeader, roleVars
<1>8. ASSUME NEW a \in Node, NEW b \in Node, HandleAppend(a, b) \/ HandleAppendMismatch(a, b)
      PROVE  Stays
  BY <1>3, <1>8 DEF HandleAppend, HandleAppendMismatch, Receives, Follow, roleVars
<1>9. ASSUME NEW a \in Node, NEW b \in Node, NEW t \in Term, ReplicateOutdated(a, b, t)
      PROVE  Stays
  BY <1>3, <1>9 DEF ReplicateOutdated, HasAnswer, roleVars
<1>10. ASSUME NEW a \in Node, NEW b \in Node, NEW t \in Term,
              \/ Replicate(a, b, t) \/ ReplicatorQuits(a, b, t) \/ ReplicateTimeout(a, b, t)
              \/ ReplicateAcked(a, b, t) \/ ReplicateNacked(a, b, t) \/ ReplicatorFaults(a, b, t)
       PROVE  UNCHANGED currentTerm
  BY <1>10 DEF Replicate, ReplicatorQuits, ReplicateTimeout, ReplicateAcked, ReplicateNacked,
               ReplicatorFaults, roleVars
<1>11. ASSUME NEW a \in Node, NEW b \in Node,
              \/ Heartbeat(a, b) \/ RefuseAppend(a, b) \/ Lose(a, b) \/ AddRemoteNode(a, b)
       PROVE  UNCHANGED currentTerm
  BY <1>11 DEF Heartbeat, RefuseAppend, Lose, AddRemoteNode, roleVars
<1>12. ASSUME NEW a \in Node, Apply(a) \/ Registering(a)
       PROVE  UNCHANGED currentTerm
  BY <1>12 DEF Apply, Registering, RegisterBegin, RegisterReady, RegisterAppend, RegisterReply,
               roleVars
<1>13. ASSUME UNCHANGED vars
       PROVE  UNCHANGED currentTerm
  BY <1>13 DEF vars, roleVars
<1> HIDE DEF Stays
<1>14. ASSUME NEW a \in Node, NEW b \in Node, Replication(a, b)
       PROVE  Stays
  BY <1>1, <1>8, <1>9, <1>10, <1>11, <1>14 DEF Replication
<1>15. ASSUME NEW a \in Node, Election(a)
       PROVE  Stays
  BY <1>1, <1>4, <1>5, <1>6, <1>7, <1>15 DEF Election
<1>16. Stays
  BY <1>1, <1>12, <1>13, <1>14, <1>15 DEF Next
<1> QED
  BY <1>16 DEF Stays

\* A winner sets the index of every node it knows, the rest is early.
LEMMA IndexesSetStep ==
    ASSUME TypeOK, IndexesSet, [Next]_vars
    PROVE  IndexesSet'
<1> SUFFICES ASSUME NEW i \in Node, NEW j \in Node, i # j, state'[i] = "Leader"
             PROVE  \/ nextIndex'[i][j] >= 1 /\ j \in remoteNodes'[i]
                    \/ <<i, j, currentTerm'[i]>> \in early'
  BY DEF IndexesSet
<1>1. CASE state[i] = "Leader" /\ currentTerm'[i] = currentTerm[i]
  BY <1>1, IndexStep, PeersStep DEF IndexesSet
<1>2. ASSUME NEW b \in Node, NEW t \in Term, BecomeLeader(i, t, b)
      PROVE  \/ nextIndex'[i][j] >= 1 /\ j \in remoteNodes'[i]
             \/ <<i, j, currentTerm'[i]>> \in early'
  <2>1. CASE j \in remoteNodes[i]
    <3>1. nextIndex'[i][j] = getLastIndex(entries[i]) + 1
      BY <1>2, <2>1 DEF BecomeLeader, SetIndexes, TypeOK, ReplType
    <3>2. getLastIndex(entries[i]) \in Nat
      BY LastType DEF TypeOK, LogType
    <3>3. j \in remoteNodes'[i]
      BY <2>1, PeersStep
    <3> QED
      BY <3>1, <3>2, <3>3
  <2>2. CASE j \notin remoteNodes[i]
    BY <1>2, <2>2 DEF BecomeLeader
  <2> QED
    BY <2>1, <2>2
<1> QED
  BY <1>1, <1>2, LeadersStep

\* PrevLogIndexDefined is inductive.
LEMMA PrevLogIndexStep ==
    ASSUME TypeOK, IndexesSet, WrapsEarly, EndsEarly, [Next]_vars
    PROVE  IndexesSet' /\ WrapsEarly' /\ EndsEarly'
<1>1. WrapsEarly'
  <2> SUFFICES ASSUME NEW i \in Node, NEW j \in Node, NEW k \in DOMAIN net'[i][j],
                      net'[i][j][k].prevLogIndex = Wrapped
               PROVE  <<i, j, net'[i][j][k].term>> \in early'
    BY DEF WrapsEarly
  <2> DEFINE r == net'[i][j][k]
  <2> HIDE DEF r
  <2>0. r.prevLogIndex = Wrapped
    BY DEF r
  <2>1. ASSUME NEW m \in DOMAIN net[i][j], SameRequest(r, net[i][j][m])
        PROVE  <<i, j, r.term>> \in early'
    BY <2>0, <2>1, PeersStep DEF SameRequest, WrapsEarly
  <2>2. ASSUME Sends(i, j, r)
        PROVE  <<i, j, r.term>> \in early'
    <3>1. \A n \in Nat \ {0} : n - 1 # Wrapped
      BY DEF Wrapped
    <3>2. nextIndex[i][j] = 0 /\ i # j /\ state[i] = "Leader" /\ r.term = currentTerm[i]
      BY <2>0, <2>2, <3>1 DEF Sends
    <3>3. <<i, j, currentTerm[i]>> \in early
      BY <3>2 DEF IndexesSet
    <3> QED
      BY <3>2, <3>3, PeersStep
  <2> QED
    BY <2>1, <2>2, RequestsStep DEF r
<1>2. EndsEarly'
  <2> SUFFICES ASSUME NEW i \in ended'
               PROVE  \E j \in Node : <<i, j, currentTerm'[i]>> \in early'
    BY DEF EndsEarly
  <2>1. CASE i \in ended
    <3>1. i \in Node
      BY <2>1 DEF TypeOK, PeerType
    <3>2. PICK j \in Node : <<i, j, currentTerm[i]>> \in early
      BY <2>1 DEF EndsEarly
    <3> QED
      BY <2>1, <3>1, <3>2, EndedStays, PeersStep
  <2>2. CASE i \notin ended
    <3>1. PICK j \in Node, t \in Term : ReplicatorFaults(i, j, t)
      BY <2>2, PeersStep
    <3>2. /\ i # j /\ j \notin remoteNodes[i] /\ state[i] = "Leader"
          /\ UNCHANGED currentTerm
      BY <3>1 DEF ReplicatorFaults, roleVars
    <3>3. i \in Node
      BY <2>2, PeersStep
    <3>4. <<i, j, currentTerm[i]>> \in early
      BY <3>2, <3>3 DEF IndexesSet
    <3> QED
      BY <3>2, <3>4, PeersStep
  <2> QED
    BY <2>1, <2>2
<1> QED
  BY <1>1, <1>2, IndexesSetStep

\* A replicator finds an entry before the one it sends and a session to send it
\* on, unless its leadership began without its node in m_remote_nodes.
THEOREM PrevLogIndexCorrect == Spec => []PrevLogIndexDefined
<1>1. Init => IndexesSet /\ WrapsEarly /\ EndsEarly
  <2> SUFFICES ASSUME Init PROVE IndexesSet /\ WrapsEarly /\ EndsEarly
    OBVIOUS
  <2>1. \A i, j \in Node : DOMAIN net[i][j] = {}
    <3>1. DOMAIN <<>> = {}
      OBVIOUS
    <3> QED
      BY <3>1 DEF Init
  <2> QED
    BY <2>1 DEF Init, IndexesSet, WrapsEarly, EndsEarly
<1>2. TypeOK /\ IndexesSet /\ WrapsEarly /\ EndsEarly /\ [Next]_vars
      => IndexesSet' /\ WrapsEarly' /\ EndsEarly'
  BY PrevLogIndexStep
<1>3. IndexesSet /\ WrapsEarly /\ EndsEarly => PrevLogIndexDefined
  BY DEF IndexesSet, WrapsEarly, EndsEarly, PrevLogIndexDefined
<1> QED
  BY <1>1, <1>2, <1>3, TypeCorrect, PTL DEF Spec

----------------------------------------------------------------------------
\* The hint for redirects.

\* Stepping down in favour of nobody, or of a node that is as far in term.
LEMMA StepDownHint ==
    ASSUME TypeOK, LeaderHint, NEW i \in Node, NEW term \in Nat, currentTerm[i] <= term,
           NEW voted, NEW leader \in Node \cup {Nil}, StepDown(i, term, voted, leader),
           leader # Nil => leader # i /\ term <= currentTerm[leader]
    PROVE  LeaderHint'
<1>0. /\ state \in [Node -> {"Follower", "Candidate", "Leader"}]
      /\ currentTerm \in [Node -> Nat]
      /\ leaderId \in [Node -> Node \cup {Nil}]
      /\ Nil \notin Node
  BY LogTypes, NodeAssumption
<1>1. /\ currentTerm' = [currentTerm EXCEPT ![i] = term]
      /\ state' = [state EXCEPT ![i] = "Follower"]
      /\ leaderId' = [leaderId EXCEPT ![i] = leader]
  BY DEF StepDown, Demote
<1>2. \A k \in Node : currentTerm[k] <= currentTerm'[k] /\ currentTerm'[k] \in Nat
  BY <1>0, <1>1
<1> SUFFICES ASSUME NEW k \in Node
             PROVE  /\ leaderId'[k] = k <=> state'[k] = "Leader"
                    /\ leaderId'[k] # Nil => currentTerm'[leaderId'[k]] >= currentTerm'[k]
  BY DEF LeaderHint
<1>3. CASE k = i
  <2>1. leaderId'[k] = leader /\ state'[k] = "Follower" /\ currentTerm'[k] = term
    BY <1>0, <1>1, <1>3
  <2>2. CASE leader = Nil
    BY <1>0, <1>3, <2>1, <2>2
  <2>3. CASE leader # Nil
    <3>1. leader \in Node /\ leader # i /\ currentTerm'[leader] = currentTerm[leader]
      BY <1>0, <1>1, <2>3
    <3> QED
      BY <1>0, <1>3, <2>1, <3>1
  <2> QED
    BY <2>2, <2>3
<1>4. CASE k # i
  <2>1. /\ leaderId'[k] = leaderId[k] /\ state'[k] = state[k]
        /\ currentTerm'[k] = currentTerm[k]
    BY <1>0, <1>1, <1>4
  <2>2. /\ leaderId[k] = k <=> state[k] = "Leader"
        /\ leaderId[k] # Nil => currentTerm[leaderId[k]] >= currentTerm[k]
    BY DEF LeaderHint
  <2>3. CASE leaderId[k] = Nil
    BY <1>0, <2>1, <2>2, <2>3
  <2>4. CASE leaderId[k] # Nil
    <3>1. leaderId[k] \in Node
      BY <1>0, <2>4
    <3>2. currentTerm[leaderId[k]] <= currentTerm'[leaderId[k]]
          /\ currentTerm'[leaderId[k]] \in Nat /\ currentTerm[leaderId[k]] \in Nat
      BY <1>0, <1>2, <3>1
    <3>3. currentTerm[k] \in Nat /\ currentTerm[leaderId[k]] >= currentTerm[k]
      BY <1>0, <2>2, <2>4
    <3> QED
      BY <2>1, <2>2, <3>2, <3>3
  <2> QED
    BY <2>3, <2>4
<1> QED
  BY <1>3, <1>4

\* A timeout forgets the leader; a victory makes the node its own.
LEMMA RoleHint ==
    ASSUME TypeOK, LeaderHint, NEW i \in Node,
           \/ ElectionTimeout(i)
           \/ \E j \in Node, t \in Term : BecomeLeader(i, t, j)
    PROVE  LeaderHint'
<1>0. /\ state \in [Node -> {"Follower", "Candidate", "Leader"}]
      /\ currentTerm \in [Node -> Nat]
      /\ leaderId \in [Node -> Node \cup {Nil}]
      /\ Nil \notin Node
  BY LogTypes, NodeAssumption
<1>1. CASE ElectionTimeout(i)
  <2>1. /\ state' = [state EXCEPT ![i] = "Candidate"]
        /\ currentTerm' = [currentTerm EXCEPT ![i] = @ + 1]
        /\ leaderId' = [leaderId EXCEPT ![i] = Nil]
    BY <1>1 DEF ElectionTimeout
  <2> QED
    BY <1>0, <2>1 DEF LeaderHint
<1>2. ASSUME NEW j \in Node, NEW t \in Term, BecomeLeader(i, t, j)
      PROVE  LeaderHint'
  <2>1. /\ state' = [state EXCEPT ![i] = "Leader"]
        /\ leaderId' = [leaderId EXCEPT ![i] = i]
        /\ UNCHANGED currentTerm
    BY <1>2 DEF BecomeLeader
  <2> QED
    BY <1>0, <2>1 DEF LeaderHint
<1> QED
  BY <1>1, <1>2

\* LeaderHint is inductive.
LEMMA LeaderHintStep ==
    ASSUME LogInv, LeaderHint, [Next]_vars
    PROVE  LeaderHint'
<1>0. TypeOK /\ ElectionInv /\ RequestInv
  BY DEF LogInv
<1>1. currentTerm \in [Node -> Nat]
  BY <1>0, LogTypes
<1>2. ASSUME UNCHANGED roleVars
      PROVE  LeaderHint'
  BY <1>2 DEF roleVars, LeaderHint
<1>3. ASSUME NEW i \in Node, NEW term \in Nat, currentTerm[i] < term, StepDown(i, term, Nil, Nil)
      PROVE  LeaderHint'
  <2>1. currentTerm[i] <= term
    BY <1>1, <1>3
  <2> QED
    BY <1>0, <1>3, <2>1, StepDownHint
<1>4. ASSUME NEW i \in Node, Election(i)
      PROVE  LeaderHint'
  <2>1. CASE ElectionTimeout(i)
    BY <1>0, <2>1, RoleHint
  <2>2. ASSUME NEW t \in Term, StartElection(i, t)
        PROVE  LeaderHint'
    BY <2>2 DEF StartElection, LeaderHint
  <2>3. ASSUME NEW t \in Term, StartElectionBlocks(i, t)
        PROVE  LeaderHint'
    BY <1>2, <2>3 DEF StartElectionBlocks
  <2>4. ASSUME NEW t \in Term, NEW j \in Node, HandleVote(i, t, j)
        PROVE  LeaderHint'
    <3>1. voteCall[i][t][j].pc # "none"
      BY <2>4 DEF HandleVote
    <3>2. j # i /\ ballot[i][t].term <= currentTerm[i] /\ ballot[i][t].term \in Nat
      BY <1>0, <3>1, ElectionTypes DEF ElectionInv, BallotInv
    <3>3. ASSUME NEW voted, ballot[i][t].term > currentTerm[j],
                 StepDown(j, ballot[i][t].term, voted, i)
          PROVE  LeaderHint'
      <4>1. currentTerm[j] <= ballot[i][t].term
        BY <1>1, <3>2, <3>3
      <4> QED
        BY <1>0, <3>2, <3>3, <4>1, StepDownHint
    <3> QED
      BY <1>2, <2>4, <3>3 DEF HandleVote
  <2>5. ASSUME NEW t \in Term, NEW j \in Node, CountVote(i, t, j)
        PROVE  LeaderHint'
    BY <1>2, <2>5 DEF CountVote
  <2>6. ASSUME NEW t \in Term, NEW j \in Node, BecomeLeader(i, t, j)
        PROVE  LeaderHint'
    BY <1>0, <2>6, RoleHint
  <2>7. ASSUME NEW t \in Term, NEW j \in Node, DeposedByVote(i, t, j)
        PROVE  LeaderHint'
    <3>1. voteCall[i][t][j].term \in Nat
      <4>1. 0..MaxTerm \subseteq Nat
        BY BoundAssumption
      <4> QED
        BY <1>0, <4>1 DEF TypeOK, VoteType, VoteCall
    <3> QED
      BY <1>3, <2>7, <3>1 DEF DeposedByVote
  <2> QED
    BY <1>4, <2>1, <2>2, <2>3, <2>4, <2>5, <2>6, <2>7 DEF Election
<1>5. ASSUME NEW i \in Node, NEW j \in Node, Replication(i, j)
      PROVE  LeaderHint'
  <2>1. ASSUME HandleAppend(i, j) \/ HandleAppendMismatch(i, j)
        PROVE  LeaderHint'
    <3> DEFINE r == Head(net[i][j])
    <3>1. 1 \in DOMAIN net[i][j] /\ r = net[i][j][1]
      <4>1. net[i][j] # <<>> /\ net[i][j] \in Seq(AppendEntriesParams)
        BY <1>0, <2>1, LogTypes DEF HandleAppend, HandleAppendMismatch, Receives
      <4> QED
        BY <4>1, EmptySeq, LenProperties
    <3>2. i # j /\ r.term <= currentTerm[i]
      BY <1>0, <3>1 DEF RequestInv
    <3>3. r.term \in Nat
      BY <1>0, <3>1, LogTypes, RequestFields
    <3>4. Follow(i, j, r)
      BY <2>1 DEF HandleAppend, HandleAppendMismatch
    <3> HIDE DEF r
    <3>5. ASSUME \/ r.term > currentTerm[j]
                 \/ r.term = currentTerm[j] /\ state[j] = "Candidate",
                 StepDown(j, r.term, Nil, i)
          PROVE  LeaderHint'
      <4>1. currentTerm[j] <= r.term
        BY <1>1, <3>3, <3>5
      <4> QED
        BY <1>0, <3>2, <3>3, <3>5, <4>1, StepDownHint
    <3> QED
      BY <1>2, <3>4, <3>5 DEF Follow
  <2>2. ASSUME NEW t \in Term, ReplicateOutdated(i, j, t)
        PROVE  LeaderHint'
    <3>1. repl[i][j][t].term \in Nat
      <4>1. 0..MaxTerm \subseteq Nat
        BY BoundAssumption
      <4> QED
        BY <1>0, <4>1 DEF TypeOK, ReplType, Replicator
    <3>2. repl[i][j][t].term > currentTerm[i] => currentTerm[i] < repl[i][j][t].term
      BY <1>1, <3>1
    <3> QED
      BY <1>2, <1>3, <2>2, <3>1, <3>2 DEF ReplicateOutdated
  <2>3. ASSUME Heartbeat(i, j) \/ RefuseAppend(i, j) \/ Lose(i, j) \/ AddRemoteNode(i, j)
        PROVE  LeaderHint'
    BY <1>2, <2>3 DEF Heartbeat, RefuseAppend, Lose, AddRemoteNode
  <2>4. ASSUME NEW t \in Term,
               \/ Replicate(i, j, t) \/ ReplicatorQuits(i, j, t) \/ ReplicateTimeout(i, j, t)
               \/ ReplicateAcked(i, j, t) \/ ReplicateNacked(i, j, t)
               \/ ReplicatorFaults(i, j, t)
        PROVE  LeaderHint'
    BY <1>2, <2>4 DEF Replicate, ReplicatorQuits, ReplicateTimeout, ReplicateAcked,
                      ReplicateNacked, ReplicatorFaults
  <2> QED
    BY <1>5, <2>1, <2>2, <2>3, <2>4 DEF Replication
<1>6. ASSUME NEW i \in Node, Apply(i) \/ Registering(i)
      PROVE  LeaderHint'
  BY <1>2, <1>6 DEF Apply, Registering, RegisterBegin, RegisterReady, RegisterAppend, RegisterReply
<1>7. ASSUME UNCHANGED vars
      PROVE  LeaderHint'
  BY <1>2, <1>7 DEF vars
<1> HIDE DEF LeaderHint
<1> QED
  BY <1>4, <1>5, <1>6, <1>7 DEF Next

\* m_id = m_leaderId, what handleMsg asks, says the same as m_state = Leader; and
\* a redirect never leads to a node that is behind in term, so no chain of
\* redirects goes back in term.
THEOREM LeaderHintCorrect == Spec => []LeaderHint
<1>1. Init => LeaderHint
  BY NodeAssumption DEF Init, LeaderHint
<1>2. LogInv /\ LeaderHint /\ [Next]_vars => LeaderHint'
  BY LeaderHintStep
<1> QED
  BY <1>1, <1>2, LogInvCorrect, PTL DEF Spec
----------------------------------------------------------------------------
\* With one leader per term.

\* Whoever does not refuse a request of appendEntries is a follower afterwards:
\* a leader would have met the other leader of its own term.
LEMMA ReceiverFollows ==
    ASSUME LogInv, ElectionSafety, NEW i \in Node, NEW j \in Node,
           HandleAppend(i, j) \/ HandleAppendMismatch(i, j)
    PROVE  state'[j] = "Follower"
<1> DEFINE r == Head(net[i][j])
<1>0. /\ TypeOK /\ RequestInv /\ LeadInv
      /\ state \in [Node -> {"Follower", "Candidate", "Leader"}]
      /\ currentTerm \in [Node -> Nat]
      /\ leaderOf \in [Term -> SUBSET Node]
  BY LogTypes DEF LogInv
<1>1. 1 \in DOMAIN net[i][j] /\ r = net[i][j][1]
  <2>1. net[i][j] # <<>> /\ net[i][j] \in Seq(AppendEntriesParams)
    BY <1>0, LogTypes DEF HandleAppend, HandleAppendMismatch, Receives
  <2> QED
    BY <2>1, EmptySeq, LenProperties
<1>2. i # j /\ r.term \in Term /\ r.term \in Nat /\ i \in leaderOf[r.term]
  BY <1>0, <1>1, LogTypes, RequestFields DEF RequestInv
<1>3. Follow(i, j, r) /\ ~(r.term < currentTerm[j])
  BY DEF HandleAppend, HandleAppendMismatch, Outdated
<1> HIDE DEF r
<1>4. CASE \/ r.term > currentTerm[j]
           \/ r.term = currentTerm[j] /\ state[j] = "Candidate"
  BY <1>0, <1>3, <1>4 DEF Follow, StepDown
<1>5. CASE ~(\/ r.term > currentTerm[j]
             \/ r.term = currentTerm[j] /\ state[j] = "Candidate")
  <2>1. r.term = currentTerm[j] /\ state' = state
    BY <1>0, <1>2, <1>3, <1>5 DEF Follow, roleVars
  <2>2. state[j] # "Leader"
    BY <1>0, <1>2, <2>1 DEF LeadInv, ElectionSafety
  <2> QED
    BY <1>0, <1>5, <2>1, <2>2
<1> QED
  BY <1>4, <1>5

\* While a node leads, its log keeps every entry at its place.
LEMMA LeaderKeeps ==
    ASSUME LogInv, ElectionSafety, [Next]_vars, NEW i \in Node,
           state[i] = "Leader", state'[i] = "Leader"
    PROVE  /\ Len(entries[i]) <= Len(entries'[i])
           /\ \A k \in 1..Len(entries[i]) : entries'[i][k] = entries[i][k]
<1>0. TypeOK /\ entries \in [Node -> Log] /\ currentTerm \in [Node -> Nat]
  BY LogTypes DEF LogInv
<1>1. entries[i] \in Log /\ Len(entries[i]) \in Nat
  BY <1>0, LogShape
<1> DEFINE Kept == /\ Len(entries[i]) <= Len(entries'[i])
                   /\ \A k \in 1..Len(entries[i]) : entries'[i][k] = entries[i][k]
<1>2. ASSUME entries'[i] = entries[i]
      PROVE  Kept
  BY <1>1, <1>2
<1>3. ASSUME NEW a \in Node, NEW b \in Node, NEW t \in Term, BecomeLeader(a, t, b)
      PROVE  Kept
  <2>1. a # i
    BY <1>3 DEF BecomeLeader, GrantCounts
  <2> QED
    BY <1>0, <1>2, <1>3, <2>1 DEF BecomeLeader
<1>4. ASSUME NEW a \in Node, RegisterAppend(a)
      PROVE  Kept
  <2>1. entries' = [entries EXCEPT ![a] = appendNew(@, currentTerm[a], regMsg[a])]
    BY <1>4 DEF RegisterAppend
  <2>2. CASE a = i
    <3>1. entries'[i] = appendNew(entries[i], currentTerm[i], regMsg[i])
      BY <1>0, <2>1, <2>2
    <3>2. /\ Len(regMsg[i]) \in Nat
          /\ Len(entries'[i]) = Len(entries[i]) + Len(regMsg[i])
          /\ \A k \in 1..Len(entries[i]) : entries'[i][k] = entries[i][k]
      BY <1>0, <1>1, <3>1, RegistrationOps, AppendNewShape
    <3>3. \A m, n \in Nat : m <= m + n
      OBVIOUS
    <3>4. Len(entries[i]) <= Len(entries'[i])
      BY <1>1, <3>2, <3>3
    <3> QED
      BY <3>2, <3>4
  <2>3. CASE a # i
    BY <1>0, <1>2, <2>1, <2>3
  <2> QED
    BY <2>2, <2>3
<1>5. ASSUME NEW a \in Node, NEW b \in Node, HandleAppend(a, b),
             Head(net[a][b]).entry # HeartbeatEntry
      PROVE  Kept
  <2>1. b # i
    BY <1>5, ReceiverFollows
  <2> QED
    BY <1>0, <1>2, <1>5, <2>1 DEF HandleAppend
<1>6. Kept
  <2> HIDE DEF Kept
  <2> QED
    BY <1>2, <1>3, <1>4, <1>5, EntriesSteps
<1> QED
  BY <1>6

\* Sequences that agree up to n have the same beginning.
LEMMA SamePrefix ==
    ASSUME NEW S, NEW s \in Seq(S), NEW t \in Seq(S), NEW n \in Nat,
           n <= Len(s), n <= Len(t), \A k \in 1..n : s[k] = t[k]
    PROVE  SubSeq(s, 1, n) = SubSeq(t, 1, n)
<1>1. Len(s) \in Nat /\ Len(t) \in Nat
  BY LenProperties
<1>2. /\ SubSeq(s, 1, n) \in Seq(S) /\ SubSeq(t, 1, n) \in Seq(S)
      /\ Len(SubSeq(s, 1, n)) = n /\ Len(SubSeq(t, 1, n)) = n
      /\ \A k \in 1..n : SubSeq(s, 1, n)[k] = s[k] /\ SubSeq(t, 1, n)[k] = t[k]
  OBVIOUS
<1> QED
  BY <1>2, SeqEqual

\* A leader's log is never cut or overwritten while it leads, whatever late or
\* resent request arrives: appendEntry truncates behind what it matches.
THEOREM LeaderAppendOnlyCorrect ==
    ASSUME Cardinality(Node) % 2 = 1
    PROVE  Spec => LeaderAppendOnly
<1>1. ASSUME LogInv, ElectionSafety, [Next]_vars, LogInv'
      PROVE  \A i \in Node : state[i] = "Leader" /\ state'[i] = "Leader"
                => /\ Len(entries'[i]) >= Len(entries[i])
                   /\ SubSeq(entries'[i], 1, Len(entries[i])) = entries[i]
  <2> SUFFICES ASSUME NEW i \in Node, state[i] = "Leader", state'[i] = "Leader"
               PROVE  /\ Len(entries'[i]) >= Len(entries[i])
                      /\ SubSeq(entries'[i], 1, Len(entries[i])) = entries[i]
    OBVIOUS
  <2> DEFINE s == entries[i]
             t == entries'[i]
  <2>1. s \in Log /\ t \in Log
    BY <1>1 DEF LogInv, TypeOK, LogType
  <2>2. Len(s) <= Len(t) /\ \A k \in 1..Len(s) : t[k] = s[k]
    BY <1>1, LeaderKeeps
  <2> HIDE DEF s, t
  <2>3. s \in Seq(Entry) /\ t \in Seq(Entry) /\ Len(s) \in Nat /\ Len(t) \in Nat
    BY <2>1, LogShape DEF Log
  <2>4. SubSeq(t, 1, Len(s)) = SubSeq(s, 1, Len(s))
    BY <2>2, <2>3, SamePrefix
  <2>5. SubSeq(s, 1, Len(s)) = s
    BY <2>3
  <2> QED
    BY <2>2, <2>3, <2>4, <2>5 DEF s, t
<1> QED
  BY <1>1, LogInvCorrect, ElectionSafetyCorrect, PTL DEF Spec, LeaderAppendOnly

\* RaftLogger::m_mutex leaks only to a node that is a follower then.
LEMMA LoggerSteps ==
    ASSUME TypeOK, [Next]_vars, NEW i \in Node, loggerMutex'[i] = "run"
    PROVE  \/ loggerMutex[i] = "run"
           \/ \E j \in Node : HandleAppendMismatch(j, i)
<1>0. loggerMutex \in [Node -> {"free", "run"}]
  BY DEF TypeOK, LockType
<1> DEFINE Had == loggerMutex[i] = "run"
<1>1. ASSUME NEW a \in Node, Election(a)
      PROVE  Had
  BY <1>0, <1>1 DEF Election, ElectionTimeout, StartElection, StartElectionBlocks, HandleVote,
                    CountVote, BecomeLeader, DeposedByVote, lockVars
<1>2. ASSUME NEW a \in Node, NEW b \in Node, Replication(a, b), ~HandleAppendMismatch(a, b)
      PROVE  Had
  <2>1. ASSUME \/ Heartbeat(a, b) \/ RefuseAppend(a, b) \/ HandleAppend(a, b)
               \/ Lose(a, b) \/ AddRemoteNode(a, b)
        PROVE  Had
    BY <1>0, <2>1 DEF Heartbeat, RefuseAppend, HandleAppend, Lose, AddRemoteNode, lockVars
  <2>2. ASSUME NEW t \in Term,
               \/ Replicate(a, b, t) \/ ReplicatorQuits(a, b, t) \/ ReplicateTimeout(a, b, t)
               \/ ReplicateAcked(a, b, t) \/ ReplicateNacked(a, b, t) \/ ReplicateOutdated(a, b, t)
               \/ ReplicatorFaults(a, b, t)
        PROVE  Had
    BY <2>2 DEF Replicate, ReplicatorQuits, ReplicateTimeout, ReplicateAcked, ReplicateNacked,
                ReplicateOutdated, ReplicatorFaults, lockVars
  <2> QED
    BY <1>2, <2>1, <2>2 DEF Replication
<1>3. ASSUME NEW a \in Node, NEW b \in Node, HandleAppendMismatch(a, b), b # i
      PROVE  Had
  BY <1>0, <1>3 DEF HandleAppendMismatch
<1>4. ASSUME NEW a \in Node, Apply(a) \/ Registering(a)
      PROVE  Had
  BY <1>0, <1>4 DEF Apply, Registering, RegisterBegin, RegisterReady, RegisterAppend,
                    RegisterReply, lockVars
<1>5. ASSUME UNCHANGED vars
      PROVE  Had
  BY <1>5 DEF vars, lockVars
<1> HIDE DEF Had
<1>6. Had \/ \E j \in Node : HandleAppendMismatch(j, i)
  BY <1>1, <1>2, <1>3, <1>4, <1>5 DEF Next
<1> QED
  BY <1>6 DEF Had

\* A node that cannot reach its log asks for no votes, and a ballot it has
\* already is of a term it has left once it stands again.
LEMMA LeakedBallots ==
    ASSUME LogInv, [Next]_vars, NEW i \in Node, loggerMutex[i] = "run", state'[i] = "Candidate",
           state[i] = "Candidate" => \A t \in Term, j \in Node :
               voteCall[i][t][j].pc # "none" => ballot[i][t].term # currentTerm[i]
    PROVE  \A t \in Term, j \in Node :
               voteCall'[i][t][j].pc # "none" => ballot'[i][t].term # currentTerm'[i]
<1>0. TypeOK /\ ElectionInv
  BY DEF LogInv
<1> DEFINE Old == \A t \in Term, j \in Node :
                     voteCall'[i][t][j].pc # "none" => ballot'[i][t].term # currentTerm'[i]
<1>1. ASSUME ElectionTimeout(i)
      PROVE  Old
  <2>1. currentTerm'[i] = currentTerm[i] + 1 /\ UNCHANGED <<voteCall, ballot>>
    BY <1>0, <1>1, ElectionTypes DEF ElectionTimeout
  <2>2. \A t \in Term, j \in Node : voteCall[i][t][j].pc # "none" =>
           ballot[i][t].term <= currentTerm[i] /\ ballot[i][t].term \in Nat
    BY <1>0, ElectionTypes DEF ElectionInv, BallotInv
  <2>3. currentTerm[i] \in Nat
    BY <1>0, ElectionTypes
  <2> QED
    BY <2>1, <2>2, <2>3
<1>2. ASSUME state[i] = "Candidate", currentTerm'[i] = currentTerm[i], ballot'[i] = ballot[i],
             \A t \in Term, j \in Node :
                voteCall'[i][t][j].pc # "none" => voteCall[i][t][j].pc # "none"
      PROVE  Old
  BY <1>2
<1>3. ASSUME NEW a \in Node, ElectionTimeout(a), a # i
      PROVE  Old
  BY <1>0, <1>2, <1>3, ElectionTypes DEF ElectionTimeout
<1>4. ASSUME NEW a \in Node, NEW t \in Term, StartElection(a, t)
      PROVE  Old
  <2>1. a # i
    BY <1>4 DEF StartElection, LoggerFree
  <2> QED
    BY <1>0, <1>2, <1>4, <2>1, ElectionTypes DEF StartElection
<1>5. ASSUME NEW a \in Node, NEW t \in Term, StartElectionBlocks(a, t)
      PROVE  Old
  BY <1>2, <1>5 DEF StartElectionBlocks, roleVars
<1>6. ASSUME NEW a \in Node, NEW b \in Node, NEW t \in Term, HandleVote(a, t, b)
      PROVE  Old
  <2>1. state[i] = "Candidate" /\ currentTerm'[i] = currentTerm[i]
    BY <1>0, <1>6, ElectionTypes DEF HandleVote, StepDown, Demote, roleVars
  <2>2. UNCHANGED ballot /\ voteCall[a][t][b].pc = "sent"
    BY <1>6 DEF HandleVote
  <2>3. PICK answer : voteCall' = [voteCall EXCEPT ![a][t][b] = answer]
    BY <1>6 DEF HandleVote, VoteAnswered
  <2>4. \A u \in Term, j \in Node :
           voteCall'[i][u][j].pc # "none" => voteCall[i][u][j].pc # "none"
    BY <1>0, <2>2, <2>3, ElectionTypes
  <2> QED
    BY <1>2, <2>1, <2>2, <2>4
<1>7. ASSUME NEW a \in Node, NEW b \in Node, NEW t \in Term, CountVote(a, t, b)
      PROVE  Old
  <2>1. UNCHANGED <<state, currentTerm, ballot>> /\ voteCall[a][t][b].pc = "granted"
    BY <1>7 DEF CountVote, GrantCounts, roleVars
  <2>2. PICK answer : voteCall' = [voteCall EXCEPT ![a][t][b] = answer]
    BY <1>7 DEF CountVote, VoteAnswered
  <2>3. \A u \in Term, j \in Node :
           voteCall'[i][u][j].pc # "none" => voteCall[i][u][j].pc # "none"
    BY <1>0, <2>1, <2>2, ElectionTypes
  <2> QED
    BY <1>2, <2>1, <2>3
<1>8. ASSUME NEW a \in Node, NEW b \in Node, NEW t \in Term, BecomeLeader(a, t, b)
      PROVE  Old
  <2>1. a # i
    BY <1>8 DEF BecomeLeader, LoggerFree
  <2> QED
    BY <1>0, <1>2, <1>8, <2>1, ElectionTypes DEF BecomeLeader, VoteAnswered
<1>9. ASSUME NEW a \in Node, NEW term \in Nat, GivesUp(a, term)
      PROVE  Old
  BY <1>0, <1>2, <1>9, ElectionTypes DEF GivesUp
<1>10. ASSUME UNCHANGED electionVars
       PROVE  Old
  BY <1>2, <1>10 DEF electionVars
<1>11. Old
  <2> HIDE DEF Old
  <2> QED
    BY <1>0, <1>1, <1>3, <1>4, <1>5, <1>6, <1>7, <1>8, <1>9, <1>10, ElectionSteps
<1> QED
  BY <1>11

\* The leak never blocks a leader, nor a candidate inside the section in which
\* it becomes one, with m_state changed and the log out of reach.
THEOREM LeakCorrect ==
    ASSUME Cardinality(Node) % 2 = 1
    PROVE  Spec => []LeakNeverMetByLeader
<1>1. Init => LeakNeverMetByLeader
  BY DEF Init, LeakNeverMetByLeader
<1>2. ASSUME LogInv, ElectionSafety, LeakNeverMetByLeader, [Next]_vars
      PROVE  LeakNeverMetByLeader'
  <2> SUFFICES ASSUME NEW i \in Node, loggerMutex'[i] = "run"
               PROVE  /\ state'[i] # "Leader"
                      /\ state'[i] = "Candidate" => \A t \in Term, j \in Node :
                            voteCall'[i][t][j].pc # "none" => ballot'[i][t].term # currentTerm'[i]
    BY DEF LeakNeverMetByLeader
  <2>1. TypeOK
    BY <1>2 DEF LogInv
  <2>2. CASE loggerMutex[i] = "run"
    <3>1. /\ state[i] # "Leader"
          /\ state[i] = "Candidate" => \A t \in Term, j \in Node :
                voteCall[i][t][j].pc # "none" => ballot[i][t].term # currentTerm[i]
      BY <1>2, <2>2 DEF LeakNeverMetByLeader
    <3>2. \A j \in Node, t \in Term : ~BecomeLeader(i, t, j)
      BY <2>2 DEF BecomeLeader, LoggerFree
    <3>3. state'[i] # "Leader"
      BY <1>2, <2>1, <3>1, <3>2, LeadersStep
    <3> QED
      BY <1>2, <2>2, <3>1, <3>3, LeakedBallots
  <2>3. ASSUME NEW j \in Node, HandleAppendMismatch(j, i)
        PROVE  state'[i] = "Follower"
    BY <1>2, <2>3, ReceiverFollows
  <2> QED
    BY <1>2, <2>1, <2>2, <2>3, LoggerSteps
<1> QED
  BY <1>1, <1>2, LogInvCorrect, ElectionSafetyCorrect, PTL DEF Spec
----------------------------------------------------------------------------
\* Log matching.

\* An entry with the term of the one before it, in a log ...
InLog(t, e) ==
    \E i \in Node : \E k \in 2..Len(entries[i]) :
        t = entries[i][k - 1].term /\ e = entries[i][k]

\* ... in a request ...
InRequest(t, e) ==
    \E i, j \in Node : \E k \in DOMAIN net[i][j] :
        /\ t = net[i][j][k].prevLogTerm
        /\ e = net[i][j][k].entry
        /\ e # HeartbeatEntry
        /\ net[i][j][k].prevLogIndex # Wrapped

\* ... anywhere.
Seen(t, e) == InLog(t, e) \/ InRequest(t, e)

\* LogMatching, position by position.
PrefixInv ==
    \A i, j \in Node : \A k \in DOMAIN entries[i] \cap DOMAIN entries[j] :
        entries[i][k].term = entries[j][k].term
        => \A m \in 1..k : entries[i][m] = entries[j][m]

\* Index and term determine an entry and the term before it.
SeenOnce ==
    \A t1, t2 \in Nat, e1, e2 \in Entry :
        Seen(t1, e1) /\ Seen(t2, e2) /\ e1.index = e2.index /\ e1.term = e2.term
        => t1 = t2 /\ e1 = e2

\* Each was written by a leader of its term, which is not behind it.
SeenFromLeader ==
    \A t \in Nat, e \in Entry : Seen(t, e) =>
        /\ e.term \in Term /\ leaderOf[e.term] # {}
        /\ \A i \in Node : state[i] = "Leader" /\ currentTerm[i] = e.term
                              => e.index < Len(entries[i])

MatchInv == PrefixInv /\ SeenOnce /\ SeenFromLeader

\* What has been seen in a log has the index of its place.
LEMMA InLogIndex ==
    ASSUME LogInv, NEW i \in Node, NEW k \in 2..Len(entries[i])
    PROVE  /\ Len(entries[i]) \in Nat
           /\ entries[i][k] \in Entry /\ entries[i][k].index = k - 1
           /\ entries[i][k - 1].term \in Nat
           /\ Seen(entries[i][k - 1].term, entries[i][k])
<1>1. entries[i] \in Log /\ Ordered(entries[i])
  BY LogTypes DEF LogInv, LogsOrdered, Ordered
<1>2. /\ Len(entries[i]) \in Nat /\ DOMAIN entries[i] = 1..Len(entries[i])
      /\ \A m \in 1..Len(entries[i]) :
            entries[i][m] \in Entry /\ entries[i][m].term \in Nat
  BY <1>1, LogShape
<1>3. k \in 1..Len(entries[i]) /\ k - 1 \in 1..Len(entries[i])
  BY <1>2
<1>4. entries[i][k].index = k - 1
  BY <1>1, <1>2, <1>3 DEF Ordered
<1>5. Seen(entries[i][k - 1].term, entries[i][k])
  BY DEF Seen, InLog
<1> QED
  BY <1>2, <1>3, <1>4, <1>5

\* What is on its way has been seen before: there, or in the sender's log.
LEMMA RequestsSeen ==
    ASSUME LogInv, [Next]_vars, NEW t, NEW e, InRequest(t, e)'
    PROVE  Seen(t, e)
<1>0. TypeOK
  BY DEF LogInv
<1>1. PICK i \in Node, j \in Node : \E k \in DOMAIN net'[i][j] :
         /\ t = net'[i][j][k].prevLogTerm
         /\ e = net'[i][j][k].entry
         /\ e # HeartbeatEntry /\ net'[i][j][k].prevLogIndex # Wrapped
  BY DEF InRequest
<1>2. PICK k \in DOMAIN net'[i][j] :
         /\ t = net'[i][j][k].prevLogTerm
         /\ e = net'[i][j][k].entry
         /\ e # HeartbeatEntry /\ net'[i][j][k].prevLogIndex # Wrapped
  BY <1>1
<1> DEFINE r == net'[i][j][k]
<1> HIDE DEF r
<1>3. t = r.prevLogTerm /\ e = r.entry /\ e # HeartbeatEntry /\ r.prevLogIndex # Wrapped
  BY <1>2 DEF r
<1>4. ASSUME NEW m \in DOMAIN net[i][j], SameRequest(r, net[i][j][m])
      PROVE  Seen(t, e)
  BY <1>3, <1>4 DEF Seen, InRequest, SameRequest
<1>5. ASSUME Sends(i, j, r)
      PROVE  Seen(t, e)
  <2>1. PICK n \in Nat \ {0} : /\ HasEntry(entries[i], n)
                               /\ e = getEntry(entries[i], n)
                               /\ t = getEntry(entries[i], n - 1).term
    BY <1>3, <1>5 DEF Sends
  <2>2. entries[i] \in Log /\ Ordered(entries[i])
    BY <1>0, LogTypes DEF LogInv, LogsOrdered, Ordered
  <2>3. /\ n + 1 \in 1..Len(entries[i])
        /\ e = entries[i][n + 1] /\ t = entries[i][n].term
        /\ Len(entries[i]) \in Nat
    BY <2>1, <2>2, Neighbours, LogShape
  <2>4. n + 1 \in 2..Len(entries[i]) /\ (n + 1) - 1 = n
    BY <2>3
  <2> QED
    BY <2>3, <2>4 DEF Seen, InLog
<1> QED
  BY <1>0, <1>4, <1>5, RequestsStep DEF r

----------------------------------------------------------------------------
\* A leader's own entries.

\* i puts n entries of its term behind its log; nobody has seen one there.
Extends(i, n) ==
    LET len == Len(entries[i]) IN
    /\ \A a \in Node \ {i} : /\ entries'[a] = entries[a]
                             /\ state'[a] = "Leader" => state[a] = "Leader"
    /\ UNCHANGED currentTerm
    /\ Len(entries'[i]) = len + n
    /\ \A k \in 1..len : entries'[i][k] = entries[i][k]
    /\ \A k \in (len + 1)..(len + n) : entries'[i][k].term = currentTerm[i]
    /\ n # 0 => state'[i] = "Leader"
    /\ state'[i] = "Leader" => \A t \in Nat, e \in Entry :
          Seen(t, e) /\ e.term = currentTerm[i] => e.index < len

\* What is seen afterwards is old, or one of the n.
LEMMA ExtendsSeen ==
    ASSUME LogInv, LogInv', [Next]_vars, NEW i \in Node, NEW n \in Nat, Extends(i, n),
           NEW t \in Nat, NEW e \in Entry, Seen(t, e)'
    PROVE  \/ Seen(t, e)
           \/ /\ e.term = currentTerm[i] /\ n # 0
              /\ \E k \in (Len(entries[i]) + 1)..(Len(entries[i]) + n) :
                    /\ e = entries'[i][k] /\ t = entries'[i][k - 1].term
                    /\ e.index = k - 1
<1> DEFINE len == Len(entries[i])
<1>0. len \in Nat /\ len >= 1
  BY LogTypes, LogShape DEF LogInv
<1> SUFFICES ASSUME InLog(t, e)', ~Seen(t, e)
             PROVE  /\ e.term = currentTerm[i] /\ n # 0
                    /\ \E k \in (len + 1)..(len + n) :
                          /\ e = entries'[i][k] /\ t = entries'[i][k - 1].term
                          /\ e.index = k - 1
  BY RequestsSeen DEF Seen
<1>1. PICK a \in Node : \E k \in 2..Len(entries'[a]) :
         t = entries'[a][k - 1].term /\ e = entries'[a][k]
  BY DEF InLog
<1>2. PICK k \in 2..Len(entries'[a]) : t = entries'[a][k - 1].term /\ e = entries'[a][k]
  BY <1>1
<1>3. a = i
  <2> SUFFICES ASSUME a # i PROVE FALSE
    OBVIOUS
  <2>1. entries'[a] = entries[a]
    BY DEF Extends
  <2> QED
    BY <1>2, <2>1 DEF Seen, InLog
<1>4. Len(entries'[i]) = len + n
  BY DEF Extends
<1>5. ~(k <= len)
  <2> SUFFICES ASSUME k <= len PROVE FALSE
    OBVIOUS
  <2>1. k \in 1..len /\ k - 1 \in 1..len /\ k \in 2..len
    BY <1>0, <1>2
  <2>2. entries'[i][k] = entries[i][k] /\ entries'[i][k - 1] = entries[i][k - 1]
    BY <2>1 DEF Extends
  <2> QED
    BY <1>2, <1>3, <2>1, <2>2 DEF Seen, InLog
<1>6. k \in (len + 1)..(len + n) /\ n # 0
  BY <1>0, <1>2, <1>3, <1>4, <1>5
<1>7. e.term = currentTerm[i]
  BY <1>2, <1>3, <1>6 DEF Extends
<1>8. e.index = k - 1
  <2>1. entries'[i] \in Log /\ Ordered(entries'[i])
    BY DEF LogInv, TypeOK, LogType, LogsOrdered, Ordered
  <2>2. DOMAIN entries'[i] = 1..Len(entries'[i])
    BY <2>1, LogShape
  <2>3. k \in 1..Len(entries'[i])
    BY <1>2, <1>3
  <2> QED
    BY <1>2, <1>3, <2>1, <2>2, <2>3 DEF Ordered
<1> QED
  BY <1>2, <1>3, <1>6, <1>7, <1>8

\* A leader's own entries keep logs in agreement.
LEMMA ExtendsMatch ==
    ASSUME LogInv, LogInv', ElectionSafety', MatchInv, [Next]_vars,
           NEW i \in Node, NEW n \in Nat, Extends(i, n)
    PROVE  MatchInv'
<1> DEFINE len == Len(entries[i])
           New(t, e) == /\ e.term = currentTerm[i] /\ n # 0
                        /\ \E k \in (len + 1)..(len + n) :
                              /\ e = entries'[i][k] /\ t = entries'[i][k - 1].term
                              /\ e.index = k - 1
<1>0. /\ len \in Nat /\ len >= 1
      /\ \A u \in Term : leaderOf[u] \subseteq leaderOf'[u]
      /\ \A e \in Entry : e.index \in Nat /\ e.term \in Nat
  <2>1. \A e \in Entry : e.index \in Nat /\ e.term \in Nat
    BY DEF Entry
  <2> QED
    BY <2>1, LogTypes, LogShape, TermsGrow DEF LogInv
<1>1. \A t \in Nat, e \in Entry : Seen(t, e)' => Seen(t, e) \/ New(t, e)
  BY ExtendsSeen
<1>2. n # 0 => state'[i] = "Leader"
  BY DEF Extends
<1>3. state'[i] = "Leader" => \A t \in Nat, e \in Entry :
         Seen(t, e) /\ e.term = currentTerm[i] => e.index < len
  BY DEF Extends
<1>4. \A t1, t2 \in Nat, e1, e2 \in Entry :
         Seen(t1, e1) /\ New(t2, e2) => ~(e1.index = e2.index /\ e1.term = e2.term)
  BY <1>0, <1>2, <1>3
<1>5. \A t1, t2 \in Nat, e1, e2 \in Entry :
         New(t1, e1) /\ New(t2, e2) /\ e1.index = e2.index => t1 = t2 /\ e1 = e2
  <2> TAKE t1, t2 \in Nat, e1, e2 \in Entry
  <2> HAVE New(t1, e1) /\ New(t2, e2) /\ e1.index = e2.index
  <2>1. PICK k1 \in (len + 1)..(len + n) :
           e1 = entries'[i][k1] /\ t1 = entries'[i][k1 - 1].term /\ e1.index = k1 - 1
    OBVIOUS
  <2>2. PICK k2 \in (len + 1)..(len + n) :
           e2 = entries'[i][k2] /\ t2 = entries'[i][k2 - 1].term /\ e2.index = k2 - 1
    OBVIOUS
  <2>3. k1 = k2
    BY <1>0, <2>1, <2>2
  <2> QED
    BY <2>1, <2>2, <2>3
<1>6. SeenOnce'
  <2> SUFFICES ASSUME NEW t1 \in Nat, NEW t2 \in Nat, NEW e1 \in Entry, NEW e2 \in Entry,
                      Seen(t1, e1)', Seen(t2, e2)', e1.index = e2.index, e1.term = e2.term
               PROVE  t1 = t2 /\ e1 = e2
    BY DEF SeenOnce
  <2> HIDE DEF New
  <2>1. (Seen(t1, e1) \/ New(t1, e1)) /\ (Seen(t2, e2) \/ New(t2, e2))
    BY <1>1
  <2>2. CASE Seen(t1, e1) /\ Seen(t2, e2)
    BY <2>2 DEF MatchInv, SeenOnce
  <2>3. CASE New(t1, e1) /\ New(t2, e2)
    BY <1>5, <2>3
  <2> QED
    BY <1>4, <2>1, <2>2, <2>3
<1>7. SeenFromLeader'
  <2> SUFFICES ASSUME NEW t \in Nat, NEW e \in Entry, Seen(t, e)'
               PROVE  /\ e.term \in Term /\ leaderOf'[e.term] # {}
                      /\ \A a \in Node : state'[a] = "Leader" /\ currentTerm'[a] = e.term
                                            => e.index < Len(entries'[a])
    BY DEF SeenFromLeader
  <2>1. UNCHANGED currentTerm /\ Len(entries'[i]) = len + n
    BY DEF Extends
  <2>2. CASE Seen(t, e)
    <3>1. /\ e.term \in Term /\ leaderOf[e.term] # {}
          /\ \A a \in Node : state[a] = "Leader" /\ currentTerm[a] = e.term
                                => e.index < Len(entries[a])
      BY <2>2 DEF MatchInv, SeenFromLeader
    <3>2. ASSUME NEW a \in Node, state'[a] = "Leader", currentTerm'[a] = e.term
          PROVE  e.index < Len(entries'[a])
      <4>1. CASE a = i
        <5>1. e.index < len
          BY <1>3, <2>1, <2>2, <3>2, <4>1
        <5>2. len <= len + n
          BY <1>0
        <5>3. e.index \in Nat
          BY <1>0
        <5> HIDE DEF len
        <5> QED
          BY <1>0, <2>1, <4>1, <5>1, <5>2, <5>3
      <4>2. CASE a # i
        <5>1. entries'[a] = entries[a] /\ state[a] = "Leader"
          BY <3>2, <4>2 DEF Extends
        <5> QED
          BY <2>1, <3>1, <3>2, <5>1
      <4> QED
        BY <4>1, <4>2
    <3> QED
      BY <1>0, <3>1, <3>2
  <2>3. CASE New(t, e)
    <3>1. /\ e.term = currentTerm'[i] /\ state'[i] = "Leader"
      BY <1>2, <2>1, <2>3
    <3>2. e.term \in Term /\ i \in leaderOf'[e.term]
      BY <3>1 DEF LogInv, LeadInv
    <3>3. ASSUME NEW a \in Node, state'[a] = "Leader", currentTerm'[a] = e.term
          PROVE  e.index < Len(entries'[a])
      <4>1. a \in leaderOf'[e.term]
        BY <3>3 DEF LogInv, LeadInv
      <4>2. a = i
        BY <3>2, <4>1 DEF ElectionSafety
      <4>3. e.index < len + n
        BY <1>0, <2>3
      <4> QED
        BY <2>1, <4>2, <4>3
    <3> QED
      BY <3>2, <3>3
  <2> HIDE DEF New
  <2> QED
    BY <1>1, <2>2, <2>3
<1>8. PrefixInv'
  <2>1. /\ Len(entries'[i]) = len + n
        /\ \A k \in 1..len : entries'[i][k] = entries[i][k]
        /\ \A a \in Node \ {i} : entries'[a] = entries[a]
        /\ \A k \in (len + 1)..(len + n) : entries'[i][k].term = currentTerm[i]
    BY DEF Extends
  <2>2. \A a \in Node : DOMAIN entries[a] = 1..Len(entries[a]) /\ Len(entries[a]) \in Nat
    BY LogTypes, LogShape DEF LogInv
  <2>3. DOMAIN entries'[i] = 1..(len + n)
    <3>1. entries'[i] \in Log
      BY DEF LogInv, TypeOK, LogType
    <3> QED
      BY <2>1, <3>1, LogShape
  <2>4. ASSUME NEW a \in Node, a # i, NEW k \in DOMAIN entries[a] \cap DOMAIN entries'[i],
               entries[a][k].term = entries'[i][k].term
        PROVE  k \in 1..len
    <3> SUFFICES ASSUME ~(k \in 1..len) PROVE FALSE
      OBVIOUS
    <3>1. k \in (len + 1)..(len + n) /\ k \in 2..Len(entries[a]) /\ n # 0
      BY <1>0, <2>2, <2>3, <2>4
    <3>2. /\ Seen(entries[a][k - 1].term, entries[a][k])
          /\ entries[a][k] \in Entry /\ entries[a][k].index = k - 1
          /\ entries[a][k - 1].term \in Nat
      BY <3>1, InLogIndex
    <3>3. entries[a][k].term = currentTerm[i]
      BY <2>1, <2>4, <3>1
    <3>4. entries[a][k].index < len
      BY <1>2, <1>3, <3>1, <3>2, <3>3
    <3>5. k - 1 < len
      BY <3>2, <3>4
    <3> QED
      BY <1>0, <3>1, <3>5
  <2>5. \A k \in 1..len : \A m \in 1..k : m \in 1..len
    BY <1>0
  <2> HIDE DEF len, New
  <2> SUFFICES ASSUME NEW a \in Node, NEW b \in Node,
                      NEW k \in DOMAIN entries'[a] \cap DOMAIN entries'[b],
                      entries'[a][k].term = entries'[b][k].term
               PROVE  \A m \in 1..k : entries'[a][m] = entries'[b][m]
    BY DEF PrefixInv
  <2>6. CASE a # i /\ b # i
    <3>1. entries'[a] = entries[a] /\ entries'[b] = entries[b]
      BY <2>1, <2>6
    <3> QED
      BY <3>1 DEF MatchInv, PrefixInv
  <2>7. CASE a = i /\ b = i
    BY <2>7
  <2>8. CASE a = i /\ b # i
    <3>1. entries'[b] = entries[b] /\ k \in 1..len
      BY <2>1, <2>4, <2>8
    <3>2. k \in DOMAIN entries[i] /\ entries'[i][k] = entries[i][k]
          /\ \A m \in 1..k : entries'[i][m] = entries[i][m]
      BY <2>1, <2>2, <2>5, <3>1 DEF len
    <3> QED
      BY <2>8, <3>1, <3>2 DEF MatchInv, PrefixInv
  <2>9. CASE a # i /\ b = i
    <3>1. entries'[a] = entries[a] /\ k \in 1..len
      BY <2>1, <2>4, <2>9
    <3>2. k \in DOMAIN entries[i] /\ entries'[i][k] = entries[i][k]
          /\ \A m \in 1..k : entries'[i][m] = entries[i][m]
      BY <2>1, <2>2, <2>5, <3>1 DEF len
    <3> QED
      BY <2>9, <3>1, <3>2 DEF MatchInv, PrefixInv
  <2> QED
    BY <2>6, <2>7, <2>8, <2>9
<1> QED
  BY <1>6, <1>7, <1>8 DEF MatchInv

\* A term that is won has not been won before.
LEMMA NobodyLed ==
    ASSUME TypeOK, ElectionInv, ElectionSafety', NEW i \in Node, NEW j \in Node, NEW t \in Term,
           BecomeLeader(i, t, j)
    PROVE  leaderOf[currentTerm[i]] = {}
<1>1. /\ currentTerm[i] \in Term
      /\ state[i] = "Candidate"
      /\ leaderOf' = [leaderOf EXCEPT ![currentTerm[i]] = @ \cup {i}]
      /\ leaderOf \in [Term -> SUBSET Node]
  BY WinnerTerm, LogTypes
<1> SUFFICES ASSUME NEW k \in leaderOf[currentTerm[i]]
             PROVE  FALSE
  OBVIOUS
<1>2. k \in leaderOf'[currentTerm[i]] /\ i \in leaderOf'[currentTerm[i]]
  BY <1>1
<1>3. k = i
  BY <1>1, <1>2 DEF ElectionSafety
<1> QED
  BY <1>1, <1>3 DEF ElectionInv, LeaderInv

\* The no-op of a winner is the first entry of its term.
LEMMA WinnerExtends ==
    ASSUME LogInv, ElectionSafety', MatchInv, NEW i \in Node, NEW j \in Node, NEW t \in Term,
           BecomeLeader(i, t, j)
    PROVE  Extends(i, 1)
<1> DEFINE ops == <<"no-op">>
           len == Len(entries[i])
           new == appendNew(entries[i], currentTerm[i], ops)
<1>0. /\ TypeOK /\ ElectionInv
      /\ entries \in [Node -> Log] /\ state \in [Node -> {"Follower", "Candidate", "Leader"}]
      /\ currentTerm \in [Node -> Nat]
  BY LogTypes DEF LogInv
<1>1. /\ entries' = [entries EXCEPT ![i] = new]
      /\ state' = [state EXCEPT ![i] = "Leader"]
      /\ UNCHANGED currentTerm
  BY DEF BecomeLeader
<1>2. ops \in Seq(Op) /\ Len(ops) = 1
  <2>1. ops \in Seq(Op)
    BY DEF Op
  <2>2. Len(ops) = 1
    OBVIOUS
  <2> QED
    BY <2>1, <2>2
<1>3. len \in Nat
  BY <1>0, LogShape
<1> HIDE DEF ops
<1>4. /\ Len(new) = len + 1
      /\ \A k \in 1..len : new[k] = entries[i][k]
      /\ \A k \in 1..1 : new[len + k].term = currentTerm[i]
  <2>1. /\ Len(new) = len + Len(ops)
        /\ \A k \in 1..len : new[k] = entries[i][k]
        /\ \A k \in 1..Len(ops) : new[len + k].term = currentTerm[i]
    <3> DEFINE log == entries[i]
               term == currentTerm[i]
    <3>1. log \in Log /\ term \in Nat /\ ops \in Seq(Op)
      BY <1>0, <1>2
    <3> HIDE DEF log, term
    <3>2. /\ Len(appendNew(log, term, ops)) = Len(log) + Len(ops)
          /\ \A k \in 1..Len(log) : appendNew(log, term, ops)[k] = log[k]
          /\ \A k \in 1..Len(ops) : appendNew(log, term, ops)[Len(log) + k].term = term
      BY <3>1, AppendNewShape
    <3> QED
      BY <3>2 DEF log, term
  <2> HIDE DEF new, len
  <2> QED
    BY <1>2, <2>1
<1> HIDE DEF new
<1>5. \A k \in (len + 1)..(len + 1) : new[k].term = currentTerm[i]
  <2>1. 1 \in 1..1
    OBVIOUS
  <2>2. \A k \in (len + 1)..(len + 1) : k = len + 1
    BY <1>3
  <2> QED
    BY <1>4, <2>1, <2>2
<1>6. entries'[i] = new
  BY <1>0, <1>1
<1>7. \A a \in Node \ {i} : entries'[a] = entries[a] /\ state'[a] = state[a]
  BY <1>0, <1>1
<1>8. state'[i] = "Leader"
  BY <1>0, <1>1
<1>9. leaderOf[currentTerm[i]] = {}
  BY <1>0, NobodyLed
<1>10. \A u \in Nat, e \in Entry :
          Seen(u, e) /\ e.term = currentTerm[i] => e.index < len
  BY <1>9 DEF MatchInv, SeenFromLeader
<1> HIDE DEF len
<1> QED
  BY <1>1, <1>4, <1>5, <1>6, <1>7, <1>8, <1>10 DEF Extends, len

\* A leader's log holds every entry of its term.
LEMMA RegisterExtends ==
    ASSUME LogInv, MatchInv, NEW i \in Node, RegisterAppend(i), ~strayed'
    PROVE  Len(regMsg[i]) \in Nat /\ Extends(i, Len(regMsg[i]))
<1> DEFINE ops == regMsg[i]
           n   == Len(ops)
           len == Len(entries[i])
           new == appendNew(entries[i], currentTerm[i], ops)
<1>0. /\ TypeOK
      /\ entries \in [Node -> Log] /\ currentTerm \in [Node -> Nat]
  BY LogTypes DEF LogInv
<1>1. /\ entries' = [entries EXCEPT ![i] = new]
      /\ UNCHANGED <<state, currentTerm>>
      /\ ops # <<>> => state[i] = "Leader"
  BY DEF RegisterAppend, roleVars
<1>2. ops \in Seq(Op)
  BY <1>0, RegistrationOps
<1>3. len \in Nat
  BY <1>0, LogShape
<1> HIDE DEF ops
<1>4. /\ n \in Nat
      /\ Len(new) = len + n
      /\ \A k \in 1..len : new[k] = entries[i][k]
      /\ \A k \in 1..n : new[len + k].term = currentTerm[i]
  BY <1>0, <1>2, AppendNewShape
<1> HIDE DEF new
<1>5. n # 0 => state[i] = "Leader"
  <2>1. ops = <<>> => n = 0
    OBVIOUS
  <2> QED
    BY <1>1, <2>1
<1> HIDE DEF n, len
<1>6. \A k \in (len + 1)..(len + n) : new[k].term = currentTerm[i]
  <2> TAKE k \in (len + 1)..(len + n)
  <2>1. k - len \in 1..n /\ len + (k - len) = k
    BY <1>3, <1>4
  <2> QED
    BY <1>4, <2>1
<1>7. /\ entries'[i] = new
      /\ \A a \in Node \ {i} : entries'[a] = entries[a]
  BY <1>0, <1>1
<1>8. state[i] = "Leader" => \A u \in Nat, e \in Entry :
         Seen(u, e) /\ e.term = currentTerm[i] => e.index < len
  BY DEF MatchInv, SeenFromLeader, len
<1>9. Extends(i, n)
  BY <1>1, <1>4, <1>5, <1>6, <1>7, <1>8 DEF Extends, len
<1> QED
  BY <1>4, <1>9 DEF n, ops

\* A step in which nobody wins and nothing new is seen.
LEMMA SeenKept ==
    ASSUME LogInv, LogInv', ElectionSafety, MatchInv, [Next]_vars,
           \A i, j \in Node, t \in Term : ~BecomeLeader(i, t, j),
           \A t \in Nat, e \in Entry : Seen(t, e)' => Seen(t, e)
    PROVE  SeenOnce' /\ SeenFromLeader'
<1>0. TypeOK
  BY DEF LogInv
<1>1. SeenOnce'
  BY DEF MatchInv, SeenOnce
<1>2. SeenFromLeader'
  <2> SUFFICES ASSUME NEW t \in Nat, NEW e \in Entry, Seen(t, e)'
               PROVE  /\ e.term \in Term /\ leaderOf'[e.term] # {}
                      /\ \A a \in Node : state'[a] = "Leader" /\ currentTerm'[a] = e.term
                                            => e.index < Len(entries'[a])
    BY DEF SeenFromLeader
  <2>1. /\ e.term \in Term /\ leaderOf[e.term] # {}
        /\ \A a \in Node : state[a] = "Leader" /\ currentTerm[a] = e.term
                              => e.index < Len(entries[a])
    BY DEF MatchInv, SeenFromLeader
  <2>2. leaderOf[e.term] \subseteq leaderOf'[e.term]
    BY <1>0, <2>1, TermsGrow
  <2>3. ASSUME NEW a \in Node, state'[a] = "Leader", currentTerm'[a] = e.term
        PROVE  e.index < Len(entries'[a])
    <3>1. state[a] = "Leader" /\ currentTerm[a] = e.term
      BY <1>0, <2>3, LeadersStep
    <3>2. e.index < Len(entries[a]) /\ Len(entries[a]) <= Len(entries'[a])
      BY <2>1, <2>3, <3>1, LeaderKeeps
    <3>3. Len(entries[a]) \in Nat /\ Len(entries'[a]) \in Nat /\ e.index \in Nat
      <4>1. entries[a] \in Log /\ entries'[a] \in Log
        BY DEF LogInv, TypeOK, LogType
      <4>2. e.index \in Nat
        BY DEF Entry
      <4> QED
        BY <4>1, <4>2, LogShape
    <3> QED
      BY <3>2, <3>3
  <2> QED
    BY <2>1, <2>2, <2>3
<1> QED
  BY <1>1, <1>2

\* strayed is never taken back.
LEMMA StrayedStays ==
    ASSUME [Next]_vars, ~strayed'
    PROVE  ~strayed
<1>1. ASSUME NEW i \in Node, Election(i)
      PROVE  ~strayed
  BY <1>1 DEF Election, ElectionTimeout, StartElection, StartElectionBlocks, HandleVote,
              CountVote, BecomeLeader, DeposedByVote, history
<1>2. ASSUME NEW i \in Node, NEW j \in Node, Replication(i, j)
      PROVE  ~strayed
  <2>1. ASSUME \/ Heartbeat(i, j) \/ RefuseAppend(i, j) \/ HandleAppend(i, j)
               \/ HandleAppendMismatch(i, j) \/ Lose(i, j) \/ AddRemoteNode(i, j)
        PROVE  ~strayed
    BY <2>1 DEF Heartbeat, RefuseAppend, HandleAppend, HandleAppendMismatch, Lose,
                AddRemoteNode, history
  <2>2. ASSUME NEW t \in Term,
               \/ Replicate(i, j, t) \/ ReplicatorQuits(i, j, t) \/ ReplicateTimeout(i, j, t)
               \/ ReplicateAcked(i, j, t) \/ ReplicateNacked(i, j, t) \/ ReplicateOutdated(i, j, t)
               \/ ReplicatorFaults(i, j, t)
        PROVE  ~strayed
    BY <2>2 DEF Replicate, ReplicatorQuits, ReplicateTimeout, ReplicateAcked, ReplicateNacked,
                ReplicateOutdated, ReplicatorFaults, history
  <2> QED
    BY <1>2, <2>1, <2>2 DEF Replication
<1>3. ASSUME NEW i \in Node, Apply(i) \/ Registering(i)
      PROVE  ~strayed
  BY <1>3 DEF Apply, Registering, RegisterBegin, RegisterReady, RegisterAppend, RegisterReply,
              history
<1>4. CASE UNCHANGED vars
  BY <1>4 DEF vars, history
<1> QED
  BY <1>1, <1>2, <1>3, <1>4 DEF Next

\* A follower puts the entry behind one of the term the request names: nothing
\* new is seen.
LEMMA TakesSeen ==
    ASSUME LogInv, [Next]_vars, NEW i \in Node, NEW j \in Node, NEW k \in DOMAIN net[i][j],
           Takes(i, j, net[i][j][k]), NEW t, NEW e, Seen(t, e)'
    PROVE  Seen(t, e)
<1> DEFINE r == net[i][j][k]
           p == r.prevLogIndex + 1
           log == entries[j]
<1>0. /\ entries \in [Node -> Log] /\ Ordered(log)
      /\ r \in AppendEntriesParams
  BY LogTypes DEF LogInv, LogsOrdered, Ordered
<1>1. /\ r.entry # HeartbeatEntry /\ r.prevLogIndex \in Nat
      /\ Matches(log, r.prevLogIndex, r.prevLogTerm)
      /\ entries' = [entries EXCEPT ![j] = appendAfter(log, r.entry, r.prevLogIndex)]
  BY DEF Takes
<1>2. r.entry \in Entry /\ r.prevLogIndex \in Nat /\ r.prevLogTerm \in Nat
  BY <1>0, <1>1, RequestFields
<1>3. InRequest(r.prevLogTerm, r.entry)
  BY <1>1, WrappedNoIndex DEF InRequest
<1>4. entries'[j] = appendAfter(log, r.entry, r.prevLogIndex)
  BY <1>0, <1>1
<1> HIDE DEF r
<1>5. /\ p \in 1..Len(log)
      /\ log[p].term = r.prevLogTerm
      /\ Len(entries'[j]) = p + 1
      /\ \A m \in 1..p : entries'[j][m] = log[m]
      /\ entries'[j][p + 1] = r.entry
  <2>1. /\ log \in Log /\ Ordered(log) /\ r.entry \in Entry
        /\ r.prevLogIndex \in Nat /\ r.prevLogTerm \in Nat
        /\ Matches(log, r.prevLogIndex, r.prevLogTerm)
    BY <1>0, <1>1, <1>2
  <2> HIDE DEF log
  <2> QED
    BY <1>4, <2>1, AppendAfterShape
<1>6. Len(log) \in Nat
  BY <1>0, LogShape
<1> SUFFICES ASSUME InLog(t, e)' PROVE Seen(t, e)
  BY RequestsSeen DEF Seen
<1>7. PICK a \in Node : \E m \in 2..Len(entries'[a]) :
         t = entries'[a][m - 1].term /\ e = entries'[a][m]
  BY DEF InLog
<1>8. PICK m \in 2..Len(entries'[a]) : t = entries'[a][m - 1].term /\ e = entries'[a][m]
  BY <1>7
<1>9. CASE a # j
  <2>1. entries'[a] = entries[a]
    BY <1>0, <1>1, <1>9
  <2> QED
    BY <1>8, <2>1 DEF Seen, InLog
<1>10. CASE a = j /\ m = p + 1
  <2>1. m - 1 = p /\ p \in 1..p
    BY <1>5, <1>6, <1>10
  <2>2. t = r.prevLogTerm /\ e = r.entry
    BY <1>5, <1>8, <1>10, <2>1
  <2> QED
    BY <1>3, <2>2 DEF Seen
<1>11. CASE a = j /\ m # p + 1
  <2> HIDE DEF p
  <2>1. m \in 1..p /\ m - 1 \in 1..p /\ m \in 2..Len(log)
    BY <1>5, <1>6, <1>8, <1>11
  <2>2. e = log[m] /\ t = log[m - 1].term
    BY <1>5, <1>8, <1>11, <2>1
  <2> QED
    BY <2>1, <2>2 DEF Seen, InLog
<1> QED
  BY <1>9, <1>10, <1>11

\* And it agrees with that log up to the entry, since index and term of the
\* entry determine the term before it.
LEMMA TakesPrefix ==
    ASSUME LogInv, LogInv', MatchInv, NEW i \in Node, NEW j \in Node, NEW n \in DOMAIN net[i][j],
           Takes(i, j, net[i][j][n])
    PROVE  PrefixInv'
<1> DEFINE r == net[i][j][n]
           p == r.prevLogIndex + 1
           log == entries[j]
           new == entries'[j]
<1>0. /\ entries \in [Node -> Log] /\ Ordered(log)
      /\ r \in AppendEntriesParams
      /\ \A a \in Node : DOMAIN entries[a] = 1..Len(entries[a]) /\ Len(entries[a]) \in Nat
  <2>1. entries \in [Node -> Log] /\ Ordered(log) /\ r \in AppendEntriesParams
    BY LogTypes DEF LogInv, LogsOrdered, Ordered
  <2> QED
    BY <2>1, LogShape
<1>1. /\ r.entry # HeartbeatEntry /\ r.prevLogIndex \in Nat
      /\ Matches(log, r.prevLogIndex, r.prevLogTerm)
      /\ entries' = [entries EXCEPT ![j] = appendAfter(log, r.entry, r.prevLogIndex)]
  BY DEF Takes
<1>2. r.entry \in Entry /\ r.prevLogIndex \in Nat /\ r.prevLogTerm \in Nat
  BY <1>0, <1>1, RequestFields
<1>3. Seen(r.prevLogTerm, r.entry)
  BY <1>1, WrappedNoIndex DEF Seen, InRequest
<1>4. new = appendAfter(log, r.entry, r.prevLogIndex)
  BY <1>0, <1>1
<1>5. r.entry.index = p
  BY <1>1, WrappedNoIndex DEF LogInv, RequestInv
<1>6. \A a \in Node \ {j} : entries'[a] = entries[a]
  BY <1>0, <1>1
<1> HIDE DEF r
<1>7. /\ p \in 1..Len(log)
      /\ log[p].term = r.prevLogTerm
      /\ DOMAIN new = 1..(p + 1)
      /\ \A m \in 1..p : new[m] = log[m]
      /\ new[p + 1] = r.entry
  BY <1>0, <1>1, <1>2, <1>4, AppendAfterShape
<1> HIDE DEF p, log, new
<1>8. p \in Nat /\ p >= 1 /\ Len(log) \in Nat /\ DOMAIN log = 1..Len(log)
  BY <1>0, <1>7 DEF log
<1>9. PrefixInv
  BY DEF MatchInv
<1>10. ASSUME NEW a \in Node, a # j, NEW k \in DOMAIN entries[a] \cap DOMAIN new,
              entries[a][k].term = new[k].term
       PROVE  \A m \in 1..k : entries[a][m] = new[m]
  <2>1. CASE k # p + 1
    <3>1. k \in 1..p /\ k \in DOMAIN log
      BY <1>7, <1>8, <2>1
    <3>2. entries[a][k].term = log[k].term
      BY <1>7, <1>10, <3>1
    <3>3. \A m \in 1..k : entries[a][m] = log[m]
      BY <1>9, <1>10, <3>1, <3>2 DEF PrefixInv, log
    <3>4. \A m \in 1..k : m \in 1..p
      BY <1>8, <3>1
    <3> QED
      BY <1>7, <3>3, <3>4
  <2>2. CASE k = p + 1
    <3>1. k \in 2..Len(entries[a]) /\ k - 1 = p /\ p \in DOMAIN log /\ p \in DOMAIN entries[a]
      BY <1>0, <1>7, <1>8, <1>10, <2>2
    <3>2. /\ entries[a][k] \in Entry /\ entries[a][k].index = k - 1
          /\ entries[a][k - 1].term \in Nat
          /\ Seen(entries[a][k - 1].term, entries[a][k])
      BY <3>1, InLogIndex
    <3>3. entries[a][k].term = r.entry.term
      BY <1>7, <1>10, <2>2
    <3>4. entries[a][k].index = r.entry.index
      BY <1>5, <3>1, <3>2
    <3>5. entries[a][k - 1].term = r.prevLogTerm /\ entries[a][k] = r.entry
      BY <1>2, <1>3, <3>2, <3>3, <3>4 DEF MatchInv, SeenOnce
    <3>6. entries[a][p].term = log[p].term
      BY <1>7, <3>1, <3>5
    <3>7. \A m \in 1..p : entries[a][m] = log[m]
      BY <1>9, <3>1, <3>6 DEF PrefixInv, log
    <3>8. \A m \in 1..k : m \in 1..p \/ m = p + 1
      BY <1>8, <2>2
    <3> QED
      BY <1>7, <2>2, <3>5, <3>7, <3>8
  <2> QED
    BY <2>1, <2>2
<1> SUFFICES ASSUME NEW a \in Node, NEW b \in Node,
                    NEW k \in DOMAIN entries'[a] \cap DOMAIN entries'[b],
                    entries'[a][k].term = entries'[b][k].term
             PROVE  \A m \in 1..k : entries'[a][m] = entries'[b][m]
  BY DEF PrefixInv
<1>11. CASE a # j /\ b # j
  <2>1. entries'[a] = entries[a] /\ entries'[b] = entries[b]
    BY <1>6, <1>11
  <2> QED
    BY <1>9, <2>1 DEF PrefixInv
<1>12. CASE a = j /\ b = j
  BY <1>12
<1>13. CASE a = j /\ b # j
  <2>1. entries'[b] = entries[b] /\ entries'[a] = new
    BY <1>6, <1>13 DEF new
  <2> QED
    BY <1>10, <1>13, <2>1
<1>14. CASE a # j /\ b = j
  <2>1. entries'[a] = entries[a] /\ entries'[b] = new
    BY <1>6, <1>14 DEF new
  <2> QED
    BY <1>10, <1>14, <2>1
<1> QED
  BY <1>11, <1>12, <1>13, <1>14

\* As long as only leaders write, MatchInv is inductive.
LEMMA MatchInvStep ==
    ASSUME LogInv, LogInv', ElectionSafety, ElectionSafety', MatchInv, [Next]_vars, ~strayed'
    PROVE  MatchInv'
<1>0. TypeOK /\ ElectionInv
  BY DEF LogInv
<1>1. CASE \E i, j \in Node, t \in Term : BecomeLeader(i, t, j)
  <2>1. PICK i \in Node, j \in Node, t \in Term : BecomeLeader(i, t, j)
    BY <1>1
  <2>2. Extends(i, 1)
    BY <2>1, WinnerExtends
  <2> QED
    BY <2>2, ExtendsMatch
<1>2. ASSUME NEW i \in Node, RegisterAppend(i)
      PROVE  MatchInv'
  BY <1>2, RegisterExtends, ExtendsMatch
<1>3. ASSUME \A i, j \in Node, t \in Term : ~BecomeLeader(i, t, j), PrefixInv',
             \A t \in Nat, e \in Entry : Seen(t, e)' => Seen(t, e)
      PROVE  MatchInv'
  BY <1>3, SeenKept DEF MatchInv
<1>4. ASSUME NEW i \in Node, NEW j \in Node, HandleAppend(i, j),
             Head(net[i][j]).entry # HeartbeatEntry,
             \A a, b \in Node, t \in Term : ~BecomeLeader(a, t, b)
      PROVE  MatchInv'
  <2>1. PICK k \in DOMAIN net[i][j] : Takes(i, j, net[i][j][k])
    BY <1>0, <1>4, HandleAppendTakes
  <2>2. PrefixInv'
    BY <2>1, TakesPrefix
  <2>3. \A t \in Nat, e \in Entry : Seen(t, e)' => Seen(t, e)
    BY <2>1, TakesSeen
  <2> QED
    BY <1>3, <1>4, <2>2, <2>3
<1>5. ASSUME UNCHANGED entries, \A a, b \in Node, t \in Term : ~BecomeLeader(a, t, b)
      PROVE  MatchInv'
  <2>1. PrefixInv'
    BY <1>5 DEF MatchInv, PrefixInv
  <2>2. \A t \in Nat, e \in Entry : Seen(t, e)' => Seen(t, e)
    <3>1. \A t \in Nat, e \in Entry : InLog(t, e)' => Seen(t, e)
      BY <1>5 DEF InLog, Seen
    <3> QED
      BY <3>1, RequestsSeen DEF Seen
  <2> QED
    BY <1>3, <1>5, <2>1, <2>2
<1> QED
  BY <1>1, <1>2, <1>4, <1>5, EntriesSteps

\* At the start there is nothing but the dummy entry, the same everywhere.
LEMMA MatchInit == Init => MatchInv
<1> SUFFICES ASSUME Init PROVE MatchInv
  OBVIOUS
<1>1. \A i \in Node : entries[i] = InitialLog
  BY DEF Init
<1>2. Len(InitialLog) = 1
  BY DEF InitialLog
<1>3. PrefixInv
  BY <1>1 DEF PrefixInv
<1>4. \A t \in Nat, e \in Entry : ~Seen(t, e)
  <2>1. \A i, j \in Node : DOMAIN net[i][j] = {}
    <3>1. DOMAIN <<>> = {}
      OBVIOUS
    <3> QED
      BY <3>1 DEF Init
  <2>2. \A i \in Node : 2..Len(entries[i]) = {}
    <3>1. 2..1 = {}
      OBVIOUS
    <3> HIDE DEF InitialLog
    <3> QED
      BY <1>1, <1>2, <3>1
  <2> QED
    BY <2>1, <2>2 DEF Seen, InLog, InRequest
<1> QED
  BY <1>3, <1>4 DEF MatchInv, SeenOnce, SeenFromLeader

\* Two logs of an odd cluster with an entry of the same index and term agree up
\* to it, whatever is lost, resent or late, unless a node that did not lead any
\* more has written a registration.
THEOREM LogMatchingCorrect ==
    ASSUME Cardinality(Node) % 2 = 1
    PROVE  Spec => []LogMatching
<1> DEFINE Inv == ~strayed => MatchInv
<1>1. Init => Inv
  BY MatchInit
<1>2. /\ LogInv /\ LogInv' /\ ElectionSafety /\ ElectionSafety' /\ Inv /\ [Next]_vars
      => Inv'
  BY StrayedStays, MatchInvStep
<1>3. ASSUME LogInv, Inv
      PROVE  LogMatching
  <2> SUFFICES ASSUME ~strayed, NEW i \in Node, NEW j \in Node,
                      NEW k \in DOMAIN entries[i] \cap DOMAIN entries[j],
                      entries[i][k].term = entries[j][k].term
               PROVE  SubSeq(entries[i], 1, k) = SubSeq(entries[j], 1, k)
    BY DEF LogMatching
  <2>1. \A m \in 1..k : entries[i][m] = entries[j][m]
    BY <1>3 DEF MatchInv, PrefixInv
  <2>2. /\ entries[i] \in Seq(Entry) /\ entries[j] \in Seq(Entry)
        /\ DOMAIN entries[i] = 1..Len(entries[i]) /\ DOMAIN entries[j] = 1..Len(entries[j])
        /\ Len(entries[i]) \in Nat /\ Len(entries[j]) \in Nat
    <3>1. entries[i] \in Log /\ entries[j] \in Log
      BY <1>3, LogTypes DEF LogInv
    <3> QED
      BY <3>1, LogShape DEF Log
  <2>3. k \in Nat /\ k <= Len(entries[i]) /\ k <= Len(entries[j])
    BY <2>2
  <2> QED
    BY <2>1, <2>2, <2>3, SamePrefix
<1> HIDE DEF Inv
<1> QED
  BY <1>1, <1>2, <1>3, LogInvCorrect, ElectionSafetyCorrect, PTL DEF Spec
=============================================================================
