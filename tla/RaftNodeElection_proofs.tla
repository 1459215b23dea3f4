---------------------- MODULE RaftNodeElection_proofs ----------------------
(***************************************************************************)
(* RaftNode keeps the types of its variables, for every cluster and all    *)
(* bounds.  First what the operators on logs return, then the pieces the   *)
(* handlers share, then one lemma per action.                              *)
(*                                                                         *)
(* No two nodes ever lead one term of a cluster with an odd number of      *)
(* nodes, and its elections implement LeaderElection.  The argument is     *)
(* ElectionInv: a grant binds its voter, so the voters two winners of one  *)
(* term have counted are disjoint and neither winner is among them; there  *)
(* are not enough nodes for that.                                          *)
(***************************************************************************)
EXTENDS RaftNode, FiniteSetTheorems, SequenceTheorems, TLAPS


\* A sequence of one element.
LEMMA SingletonSeq ==
    ASSUME NEW S, NEW x \in S
    PROVE  <<x>> \in Seq(S) /\ <<x>> # <<>>
OBVIOUS

\* A log has a last entry, and what getLastIndex and getLastTerm read is there.
LEMMA LastType ==
    ASSUME NEW log \in Log
    PROVE  /\ Len(log) \in Nat \ {0}
           /\ Last(log) \in Entry
           /\ getLastIndex(log) \in Nat
           /\ getLastTerm(log) \in Nat
<1>1. log \in Seq(Entry) /\ log # <<>>
  BY DEF Log
<1>2. Len(log) \in Nat \ {0}
  BY <1>1, EmptySeq
<1>3. Last(log) \in Entry
  BY <1>1, <1>2, ElementOfSeq DEF Last
<1> QED
  BY <1>2, <1>3 DEF getLastIndex, getLastTerm, Entry

\* The follower's appendEntry gives a log when the previous entry was found.
LEMMA AppendAfterType ==
    ASSUME NEW log \in Log, NEW e \in Entry, NEW prevLogIndex, NEW prevLogTerm,
           Matches(log, prevLogIndex, prevLogTerm)
    PROVE  appendAfter(log, e, prevLogIndex) \in Log
<1> DEFINE p == CHOOSE p \in DOMAIN log : StopsAt(log, p, prevLogIndex)
<1>1. p \in DOMAIN log
  BY DEF Matches
<1>2. SubSeq(log, 1, p) \in Seq(Entry)
  <2>1. log \in Seq(Entry)
    BY DEF Log
  <2>2. p \in 1..Len(log)
    BY <1>1, <2>1, LenProperties
  <2> HIDE DEF p
  <2> QED
    BY <2>1, <2>2, SubSeqProperties
<1> HIDE DEF p
<1>3. Append(SubSeq(log, 1, p), e) \in Seq(Entry) /\ Append(SubSeq(log, 1, p), e) # <<>>
  BY <1>2, AppendProperties
<1> QED
  BY <1>3 DEF appendAfter, Log, p

\* The leader's appendEntry gives a log.
LEMMA AppendNewType ==
    ASSUME NEW log \in Log, NEW term \in Nat, NEW ops \in Seq(Op)
    PROVE  appendNew(log, term, ops) \in Log
<1> DEFINE new == [k \in DOMAIN ops |-> [index |-> getLastIndex(log) + k, term |-> term, op |-> ops[k]]]
<1>1. new \in Seq(Entry)
  <2>1. DOMAIN ops = 1..Len(ops) /\ Len(ops) \in Nat
    OBVIOUS
  <2>2. \A k \in 1..Len(ops) : [index |-> getLastIndex(log) + k, term |-> term, op |-> ops[k]] \in Entry
    BY LastType DEF Entry
  <2> QED
    BY <2>1, <2>2
<1>2. log \in Seq(Entry) /\ log # <<>>
  BY DEF Log
<1>3. log \o new \in Seq(Entry) /\ log \o new # <<>>
  BY <1>1, <1>2
<1> QED
  BY <1>3 DEF appendNew, Log

\* The constructor's state has the types.
LEMMA TypeInit == Init => TypeOK
<1> SUFFICES ASSUME Init PROVE TypeOK
  OBVIOUS
<1> USE NodeAssumption, BoundAssumption DEF Init
<1>1. RoleType
  BY DEF RoleType
<1>2. LockType
  BY DEF LockType
<1>3. LogType
  <2>1. InitialLog \in Log
    <3>1. [index |-> 0, term |-> 0, op |-> ""] \in Entry
      BY DEF Entry, Op
    <3> HIDE DEF Entry
    <3> QED
      BY <3>1, SingletonSeq DEF InitialLog, Log
  <2> QED
    BY <2>1 DEF LogType
<1>4. VoteType
  BY DEF VoteType, RaftVoteParams, NoBallot, VoteCall
<1>5. ReplType
  BY DEF ReplType, Replicator
<1>6. RunType
  BY DEF RunType
<1>7. PeerType
  BY DEF PeerType
<1> QED
  BY <1>1, <1>2, <1>3, <1>4, <1>5, <1>6, <1>7 DEF TypeOK

----------------------------------------------------------------------------
\* The pieces the handlers share keep the types.

\* StepDown keeps the types of role, term, vote, hint and timers.
LEMMA StepDownType ==
    ASSUME RoleType, NEW i \in Node, NEW term \in 0..MaxTerm, NEW voted \in Node \cup {Nil},
           NEW leader \in Node \cup {Nil}, StepDown(i, term, voted, leader)
    PROVE  RoleType'
BY DEF RoleType, StepDown, Demote, SwitchTimers

\* run() releasing m_raft_mutex.
LEMMA UnlockType ==
    ASSUME LockType, NEW j \in Node, RunUnlocks(j),
           \/ UNCHANGED loggerMutex
           \/ loggerMutex' = [loggerMutex EXCEPT ![j] = "free"]
    PROVE  LockType'
BY DEF LockType, RunUnlocks

\* A vote coroutine moving on.
LEMMA VoteAnsweredType ==
    ASSUME VoteType, NEW i \in Node, NEW t \in Term, NEW j \in Node,
           NEW pc \in {"none", "sent", "granted", "refused", "counted"}, NEW term \in 0..MaxTerm,
           VoteAnswered(i, t, j, pc, term), UNCHANGED <<starting, ballot>>
    PROVE  VoteType'
<1>1. [pc |-> pc, term |-> term] \in VoteCall
  BY DEF VoteCall
<1> HIDE DEF VoteCall
<1> QED
  BY <1>1 DEF VoteType, VoteAnswered

\* The request in front of a session that is not empty.
LEMMA RequestType ==
    ASSUME ReplType, NEW i \in Node, NEW j \in Node, net[i][j] # <<>>
    PROVE  /\ Head(net[i][j]) \in AppendEntriesParams
           /\ Tail(net[i][j]) \in Seq(AppendEntriesParams)
<1>1. net[i][j] \in Seq(AppendEntriesParams)
  BY DEF ReplType
<1> QED
  BY <1>1, HeadTailProperties

\* One replicator of one leadership changing.
LEMMA ReplicatorType ==
    ASSUME repl \in [Node -> [Node -> [Term -> Replicator]]],
           NEW i \in Node, NEW j \in Node, NEW t \in Term,
           NEW pc \in {"none", "loop", "wait", "acked", "nacked"}, NEW term \in 0..MaxTerm,
           repl' = [repl EXCEPT ![i][j][t] = [pc |-> pc, term |-> term]]
    PROVE  repl' \in [Node -> [Node -> [Term -> Replicator]]]
<1>1. [pc |-> pc, term |-> term] \in Replicator
  BY DEF Replicator
<1> HIDE DEF Replicator
<1> QED
  BY <1>1

\* ReplicatorMoves is such a change.
LEMMA ReplicatorMovesType ==
    ASSUME repl \in [Node -> [Node -> [Term -> Replicator]]],
           NEW i \in Node, NEW j \in Node, NEW t \in Term,
           NEW pc \in {"none", "loop", "wait", "acked", "nacked"}, ReplicatorMoves(i, j, t, pc)
    PROVE  repl' \in [Node -> [Node -> [Term -> Replicator]]]
<1>1. 0 \in 0..MaxTerm
  BY BoundAssumption
<1> QED
  BY <1>1, ReplicatorType DEF ReplicatorMoves

\* A request joining the session.
LEMMA SendType ==
    ASSUME ReplType, NEW i \in Node, NEW j \in Node, NEW request \in AppendEntriesParams,
           Send(i, j, request)
    PROVE  net' \in [Node -> [Node -> Seq(AppendEntriesParams)]]
<1>1. net[i][j] \in Seq(AppendEntriesParams)
  BY DEF ReplType
<1>2. Append(net[i][j], request) \in Seq(AppendEntriesParams)
  BY <1>1, AppendProperties
<1> HIDE DEF AppendEntriesParams
<1> QED
  BY <1>2 DEF ReplType, Send

\* The oldest request leaving it, with its answer to the caller.
LEMMA AppendAnsweredType ==
    ASSUME ReplType, NEW i \in Node, NEW j \in Node, net[i][j] # <<>>,
           NEW pc \in {"acked", "nacked"}, NEW term \in 0..MaxTerm,
           AppendAnswered(i, j, pc, term), UNCHANGED <<nextIndex, matchIndex>>
    PROVE  ReplType'
<1>1. net' \in [Node -> [Node -> Seq(AppendEntriesParams)]]
  <2> HIDE DEF AppendEntriesParams
  <2> QED
    BY RequestType DEF ReplType, AppendAnswered
<1>2. repl' \in [Node -> [Node -> [Term -> Replicator]]]
  <2>1. Head(net[i][j]).call \in 0..MaxTerm
    BY RequestType DEF AppendEntriesParams
  <2>2. CASE Head(net[i][j]).call = 0
    BY <2>2 DEF AppendAnswered, ReplType
  <2>3. CASE Head(net[i][j]).call # 0
    <3>1. Head(net[i][j]).call \in Term
      BY <2>1, <2>3, BoundAssumption DEF Term
    <3> QED
      BY <2>3, <3>1, ReplicatorType DEF AppendAnswered, ReplType
  <2> QED
    BY <2>2, <2>3
<1> QED
  BY <1>1, <1>2 DEF ReplType

\* The follower's side of an accepted request.
LEMMA FollowType ==
    ASSUME RoleType, NEW i \in Node, NEW j \in Node, NEW params \in AppendEntriesParams,
           Follow(i, j, params)
    PROVE  RoleType'
<1>1. params.term \in 0..MaxTerm
  BY DEF AppendEntriesParams
<1>2. CASE UNCHANGED roleVars
  BY <1>2 DEF RoleType, roleVars
<1>3. CASE StepDown(j, params.term, Nil, i)
  BY <1>1, <1>3, StepDownType
<1> QED
  BY <1>2, <1>3 DEF Follow

\* Its commit index.
LEMMA FollowCommitType ==
    ASSUME LogType, NEW j \in Node, NEW params \in AppendEntriesParams, FollowCommit(j, params)
    PROVE  commitIndex' \in [Node -> Nat]
<1>1. params.leaderCommit \in Nat
  BY DEF AppendEntriesParams
<1>2. getLastIndex(entries[j]) \in Nat
  BY LastType DEF LogType
<1> HIDE DEF AppendEntriesParams
<1> QED
  BY <1>1, <1>2 DEF LogType, FollowCommit, LowerOf

----------------------------------------------------------------------------
\* Every action keeps the types; what it leaves alone follows from the tuples.

\* The variables a step leaves alone keep their types.
LEMMA FrameType ==
    /\ RoleType /\ UNCHANGED roleVars => RoleType'
    /\ LockType /\ UNCHANGED lockVars => LockType'
    /\ LogType /\ UNCHANGED logVars => LogType'
    /\ VoteType /\ UNCHANGED voteVars => VoteType'
    /\ ReplType /\ UNCHANGED replVars => ReplType'
    /\ RunType /\ UNCHANGED runVars => RunType'
    /\ PeerType /\ UNCHANGED peerVars => PeerType'
<1>1. RoleType /\ UNCHANGED roleVars => RoleType'
  BY DEF RoleType, roleVars
<1>2. LockType /\ UNCHANGED lockVars => LockType'
  BY DEF LockType, lockVars
<1>3. LogType /\ UNCHANGED logVars => LogType'
  BY DEF LogType, logVars
<1>4. VoteType /\ UNCHANGED voteVars => VoteType'
  BY DEF VoteType, voteVars
<1>5. ReplType /\ UNCHANGED replVars => ReplType'
  BY DEF ReplType, replVars
<1>6. RunType /\ UNCHANGED runVars => RunType'
  BY DEF RunType, runVars
<1>7. PeerType /\ UNCHANGED peerVars => PeerType'
  BY DEF PeerType, peerVars
<1> QED
  BY <1>1, <1>2, <1>3, <1>4, <1>5, <1>6, <1>7

\* ElectionTimeout keeps the types; Contest bounds the new term.
LEMMA ElectionTimeoutType ==
    ASSUME TypeOK, NEW i \in Node, ElectionTimeout(i)
    PROVE  TypeOK'
<1> USE DEF TypeOK, ElectionTimeout
<1>1. currentTerm[i] + 1 \in Term /\ Term \subseteq 0..MaxTerm
  BY BoundAssumption DEF Term, RoleType
<1>2. RoleType'
  BY <1>1 DEF RoleType
<1>3. VoteType'
  BY <1>1 DEF VoteType
<1> QED
  BY <1>2, <1>3, FrameType DEF history

\* StartElection: the ballot is made of the node's own term and log.
LEMMA StartElectionType ==
    ASSUME TypeOK, NEW i \in Node, NEW t \in Term, StartElection(i, t)
    PROVE  TypeOK'
<1> USE DEF TypeOK, StartElection
<1>1. RoleType'
  BY DEF RoleType
<1>2. [term |-> currentTerm[i], lastLogIndex |-> getLastIndex(entries[i]),
       lastLogTerm |-> getLastTerm(entries[i])] \in RaftVoteParams
  BY LastType DEF RoleType, LogType, RaftVoteParams
<1>3. [pc |-> "sent", term |-> 0] \in VoteCall
  BY BoundAssumption DEF VoteCall
<1>4. ballot' \in [Node -> [Term -> RaftVoteParams]]
  <2> HIDE DEF RaftVoteParams
  <2> QED
    BY <1>2 DEF VoteType
<1>5. voteCall' \in [Node -> [Term -> [Node -> VoteCall]]]
  <2> HIDE DEF VoteCall
  <2> QED
    BY <1>3 DEF VoteType
<1>6. VoteType'
  BY <1>4, <1>5 DEF VoteType
<1> QED
  BY <1>1, <1>6, FrameType DEF history

\* HandleVote.
LEMMA HandleVoteType ==
    ASSUME TypeOK, NEW i \in Node, NEW t \in Term, NEW j \in Node, HandleVote(i, t, j)
    PROVE  TypeOK'
<1> USE DEF TypeOK
<1> DEFINE params == ballot[i][t]
<1>1. params.term \in 0..MaxTerm /\ currentTerm[j] \in 0..MaxTerm /\ 0 \in 0..MaxTerm
  BY BoundAssumption DEF VoteType, RaftVoteParams, RoleType
<1>2. RoleType'
  BY <1>1, StepDownType, FrameType DEF HandleVote
<1>3. LockType'
  BY UnlockType DEF HandleVote
<1>4. VoteType'
  BY <1>1, VoteAnsweredType DEF HandleVote
<1> QED
  BY <1>2, <1>3, <1>4, FrameType DEF HandleVote, history

\* CountVote.
LEMMA CountVoteType ==
    ASSUME TypeOK, NEW i \in Node, NEW t \in Term, NEW j \in Node, CountVote(i, t, j)
    PROVE  TypeOK'
<1> USE DEF TypeOK
<1>1. 0 \in 0..MaxTerm
  BY BoundAssumption
<1>2. VoteType'
  BY <1>1, VoteAnsweredType DEF CountVote
<1> QED
  BY <1>2, FrameType DEF CountVote, history

\* BecomeLeader: next indices, the no-op and the replicators of the leadership.
LEMMA BecomeLeaderType ==
    ASSUME TypeOK, NEW i \in Node, NEW t \in Term, NEW j \in Node, BecomeLeader(i, t, j)
    PROVE  TypeOK'
<1> USE DEF TypeOK
<1>1. 0 \in 0..MaxTerm /\ getLastIndex(entries[i]) + 1 \in Nat /\ currentTerm[i] \in Nat
  BY LastType, BoundAssumption DEF LogType, RoleType
<1>2. RoleType'
  BY DEF RoleType, BecomeLeader
<1>3. LogType'
  <2>1. "no-op" \in Op
    BY DEF Op
  <2>2. <<"no-op">> \in Seq(Op)
    BY <2>1, SingletonSeq
  <2>3. entries[i] \in Log
    BY DEF LogType
  <2>4. appendNew(entries[i], currentTerm[i], <<"no-op">>) \in Log
    BY <1>1, <2>2, <2>3, AppendNewType
  <2> QED
    BY <2>4 DEF LogType, BecomeLeader
<1>4. VoteType'
  BY <1>1, VoteAnsweredType DEF BecomeLeader
<1>5. ReplType'
  <2>1. nextIndex' \in [Node -> [Node -> Nat]] /\ matchIndex' \in [Node -> [Node -> Nat]]
    BY <1>1 DEF ReplType, BecomeLeader, SetIndexes
  <2>2. [pc |-> "loop", term |-> 0] \in Replicator
    BY <1>1 DEF Replicator
  <2>3. repl' \in [Node -> [Node -> [Term -> Replicator]]]
    <3> HIDE DEF Replicator
    <3> QED
      BY <2>2 DEF ReplType, BecomeLeader
  <2> QED
    BY <2>1, <2>3 DEF ReplType, BecomeLeader
<1>6. leaderOf' \in [Term -> SUBSET Node]
  BY DEF BecomeLeader
<1>7. early' \subseteq Node \X Node \X (0..MaxTerm)
  <2>1. currentTerm[i] \in 0..MaxTerm
    BY DEF RoleType
  <2>2. \A k \in Node : <<i, k, currentTerm[i]>> \in Node \X Node \X (0..MaxTerm)
    BY <2>1
  <2>3. early' = early \cup {<<i, k, currentTerm[i]>> : k \in Node \ (remoteNodes[i] \cup {i})}
    BY DEF BecomeLeader
  <2> QED
    BY <2>2, <2>3
<1> QED
  BY <1>2, <1>3, <1>4, <1>5, <1>6, <1>7, FrameType DEF BecomeLeader

\* The actions of an election.
LEMMA ElectionType ==
    ASSUME TypeOK, NEW i \in Node, Election(i)
    PROVE  TypeOK'
<1>1. ASSUME NEW t \in Term, StartElectionBlocks(i, t)
      PROVE  TypeOK'
  <2>1. LockType'
    BY <1>1 DEF TypeOK, LockType, StartElectionBlocks
  <2>2. VoteType'
    BY <1>1 DEF TypeOK, VoteType, StartElectionBlocks
  <2> QED
    BY <1>1, <2>1, <2>2, FrameType DEF TypeOK, StartElectionBlocks, history
<1>2. ASSUME NEW t \in Term, NEW j \in Node, DeposedByVote(i, t, j)
      PROVE  TypeOK'
  <2>1. voteCall[i][t][j].term \in 0..MaxTerm
    BY DEF TypeOK, VoteType, VoteCall
  <2>2. RoleType'
    BY <1>2, <2>1, StepDownType DEF TypeOK, DeposedByVote
  <2> QED
    BY <1>2, <2>2, FrameType DEF TypeOK, DeposedByVote, history
<1> QED
  BY <1>1, <1>2, ElectionTimeoutType, StartElectionType, HandleVoteType, CountVoteType,
     BecomeLeaderType DEF Election

\* Heartbeat.
LEMMA HeartbeatType ==
    ASSUME TypeOK, NEW i \in Node, NEW j \in Node, Heartbeat(i, j)
    PROVE  TypeOK'
<1> USE DEF TypeOK
<1> DEFINE request == [term |-> currentTerm[i], leaderCommit |-> commitIndex[i],
                       prevLogIndex |-> 0, prevLogTerm |-> 0,
                       entry |-> HeartbeatEntry, call |-> 0]
<1>1. request \in AppendEntriesParams
  BY BoundAssumption DEF AppendEntriesParams, RoleType, LogType
<1>2. net' \in [Node -> [Node -> Seq(AppendEntriesParams)]]
  <2> HIDE DEF request
  <2>1. Send(i, j, request)
    BY DEF Heartbeat, request
  <2> QED
    BY <1>1, <2>1, SendType
<1>3. ReplType'
  BY <1>2 DEF ReplType, Heartbeat
<1> QED
  BY <1>3, FrameType DEF Heartbeat, history

\* Replicate; the entry before the one to send exists unless nextIndex is 0.
LEMMA ReplicateType ==
    ASSUME TypeOK, NEW i \in Node, NEW j \in Node, NEW t \in Term, Replicate(i, j, t)
    PROVE  TypeOK'
<1> USE DEF TypeOK
<1> DEFINE next == nextIndex[i][j]
           request == [term |-> currentTerm[i], leaderCommit |-> commitIndex[i],
                       prevLogIndex |-> PrevIndex(next),
                       prevLogTerm |-> PrevTerm(entries[i], next),
                       entry |-> getEntry(entries[i], next), call |-> t]
<1>1. next \in Nat
  BY DEF ReplType
<1>2. entries[i] \in Seq(Entry) /\ next + 1 \in 1..Len(entries[i]) /\ Len(entries[i]) \in Nat
  <2>1. entries[i] \in Seq(Entry)
    BY DEF LogType, Log
  <2> QED
    BY <2>1, LenProperties DEF Replicate, HasEntry
<1>3. getEntry(entries[i], next) \in Entry
  BY <1>1, <1>2, ElementOfSeq DEF getEntry
<1>4. PrevIndex(next) \in Nat \cup {Wrapped} /\ PrevTerm(entries[i], next) \in Nat
  <2>1. CASE next = 0
    BY <2>1 DEF PrevIndex, PrevTerm
  <2>2. CASE next # 0
    <3>1. next - 1 \in Nat /\ getEntry(entries[i], next - 1) \in Entry
      BY <1>1, <1>2, <2>2, ElementOfSeq DEF getEntry
    <3> QED
      BY <2>2, <3>1 DEF PrevIndex, PrevTerm, Entry
  <2> QED
    BY <2>1, <2>2
<1>5. request \in AppendEntriesParams
  <2> HIDE DEF Entry
  <2> QED
    BY <1>1, <1>3, <1>4, BoundAssumption DEF AppendEntriesParams, RoleType, LogType, Term
<1>6. net' \in [Node -> [Node -> Seq(AppendEntriesParams)]]
  <2>1. Send(i, j, request)
    BY DEF Replicate
  <2> HIDE DEF request
  <2> QED
    BY <1>5, <2>1, SendType
<1>7. repl' \in [Node -> [Node -> [Term -> Replicator]]]
  BY ReplicatorMovesType DEF ReplType, Replicate
<1>8. ReplType'
  BY <1>6, <1>7 DEF ReplType, Replicate
<1> QED
  BY <1>8, FrameType DEF Replicate, history

\* ReplicateTimeout: the requests of the caller lose it.
LEMMA ReplicateTimeoutType ==
    ASSUME TypeOK, NEW i \in Node, NEW j \in Node, NEW t \in Term, ReplicateTimeout(i, j, t)
    PROVE  TypeOK'
<1> USE DEF TypeOK
<1>1. net' \in [Node -> [Node -> Seq(AppendEntriesParams)]]
  <2> DEFINE old == net[i][j]
             new == [k \in DOMAIN old |-> IF old[k].call = t THEN [old[k] EXCEPT !.call = 0]
                                                             ELSE old[k]]
  <2>1. old \in Seq(AppendEntriesParams)
    BY DEF ReplType
  <2>2. \A k \in 1..Len(old) : new[k] \in AppendEntriesParams
    <3> SUFFICES ASSUME NEW k \in 1..Len(old)
                 PROVE  new[k] \in AppendEntriesParams
      OBVIOUS
    <3>1. k \in DOMAIN old /\ old[k] \in AppendEntriesParams
      BY <2>1, LenProperties, ElementOfSeq
    <3>2. [old[k] EXCEPT !.call = 0] \in AppendEntriesParams
      <4> HIDE DEF old
      <4> QED
        BY <3>1, BoundAssumption DEF AppendEntriesParams
    <3> HIDE DEF old, AppendEntriesParams
    <3> QED
      BY <3>1, <3>2
  <2>3. DOMAIN old = 1..Len(old) /\ Len(old) \in Nat
    BY <2>1, LenProperties
  <2>4. new \in Seq(AppendEntriesParams)
    <3> HIDE DEF AppendEntriesParams, old
    <3> QED
      BY <2>2, <2>3
  <2>5. net' = [net EXCEPT ![i][j] = new]
    BY DEF ReplicateTimeout, ReplType
  <2> HIDE DEF new, AppendEntriesParams
  <2> QED
    BY <2>4, <2>5 DEF ReplType
<1>2. repl' \in [Node -> [Node -> [Term -> Replicator]]]
  BY ReplicatorMovesType DEF ReplType, ReplicateTimeout
<1>3. ReplType'
  BY <1>1, <1>2 DEF ReplType, ReplicateTimeout
<1> QED
  BY <1>3, FrameType DEF ReplicateTimeout, history

\* ReplicateAcked.
LEMMA ReplicateAckedType ==
    ASSUME TypeOK, NEW i \in Node, NEW j \in Node, NEW t \in Term, ReplicateAcked(i, j, t)
    PROVE  TypeOK'
<1> USE DEF TypeOK
<1>1. repl' \in [Node -> [Node -> [Term -> Replicator]]]
  BY ReplicatorMovesType DEF ReplType, ReplicateAcked
<1>2. nextIndex[i][j] \in Nat /\ nextIndex[i][j] + 1 \in Nat
  BY DEF ReplType
<1>3. nextIndex' \in [Node -> [Node -> Nat]]
  BY <1>2 DEF ReplType, ReplicateAcked
<1>4. matchIndex' \in [Node -> [Node -> Nat]]
  BY <1>2 DEF ReplType, ReplicateAcked
<1>5. ReplType'
  BY <1>1, <1>3, <1>4 DEF ReplType, ReplicateAcked
<1>6. LogType'
  BY <1>2 DEF LogType, ReplicateAcked
<1> QED
  BY <1>5, <1>6, FrameType DEF ReplicateAcked, history

\* ReplicateOutdated.
LEMMA ReplicateOutdatedType ==
    ASSUME TypeOK, NEW i \in Node, NEW j \in Node, NEW t \in Term, ReplicateOutdated(i, j, t)
    PROVE  TypeOK'
<1> USE DEF TypeOK
<1>1. repl[i][j][t].term \in 0..MaxTerm
  BY DEF ReplType, Replicator
<1>2. repl' \in [Node -> [Node -> [Term -> Replicator]]]
  BY ReplicatorMovesType DEF ReplType, ReplicateOutdated
<1>3. ReplType'
  BY <1>2 DEF ReplType, ReplicateOutdated
<1>4. RoleType'
  BY <1>1, StepDownType, FrameType DEF ReplicateOutdated
<1> QED
  BY <1>3, <1>4, FrameType DEF ReplicateOutdated, history

\* What the handler of appendEntries does to role, commit index and session is
\* the same whether the entry fits or not.
LEMMA ReceivedType ==
    ASSUME TypeOK, NEW i \in Node, NEW j \in Node, Receives(i, j),
           Follow(i, j, Head(net[i][j])), FollowCommit(j, Head(net[i][j])),
           NEW pc \in {"acked", "nacked"}, AppendAnswered(i, j, pc, Head(net[i][j]).term),
           UNCHANGED <<nextIndex, matchIndex>>
    PROVE  RoleType' /\ commitIndex' \in [Node -> Nat] /\ ReplType'
<1>1. Head(net[i][j]) \in AppendEntriesParams
  BY RequestType DEF TypeOK, Receives
<1>2. Head(net[i][j]).term \in 0..MaxTerm
  BY <1>1 DEF AppendEntriesParams
<1>3. ReplType'
  BY <1>2, AppendAnsweredType DEF TypeOK, Receives
<1> QED
  BY <1>1, <1>3, FollowType, FollowCommitType DEF TypeOK

\* HandleAppend.
LEMMA HandleAppendType ==
    ASSUME TypeOK, NEW i \in Node, NEW j \in Node, HandleAppend(i, j)
    PROVE  TypeOK'
<1> USE DEF TypeOK
<1> DEFINE params == Head(net[i][j])
<1>1. RoleType' /\ commitIndex' \in [Node -> Nat] /\ ReplType'
  BY ReceivedType DEF HandleAppend
<1>2. params \in AppendEntriesParams
  BY RequestType DEF HandleAppend, Receives
<1>3. entries' \in [Node -> Log]
  <2>1. CASE params.entry = HeartbeatEntry
    BY <2>1 DEF HandleAppend, LogType
  <2>2. CASE params.entry # HeartbeatEntry
    <3>1. /\ params.entry \in Entry
          /\ params.prevLogTerm \in Nat
          /\ entries[j] \in Log
      BY <1>2, <2>2 DEF AppendEntriesParams, LogType
    <3>2. Matches(entries[j], params.prevLogIndex, params.prevLogTerm)
      BY <2>2 DEF HandleAppend, Fits
    <3>3. appendAfter(entries[j], params.entry, params.prevLogIndex) \in Log
      BY <3>1, <3>2, AppendAfterType
    <3> QED
      BY <2>2, <3>3 DEF HandleAppend, LogType
  <2> QED
    BY <2>1, <2>2
<1>4. LogType'
  BY <1>1, <1>3 DEF HandleAppend, LogType
<1>5. LockType'
  BY UnlockType DEF HandleAppend
<1> QED
  BY <1>1, <1>4, <1>5, FrameType DEF HandleAppend, history

\* HandleAppendMismatch.
LEMMA HandleAppendMismatchType ==
    ASSUME TypeOK, NEW i \in Node, NEW j \in Node, HandleAppendMismatch(i, j)
    PROVE  TypeOK'
<1> USE DEF TypeOK
<1>1. RoleType' /\ commitIndex' \in [Node -> Nat] /\ ReplType'
  BY ReceivedType DEF HandleAppendMismatch
<1>2. LogType'
  BY <1>1 DEF HandleAppendMismatch, LogType
<1>3. LockType'
  BY DEF HandleAppendMismatch, LockType
<1> QED
  BY <1>1, <1>2, <1>3, FrameType DEF HandleAppendMismatch, history

\* RefuseAppend.
LEMMA RefuseAppendType ==
    ASSUME TypeOK, NEW i \in Node, NEW j \in Node, RefuseAppend(i, j)
    PROVE  TypeOK'
<1> USE DEF TypeOK
<1>1. currentTerm[j] \in 0..MaxTerm
  BY DEF RoleType
<1>2. ReplType'
  BY <1>1, AppendAnsweredType DEF RefuseAppend, Receives
<1>3. LockType'
  BY UnlockType DEF RefuseAppend
<1> QED
  BY <1>2, <1>3, FrameType DEF RefuseAppend, history

\* The actions of replication.
LEMMA ReplicationType ==
    ASSUME TypeOK, NEW i \in Node, NEW j \in Node, Replication(i, j)
    PROVE  TypeOK'
<1> USE DEF TypeOK
<1>1. ASSUME Lose(i, j)
      PROVE  TypeOK'
  <2>1. net' \in [Node -> [Node -> Seq(AppendEntriesParams)]]
    <3> HIDE DEF AppendEntriesParams
    <3> QED
      BY <1>1 DEF Lose, ReplType
  <2>2. ReplType'
    BY <1>1, <2>1 DEF Lose, ReplType
  <2> QED
    BY <1>1, <2>2, FrameType DEF Lose, history
<1>2. ASSUME NEW t \in Term, ReplicatorQuits(i, j, t)
      PROVE  TypeOK'
  <2>1. repl' \in [Node -> [Node -> [Term -> Replicator]]]
    BY <1>2, ReplicatorMovesType DEF ReplType, ReplicatorQuits
  <2>2. ReplType'
    BY <1>2, <2>1 DEF ReplType, ReplicatorQuits
  <2> QED
    BY <1>2, <2>2, FrameType DEF ReplicatorQuits, history
<1>3. ASSUME NEW t \in Term, ReplicateNacked(i, j, t)
      PROVE  TypeOK'
  <2>1. repl' \in [Node -> [Node -> [Term -> Replicator]]]
    BY <1>3, ReplicatorMovesType DEF ReplType, ReplicateNacked
  <2>2. nextIndex[i][j] \in Nat /\ OneBack(nextIndex[i][j]) \in Nat
    BY DEF ReplType, OneBack
  <2>3. nextIndex' \in [Node -> [Node -> Nat]]
    <3> HIDE DEF OneBack
    <3> QED
      BY <1>3, <2>2 DEF ReplType, ReplicateNacked
  <2>4. ReplType'
    BY <1>3, <2>1, <2>3 DEF ReplType, ReplicateNacked
  <2> QED
    BY <1>3, <2>4, FrameType DEF ReplicateNacked, history
<1>4. ASSUME AddRemoteNode(i, j)
      PROVE  TypeOK'
  <2>1. PeerType'
    BY <1>4 DEF PeerType, AddRemoteNode
  <2> QED
    BY <1>4, <2>1, FrameType DEF AddRemoteNode, history
<1>5. ASSUME NEW t \in Term, ReplicatorFaults(i, j, t)
      PROVE  TypeOK'
  <2>1. PeerType'
    BY <1>5 DEF PeerType, ReplicatorFaults
  <2> QED
    BY <1>5, <2>1, FrameType DEF ReplicatorFaults, history
<1> HIDE DEF TypeOK
<1> QED
  BY <1>1, <1>2, <1>3, <1>4, <1>5, HeartbeatType, ReplicateType, ReplicateTimeoutType, ReplicateAckedType,
     ReplicateOutdatedType, RefuseAppendType, HandleAppendType, HandleAppendMismatchType
  DEF Replication

\* Apply.
LEMMA ApplyType ==
    ASSUME TypeOK, NEW i \in Node, Apply(i)
    PROVE  TypeOK'
<1> USE DEF TypeOK
<1> DEFINE lastApplied == Len(applied[i])
           read == IF HasEntry(entries[i], lastApplied + 1)
                   THEN {getEntry(entries[i], lastApplied + 1).op} ELSE Op
<1>1. applied[i] \in Seq(Op) /\ entries[i] \in Seq(Entry)
  BY DEF LogType, Log
<1>2. read \subseteq Op
  <2>1. CASE HasEntry(entries[i], lastApplied + 1)
    <3>1. lastApplied + 2 \in 1..Len(entries[i])
      BY <1>1, <2>1, LenProperties DEF HasEntry
    <3>2. getEntry(entries[i], lastApplied + 1) \in Entry
      BY <1>1, <3>1, ElementOfSeq, LenProperties DEF getEntry
    <3> QED
      BY <2>1, <3>2 DEF Entry
  <2> QED
    BY <2>1
<1>3. PICK op \in read : applied' = [applied EXCEPT ![i] = Append(@, op)]
  BY DEF Apply
<1>4. Append(applied[i], op) \in Seq(Op)
  BY <1>1, <1>2, AppendProperties
<1>5. LogType'
  <2> HIDE DEF read, Op
  <2> QED
    BY <1>3, <1>4 DEF LogType, Apply
<1> QED
  BY <1>5, FrameType DEF Apply, history

\* RegisterBegin.
LEMMA RegisterBeginType ==
    ASSUME TypeOK, NEW i \in Node, NEW msg \in Registration, RegisterBegin(i, msg)
    PROVE  TypeOK'
<1> USE DEF TypeOK
<1>1. msg \in Seq(Service)
  BY RegistrationAssumption
<1>2. RunType'
  BY <1>1 DEF RunType, RegisterBegin
<1>3. LockType'
  BY UnlockType DEF RegisterBegin
<1> QED
  BY <1>2, <1>3, FrameType DEF RegisterBegin, history

\* RegisterAppend.
LEMMA RegisterAppendType ==
    ASSUME TypeOK, NEW i \in Node, RegisterAppend(i)
    PROVE  TypeOK'
<1> USE DEF TypeOK
<1>1. regMsg[i] \in Seq(Service) /\ regMsg[i] \in Seq(Op)
  <2>1. regMsg[i] \in Seq(Service) /\ Service \subseteq Op
    BY DEF RunType, Op
  <2> HIDE DEF Op
  <2> QED
    BY <2>1, SeqMonotonic
<1>2. appendNew(entries[i], currentTerm[i], regMsg[i]) \in Log
  BY <1>1, AppendNewType DEF LogType, RoleType
<1>3. LogType'
  BY <1>2 DEF LogType, RegisterAppend
<1>4. Len(entries[i]) + Len(regMsg[i]) - 1 \in Nat
  <2>1. \A a, b \in Nat : a # 0 => a + b - 1 \in Nat
    OBVIOUS
  <2>2. Len(regMsg[i]) \in Nat
    BY <1>1, LenProperties
  <2>3. Len(entries[i]) \in Nat /\ Len(entries[i]) # 0
    BY LastType DEF LogType
  <2> QED
    BY <2>1, <2>2, <2>3
<1>5. PICK index \in Nat : regIndex' = [regIndex EXCEPT ![i] = index]
  <2>1. 0..MaxLog \subseteq Nat
    BY BoundAssumption
  <2> QED
    BY <1>4, <2>1 DEF RegisterAppend
<1>6. RunType'
  BY <1>5 DEF RunType, RegisterAppend
<1>7. strayed' \in BOOLEAN
  BY DEF RegisterAppend
<1> QED
  BY <1>3, <1>6, <1>7, FrameType DEF RegisterAppend

\* The actions of a registration.
LEMMA RegisteringType ==
    ASSUME TypeOK, NEW i \in Node, Registering(i)
    PROVE  TypeOK'
<1> USE DEF TypeOK
<1>1. ASSUME RegisterReady(i)
      PROVE  TypeOK'
  <2>1. RunType'
    BY <1>1 DEF RunType, RegisterReady
  <2> QED
    BY <1>1, <2>1, FrameType DEF RegisterReady, history
<1>2. ASSUME RegisterReply(i)
      PROVE  TypeOK'
  <2>1. RunType'
    BY <1>2 DEF RunType, RegisterReply
  <2> QED
    BY <1>2, <2>1, FrameType DEF RegisterReply, history
<1> HIDE DEF TypeOK
<1> QED
  BY <1>1, <1>2, RegisterBeginType, RegisterAppendType DEF Registering

\* Every step keeps the types.
LEMMA TypeStep ==
    ASSUME TypeOK, [Next]_vars
    PROVE  TypeOK'
<1>1. CASE UNCHANGED vars
  BY <1>1, FrameType DEF TypeOK, vars, history
<1> QED
  BY <1>1, ElectionType, ReplicationType, RegisteringType, ApplyType DEF Next

\* Every variable stays in its type, whatever the size of the cluster and of the
\* bounds: in particular terms stay below MaxTerm, no coroutine is resumed in a
\* state it cannot be in, and no handler produces a log without the dummy entry.
THEOREM TypeCorrect == Spec => []TypeOK
<1>1. Init => TypeOK
  BY TypeInit
<1>2. TypeOK /\ [Next]_vars => TypeOK'
  BY TypeStep
<1> QED
  BY <1>1, <1>2, PTL DEF Spec

----------------------------------------------------------------------------
(* The elections.                                                          *)


electionVars == <<state, currentTerm, votedFor, starting, ballot, voteCall, leaderOf>>

\* What the proofs below need of the types.
LEMMA ElectionTypes ==
    ASSUME TypeOK
    PROVE  /\ state \in [Node -> {"Follower", "Candidate", "Leader"}]
           /\ currentTerm \in [Node -> Nat]
           /\ votedFor \in [Node -> Node \cup {Nil}]
           /\ starting \in [Node -> SUBSET Term]
           /\ DOMAIN ballot = Node /\ \A i \in Node : DOMAIN ballot[i] = Term
           /\ \A i \in Node, t \in Term : ballot[i][t].term \in Nat
           /\ DOMAIN voteCall = Node
           /\ \A i \in Node : /\ DOMAIN voteCall[i] = Term
                              /\ \A t \in Term : DOMAIN voteCall[i][t] = Node
           /\ leaderOf \in [Term -> SUBSET Node]
           /\ Term \subseteq Nat
<1>1. Term \subseteq Nat
  BY BoundAssumption DEF Term
<1>2. 0..MaxTerm \subseteq Nat
  BY BoundAssumption
<1>3. \A i \in Node, t \in Term : ballot[i][t].term \in Nat
  <2>1. \A b \in RaftVoteParams : b.term \in Nat
    BY <1>2 DEF RaftVoteParams
  <2> HIDE DEF RaftVoteParams
  <2> QED
    BY <2>1 DEF TypeOK, VoteType
<1>4. currentTerm \in [Node -> Nat]
  BY <1>2 DEF TypeOK, RoleType
<1> QED
  BY <1>1, <1>3, <1>4 DEF TypeOK, RoleType, VoteType

\* Nothing is asked, granted or counted at the start.
LEMMA ElectionInvInit == Init => ElectionInv
<1> SUFFICES ASSUME Init PROVE ElectionInv
  OBVIOUS
<1>1. \A i, j \in Node, t \in Term : voteCall[i][t][j].pc = "none"
  BY DEF Init
<1>2. \A i \in Node : starting[i] = {} /\ state[i] = "Follower"
  BY DEF Init
<1>3. \A u \in Term : leaderOf[u] = {}
  BY DEF Init
<1> QED
  BY <1>1, <1>2, <1>3 DEF ElectionInv, BallotInv, GrantInv, OneGrantPerTerm, LeaderInv, Granted

----------------------------------------------------------------------------
\* A node that steps down moves to a newer term, or gives up its candidacy in
\* the term it is in.
GivesUp(i, term) ==
    /\ \/ term > currentTerm[i]
       \/ term = currentTerm[i] /\ state[i] = "Candidate"
    /\ state' = [state EXCEPT ![i] = "Follower"]
    /\ currentTerm' = [currentTerm EXCEPT ![i] = term]
    /\ votedFor' = [votedFor EXCEPT ![i] = Nil]
    /\ UNCHANGED <<starting, ballot, voteCall, leaderOf>>

\* Giving up only weakens what a node is bound to: it follows, in a term no older.
LEMMA GivesUpElectionInv ==
    ASSUME TypeOK, ElectionInv, NEW i \in Node, NEW term \in Nat, GivesUp(i, term)
    PROVE  ElectionInv'
<1> USE ElectionTypes
<1> USE DEF GivesUp, ElectionInv
<1>1. BallotInv'
  BY DEF BallotInv
<1>2. GrantInv'
  BY DEF GrantInv, Granted
<1>3. OneGrantPerTerm'
  BY DEF OneGrantPerTerm, Granted
<1>4. \A a \in Node, t \in Term : Counted(a, t)' = Counted(a, t)
  BY DEF Counted
<1>5. LeaderInv'
  BY <1>4 DEF LeaderInv
<1> QED
  BY <1>1, <1>2, <1>3, <1>5

\* A timeout enters a term in which the node has granted and asked nothing.
LEMMA TimeoutElectionInv ==
    ASSUME TypeOK, ElectionInv, NEW i \in Node, ElectionTimeout(i)
    PROVE  ElectionInv'
<1> USE ElectionTypes
<1>1. /\ state' = [state EXCEPT ![i] = "Candidate"]
      /\ currentTerm' = [currentTerm EXCEPT ![i] = @ + 1]
      /\ votedFor' = [votedFor EXCEPT ![i] = i]
      /\ starting' = [starting EXCEPT ![i] = @ \cup {currentTerm[i] + 1}]
      /\ UNCHANGED <<ballot, voteCall, leaderOf>>
  BY DEF ElectionTimeout, history
<1>2. \A a, b \in Node, t \in Term : Granted(a, t, b)' <=> Granted(a, t, b)
  BY <1>1 DEF Granted
<1>3. \A a \in Node, t \in Term : Counted(a, t)' = Counted(a, t)
  BY <1>1 DEF Counted
<1>4. BallotInv'
  BY <1>1 DEF ElectionInv, BallotInv
<1>5. GrantInv'
  <2> SUFFICES ASSUME NEW a \in Node, NEW b \in Node, NEW t \in Term, Granted(a, t, b)
               PROVE  /\ currentTerm'[b] >= ballot[a][t].term
                      /\ currentTerm'[b] = ballot[a][t].term =>
                            state'[b] = "Follower" /\ votedFor'[b] \in {a, b}
                      /\ \A u \in Term : u = ballot[a][t].term => b \notin leaderOf[u]
    BY <1>1, <1>2 DEF GrantInv
  <2>1. /\ currentTerm[b] >= ballot[a][t].term
        /\ currentTerm[b] = ballot[a][t].term =>
              state[b] = "Follower" /\ votedFor[b] \in {a, b}
        /\ \A u \in Term : u = ballot[a][t].term => b \notin leaderOf[u]
    BY DEF ElectionInv, GrantInv
  <2>2. CASE b = i
    <3>1. currentTerm'[b] = currentTerm[b] + 1
      BY <1>1, <2>2
    <3>2. currentTerm[b] \in Nat /\ ballot[a][t].term \in Nat
      OBVIOUS
    <3> QED
      BY <2>1, <3>1, <3>2
  <2>3. CASE b # i
    <3>1. /\ currentTerm'[b] = currentTerm[b] /\ state'[b] = state[b]
          /\ votedFor'[b] = votedFor[b]
      BY <1>1, <2>3
    <3> QED
      BY <2>1, <3>1
  <2> QED
    BY <2>2, <2>3
<1>6. OneGrantPerTerm'
  BY <1>1, <1>2 DEF ElectionInv, OneGrantPerTerm
<1>7. LeaderInv'
  BY <1>1, <1>3 DEF ElectionInv, LeaderInv
<1> QED
  BY <1>4, <1>5, <1>6, <1>7 DEF ElectionInv

\* The ballot of a callback is written once, before anybody was asked.
LEMMA StartElectionInv ==
    ASSUME TypeOK, ElectionInv, NEW i \in Node, NEW t \in Term, StartElection(i, t)
    PROVE  ElectionInv'
<1> USE ElectionTypes
<1>1. /\ t <= currentTerm[i]
      /\ \A j \in Node : voteCall[i][t][j].pc = "none"
  BY DEF StartElection, ElectionInv, BallotInv
<1>2. \A a \in Node, u \in Term, b \in Node :
         IF a = i /\ u = t THEN voteCall'[a][u][b].pc \in {"none", "sent"}
                           ELSE voteCall'[a][u][b] = voteCall[a][u][b]
  BY <1>1 DEF StartElection
<1>3. \A a \in Node, u \in Term :
         ballot'[a][u].term = IF a = i /\ u = t THEN currentTerm[i] ELSE ballot[a][u].term
  BY DEF StartElection
<1>4. /\ UNCHANGED <<state, currentTerm, leaderOf>>
      /\ votedFor' = [votedFor EXCEPT ![i] = i]
      /\ starting' = [starting EXCEPT ![i] = @ \ {t}]
  BY DEF StartElection, history
<1>5. \A j \in Node : voteCall'[j][t][j].pc # "none" => voteCall[j][t][j].pc # "none"
  BY <1>1, BoundAssumption DEF StartElection
<1>6. \A a, b \in Node, u \in Term : Granted(a, u, b)' <=> Granted(a, u, b) /\ ~(a = i /\ u = t)
  BY <1>1, <1>2 DEF Granted
<1> USE DEF ElectionInv
<1>7. BallotInv'
  <2>1. \A a \in Node, u \in Term :
           u \in starting'[a] => /\ u <= currentTerm'[a]
                                 /\ \A j \in Node : voteCall'[a][u][j].pc = "none"
    BY <1>2, <1>4 DEF BallotInv
  <2>2. \A a \in Node, u \in Term, j \in Node :
           voteCall'[a][u][j].pc # "none" =>
              u <= currentTerm'[a] /\ ballot'[a][u].term <= currentTerm'[a]
    BY <1>1, <1>2, <1>3, <1>4 DEF BallotInv
  <2>3. \A a \in Node, u \in Term : voteCall'[a][u][a].pc = "none"
    BY <1>2, <1>5 DEF BallotInv
  <2>4. \A a \in Node : state'[a] # "Follower" => votedFor'[a] = a
    BY <1>4 DEF BallotInv
  <2> QED
    BY <2>1, <2>2, <2>3, <2>4 DEF BallotInv
<1>8. GrantInv'
  BY <1>3, <1>4, <1>6 DEF GrantInv
<1>9. OneGrantPerTerm'
  <2> SUFFICES ASSUME NEW j \in Node, NEW a \in Node, NEW b \in Node, NEW u \in Term, NEW w \in Term,
                      Granted(a, u, j)', Granted(b, w, j)',
                      ballot'[a][u].term = ballot'[b][w].term
               PROVE  a = b
    BY DEF OneGrantPerTerm
  <2>1. Granted(a, u, j) /\ Granted(b, w, j) /\ ballot[a][u].term = ballot[b][w].term
    BY <1>3, <1>6
  <2> QED
    BY <2>1 DEF OneGrantPerTerm
<1>10. LeaderInv'
  <2>1. Counted(i, t) = {}
    BY <1>1 DEF Counted
  <2>2. \A a \in Node, u \in Term : ~(a = i /\ u = t) => Counted(a, u)' = Counted(a, u)
    BY <1>2 DEF Counted
  <2> QED
    <3> SUFFICES ASSUME NEW u \in Term, NEW a \in leaderOf'[u]
                 PROVE  /\ currentTerm'[a] >= u
                        /\ currentTerm'[a] = u => state'[a] = "Leader"
                        /\ \E w \in Term : /\ ballot'[a][w].term = u /\ Counted(a, w)' # {}
                                           /\ Cardinality(Counted(a, w)') + 1 >= Majority
      BY DEF LeaderInv
    <3>1. a \in leaderOf[u] /\ a \in Node
      BY <1>4
    <3>2. PICK w \in Term : /\ ballot[a][w].term = u /\ Counted(a, w) # {}
                            /\ Cardinality(Counted(a, w)) + 1 >= Majority
      BY <3>1 DEF LeaderInv
    <3>3. ballot'[a][w].term = u /\ Counted(a, w)' = Counted(a, w)
      BY <1>3, <2>1, <2>2, <3>1, <3>2
    <3>4. currentTerm'[a] >= u /\ (currentTerm'[a] = u => state'[a] = "Leader")
      BY <1>4, <3>1 DEF LeaderInv
    <3> QED
      BY <3>2, <3>3, <3>4
<1> QED
  BY <1>7, <1>8, <1>9, <1>10

\* A node grants the first candidate that asks in a term newer than its own, or
\* the one its vote in the current term went to already.
LEMMA HandleVoteElectionInv ==
    ASSUME TypeOK, ElectionInv, NEW i \in Node, NEW t \in Term, NEW j \in Node,
           HandleVote(i, t, j)
    PROVE  ElectionInv'
<1> USE ElectionTypes
<1> DEFINE asked == ballot[i][t].term
           grants == voteCall'[i][t][j].pc = "granted"
<1>1. i # j /\ asked <= currentTerm[i] /\ t <= currentTerm[i] /\ asked \in Nat
  BY DEF HandleVote, ElectionInv, BallotInv
<1>2. /\ voteCall[i][t][j].pc = "sent"
      /\ voteCall'[i][t][j].pc \in {"granted", "refused"}
      /\ \A a \in Node, u \in Term, b \in Node :
            ~(a = i /\ u = t /\ b = j) => voteCall'[a][u][b] = voteCall[a][u][b]
  BY DEF HandleVote, VoteAnswered
<1>3. UNCHANGED <<starting, ballot, leaderOf>>
  BY DEF HandleVote, history
\* The role changes only towards a newer term.
<1>4. \/ UNCHANGED <<state, currentTerm, votedFor>>
      \/ /\ asked > currentTerm[j]
         /\ state' = [state EXCEPT ![j] = "Follower"]
         /\ currentTerm' = [currentTerm EXCEPT ![j] = asked]
         /\ \E voted \in {Nil, i} : votedFor' = [votedFor EXCEPT ![j] = voted]
  BY DEF HandleVote, StepDown, Demote, roleVars
<1>5. grants => \/ /\ asked > currentTerm[j]
                   /\ currentTerm'[j] = asked /\ state'[j] = "Follower" /\ votedFor'[j] = i
                \/ /\ asked = currentTerm[j] /\ votedFor[j] = i
                   /\ UNCHANGED <<state, currentTerm, votedFor>>
  <2>1. CASE Refuses(j, i, ballot[i][t])
    BY <2>1 DEF HandleVote, VoteAnswered
  <2>2. CASE ~Refuses(j, i, ballot[i][t])
    <3>1. grants => IF asked > currentTerm[j] THEN StepDown(j, asked, i, i) ELSE UNCHANGED roleVars
      BY <2>2 DEF HandleVote, VoteAnswered
    <3>2. StepDown(j, asked, i, i) =>
             currentTerm'[j] = asked /\ state'[j] = "Follower" /\ votedFor'[j] = i
      BY DEF StepDown, Demote
    <3>3. ~(asked > currentTerm[j]) => asked = currentTerm[j] /\ votedFor[j] = i
      <4>1. asked \in Nat /\ currentTerm[j] \in Nat
        BY <1>1
      <4>2. ~(asked < currentTerm[j]) /\ ~(asked = currentTerm[j] /\ votedFor[j] # i)
        BY <2>2 DEF Refuses
      <4>3. \A a, b \in Nat : a > b \/ a = b \/ a < b
        OBVIOUS
      <4>4. asked > currentTerm[j] \/ asked = currentTerm[j]
        BY <4>1, <4>2, <4>3
      <4> QED
        BY <4>2, <4>4
    <3> HIDE DEF asked, grants
    <3> QED
      BY <3>1, <3>2, <3>3 DEF roleVars
  <2> QED
    BY <2>1, <2>2
<1>6. \A a \in Node : currentTerm'[a] \in Nat /\ currentTerm'[a] >= currentTerm[a]
  BY <1>1, <1>4
<1>7. \A a, b \in Node, u \in Term :
         Granted(a, u, b)' <=> Granted(a, u, b) \/ (a = i /\ u = t /\ b = j /\ grants)
  BY <1>2 DEF Granted
<1>8. grants => \A u \in Term : u = asked => j \notin leaderOf[u]
  <2> SUFFICES ASSUME grants, asked \in Term, j \in leaderOf[asked]
               PROVE  FALSE
    OBVIOUS
  <2>1. currentTerm[j] >= asked /\ (currentTerm[j] = asked => state[j] = "Leader")
    BY DEF ElectionInv, LeaderInv
  <2>2. currentTerm[j] = asked /\ votedFor[j] = i
    BY <1>1, <1>5, <2>1
  <2> QED
    BY <1>1, <2>1, <2>2 DEF ElectionInv, BallotInv
<1> HIDE DEF grants
<1>9. BallotInv'
  <2>1. \A a \in Node, u \in Term :
           u \in starting'[a] => /\ u <= currentTerm'[a]
                                 /\ \A b \in Node : voteCall'[a][u][b].pc = "none"
    BY <1>2, <1>3, <1>6 DEF ElectionInv, BallotInv
  <2>2. \A a \in Node, u \in Term, b \in Node :
           voteCall'[a][u][b].pc # "none" =>
              u <= currentTerm'[a] /\ ballot'[a][u].term <= currentTerm'[a]
    BY <1>2, <1>3, <1>6 DEF ElectionInv, BallotInv
  <2>3. \A a \in Node, u \in Term : voteCall'[a][u][a].pc = "none"
    BY <1>1, <1>2 DEF ElectionInv, BallotInv
  <2>4. \A a \in Node : state'[a] # "Follower" => votedFor'[a] = a
    <3>1. \A a \in Node : state[a] # "Follower" => votedFor[a] = a
      BY DEF ElectionInv, BallotInv
    <3>2. \A a \in Node : state'[a] # "Follower" =>
                             state[a] # "Follower" /\ votedFor'[a] = votedFor[a]
      BY <1>4
    <3> QED
      BY <3>1, <3>2
  <2> QED
    BY <2>1, <2>2, <2>3, <2>4 DEF BallotInv
<1>10. GrantInv'
  <2> SUFFICES ASSUME NEW a \in Node, NEW b \in Node, NEW u \in Term, Granted(a, u, b)'
               PROVE  /\ currentTerm'[b] >= ballot'[a][u].term
                      /\ currentTerm'[b] = ballot'[a][u].term =>
                            state'[b] = "Follower" /\ votedFor'[b] \in {a, b}
                      /\ \A w \in Term : w = ballot'[a][u].term => b \notin leaderOf'[w]
    BY DEF GrantInv
  <2>1. CASE Granted(a, u, b)
    <3>1. /\ currentTerm[b] >= ballot[a][u].term
          /\ currentTerm[b] = ballot[a][u].term =>
                state[b] = "Follower" /\ votedFor[b] \in {a, b}
          /\ \A w \in Term : w = ballot[a][u].term => b \notin leaderOf[w]
      BY <2>1 DEF ElectionInv, GrantInv
    <3> QED
      BY <1>3, <1>4, <3>1
  <2>2. CASE a = i /\ u = t /\ b = j /\ grants
    <3>1. currentTerm'[j] = asked /\ state'[j] = "Follower" /\ votedFor'[j] = i
      BY <1>1, <1>5, <2>2 DEF ElectionInv, BallotInv
    <3> QED
      BY <1>3, <1>8, <2>2, <3>1
  <2> QED
    BY <1>7, <2>1, <2>2
<1>11. OneGrantPerTerm'
  <2>1. ASSUME NEW b \in Node, NEW w \in Term, Granted(b, w, j), grants, ballot[b][w].term = asked
        PROVE  b = i
    <3>1. /\ currentTerm[j] >= asked
          /\ currentTerm[j] = asked => votedFor[j] \in {b, j}
      BY <2>1 DEF ElectionInv, GrantInv
    <3> QED
      BY <1>1, <1>5, <2>1, <3>1
  <2> SUFFICES ASSUME NEW c \in Node, NEW a \in Node, NEW b \in Node, NEW u \in Term, NEW w \in Term,
                      Granted(a, u, c)', Granted(b, w, c)',
                      ballot'[a][u].term = ballot'[b][w].term
               PROVE  a = b
    BY DEF OneGrantPerTerm
  <2>2. ballot[a][u].term = ballot[b][w].term
    BY <1>3
  <2>3. CASE Granted(a, u, c) /\ Granted(b, w, c)
    BY <2>2, <2>3 DEF ElectionInv, OneGrantPerTerm
  <2>4. CASE ~(Granted(a, u, c) /\ Granted(b, w, c))
    BY <1>7, <2>1, <2>2, <2>4
  <2> QED
    BY <2>3, <2>4
<1>12. LeaderInv'
  <2>1. \A a \in Node, u \in Term : Counted(a, u)' = Counted(a, u)
    BY <1>2 DEF Counted
  <2>2. \A u \in Term : \A a \in leaderOf'[u] :
           currentTerm'[a] >= u /\ (currentTerm'[a] = u => state'[a] = "Leader")
    BY <1>3, <1>4 DEF ElectionInv, LeaderInv
  <2> QED
    BY <1>3, <2>1, <2>2 DEF ElectionInv, LeaderInv
<1> QED
  BY <1>9, <1>10, <1>11, <1>12 DEF ElectionInv

----------------------------------------------------------------------------
\* Counting a grant.

\* Counting a grant adds one voter to one ballot and leaves who granted whom.
LEMMA CountedGrows ==
    ASSUME TypeOK, NEW i \in Node, NEW t \in Term, NEW j \in Node,
           voteCall[i][t][j].pc = "granted", VoteAnswered(i, t, j, "counted", 0)
    PROVE  /\ Counted(i, t)' = Counted(i, t) \cup {j}
           /\ Cardinality(Counted(i, t)') = Cardinality(Counted(i, t)) + 1
           /\ Cardinality(Counted(i, t)) \in Nat
           /\ \A a \in Node, u \in Term : ~(a = i /\ u = t) => Counted(a, u)' = Counted(a, u)
           /\ \A a, b \in Node, u \in Term : /\ Granted(a, u, b)' <=> Granted(a, u, b)
                                             /\ voteCall'[a][u][b].pc = "none"
                                                   <=> voteCall[a][u][b].pc = "none"
<1> USE ElectionTypes DEF VoteAnswered
<1>1. \A a \in Node, u \in Term, b \in Node :
         voteCall'[a][u][b].pc = IF a = i /\ u = t /\ b = j THEN "counted"
                                                            ELSE voteCall[a][u][b].pc
  OBVIOUS
<1>2. Counted(i, t)' = Counted(i, t) \cup {j} /\ j \notin Counted(i, t)
  BY <1>1 DEF Counted
<1>3. IsFiniteSet(Counted(i, t))
  BY NodeAssumption, FS_Subset DEF Counted
<1>4. Cardinality(Counted(i, t)') = Cardinality(Counted(i, t)) + 1
  BY <1>2, <1>3, FS_AddElement
<1>5. Cardinality(Counted(i, t)) \in Nat
  BY <1>3, FS_CardinalityType
<1>6. \A a \in Node, u \in Term : ~(a = i /\ u = t) => Counted(a, u)' = Counted(a, u)
  BY <1>1 DEF Counted
<1>7. \A a, b \in Node, u \in Term : /\ Granted(a, u, b)' <=> Granted(a, u, b)
                                     /\ voteCall'[a][u][b].pc = "none"
                                           <=> voteCall[a][u][b].pc = "none"
  BY <1>1 DEF Granted
<1> QED
  BY <1>2, <1>4, <1>5, <1>6, <1>7

\* A grant that does not win yet.
LEMMA CountVoteElectionInv ==
    ASSUME TypeOK, ElectionInv, NEW i \in Node, NEW t \in Term, NEW j \in Node,
           CountVote(i, t, j)
    PROVE  ElectionInv'
<1> USE ElectionTypes
<1>1. /\ voteCall[i][t][j].pc = "granted" /\ VoteAnswered(i, t, j, "counted", 0)
      /\ ballot[i][t].term = currentTerm[i] /\ state[i] = "Candidate"
      /\ UNCHANGED <<state, currentTerm, votedFor, starting, ballot, leaderOf>>
  BY DEF CountVote, GrantCounts, roleVars, history
<1>2. /\ \A a \in Node, u \in Term : ~(a = i /\ u = t) => Counted(a, u)' = Counted(a, u)
      /\ \A a, b \in Node, u \in Term : /\ Granted(a, u, b)' <=> Granted(a, u, b)
                                        /\ voteCall'[a][u][b].pc = "none"
                                              <=> voteCall[a][u][b].pc = "none"
  BY <1>1, CountedGrows
<1>3. BallotInv'
  <2>1. \A a \in Node, u \in Term :
           /\ u \in starting[a] => /\ u <= currentTerm[a]
                                   /\ \A b \in Node : voteCall'[a][u][b].pc = "none"
           /\ voteCall'[a][u][a].pc = "none"
    BY <1>2 DEF ElectionInv, BallotInv
  <2>2. \A a \in Node, u \in Term, b \in Node :
           voteCall'[a][u][b].pc # "none" =>
              u <= currentTerm[a] /\ ballot[a][u].term <= currentTerm[a]
    BY <1>2 DEF ElectionInv, BallotInv
  <2>3. \A a \in Node : state'[a] # "Follower" => votedFor[a] = a
    BY <1>1 DEF ElectionInv, BallotInv
  <2> QED
    BY <1>1, <2>1, <2>2, <2>3 DEF BallotInv
<1>4. GrantInv'
  <2> SUFFICES ASSUME NEW a \in Node, NEW b \in Node, NEW u \in Term, Granted(a, u, b)
               PROVE  /\ currentTerm[b] >= ballot[a][u].term
                      /\ currentTerm[b] = ballot[a][u].term =>
                            state[b] = "Follower" /\ votedFor[b] \in {a, b}
                      /\ \A w \in Term : w = ballot[a][u].term => b \notin leaderOf[w]
    <3>1. \A a, b \in Node, u \in Term : Granted(a, u, b)' => Granted(a, u, b)
      BY <1>2
    <3> QED
      BY <1>1, <3>1 DEF GrantInv
  <2> QED
    BY DEF ElectionInv, GrantInv
<1>5. OneGrantPerTerm'
  BY <1>1, <1>2 DEF ElectionInv, OneGrantPerTerm
<1>6. LeaderInv'
  <2> SUFFICES ASSUME NEW u \in Term, NEW a \in leaderOf[u]
               PROVE  /\ currentTerm[a] >= u
                      /\ currentTerm[a] = u => state[a] = "Leader"
                      /\ \E w \in Term : /\ ballot[a][w].term = u /\ Counted(a, w)' # {}
                                         /\ Cardinality(Counted(a, w)') + 1 >= Majority
    BY <1>1 DEF LeaderInv
  <2>1. /\ a \in Node
        /\ currentTerm[a] >= u
        /\ currentTerm[a] = u => state[a] = "Leader"
    BY DEF ElectionInv, LeaderInv
  <2>2. PICK w \in Term : /\ ballot[a][w].term = u /\ Counted(a, w) # {}
                          /\ Cardinality(Counted(a, w)) + 1 >= Majority
    BY DEF ElectionInv, LeaderInv
  <2>3. Counted(a, w)' = Counted(a, w)
    BY <1>1, <1>2, <2>1, <2>2
  <2> QED
    BY <2>1, <2>2, <2>3
<1> QED
  BY <1>3, <1>4, <1>5, <1>6 DEF ElectionInv

\* The grant that wins: the new leader has its quorum, and none of its voters led.
LEMMA BecomeLeaderElectionInv ==
    ASSUME TypeOK, ElectionInv, NEW i \in Node, NEW t \in Term, NEW j \in Node,
           BecomeLeader(i, t, j)
    PROVE  ElectionInv'
<1> USE ElectionTypes
<1>1. /\ voteCall[i][t][j].pc = "granted" /\ VoteAnswered(i, t, j, "counted", 0)
      /\ ballot[i][t].term = currentTerm[i] /\ state[i] = "Candidate"
      /\ Cardinality(Counted(i, t)) + 2 >= Majority
      /\ state' = [state EXCEPT ![i] = "Leader"]
      /\ leaderOf' = [leaderOf EXCEPT ![currentTerm[i]] = @ \cup {i}]
      /\ UNCHANGED <<currentTerm, votedFor, starting, ballot>>
  BY DEF BecomeLeader, GrantCounts, Elects
<1>2. /\ Counted(i, t)' = Counted(i, t) \cup {j}
      /\ Cardinality(Counted(i, t)') = Cardinality(Counted(i, t)) + 1
      /\ Cardinality(Counted(i, t)) \in Nat
      /\ \A a \in Node, u \in Term : ~(a = i /\ u = t) => Counted(a, u)' = Counted(a, u)
      /\ \A a, b \in Node, u \in Term : /\ Granted(a, u, b)' <=> Granted(a, u, b)
                                        /\ voteCall'[a][u][b].pc = "none"
                                              <=> voteCall[a][u][b].pc = "none"
  BY <1>1, CountedGrows
<1>3. BallotInv'
  <2>1. \A a \in Node, u \in Term :
           /\ u \in starting[a] => /\ u <= currentTerm[a]
                                   /\ \A b \in Node : voteCall'[a][u][b].pc = "none"
           /\ voteCall'[a][u][a].pc = "none"
    BY <1>2 DEF ElectionInv, BallotInv
  <2>2. \A a \in Node, u \in Term, b \in Node :
           voteCall'[a][u][b].pc # "none" =>
              u <= currentTerm[a] /\ ballot[a][u].term <= currentTerm[a]
    BY <1>2 DEF ElectionInv, BallotInv
  <2>3. \A a \in Node : state'[a] # "Follower" => votedFor[a] = a
    BY <1>1 DEF ElectionInv, BallotInv
  <2> QED
    BY <1>1, <2>1, <2>2, <2>3 DEF BallotInv
<1>4. GrantInv'
  <2> SUFFICES ASSUME NEW a \in Node, NEW b \in Node, NEW u \in Term, Granted(a, u, b)
               PROVE  /\ currentTerm[b] >= ballot[a][u].term
                      /\ currentTerm[b] = ballot[a][u].term =>
                            state'[b] = "Follower" /\ votedFor[b] \in {a, b}
                      /\ \A w \in Term : w = ballot[a][u].term => b \notin leaderOf'[w]
    BY <1>1, <1>2 DEF GrantInv
  <2>1. /\ currentTerm[b] >= ballot[a][u].term
        /\ currentTerm[b] = ballot[a][u].term =>
              state[b] = "Follower" /\ votedFor[b] \in {a, b}
        /\ \A w \in Term : w = ballot[a][u].term => b \notin leaderOf[w]
    BY DEF ElectionInv, GrantInv
  <2> QED
    BY <1>1, <2>1
<1>5. OneGrantPerTerm'
  BY <1>1, <1>2 DEF ElectionInv, OneGrantPerTerm
<1>6. LeaderInv'
  <2> SUFFICES ASSUME NEW u \in Term, NEW a \in leaderOf'[u]
               PROVE  /\ currentTerm[a] >= u
                      /\ currentTerm[a] = u => state'[a] = "Leader"
                      /\ \E w \in Term : /\ ballot[a][w].term = u /\ Counted(a, w)' # {}
                                         /\ Cardinality(Counted(a, w)') + 1 >= Majority
    BY <1>1 DEF LeaderInv
  <2>1. Majority \in Nat
    BY NodeAssumption, FS_CardinalityType DEF Majority
  <2>2. CASE a = i /\ u = currentTerm[i]
    <3>1. \A n, m \in Nat : n + 2 >= m => (n + 1) + 1 >= m
      OBVIOUS
    <3>2. Cardinality(Counted(i, t)') + 1 >= Majority
      BY <1>1, <1>2, <2>1, <3>1
    <3>3. Counted(i, t)' # {} /\ state'[i] = "Leader" /\ currentTerm[i] \in Nat
      BY <1>1, <1>2
    <3> QED
      BY <1>1, <2>2, <3>2, <3>3
  <2>3. CASE a \in leaderOf[u]
    <3>1. /\ a \in Node
          /\ currentTerm[a] >= u
          /\ currentTerm[a] = u => state[a] = "Leader"
      BY <2>3 DEF ElectionInv, LeaderInv
    <3>2. PICK w \in Term : /\ ballot[a][w].term = u /\ Counted(a, w) # {}
                            /\ Cardinality(Counted(a, w)) + 1 >= Majority
      BY <2>3 DEF ElectionInv, LeaderInv
    <3>3. Counted(a, w)' = Counted(a, w)
      BY <1>1, <1>2, <3>1, <3>2
    <3> QED
      BY <1>1, <3>1, <3>2, <3>3
  <2> QED
    BY <1>1, <2>2, <2>3
<1> QED
  BY <1>3, <1>4, <1>5, <1>6 DEF ElectionInv

----------------------------------------------------------------------------
\* Every step is one of the above for the variables of an election, or leaves
\* them alone.

\* A step down that clears the vote gives up, in a newer term or as a candidate.
LEMMA StepDownGivesUp ==
    ASSUME NEW i \in Node, NEW term, NEW leader, StepDown(i, term, Nil, leader),
           term > currentTerm[i] \/ (term = currentTerm[i] /\ state[i] = "Candidate"),
           UNCHANGED <<voteVars, history>>
    PROVE  GivesUp(i, term)
BY DEF StepDown, Demote, GivesUp, voteVars, history

\* appendEntries deposes, or leaves the election alone.
LEMMA AppendGivesUp ==
    ASSUME TypeOK, NEW i \in Node, NEW j \in Node,
           HandleAppend(i, j) \/ HandleAppendMismatch(i, j)
    PROVE  \/ \E term \in Nat : GivesUp(j, term)
           \/ UNCHANGED electionVars
<1> DEFINE params == Head(net[i][j])
<1>1. params \in AppendEntriesParams
  BY RequestType DEF TypeOK, HandleAppend, HandleAppendMismatch, Receives
<1>2. params.term \in Nat
  <2>1. 0..MaxTerm \subseteq Nat
    BY BoundAssumption
  <2> QED
    BY <1>1, <2>1 DEF AppendEntriesParams
<1>3. Follow(i, j, params) /\ UNCHANGED <<voteVars, history>>
  BY DEF HandleAppend, HandleAppendMismatch
<1> HIDE DEF params
<1>4. CASE UNCHANGED roleVars
  BY <1>3, <1>4 DEF electionVars, roleVars, voteVars, history
<1>5. CASE /\ \/ params.term > currentTerm[j]
              \/ params.term = currentTerm[j] /\ state[j] = "Candidate"
           /\ StepDown(j, params.term, Nil, i)
  BY <1>2, <1>3, <1>5, StepDownGivesUp
<1> QED
  BY <1>3, <1>4, <1>5 DEF Follow

\* An answer of another term deposes the leader, or leaves the election alone.
LEMMA OutdatedGivesUp ==
    ASSUME TypeOK, NEW i \in Node, NEW j \in Node, NEW t \in Term, ReplicateOutdated(i, j, t)
    PROVE  \/ \E term \in Nat : GivesUp(i, term)
           \/ UNCHANGED electionVars
<1>1. UNCHANGED <<voteVars, history>>
  BY DEF ReplicateOutdated
<1>2. repl[i][j][t].term \in Nat
  <2>1. 0..MaxTerm \subseteq Nat
    BY BoundAssumption
  <2> QED
    BY <2>1 DEF TypeOK, ReplType, Replicator
<1>3. CASE UNCHANGED roleVars
  BY <1>1, <1>3 DEF electionVars, roleVars, voteVars, history
<1>4. CASE repl[i][j][t].term > currentTerm[i] /\ StepDown(i, repl[i][j][t].term, Nil, Nil)
  BY <1>1, <1>2, <1>4, StepDownGivesUp
<1> QED
  BY <1>3, <1>4 DEF ReplicateOutdated

\* A refused vote of a newer term deposes.
LEMMA DeposedGivesUp ==
    ASSUME TypeOK, NEW i \in Node, NEW j \in Node, NEW t \in Term, DeposedByVote(i, t, j)
    PROVE  \E term \in Nat : GivesUp(i, term)
<1>1. voteCall[i][t][j].term \in Nat
  <2>1. 0..MaxTerm \subseteq Nat
    BY BoundAssumption
  <2> QED
    BY <2>1 DEF TypeOK, VoteType, VoteCall
<1> QED
  BY <1>1, StepDownGivesUp DEF DeposedByVote

\* The kinds of step that touch the election.
LEMMA ElectionSteps ==
    ASSUME TypeOK, [Next]_vars
    PROVE  \/ \E i \in Node : ElectionTimeout(i)
           \/ \E i \in Node, t \in Term : StartElection(i, t) \/ StartElectionBlocks(i, t)
           \/ \E i, j \in Node, t \in Term :
                 HandleVote(i, t, j) \/ CountVote(i, t, j) \/ BecomeLeader(i, t, j)
           \/ \E i \in Node, term \in Nat : GivesUp(i, term)
           \/ UNCHANGED electionVars
<1>1. ASSUME NEW i \in Node, NEW j \in Node, Replication(i, j)
      PROVE  \/ \E k \in Node, term \in Nat : GivesUp(k, term)
             \/ UNCHANGED electionVars
  <2> USE DEF electionVars, roleVars, voteVars, history
  <2>1. ASSUME Heartbeat(i, j) \/ RefuseAppend(i, j) \/ Lose(i, j) \/ AddRemoteNode(i, j)
        PROVE  UNCHANGED electionVars
    BY <2>1 DEF Heartbeat, RefuseAppend, Lose, AddRemoteNode
  <2>2. ASSUME NEW t \in Term,
               \/ Replicate(i, j, t) \/ ReplicatorQuits(i, j, t) \/ ReplicateTimeout(i, j, t)
               \/ ReplicateAcked(i, j, t) \/ ReplicateNacked(i, j, t)
               \/ ReplicatorFaults(i, j, t)
        PROVE  UNCHANGED electionVars
    BY <2>2 DEF Replicate, ReplicatorQuits, ReplicateTimeout, ReplicateAcked, ReplicateNacked,
                ReplicatorFaults
  <2> HIDE DEF electionVars, roleVars, voteVars, history
  <2> QED
    BY <1>1, <2>1, <2>2, AppendGivesUp, OutdatedGivesUp DEF Replication
<1>2. ASSUME NEW i \in Node, Apply(i) \/ Registering(i)
      PROVE  UNCHANGED electionVars
  BY <1>2 DEF Apply, Registering, RegisterBegin, RegisterReady, RegisterAppend, RegisterReply,
              electionVars, roleVars, voteVars, history
<1>3. CASE UNCHANGED vars
  BY <1>3 DEF vars, electionVars, roleVars, voteVars, history
<1> QED
  BY <1>1, <1>2, <1>3, DeposedGivesUp DEF Next, Election

\* A callback stuck in startElection never gets to ask.
LEMMA BlocksElectionInv ==
    ASSUME TypeOK, ElectionInv, NEW i \in Node, NEW t \in Term, StartElectionBlocks(i, t)
    PROVE  ElectionInv'
<1> USE ElectionTypes
<1>1. /\ UNCHANGED <<state, currentTerm, votedFor, ballot, voteCall, leaderOf>>
      /\ starting' = [starting EXCEPT ![i] = @ \ {t}]
  BY DEF StartElectionBlocks, roleVars, history
<1>2. BallotInv'
  BY <1>1 DEF ElectionInv, BallotInv
<1>3. GrantInv' /\ OneGrantPerTerm'
  BY <1>1 DEF ElectionInv, GrantInv, OneGrantPerTerm, Granted
<1>4. \A a \in Node, u \in Term : Counted(a, u)' = Counted(a, u)
  BY <1>1 DEF Counted
<1>5. LeaderInv'
  BY <1>1, <1>4 DEF ElectionInv, LeaderInv
<1> QED
  BY <1>2, <1>3, <1>5 DEF ElectionInv

\* The invariant is inductive.
LEMMA ElectionInvStep ==
    ASSUME TypeOK, ElectionInv, [Next]_vars
    PROVE  ElectionInv'
<1>1. CASE UNCHANGED electionVars
  BY <1>1 DEF electionVars, ElectionInv, BallotInv, GrantInv, OneGrantPerTerm, LeaderInv,
              Granted, Counted
<1> QED
  BY <1>1, ElectionSteps, TimeoutElectionInv, StartElectionInv, BlocksElectionInv,
     HandleVoteElectionInv, CountVoteElectionInv, BecomeLeaderElectionInv, GivesUpElectionInv

----------------------------------------------------------------------------
\* Two winners of a term need more voters than there are nodes.
LEMMA TwoWinners ==
    ASSUME TypeOK, ElectionInv, Cardinality(Node) % 2 = 1
    PROVE  ElectionSafety
<1> USE ElectionTypes
<1> SUFFICES ASSUME NEW u \in Term, NEW i \in leaderOf[u], NEW j \in leaderOf[u], i # j
             PROVE  FALSE
  BY DEF ElectionSafety
<1>1. i \in Node /\ j \in Node
  OBVIOUS
<1>2. PICK s \in Term : /\ ballot[i][s].term = u
                        /\ Cardinality(Counted(i, s)) + 1 >= Majority
  BY DEF ElectionInv, LeaderInv
<1>3. PICK t \in Term : /\ ballot[j][t].term = u
                        /\ Cardinality(Counted(j, t)) + 1 >= Majority
  BY DEF ElectionInv, LeaderInv
<1> DEFINE A == Counted(i, s)
           B == Counted(j, t)
<1>4. A \cap B = {}
  BY <1>1, <1>2, <1>3 DEF ElectionInv, OneGrantPerTerm, Counted, Granted
<1>5. A \cap {i, j} = {} /\ B \cap {i, j} = {}
  BY <1>1, <1>2, <1>3 DEF ElectionInv, GrantInv, Counted, Granted
<1>6. A \subseteq Node /\ B \subseteq Node
  BY DEF Counted
<1> HIDE DEF A, B
<1>7. /\ IsFiniteSet(A) /\ Cardinality(A) \in Nat
      /\ IsFiniteSet(B) /\ Cardinality(B) \in Nat
      /\ Cardinality(Node) \in Nat
  BY <1>6, NodeAssumption, FS_Subset, FS_CardinalityType
<1>8. IsFiniteSet(A \cup B) /\ Cardinality(A \cup B) = Cardinality(A) + Cardinality(B)
  <2>1. Cardinality(A \cap B) = 0
    BY <1>4, FS_EmptySet
  <2> QED
    <3>1. \A a, b \in Nat : a + b - 0 = a + b
      OBVIOUS
    <3>2. /\ IsFiniteSet(A \cup B)
          /\ Cardinality(A \cup B) = Cardinality(A) + Cardinality(B) - Cardinality(A \cap B)
      BY <1>7, FS_Union
    <3> QED
      BY <1>7, <2>1, <3>1, <3>2
<1>9. /\ IsFiniteSet((A \cup B) \cup {i})
      /\ Cardinality((A \cup B) \cup {i}) = Cardinality(A) + Cardinality(B) + 1
  BY <1>5, <1>7, <1>8, FS_AddElement
<1>10. Cardinality(((A \cup B) \cup {i}) \cup {j}) = Cardinality(A) + Cardinality(B) + 2
  <2>1. j \notin (A \cup B) \cup {i}
    BY <1>5
  <2> QED
    <3>1. Cardinality(((A \cup B) \cup {i}) \cup {j}) = Cardinality((A \cup B) \cup {i}) + 1
      BY <1>9, <2>1, FS_AddElement
    <3>2. \A a, b \in Nat : (a + b + 1) + 1 = a + b + 2
      OBVIOUS
    <3> QED
      BY <1>7, <1>9, <3>1, <3>2
<1>11. Cardinality(A) + Cardinality(B) + 2 <= Cardinality(Node)
  <2>1. ((A \cup B) \cup {i}) \cup {j} \subseteq Node
    BY <1>1, <1>6
  <2> QED
    BY <1>10, <2>1, NodeAssumption, FS_Subset
<1>12. Cardinality(A) + 1 >= (Cardinality(Node) + 1) \div 2
       /\ Cardinality(B) + 1 >= (Cardinality(Node) + 1) \div 2
  BY <1>2, <1>3 DEF A, B, Majority
<1>13. ASSUME NEW n \in Nat, NEW a \in Nat, NEW b \in Nat, n % 2 = 1,
              a + b + 2 <= n, a + 1 >= (n + 1) \div 2, b + 1 >= (n + 1) \div 2
       PROVE  FALSE
  <2> DEFINE h == n \div 2
  <2>1. h \in Nat /\ n = 2 * h + 1 /\ (n + 1) \div 2 = h + 1
    BY <1>13
  <2> HIDE DEF h
  <2> QED
    BY <1>13, <2>1
<1> QED
  BY <1>7, <1>11, <1>12, <1>13

\* Nobody votes twice in a term, two candidates of one term never share a voter,
\* and a leader has counted its quorum (raftVote against startElection).
THEOREM ElectionInvCorrect == Spec => []ElectionInv
<1>1. Init => TypeOK /\ ElectionInv
  BY TypeInit, ElectionInvInit
<1>2. TypeOK /\ ElectionInv /\ [Next]_vars
         => (TypeOK /\ ElectionInv)'
  BY TypeStep, ElectionInvStep
<1> QED
  BY <1>1, <1>2, PTL DEF Spec

\* raftVote grants one candidate per term (line 365).
THEOREM OneGrantCorrect == Spec => []OneGrantPerTerm
<1>1. ElectionInv => OneGrantPerTerm
  BY DEF ElectionInv
<1> QED
  BY <1>1, ElectionInvCorrect, PTL

\* No two nodes become leader of one term.  The threshold (N + 1) / 2 of line 180
\* is a majority only of an odd number of nodes.
THEOREM ElectionSafetyCorrect ==
    ASSUME Cardinality(Node) % 2 = 1
    PROVE  Spec => []ElectionSafety
<1>1. TypeOK /\ ElectionInv => ElectionSafety
  BY TwoWinners
<1> QED
  BY <1>1, TypeCorrect, ElectionInvCorrect, PTL

----------------------------------------------------------------------------
\* The refinement.

\* Moving on to a newer term, as a follower or a candidate, is Advance.
LEMMA AdvanceStep ==
    ASSUME TypeOK, TypeOK', NEW i \in Node, NEW term \in Nat, NEW role \in {"Follower", "Candidate"},
           term > currentTerm[i], currentTerm' = [currentTerm EXCEPT ![i] = term],
           state' = [state EXCEPT ![i] = role], UNCHANGED leaderOf
    PROVE  Abstract!Advance(i)
<1> USE ElectionTypes
<1>1. term \in Abstract!Term
  <2>1. term \in 0..MaxTerm
    BY DEF TypeOK, RoleType
  <2>2. currentTerm[i] \in Nat
    OBVIOUS
  <2> QED
    BY <2>1, <2>2, BoundAssumption DEF Abstract!Term
<1>2. [k \in Node |-> state'[k] = "Leader"] = [[k \in Node |-> state[k] = "Leader"] EXCEPT ![i] = FALSE]
  OBVIOUS
<1> QED
  BY <1>1, <1>2 DEF Abstract!Advance

\* Winning is Elect: nobody led the term before.
LEMMA ElectStep ==
    ASSUME TypeOK, ElectionInv, ElectionSafety', NEW i \in Node, NEW t \in Term, NEW j \in Node,
           BecomeLeader(i, t, j)
    PROVE  Abstract!Elect(i)
<1> USE ElectionTypes
<1> DEFINE u == currentTerm[i]
<1>1. /\ state[i] = "Candidate"
      /\ voteCall[i][t][j].pc # "none"
      /\ state' = [state EXCEPT ![i] = "Leader"]
      /\ leaderOf' = [leaderOf EXCEPT ![u] = @ \cup {i}]
      /\ UNCHANGED currentTerm
  BY DEF BecomeLeader, GrantCounts
<1>2. u \in Term
  <2>1. t <= u
    BY <1>1 DEF ElectionInv, BallotInv
  <2>2. u \in 0..MaxTerm
    BY DEF TypeOK, RoleType
  <2> QED
    BY <2>1, <2>2, BoundAssumption DEF Term
<1>3. leaderOf[u] = {}
  <2> SUFFICES ASSUME NEW k \in leaderOf[u]
               PROVE  FALSE
    OBVIOUS
  <2>1. k \in leaderOf'[u] /\ i \in leaderOf'[u]
    BY <1>1, <1>2
  <2>2. k = i
    BY <1>2, <2>1 DEF ElectionSafety
  <2> QED
    BY <1>1, <1>2, <2>2 DEF ElectionInv, LeaderInv
<1>4. [k \in Node |-> state'[k] = "Leader"] = [[k \in Node |-> state[k] = "Leader"] EXCEPT ![i] = TRUE]
  BY <1>1
<1>5. leaderOf' = [leaderOf EXCEPT ![u] = {i}]
  BY <1>1, <1>2, <1>3
<1> QED
  BY <1>1, <1>2, <1>3, <1>4, <1>5 DEF Abstract!Elect, Abstract!Term, Term

\* Every step is one of LeaderElection or leaves its variables alone.
LEMMA AbstractStep ==
    ASSUME TypeOK, TypeOK', ElectionInv, ElectionSafety', [Next]_vars
    PROVE  [Abstract!Next]_(Abstract!vars)
<1> USE ElectionTypes
<1>1. ASSUME UNCHANGED <<state, currentTerm, leaderOf>>
      PROVE  UNCHANGED Abstract!vars
  BY <1>1 DEF Abstract!vars
<1>2. ASSUME NEW i \in Node, ElectionTimeout(i)
      PROVE  Abstract!Advance(i)
  <2>1. currentTerm[i] + 1 \in Nat /\ currentTerm[i] + 1 > currentTerm[i]
    OBVIOUS
  <2>2. /\ state' = [state EXCEPT ![i] = "Candidate"]
        /\ currentTerm' = [currentTerm EXCEPT ![i] = currentTerm[i] + 1]
        /\ UNCHANGED leaderOf
    BY <1>2 DEF ElectionTimeout, history
  <2> QED
    BY <2>1, <2>2, AdvanceStep
<1>3. ASSUME NEW i \in Node, NEW t \in Term, StartElection(i, t) \/ StartElectionBlocks(i, t)
      PROVE  UNCHANGED Abstract!vars
  BY <1>1, <1>3 DEF StartElection, StartElectionBlocks, roleVars, history
<1>4. ASSUME NEW i \in Node, NEW t \in Term, NEW j \in Node, HandleVote(i, t, j)
      PROVE  Abstract!Advance(j) \/ UNCHANGED Abstract!vars
  <2>1. UNCHANGED leaderOf
    BY <1>4 DEF HandleVote, history
  <2>2. CASE UNCHANGED roleVars
    BY <1>1, <2>1, <2>2 DEF roleVars
  <2>3. ASSUME NEW voted, StepDown(j, ballot[i][t].term, voted, i), ballot[i][t].term > currentTerm[j]
        PROVE  Abstract!Advance(j)
    BY <2>1, <2>3, AdvanceStep DEF StepDown, Demote
  <2> QED
    BY <1>4, <2>2, <2>3 DEF HandleVote
<1>5. ASSUME NEW i \in Node, NEW t \in Term, NEW j \in Node, CountVote(i, t, j)
      PROVE  UNCHANGED Abstract!vars
  BY <1>1, <1>5 DEF CountVote, roleVars, history
<1>6. ASSUME NEW i \in Node, NEW term \in Nat, GivesUp(i, term)
      PROVE  Abstract!Advance(i) \/ UNCHANGED Abstract!vars
  <2>1. CASE term > currentTerm[i]
    BY <1>6, <2>1, AdvanceStep DEF GivesUp
  <2>2. CASE term = currentTerm[i] /\ state[i] = "Candidate"
    <3>1. UNCHANGED <<currentTerm, leaderOf>>
      BY <1>6, <2>2 DEF GivesUp
    <3>2. [k \in Node |-> state'[k] = "Leader"] = [k \in Node |-> state[k] = "Leader"]
      BY <1>6, <2>2 DEF GivesUp
    <3> QED
      BY <3>1, <3>2 DEF Abstract!vars
  <2> QED
    BY <1>6, <2>1, <2>2 DEF GivesUp
<1>7. CASE UNCHANGED electionVars
  BY <1>1, <1>7 DEF electionVars
<1> QED
  BY <1>2, <1>3, <1>4, <1>5, <1>6, <1>7, ElectStep, ElectionSteps DEF Abstract!Next

\* Elections keep the promise other parts of the program rely on when a node says
\* that it leads: one leader per term, that stays until it moves to a newer one.
THEOREM RefinesLeaderElection ==
    ASSUME Cardinality(Node) % 2 = 1
    PROVE  Spec => ImplementsLeaderElection
<1>1. Init => Abstract!Init
  BY DEF Init, Abstract!Init, Abstract!Term, Term
<1>2. TypeOK /\ TypeOK' /\ ElectionInv /\ ElectionSafety' /\ [Next]_vars
         => [Abstract!Next]_(Abstract!vars)
  BY AbstractStep
<1> QED
  BY <1>1, <1>2, TypeCorrect, ElectionInvCorrect, ElectionSafetyCorrect, PTL
  DEF Spec, ImplementsLeaderElection, Abstract!Spec

----------------------------------------------------------------------------
\* The timers.

\* Every place that changes the role switches the timers with it.
LEMMA TimersStep ==
    ASSUME TypeOK, TimersMatchRole, [Next]_vars
    PROVE  TimersMatchRole'
<1> DEFINE timerVars == <<state, electionTimer, heartbeatTimer>>
<1>1. /\ state \in [Node -> {"Follower", "Candidate", "Leader"}]
      /\ electionTimer \in [Node -> {"running", "stopped"}]
      /\ heartbeatTimer \in [Node -> {"running", "stopped"}]
  BY DEF TypeOK, RoleType
<1>2. CASE UNCHANGED timerVars
  BY <1>2 DEF TimersMatchRole
<1>3. ASSUME NEW i \in Node, NEW term, NEW voted, NEW leader, StepDown(i, term, voted, leader)
      PROVE  TimersMatchRole'
  BY <1>1, <1>3 DEF TimersMatchRole, StepDown, Demote, SwitchTimers
<1>4. ASSUME NEW i \in Node, Election(i)
      PROVE  TimersMatchRole'
  <2>1. CASE ElectionTimeout(i)
    BY <1>1, <2>1 DEF ElectionTimeout, TimersMatchRole
  <2>2. ASSUME NEW t \in Term, StartElection(i, t) \/ StartElectionBlocks(i, t)
        PROVE  TimersMatchRole'
    BY <1>2, <2>2 DEF StartElection, StartElectionBlocks, roleVars
  <2>3. ASSUME NEW t \in Term, NEW j \in Node, HandleVote(i, t, j)
        PROVE  TimersMatchRole'
    BY <1>2, <1>3, <2>3 DEF HandleVote, roleVars
  <2>4. ASSUME NEW t \in Term, NEW j \in Node, CountVote(i, t, j)
        PROVE  TimersMatchRole'
    BY <1>2, <2>4 DEF CountVote, roleVars
  <2>5. ASSUME NEW t \in Term, NEW j \in Node, BecomeLeader(i, t, j)
        PROVE  TimersMatchRole'
    BY <1>1, <2>5 DEF BecomeLeader, TimersMatchRole
  <2>6. ASSUME NEW t \in Term, NEW j \in Node, DeposedByVote(i, t, j)
        PROVE  TimersMatchRole'
    BY <1>3, <2>6 DEF DeposedByVote
  <2> QED
    BY <1>4, <2>1, <2>2, <2>3, <2>4, <2>5, <2>6 DEF Election
<1>5. ASSUME NEW i \in Node, NEW j \in Node, Replication(i, j)
      PROVE  TimersMatchRole'
  <2>1. CASE HandleAppend(i, j) \/ HandleAppendMismatch(i, j)
    BY <1>2, <1>3, <2>1 DEF HandleAppend, HandleAppendMismatch, Follow, roleVars
  <2>2. ASSUME NEW t \in Term, ReplicateOutdated(i, j, t)
        PROVE  TimersMatchRole'
    BY <1>2, <1>3, <2>2 DEF ReplicateOutdated, roleVars
  <2>3. CASE Heartbeat(i, j) \/ RefuseAppend(i, j) \/ Lose(i, j) \/ AddRemoteNode(i, j)
    BY <1>2, <2>3 DEF Heartbeat, RefuseAppend, Lose, AddRemoteNode, roleVars
  <2>4. ASSUME NEW t \in Term,
               \/ Replicate(i, j, t) \/ ReplicatorQuits(i, j, t) \/ ReplicateTimeout(i, j, t)
               \/ ReplicateAcked(i, j, t) \/ ReplicateNacked(i, j, t)
               \/ ReplicatorFaults(i, j, t)
        PROVE  TimersMatchRole'
    BY <1>2, <2>4 DEF Replicate, ReplicatorQuits, ReplicateTimeout, ReplicateAcked,
                      ReplicateNacked, ReplicatorFaults, roleVars
  <2> QED
    BY <1>5, <2>1, <2>2, <2>3, <2>4 DEF Replication
<1>6. ASSUME NEW i \in Node, Apply(i) \/ Registering(i)
      PROVE  TimersMatchRole'
  BY <1>2, <1>6 DEF Apply, Registering, RegisterBegin, RegisterReady, RegisterAppend,
                    RegisterReply, roleVars
<1>7. CASE UNCHANGED vars
  BY <1>2, <1>7 DEF vars, roleVars
<1> HIDE DEF TimersMatchRole
<1> QED
  BY <1>4, <1>5, <1>6, <1>7 DEF Next

\* A node that does not lead can always stand again, and only a leader sends
\* heartbeats: the five places that switch the timers agree with m_state.
THEOREM TimersCorrect == Spec => []TimersMatchRole
<1>1. Init => TimersMatchRole
  BY DEF Init, TimersMatchRole
<1>2. TypeOK /\ TimersMatchRole /\ [Next]_vars => TimersMatchRole'
  BY TimersStep
<1> QED
  BY <1>1, <1>2, TypeCorrect, PTL DEF Spec

=============================================================================
