------------------------------ MODULE RaftNode ------------------------------
(***************************************************************************)
(* A cluster of RaftNodes (source/raft/raft_node.cpp) that elects a leader *)
(* and replicates the log of service registrations.                        *)
(*                                                                         *)
(* A step is one critical section of m_raft_mutex.  Per node these         *)
(* coroutines interleave: the callbacks of the two timers, one coroutine   *)
(* per vote request, one replicateLog per peer and leadership, the applier *)
(* of RaftLogger, and run(), which handles every incoming message alone.   *)
(***************************************************************************)
EXTENDS RaftLogger, FiniteSets, Integers

CONSTANTS
    Node,           \* the ids of m_nodes
    Nil,            \* (uint64_t)-1: nobody voted for, no known leader
    Registration,   \* the register messages: sequences of services
    Contest,        \* bound: the <<i, t>> such that i times out into term t
    Connected,      \* bound: the sessions <<i, j>> that open at all
    Late,           \* bound: those that are made after the timers have started
    Lossy,          \* bound: the sessions that break or are slow
    Beating,        \* bound: the sessions that carry heartbeats
    MaxTerm,        \* bound: the last term
    MaxLog,         \* bound: registrations leave the log no longer than this
    MaxNet          \* bound: requests in flight on one session

ASSUME NodeAssumption == IsFiniteSet(Node) /\ Nil \notin Node
ASSUME BoundAssumption == /\ MaxTerm \in Nat /\ MaxLog \in Nat /\ MaxNet \in Nat
                          /\ Contest \subseteq Node \X (1..MaxTerm)
                          /\ \A i \in Node : <<i, i>> \notin Connected
ASSUME RegistrationAssumption == Registration \subseteq Seq(Service)

VARIABLES
    state, currentTerm, votedFor, leaderId,     \* m_state, m_currentTerm, ...
    electionTimer, heartbeatTimer,              \* "running" or "stopped"
    raftMutex,      \* who holds m_raft_mutex between steps: nobody ("free"),
                    \* run() after the leak in appendEntries ("run"), or a
                    \* coroutine that will never release it ("stuck")
    loggerMutex,    \* RaftLogger::m_mutex: "free", or leaked by "run"
    entries, commitIndex,   \* m_entries, m_commitIndex
    applied,        \* what the applier put into m_addresses, in order; its
                    \* length is m_lastApplied
    nextIndex, matchIndex,  \* m_nextIndexs, m_matchIndexs
    starting,       \* election callbacks between line 46 and startElection,
                    \* named by the term they incremented to
    ballot,         \* request of the startElection of such a callback
    voteCall,       \* the coroutine that calls raftVote for a ballot on a peer
    net,            \* appendEntries requests on the session from i to j, FIFO
    repl,           \* replicateLog(j) on i, by the term it was started in
    runPc,          \* run(): in "epoll", or where it is in a registration
    regMsg,         \* the registration run() is working on
    regIndex,       \* its local variable index
    remoteNodes,    \* the keys of m_remote_nodes
    ended,          \* the nodes whose process has ended
    leaderOf,       \* history: the nodes that became leader of a term
    strayed,        \* history: a node that did not lead has written to its log
    early           \* history: <<i, j, t>>, i became leader of t without j in
                    \* its m_remote_nodes

roleVars == <<state, currentTerm, votedFor, leaderId, electionTimer, heartbeatTimer>>
lockVars == <<raftMutex, loggerMutex>>
logVars  == <<entries, commitIndex, applied>>
voteVars == <<starting, ballot, voteCall>>
replVars == <<nextIndex, matchIndex, net, repl>>
runVars  == <<runPc, regMsg, regIndex>>
peerVars == <<remoteNodes, ended>>
history == <<leaderOf, strayed, early>>
vars == <<roleVars, lockVars, logVars, voteVars, replVars, runVars, peerVars, history>>

Term == 1..MaxTerm

\* A wrong threshold: what the majority below must not be.
HalfRoundedDown == Cardinality(Node) \div 2
\* The threshold of both an election and a commit.
Majority == (Cardinality(Node) + 1) \div 2

----------------------------------------------------------------------------
\* Messages and the local state of the coroutines that wait for an answer.

RaftVoteParams == [term : 0..MaxTerm, lastLogIndex : Nat, lastLogTerm : Nat]

\* Heartbeats carry an entry of their own; appendEntries answers them before
\* it reads prevLogIndex and prevLogTerm, which are left out of them here.
HeartbeatEntry == [index |-> 0, term |-> 0, op |-> "heartbeat"]

\* 0 - 1 in a uint64_t, 2^64 - 1 in the program: the index of no entry.
Wrapped == -1

\* call names the replicator (by its term) whose channel waits for the answer,
\* 0 when there is none: the answer of a heartbeat is not used, that of a call
\* that timed out has lost its channel.
AppendEntriesParams ==
    [term : 0..MaxTerm, leaderCommit : Nat, prevLogIndex : Nat \cup {Wrapped},
     prevLogTerm : Nat, entry : Entry \cup {HeartbeatEntry}, call : 0..MaxTerm]

\* A vote coroutine: request sent, answered, or its grant counted in
\* grantedVotes.  term is that of an answer that refuses.
VoteCall == [pc : {"none", "sent", "granted", "refused", "counted"}, term : 0..MaxTerm]

\* A replicator: not running, at the top of its loop, waiting in the channel,
\* or holding an answer it has not taken the mutex for yet.
Replicator == [pc : {"none", "loop", "wait", "acked", "nacked"}, term : 0..MaxTerm]

NoBallot == [term |-> 0, lastLogIndex |-> 0, lastLogTerm |-> 0]

Init ==
    /\ state = [i \in Node |-> "Follower"]
    /\ currentTerm = [i \in Node |-> 0]
    /\ votedFor = [i \in Node |-> Nil]
    /\ leaderId = [i \in Node |-> Nil]
    /\ electionTimer = [i \in Node |-> "running"]
    /\ heartbeatTimer = [i \in Node |-> "stopped"]
    /\ raftMutex = [i \in Node |-> "free"]
    /\ loggerMutex = [i \in Node |-> "free"]
    /\ entries = [i \in Node |-> InitialLog]
    /\ commitIndex = [i \in Node |-> 0]
    /\ applied = [i \in Node |-> <<>>]
    /\ nextIndex = [i \in Node |-> [j \in Node |-> 0]]
    /\ matchIndex = [i \in Node |-> [j \in Node |-> 0]]
    /\ starting = [i \in Node |-> {}]
    /\ ballot = [i \in Node |-> [t \in Term |-> NoBallot]]
    /\ voteCall = [i \in Node |-> [t \in Term |-> [j \in Node |-> [pc |-> "none", term |-> 0]]]]
    /\ net = [i \in Node |-> [j \in Node |-> <<>>]]
    /\ repl = [i \in Node |-> [j \in Node |-> [t \in Term |-> [pc |-> "none", term |-> 0]]]]
    /\ runPc = [i \in Node |-> "epoll"]
    /\ regMsg = [i \in Node |-> <<>>]
    /\ regIndex = [i \in Node |-> 0]
    /\ remoteNodes = [i \in Node |-> {j \in Node \ {i} : <<i, j>> \notin Late}]
    /\ ended = {}
    /\ leaderOf = [t \in Term |-> {}]
    /\ strayed = FALSE
    /\ early = {}

----------------------------------------------------------------------------
\* Pieces the handlers share.

\* A coroutine other than run() gets m_raft_mutex only when it is free; run()
\* also enters the one it leaked, since CoroutineMutex lets its owner in again,
\* and releases it on the way out.
LockFree(i) == i \notin ended /\ raftMutex[i] = "free"
RunAtEpoll(i) == i \notin ended /\ runPc[i] = "epoll" /\ raftMutex[i] # "stuck"
RunUnlocks(i) == raftMutex' = [raftMutex EXCEPT ![i] = "free"]

\* Wrong: the log is reached without its mutex.
LoggerIgnored(i) == TRUE
\* Every access to the log takes RaftLogger::m_mutex, is_newer aside.
LoggerFree(i) == loggerMutex[i] = "free"

\* Wrong: the timers stay as they are.
KeepTimers(i) == UNCHANGED <<electionTimer, heartbeatTimer>>
\* Only a leader has timers to switch.
SwitchTimers(i) ==
    /\ electionTimer' = [electionTimer EXCEPT ![i] = IF state[i] = "Leader" THEN "running" ELSE @]
    /\ heartbeatTimer' = [heartbeatTimer EXCEPT ![i] = IF state[i] = "Leader" THEN "stopped" ELSE @]

\* Wrong: nobody is taken for node 0.
DemoteToZero(i, term, voted) ==
    /\ currentTerm' = [currentTerm EXCEPT ![i] = term]
    /\ votedFor' = [votedFor EXCEPT ![i] = IF voted = Nil THEN 0 ELSE voted]
    /\ SwitchTimers(i)
\* i becomes a follower in a term.
Demote(i, term, voted) ==
    /\ currentTerm' = [currentTerm EXCEPT ![i] = term]
    /\ votedFor' = [votedFor EXCEPT ![i] = voted]
    /\ SwitchTimers(i)
\* Wrong: the role, or the hint, is forgotten.
StepDownInName(i, term, voted, leader) ==
    /\ Demote(i, term, voted)
    /\ leaderId' = [leaderId EXCEPT ![i] = leader]
    /\ UNCHANGED state
StepDownKeepsLeader(i, term, voted, leader) ==
    /\ Demote(i, term, voted)
    /\ state' = [state EXCEPT ![i] = "Follower"]
    /\ UNCHANGED leaderId
\* The whole step down: term, vote, timers, role and hint.
StepDown(i, term, voted, leader) ==
    /\ Demote(i, term, voted)
    /\ state' = [state EXCEPT ![i] = "Follower"]
    /\ leaderId' = [leaderId EXCEPT ![i] = leader]

\* The coroutine that connects to the other nodes, one after the other; the
\* entry is made whether the connection stands or not.
AddRemoteNode(i, j) ==
    /\ <<i, j>> \in Late
    /\ i # j
    /\ j \notin remoteNodes[i]
    /\ LockFree(i)
    /\ remoteNodes' = [remoteNodes EXCEPT ![i] = @ \cup {j}]
    /\ UNCHANGED <<roleVars, lockVars, logVars, voteVars, replVars, runVars, ended, history>>

----------------------------------------------------------------------------
\* Elections.

\* The callback of m_electionTimer up to its call of startElection.
ElectionTimeout(i) ==
    /\ electionTimer[i] = "running"
    /\ LockFree(i)
    /\ state[i] # "Leader"
    /\ <<i, currentTerm[i] + 1>> \in Contest
    /\ state' = [state EXCEPT ![i] = "Candidate"]
    /\ currentTerm' = [currentTerm EXCEPT ![i] = @ + 1]
    /\ votedFor' = [votedFor EXCEPT ![i] = i]
    /\ leaderId' = [leaderId EXCEPT ![i] = Nil]
    /\ starting' = [starting EXCEPT ![i] = @ \cup {currentTerm[i] + 1}]
    /\ UNCHANGED <<electionTimer, heartbeatTimer, lockVars, logVars, ballot, voteCall,
                   replVars, runVars, peerVars, history>>

\* startElection reads term and log afresh: the node may have moved on since
\* the callback released the mutex.
StartElection(i, t) ==
    /\ t \in starting[i]
    /\ LockFree(i)
    /\ LoggerFree(i)
    /\ ballot' = [ballot EXCEPT ![i][t] =
                    [term         |-> currentTerm[i],
                     lastLogIndex |-> getLastIndex(entries[i]),
                     lastLogTerm  |-> getLastTerm(entries[i])]]
    /\ votedFor' = [votedFor EXCEPT ![i] = i]
    /\ voteCall' = [voteCall EXCEPT ![i][t] =
                      [j \in Node |-> IF j \in remoteNodes[i] /\ <<i, j>> \in Connected
                                      THEN [pc |-> "sent", term |-> 0] ELSE @[j]]]
    /\ starting' = [starting EXCEPT ![i] = @ \ {t}]
    /\ UNCHANGED <<state, currentTerm, leaderId, electionTimer, heartbeatTimer, lockVars,
                   logVars, replVars, runVars, peerVars, history>>

\* getLastIndex waits for the logger mutex that run() leaked, with m_raft_mutex
\* held; run() cannot enter a handler any more to release the one, nor this
\* coroutine the other.
StartElectionBlocks(i, t) ==
    /\ t \in starting[i]
    /\ LockFree(i)
    /\ loggerMutex[i] = "run"
    /\ raftMutex' = [raftMutex EXCEPT ![i] = "stuck"]
    /\ starting' = [starting EXCEPT ![i] = @ \ {t}]
    /\ UNCHANGED <<roleVars, loggerMutex, logVars, ballot, voteCall, replVars,
                   runVars, peerVars, history>>

\* Wrong: votedFor is not looked at.
RefusesLowerTerm(j, i, params) == params.term < currentTerm[j]
\* raftVote refuses an older term, and a second candidate of its own term.
Refuses(j, i, params) ==
    \/ params.term < currentTerm[j]
    \/ params.term = currentTerm[j] /\ votedFor[j] # i

UpToDate(j, params) == is_newer(entries[j], params.lastLogTerm, params.lastLogIndex)

VoteAnswered(i, t, j, pc, term) ==
    voteCall' = [voteCall EXCEPT ![i][t][j] = [pc |-> pc, term |-> term]]

\* raftVote on j for the ballot t of i.
HandleVote(i, t, j) ==
    LET params == ballot[i][t]
        newer  == params.term > currentTerm[j]
    IN
    /\ voteCall[i][t][j].pc = "sent"
    /\ RunAtEpoll(j)
    /\ RunUnlocks(j)
    /\ \/ /\ Refuses(j, i, params)
          /\ VoteAnswered(i, t, j, "refused", currentTerm[j])
          /\ UNCHANGED roleVars
       \/ /\ ~Refuses(j, i, params)
          /\ ~UpToDate(j, params)
          /\ VoteAnswered(i, t, j, "refused", params.term)
          /\ IF newer THEN StepDown(j, params.term, Nil, i) ELSE UNCHANGED roleVars
       \/ /\ ~Refuses(j, i, params)
          /\ UpToDate(j, params)
          /\ VoteAnswered(i, t, j, "granted", 0)
          /\ IF newer THEN StepDown(j, params.term, i, i) ELSE UNCHANGED roleVars
    /\ UNCHANGED <<loggerMutex, logVars, starting, ballot, replVars,
                   runVars, peerVars, history>>

\* The grants counted for a ballot; grantedVotes is one more, the own vote.
Counted(i, t) == {j \in Node : voteCall[i][t][j].pc = "counted"}

Elects(i, t) == Cardinality(Counted(i, t)) + 2 >= Majority

\* Wrong: the term of the ballot is not looked at.
GrantCountsLate(i, t, j) ==
    LockFree(i) /\ voteCall[i][t][j].pc = "granted" /\ state[i] = "Candidate"
\* The answer of j is a grant in the term in which i still is a candidate.
GrantCounts(i, t, j) ==
    /\ LockFree(i)
    /\ voteCall[i][t][j].pc = "granted"
    /\ ballot[i][t].term = currentTerm[i]
    /\ state[i] = "Candidate"

CountVote(i, t, j) ==
    /\ GrantCounts(i, t, j)
    /\ ~Elects(i, t)
    /\ VoteAnswered(i, t, j, "counted", 0)
    /\ UNCHANGED <<roleVars, lockVars, logVars, starting, ballot, replVars,
                   runVars, peerVars, history>>

\* Wrong: the next index is that of the last entry.
SetIndexesToLast(i) ==
    /\ nextIndex' = [nextIndex EXCEPT ![i] =
                       [k \in Node |-> IF k \in remoteNodes[i]
                                      THEN getLastIndex(entries[i]) ELSE @[k]]]
    /\ matchIndex' = [matchIndex EXCEPT ![i] =
                        [k \in Node |-> IF k \in remoteNodes[i] THEN 0 ELSE @[k]]]

\* m_nextIndexs and m_matchIndexs of the nodes that are in m_remote_nodes by now.
SetIndexes(i) ==
    /\ nextIndex' = [nextIndex EXCEPT ![i] =
                       [k \in Node |-> IF k \in remoteNodes[i]
                                      THEN getLastIndex(entries[i]) + 1 ELSE @[k]]]
    /\ matchIndex' = [matchIndex EXCEPT ![i] =
                        [k \in Node |-> IF k \in remoteNodes[i] THEN 0 ELSE @[k]]]

\* A replicator is started for every other node of m_nodes.
BecomeLeader(i, t, j) ==
    /\ GrantCounts(i, t, j)
    /\ Elects(i, t)
    /\ LoggerFree(i)       \* never leaked here: LeakNeverMetByLeader
    /\ VoteAnswered(i, t, j, "counted", 0)
    /\ state' = [state EXCEPT ![i] = "Leader"]
    /\ leaderId' = [leaderId EXCEPT ![i] = i]
    /\ electionTimer' = [electionTimer EXCEPT ![i] = "stopped"]
    /\ heartbeatTimer' = [heartbeatTimer EXCEPT ![i] = "running"]
    /\ SetIndexes(i)
    /\ entries' = [entries EXCEPT ![i] = appendNew(@, currentTerm[i], <<"no-op">>)]
    /\ repl' = [repl EXCEPT ![i] =
                  [k \in Node |-> IF k = i THEN @[k]
                                  ELSE [@[k] EXCEPT ![currentTerm[i]] = [pc |-> "loop", term |-> 0]]]]
    /\ leaderOf' = [leaderOf EXCEPT ![currentTerm[i]] = @ \cup {i}]
    /\ early' = early \cup {<<i, k, currentTerm[i]>> : k \in Node \ (remoteNodes[i] \cup {i})}
    /\ UNCHANGED <<currentTerm, votedFor, lockVars, commitIndex, applied, starting, ballot,
                   net, runVars, peerVars, strayed>>

\* A refusal in a newer term deposes.  Every other answer passes without effect
\* and is left where it is.
DeposedByVote(i, t, j) ==
    LET answer == voteCall[i][t][j]
    IN
    /\ LockFree(i)
    /\ answer.pc = "refused"
    /\ currentTerm[i] < answer.term
    /\ StepDown(i, answer.term, Nil, Nil)
    /\ UNCHANGED <<lockVars, logVars, voteVars, replVars, runVars, peerVars, history>>

----------------------------------------------------------------------------
\* Replication, the leader's side.

\* A leader that sends takes the logger mutex under m_raft_mutex.
MaySend(i, j) ==
    /\ <<i, j>> \in Connected
    /\ state[i] = "Leader"
    /\ LockFree(i)
    /\ LoggerFree(i)
    /\ Len(net[i][j]) < MaxNet

Send(i, j, request) == net' = [net EXCEPT ![i][j] = Append(@, request)]

\* One round of the heartbeat callback's loop over m_remote_nodes.
Heartbeat(i, j) ==
    /\ heartbeatTimer[i] = "running"
    /\ <<i, j>> \in Beating
    /\ j \in remoteNodes[i]
    /\ MaySend(i, j)
    /\ Send(i, j, [term |-> currentTerm[i], leaderCommit |-> commitIndex[i],
                   prevLogIndex |-> 0, prevLogTerm |-> 0,
                   entry |-> HeartbeatEntry, call |-> 0])
    /\ UNCHANGED <<roleVars, lockVars, logVars, voteVars, nextIndex, matchIndex, repl,
                   runVars, peerVars, history>>

ReplicatorMoves(i, j, t, pc) == repl' = [repl EXCEPT ![i][j][t] = [pc |-> pc, term |-> 0]]

\* The entry before next: of an index that wrapped, getEntry's default Entry.
PrevIndex(next) == IF next = 0 THEN Wrapped ELSE next - 1
PrevTerm(log, next) == IF next = 0 THEN 0 ELSE getEntry(log, next - 1).term

\* A node that was not in m_remote_nodes at the election has next = 0. The
\* request leaves at once; in the code m_raft_mutex is free before it does
\* (line 260). That is as if it took longer on its way, but for two replicators
\* of one node that might overtake one another there.
Replicate(i, j, t) ==
    LET next == nextIndex[i][j]
    IN
    /\ repl[i][j][t].pc = "loop"
    /\ j \in remoteNodes[i]
    /\ MaySend(i, j)
    /\ HasEntry(entries[i], next)
    /\ Send(i, j, [term |-> currentTerm[i], leaderCommit |-> commitIndex[i],
                   prevLogIndex |-> PrevIndex(next),
                   prevLogTerm |-> PrevTerm(entries[i], next),
                   entry |-> getEntry(entries[i], next), call |-> t])
    /\ ReplicatorMoves(i, j, t, "wait")
    /\ UNCHANGED <<roleVars, lockVars, logVars, voteVars, nextIndex, matchIndex,
                   runVars, peerVars, history>>

\* m_remote_nodes[nodeId] makes an entry without a session, and the call of its
\* testAndreConnect ends the process.
ReplicatorFaults(i, j, t) ==
    /\ repl[i][j][t].pc = "loop"
    /\ i # j
    /\ j \notin remoteNodes[i]
    /\ state[i] = "Leader"
    /\ LockFree(i)
    /\ LoggerFree(i)
    /\ HasEntry(entries[i], nextIndex[i][j])
    /\ ended' = ended \cup {i}
    /\ UNCHANGED <<roleVars, lockVars, logVars, voteVars, replVars,
                   runVars, remoteNodes, history>>

\* The replicator finds, before a request or with an answer in hand, that the
\* node no longer leads.
ReplicatorQuits(i, j, t) ==
    /\ repl[i][j][t].pc \in {"loop", "acked", "nacked"}
    /\ LockFree(i)
    /\ state[i] # "Leader"
    /\ ReplicatorMoves(i, j, t, "none")
    /\ UNCHANGED <<roleVars, lockVars, logVars, voteVars, nextIndex, matchIndex, net,
                   runVars, peerVars, history>>

\* 100 ms without an answer.  The request may still be on its way; its answer
\* finds no channel.
ReplicateTimeout(i, j, t) ==
    /\ repl[i][j][t].pc = "wait"
    /\ i \notin ended
    /\ <<i, j>> \in Lossy
    /\ ReplicatorMoves(i, j, t, "loop")
    /\ net' = [net EXCEPT ![i][j] =
                 [k \in DOMAIN @ |-> IF @[k].call = t THEN [@[k] EXCEPT !.call = 0] ELSE @[k]]]
    /\ UNCHANGED <<roleVars, lockVars, logVars, voteVars, nextIndex, matchIndex,
                   runVars, peerVars, history>>

\* The nodes the leader believes to hold the entry at index, when it has just
\* heard that from j.
Acked(i, j, index) == {i, j} \cup {k \in Node \ {i, j} : matchIndex[i][k] >= index}

HasAnswer(i, j, t, pc) ==
    /\ repl[i][j][t].pc = pc
    /\ LockFree(i)
    /\ state[i] = "Leader"

ReplicateAcked(i, j, t) ==
    LET last_index == nextIndex[i][j]
    IN
    /\ HasAnswer(i, j, t, "acked")
    /\ repl[i][j][t].term = currentTerm[i]
    /\ LoggerFree(i)
    /\ nextIndex' = [nextIndex EXCEPT ![i][j] = @ + 1]
    /\ matchIndex' = [matchIndex EXCEPT ![i][j] = last_index]
    /\ commitIndex' = [commitIndex EXCEPT ![i] =
                         IF Cardinality(Acked(i, j, last_index)) >= Majority /\ last_index > @
                         THEN last_index ELSE @]
    /\ ReplicatorMoves(i, j, t, "loop")
    /\ UNCHANGED <<roleVars, lockVars, entries, applied, voteVars, net,
                   runVars, peerVars, history>>

\* Wrong: m_nextIndexs may reach 0.
OneBackUnchecked(next) == next - 1

\* m_nextIndexs after a refusal.
OneBack(next) == IF next > 1 THEN next - 1 ELSE next

\* A refusal in the leader's own term: the replicator returns for good.
ReplicateNacked(i, j, t) ==
    /\ HasAnswer(i, j, t, "nacked")
    /\ repl[i][j][t].term = currentTerm[i]
    /\ nextIndex' = [nextIndex EXCEPT ![i][j] = OneBack(@)]
    /\ ReplicatorMoves(i, j, t, "none")
    /\ UNCHANGED <<roleVars, lockVars, logVars, voteVars, matchIndex, net,
                   runVars, peerVars, history>>

\* An answer of an older term is dropped, one of a newer term deposes.
ReplicateOutdated(i, j, t) ==
    \E pc \in {"acked", "nacked"} :
        /\ HasAnswer(i, j, t, pc)
        /\ \/ /\ repl[i][j][t].term < currentTerm[i]
              /\ ReplicatorMoves(i, j, t, "loop")
              /\ UNCHANGED roleVars
           \/ /\ repl[i][j][t].term > currentTerm[i]
              /\ ReplicatorMoves(i, j, t, "none")
              /\ StepDown(i, repl[i][j][t].term, Nil, Nil)
        /\ UNCHANGED <<lockVars, logVars, voteVars, nextIndex, matchIndex, net,
                       runVars, peerVars, history>>

----------------------------------------------------------------------------
\* Replication, the follower's side: appendEntries on j for the oldest request
\* of i.

\* The request leaves the stream and, if its caller still waits, is answered.
AppendAnswered(i, j, pc, term) ==
    LET call == Head(net[i][j]).call
    IN
    /\ net' = [net EXCEPT ![i][j] = Tail(@)]
    /\ repl' = IF call = 0 THEN repl
                           ELSE [repl EXCEPT ![i][j][call] = [pc |-> pc, term |-> term]]

\* Wrong: no request is too old.
NeverOutdated(j, params) == FALSE
\* The request is of a term the receiver has left.
Outdated(j, params) == params.term < currentTerm[j]

Receives(i, j) == net[i][j] # <<>> /\ RunAtEpoll(j)

RefuseAppend(i, j) ==
    /\ Receives(i, j)
    /\ Outdated(j, Head(net[i][j]))
    /\ AppendAnswered(i, j, "nacked", currentTerm[j])
    /\ RunUnlocks(j)
    /\ UNCHANGED <<roleVars, loggerMutex, logVars, voteVars, nextIndex, matchIndex,
                   runVars, peerVars, history>>

\* A newer term, or a leader in a candidate's own term.  A follower of the term
\* keeps the leaderId it has: m_leaderId < 0 (line 431) is false for a uint64_t.
Follow(i, j, params) ==
    IF \/ params.term > currentTerm[j]
       \/ params.term = currentTerm[j] /\ state[j] = "Candidate"
    THEN StepDown(j, params.term, Nil, i)
    ELSE UNCHANGED roleVars

LowerOf(a, b) == IF a < b THEN a ELSE b

\* Wrong: heartbeats do not carry the commit index.
FollowCommitOfEntry(j, params) ==
    commitIndex' = IF params.entry = HeartbeatEntry THEN commitIndex
                   ELSE [commitIndex EXCEPT ![j] = LowerOf(params.leaderCommit, getLastIndex(entries[j]))]
\* The commit index follows the leader's before the entry is looked at.
FollowCommit(j, params) ==
    commitIndex' = [commitIndex EXCEPT ![j] = LowerOf(params.leaderCommit, getLastIndex(entries[j]))]

Fits(j, params) ==
    \/ params.entry = HeartbeatEntry
    \/ Matches(entries[j], params.prevLogIndex, params.prevLogTerm)

HandleAppend(i, j) ==
    LET params == Head(net[i][j])
    IN
    /\ Receives(i, j)
    /\ ~Outdated(j, params)
    /\ Fits(j, params)
    /\ Follow(i, j, params)
    /\ FollowCommit(j, params)
    /\ entries' = IF params.entry = HeartbeatEntry THEN entries
                  ELSE [entries EXCEPT ![j] = appendAfter(@, params.entry, params.prevLogIndex)]
    /\ AppendAnswered(i, j, "acked", params.term)
    /\ RunUnlocks(j)
    /\ loggerMutex' = [loggerMutex EXCEPT ![j] = "free"]
    /\ UNCHANGED <<applied, voteVars, nextIndex, matchIndex, runVars, peerVars, history>>

\* RaftLogger::appendEntry finds no previous entry and returns with m_mutex
\* held; appendEntries returns with m_raft_mutex held.
HandleAppendMismatch(i, j) ==
    LET params == Head(net[i][j])
    IN
    /\ Receives(i, j)
    /\ ~Outdated(j, params)
    /\ ~Fits(j, params)
    /\ Follow(i, j, params)
    /\ FollowCommit(j, params)
    /\ AppendAnswered(i, j, "nacked", params.term)
    /\ raftMutex' = [raftMutex EXCEPT ![j] = "run"]
    /\ loggerMutex' = [loggerMutex EXCEPT ![j] = "run"]
    /\ UNCHANGED <<entries, applied, voteVars, nextIndex, matchIndex,
                   runVars, peerVars, history>>

\* The connection breaks: testAndreConnect opens a new one, what was on the old
\* one is gone, and whoever waits for an answer runs into the timeout.
Lose(i, j) ==
    /\ net[i][j] # <<>>
    /\ <<i, j>> \in Lossy
    /\ net' = [net EXCEPT ![i][j] = <<>>]
    /\ UNCHANGED <<roleVars, lockVars, logVars, voteVars, nextIndex, matchIndex, repl,
                   runVars, peerVars, history>>

\* The applier.  A commit index behind a truncated log makes it read a
\* destroyed element of the vector: any op may come out.
Apply(i) ==
    LET lastApplied == Len(applied[i])
    IN
    /\ i \notin ended
    /\ LoggerFree(i)
    /\ lastApplied < commitIndex[i]
    /\ \E op \in IF HasEntry(entries[i], lastApplied + 1)
                 THEN {getEntry(entries[i], lastApplied + 1).op} ELSE Op :
          applied' = [applied EXCEPT ![i] = Append(@, op)]
    /\ UNCHANGED <<roleVars, lockVars, entries, commitIndex, voteVars, replVars,
                   runVars, peerVars, history>>

----------------------------------------------------------------------------
\* handleServerInit and handleServiceRegister, in run().

\* handleMsg answers with a redirect unless the node takes itself for the
\* leader, and changes nothing then; that it reads m_nodes[-1] for it when it
\* knows of no leader (line 595) is left out. The handler reads the log at least
\* once, which releases a leak.
RegisterBegin(i, msg) ==
    /\ RunAtEpoll(i)
    /\ leaderId[i] = i
    /\ Len(entries[i]) + Len(msg) <= MaxLog
    /\ runPc' = [runPc EXCEPT ![i] = "spin"]
    /\ regMsg' = [regMsg EXCEPT ![i] = msg]
    /\ RunUnlocks(i)
    /\ loggerMutex' = [loggerMutex EXCEPT ![i] = "free"]
    /\ UNCHANGED <<roleVars, logVars, voteVars, replVars, regIndex, peerVars, history>>

NoOpPending(i) ==
    /\ Last(entries[i]).op = "no-op"
    /\ commitIndex[i] < Len(entries[i]) - 1
    /\ state[i] = "Leader"

\* The wait for the no-op ends, and the mutex is released once more.
RegisterReady(i) ==
    /\ runPc[i] = "spin"
    /\ LockFree(i)
    /\ ~NoOpPending(i)
    /\ runPc' = [runPc EXCEPT ![i] = "ready"]
    /\ UNCHANGED <<roleVars, lockVars, logVars, voteVars, replVars, regMsg, regIndex,
                   peerVars, history>>

\* The entries of a message, in whatever term and state the node is by now.  A
\* message without any leaves index uninitialised.
RegisterAppend(i) ==
    /\ runPc[i] = "ready"
    /\ LockFree(i)
    /\ entries' = [entries EXCEPT ![i] = appendNew(@, currentTerm[i], regMsg[i])]
    /\ \E index \in IF regMsg[i] = <<>> THEN 0..MaxLog
                    ELSE {Len(entries[i]) + Len(regMsg[i]) - 1} :
          regIndex' = [regIndex EXCEPT ![i] = index]
    /\ runPc' = [runPc EXCEPT ![i] = "appended"]
    /\ strayed' = (strayed \/ (state[i] # "Leader" /\ regMsg[i] # <<>>))
    /\ UNCHANGED <<roleVars, lockVars, commitIndex, applied, voteVars, replVars, regMsg,
                   peerVars, leaderOf, early>>

\* The answer to the client; run() waits while index < m_lastApplied.
RegisterReply(i) ==
    /\ runPc[i] = "appended"
    /\ LockFree(i)
    /\ ~(regIndex[i] < Len(applied[i]))
    /\ runPc' = [runPc EXCEPT ![i] = "epoll"]
    /\ regMsg' = [regMsg EXCEPT ![i] = <<>>]
    /\ regIndex' = [regIndex EXCEPT ![i] = 0]
    /\ UNCHANGED <<roleVars, lockVars, logVars, voteVars, replVars, peerVars, history>>

----------------------------------------------------------------------------
Election(i) ==
    \/ ElectionTimeout(i)
    \/ \E t \in Term : StartElection(i, t) \/ StartElectionBlocks(i, t)
    \/ \E t \in Term, j \in Node : \/ HandleVote(i, t, j) \/ CountVote(i, t, j)
                                   \/ BecomeLeader(i, t, j) \/ DeposedByVote(i, t, j)

Replication(i, j) ==
    \/ Heartbeat(i, j) \/ RefuseAppend(i, j) \/ HandleAppend(i, j)
    \/ HandleAppendMismatch(i, j) \/ Lose(i, j) \/ AddRemoteNode(i, j)
    \/ \E t \in Term : \/ Replicate(i, j, t) \/ ReplicatorQuits(i, j, t)
                       \/ ReplicatorFaults(i, j, t)
                       \/ ReplicateTimeout(i, j, t) \/ ReplicateAcked(i, j, t)
                       \/ ReplicateNacked(i, j, t) \/ ReplicateOutdated(i, j, t)

Registering(i) ==
    \/ \E msg \in Registration : RegisterBegin(i, msg)
    \/ RegisterReady(i) \/ RegisterAppend(i) \/ RegisterReply(i)

Next ==
    \/ \E i \in Node : Election(i) \/ Apply(i) \/ Registering(i)
    \/ \E i, j \in Node : Replication(i, j)

Spec == Init /\ [][Next]_vars

\* What the scheduler and the timers guarantee while nothing breaks: a coroutine
\* that can go on is resumed, a timer that runs fires, a request that was sent is
\* handled.  Nothing breaks a session, lets a call time out or makes a client
\* register.  Replicate is strongly fair because the bound MaxNet, which the
\* program does not have, may disable it again and again.
Fairness ==
    /\ \A i \in Node :
          /\ WF_vars(ElectionTimeout(i))
          /\ WF_vars(\E t \in Term : StartElection(i, t) \/ StartElectionBlocks(i, t))
          /\ WF_vars(Apply(i))
          /\ WF_vars(RegisterReady(i) \/ RegisterAppend(i) \/ RegisterReply(i))
    /\ \A i \in Node : \A j \in Node \ {i} :
          /\ WF_vars(\E t \in Term : \/ HandleVote(i, t, j) \/ CountVote(i, t, j)
                                     \/ BecomeLeader(i, t, j) \/ DeposedByVote(i, t, j))
          /\ WF_vars(Heartbeat(i, j))
          /\ SF_vars(\E t \in Term : Replicate(i, j, t))
          /\ WF_vars(\E t \in Term : \/ ReplicatorQuits(i, j, t) \/ ReplicateAcked(i, j, t)
                                     \/ ReplicateNacked(i, j, t) \/ ReplicateOutdated(i, j, t))
          /\ WF_vars(\/ RefuseAppend(i, j) \/ HandleAppend(i, j) \/ HandleAppendMismatch(i, j))

FairSpec == Spec /\ Fairness

----------------------------------------------------------------------------
\* Types.
RoleType ==
    /\ state \in [Node -> {"Follower", "Candidate", "Leader"}]
    /\ currentTerm \in [Node -> 0..MaxTerm]
    /\ votedFor \in [Node -> Node \cup {Nil}]
    /\ leaderId \in [Node -> Node \cup {Nil}]
    /\ electionTimer \in [Node -> {"running", "stopped"}]
    /\ heartbeatTimer \in [Node -> {"running", "stopped"}]

LockType ==
    /\ raftMutex \in [Node -> {"free", "run", "stuck"}]
    /\ loggerMutex \in [Node -> {"free", "run"}]

LogType ==
    /\ entries \in [Node -> Log]
    /\ commitIndex \in [Node -> Nat]
    /\ applied \in [Node -> Seq(Op)]

VoteType ==
    /\ starting \in [Node -> SUBSET Term]
    /\ ballot \in [Node -> [Term -> RaftVoteParams]]
    /\ voteCall \in [Node -> [Term -> [Node -> VoteCall]]]

ReplType ==
    /\ nextIndex \in [Node -> [Node -> Nat]]
    /\ matchIndex \in [Node -> [Node -> Nat]]
    /\ net \in [Node -> [Node -> Seq(AppendEntriesParams)]]
    /\ repl \in [Node -> [Node -> [Term -> Replicator]]]

RunType ==
    /\ runPc \in [Node -> {"epoll", "spin", "ready", "appended"}]
    /\ regMsg \in [Node -> Seq(Service)]
    /\ regIndex \in [Node -> Nat]

PeerType ==
    /\ remoteNodes \in [Node -> SUBSET Node]
    /\ ended \subseteq Node

TypeOK ==
    /\ RoleType /\ LockType /\ LogType /\ VoteType /\ ReplType /\ RunType /\ PeerType
    /\ leaderOf \in [Term -> SUBSET Node]
    /\ strayed \in BOOLEAN
    /\ early \subseteq Node \X Node \X (0..MaxTerm)

----------------------------------------------------------------------------
\* Elections: what raftVote and the coroutines of startElection add up to.

Granted(i, t, j) == voteCall[i][t][j].pc \in {"granted", "counted"}

\* No two nodes become leader of one term (lines 174 to 205 against raftVote).
ElectionSafety == \A t \in Term : \A i, j \in leaderOf[t] : i = j

\* raftVote grants one candidate per term (line 365), however often that one asks
\* and whatever the node's own elections do to m_votedFor in between.
OneGrantPerTerm ==
    \A j, i1, i2 \in Node, t1, t2 \in Term :
        /\ Granted(i1, t1, j) /\ Granted(i2, t2, j)
        /\ ballot[i1][t1].term = ballot[i2][t2].term
        => i1 = i2

\* Exactly the leader has its election timer stopped and its heartbeats running,
\* through the five places that switch the two timers: a node that steps down
\* without waking the election timer could never stand again.
TimersMatchRole ==
    \A i \in Node : /\ electionTimer[i] = "stopped" <=> state[i] = "Leader"
                    /\ heartbeatTimer[i] = "running" <=> state[i] = "Leader"

\* handleMsg asks m_id != m_leaderId, without the mutex, where it means "I do not
\* lead": the two agree; and a node that is redirected to is not behind in term.
LeaderHint ==
    \A i \in Node :
        /\ leaderId[i] = i <=> state[i] = "Leader"
        /\ leaderId[i] # Nil => currentTerm[leaderId[i]] >= currentTerm[i]

\* Why ElectionSafety holds, as an inductive invariant.  The first conjunct
\* orders a node's callbacks and ballots, the second says who asks whom, the
\* third what a candidate or leader voted.
BallotInv ==
    /\ \A i \in Node, t \in Term :
          /\ t \in starting[i] => /\ t <= currentTerm[i]
                                  /\ \A j \in Node : voteCall[i][t][j].pc = "none"
          /\ \A j \in Node : voteCall[i][t][j].pc # "none" =>
                                t <= currentTerm[i] /\ ballot[i][t].term <= currentTerm[i]
    /\ \A i \in Node, t \in Term : voteCall[i][t][i].pc = "none"
    /\ \A i \in Node : state[i] # "Follower" => votedFor[i] = i

\* A grant binds its voter: in the term of the ballot it stays a follower whose
\* vote went to that candidate or, by a late startElection, to itself; it leads
\* at no time in that term.
GrantInv ==
    \A i, j \in Node, t \in Term : Granted(i, t, j) =>
        /\ currentTerm[j] >= ballot[i][t].term
        /\ currentTerm[j] = ballot[i][t].term =>
              state[j] = "Follower" /\ votedFor[j] \in {i, j}
        /\ \A u \in Term : u = ballot[i][t].term => j \notin leaderOf[u]

\* A leader of a term has counted a quorum in it, and leads until it leaves it.
LeaderInv ==
    \A u \in Term : \A i \in leaderOf[u] :
        /\ currentTerm[i] >= u
        /\ currentTerm[i] = u => state[i] = "Leader"
        /\ \E t \in Term : /\ ballot[i][t].term = u /\ Counted(i, t) # {}
                          /\ Cardinality(Counted(i, t)) + 1 >= Majority

ElectionInv == BallotInv /\ GrantInv /\ OneGrantPerTerm /\ LeaderInv

\* The election implements LeaderElection: what other components may rely on
\* when a node says it leads.
Abstract == INSTANCE LeaderElection
                WITH term <- currentTerm, elected <- leaderOf,
                     leads <- [i \in Node |-> state[i] = "Leader"]
ImplementsLeaderElection == Abstract!Spec

----------------------------------------------------------------------------
\* Logs.

\* An entry carries its offset as index, terms never decrease along a log, and
\* none is ahead of the node's own: getEntry(index) and the backward search of
\* appendEntry agree only then.
LogsOrdered ==
    \A i \in Node :
        /\ \A k \in DOMAIN entries[i] :
              /\ entries[i][k].index = k - 1
              /\ \A m \in 1..k : entries[i][m].term <= entries[i][k].term
        /\ getLastTerm(entries[i]) <= currentTerm[i]

\* Two logs with an entry of the same index and term agree up to it, through
\* resent requests, replicators of an earlier leadership and deposed leaders, as
\* long as only leaders wrote registrations.
LogMatching ==
    ~strayed =>
        \A i, j \in Node : \A k \in DOMAIN entries[i] \cap DOMAIN entries[j] :
            entries[i][k].term = entries[j][k].term
            => SubSeq(entries[i], 1, k) = SubSeq(entries[j], 1, k)

\* While a node leads, no request of another leader, late or resent, takes an
\* entry from its log: appendEntry truncates behind whatever it matches.
LeaderAppendOnly ==
    [][\A i \in Node : state[i] = "Leader" /\ state'[i] = "Leader"
           => /\ Len(entries'[i]) >= Len(entries[i])
              /\ SubSeq(entries'[i], 1, Len(entries[i])) = entries[i]]_vars

\* The leaked logger mutex is never in the way of a leader, nor of a candidate
\* that could still win: those would block inside a critical section that has
\* changed m_state already.
LeakNeverMetByLeader ==
    \A i \in Node : loggerMutex[i] = "run" =>
        /\ state[i] # "Leader"
        /\ state[i] = "Candidate" =>
              \A t \in Term, j \in Node :
                  voteCall[i][t][j].pc # "none" => ballot[i][t].term # currentTerm[i]

\* A replicator fails to find the entry before the one it sends, or its session
\* (lines 257 and 268), only towards a node that was not in m_remote_nodes when
\* its leadership began (line 187): in every other one m_nextIndexs stays above 0
\* whatever is refused, no request has a prevLogIndex that wrapped, and no
\* process ends, however late a session is made and whichever term it is by then.
PrevLogIndexDefined ==
    /\ \A i, j \in Node : i # j /\ state[i] = "Leader" =>
          \/ nextIndex[i][j] >= 1 /\ j \in remoteNodes[i]
          \/ <<i, j, currentTerm[i]>> \in early
    /\ \A i, j \in Node : \A k \in DOMAIN net[i][j] :
          net[i][j][k].prevLogIndex = Wrapped => <<i, j, net[i][j][k].term>> \in early
    /\ \A i \in ended : \E j \in Node : <<i, j, currentTerm[i]>> \in early

----------------------------------------------------------------------------
\* What a comment of the source says and the code does not do: TLC finds it
\* violated.

Holders(i, index) ==
    {j \in Node : HasEntry(entries[i], index) /\ HasEntry(entries[j], index)
                  /\ getEntry(entries[j], index) = getEntry(entries[i], index)}

\* raft_node.cpp:190, a node applies an entry after a majority acknowledged it.
AppliedHasMajority ==
    [][\A i \in Node : applied'[i] # applied[i] =>
          2 * Cardinality(Holders(i, Len(applied'[i]))) > Cardinality(Node)]_vars

----------------------------------------------------------------------------
\* Progress.

\* A node applies what it has in its log while it leads: replication, the commit
\* and the applier keep up.
LeaderApplies ==
    \A i \in Node, n \in 1..(MaxLog - 1) :
        state[i] = "Leader" /\ Len(entries[i]) > n
        ~> Len(applied[i]) >= n \/ state[i] # "Leader"

\* What a leader has applied reaches every node, by the commit index of a later
\* heartbeat.
EveryNodeApplies ==
    \A n \in 1..(MaxLog - 1) :
        (\E i \in Node : state[i] = "Leader" /\ Len(applied[i]) >= n)
        ~> (\A j \in Node : Len(applied[j]) >= n)

=============================================================================
