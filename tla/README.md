# C_RPC in TLA+

C_RPC is a coroutine library for Linux (scheduler, mutexes, channels, timers), an
RPC framework on top of it, and a service registry that is replicated over a
cluster of Raft nodes. These modules model the program's own code under
`src/source/`; the vendored spdlog is left aside. There are four groups: the registry
cluster; what a remote call passes through (scheduler, mutex, condition variable,
channel, session); the timer and the life of the scheduler; and the RPC framework,
that is registry, servers, clients, and the bytes between them.

## The system

| Part | State it keeps | Operations | Hard about it |
|---|---|---|---|
| RaftNode (`raft/raft_node.*`) | role, term, vote, leader hint, next and match indices, two timers, `m_raft_mutex` | election and heartbeat callbacks, `startElection`, `replicateLog`, `raftVote`, `appendEntries`, `run()` with its message handlers | coroutines of one node interleave at every release of the mutex; answers of earlier terms; a mutex that is not released |
| RaftLogger (`raft/raft_logger.h`) | entry vector, commit index, last applied index, address table, `m_mutex` | two `appendEntry`, `getEntry`, `is_newer`, commit index, the applier coroutine | truncation, an early return with the mutex held |
| Coroutine (`coroutine/coroutine.*`) | state READY / BLOCKED / WAITING / TERMINATED, context | `resume`, `yield` | the state is read by other threads |
| Scheduler (`coroutine/scheduler.*`) | task queue, worker threads (4 by default), stop flag | `addTask`, `start`, `stop`, worker loop, timer thread | tasks dropped at start-up and stop; a coroutine resumed while it still runs |
| CoroutineMutex, CoroutineCV, SpinLock (`coroutine/coroutinesync.*`) | lock flag, owner id, wait queue | `lock`, `tryLock`, `unlock`, `wait`, `notify` | a waiter is queued before it has yielded; a wake-up between the two |
| CoroutineChannal (`coroutine/coroutinechannal.h`) | bounded queue, closed flag | `push`, `pop`, `close` | answers against timeouts that close the channel |
| Timer (`coroutine/timer.*`) | set of events ordered by time | add, `resetTime`, `stop`, `wake`, `cancel`, `getExpiredcbs` | events of one millisecond; a cancel after the callback was taken |
| RpcSession (`rpc/rpc_session.h`) | socket, sequence number to channel map | `send`, receiver coroutine, reconnection | nobody receives after a reconnection; a socket that stays connected in name |
| RpcClient, RpcConnectionPool (`rpc/rpc_client.*`, `rpc/rpc_connection_pool.*`) | sessions, address cache | `start`, `call`, discovery, subscription | stale addresses, a timeout against a late answer |
| RpcServer (`rpc/rpc_server.*`) | function table, session to the registry | registration, redirect, deletion, heartbeats, dispatch | a redirect that ends in a timeout; requests for functions it no longer has |
| RpcRegister (`rpc/rpc_register.*`) | sockets by descriptor, addresses, liveness timers | `run`, registration, heartbeats; discovery and publication, which no message reaches | a callback closes a socket while its event waits; descriptors are used again; addresses that outlive their server |
| Message, Serializer (`rpc/rpc_protocol.h`, `util/serializer.h`) | buffer and position | encode, decode; numbers of fixed width, strings and containers behind a size | which overload takes a string; signs; what a truncated buffer reads as |
| Socket (`socket/socket.*`) | a descriptor | `receive` of a message in pieces, `accept`, `close` | short reads, a peer that ends within a message |
| TCPServer, Address, utilities | configuration | system calls | nothing of its own |

A node's `run()` accepts all connections and handles one message at a time. Requests
of other nodes arrive there (`raftVote`, `appendEntries`), and so do those of servers
and clients. Timer callbacks and the coroutines that wait for answers run beside it
on the scheduler's threads. All of them take `m_raft_mutex`, and inside of it the
logger's `m_mutex`; the applier takes only the latter. Calls between nodes go over an
`RpcSession`: a request, a channel for the answer, and a 100 ms timer that closes the
channel.

What makes each part correct: at most one leader per term, a log that agrees with
the leader's, nothing applied that a majority does not hold, every entry applied in
the end, no coroutine blocked for ever (Raft); one holder at a time and no waiter
forgotten (mutex, condition variable); a task runs exactly once and by one thread at
a time (scheduler); an expired event fires exactly once and never early (timer); an
answer reaches its caller or the caller times out (session); a function that is called
is there, a silent server is cut off and one that is heard is not
(registry); what arrives is what was sent (messages). `PROJECT.json` lists under "hazards" where in the code each of these is at risk.

## Modules

| Module | Contents |
|---|---|
| `RaftLogger` | the log of one node as a sequence, and what the methods of `RaftLogger` compute |
| `RaftNode` | the cluster: one action per critical section of `m_raft_mutex`, its properties and fairness |
| `LeaderElection` | the abstract election that other parts may rely on: who leads which term |
| `MCRaft` | instances for TLC |
| `RaftNodeElection_proofs` | proofs: types; the election's invariant, one leader per term, the refinement, the timers |
| `RaftNodeLog_proofs` | proofs: order of a log, where `prevLogIndex` is defined, matching logs, a leader's log only grows, the redirect hint, the leaked mutex |
| `Scheduler` | task queue, workers, states of coroutines, one-shot timer events |
| `CoroutineMutex` | `lock` and `unlock`, step by step; extends `Scheduler` |
| `CoroutineChannal` | `push`, `pop`, `close` and the condition variables below them; extends `CoroutineMutex` |
| `BoundedQueue` | abstract: what a set of channels promises |
| `RpcSession` | calls over one session, its two coroutines, the callbacks of the timers, the peer; extends `CoroutineChannal` |
| `MCRpcSession` | instances for TLC |
| `RpcSession_proofs` | proofs: mutual exclusion of `CoroutineMutex`; the channels implement `BoundedQueue`; answers belong to their calls; no coroutine is forgotten; types |
| `Timer` | the events of the timer's set, with a clock, and every method of events and timer |
| `SchedulerLife` | a scheduler from `start` to `stop`, its worker loop over a real timer; extends `Timer` |
| `SchedulerLife_proofs` | proofs: of the timer, its set stays ordered, nothing comes early, what an event can be lost to; `start` and `stop`; the scheduler implements `TimerSpec` |
| `RpcRegister` | the sockets, the epoll loop and the liveness timers of a registry |
| `RpcRegister_proofs` | proofs: events find their sockets, only silence closes |
| `Registry` | who serves which function: registry nodes, servers, clients |
| `MCRegistry` | an instance for TLC |
| `Registry_proofs` | proofs: a redirect registers nothing, first lives, clients call the first server of their node |
| `Serializer` | pure: what is written for a value of a type, and what is read |
| `Framing` | messages as bytes on a stream; extends `Serializer` |
| `MCFraming` | calls and answers for TLC |
| `Serializer_proofs` | proofs: a value that was written is read; induction for what the operators compute |
| `Framing_proofs` | proofs: where every byte is; values arrive, the receiver ends at a message and waits for no more than one; extends `Serializer_proofs` |

The groups do not share state. Each takes from the others what they show:

- `RaftNode` takes mutual exclusion, re-entrance and calls that end from the coroutine
  library; `RpcSession` and what it extends show how far the library keeps that.
- `Scheduler`, below the session, has workers that always run and events without a time,
  but coroutines that block, are woken and may be run twice. `SchedulerLife` is the same
  loop with both ends and a clock, over coroutines that only run, yield and serve.
- `Registry` takes from `RaftNode` as little as that each node applies what was written
  to some log, once at most for each time it was written, in an order of its own or
  never. `RpcRegister` has the connections that `Registry` leaves out, `Framing` the bytes
  that both leave out.

### How RaftNode stands for the code

The step. Between two releases of `m_raft_mutex` a coroutine runs alone among those
that take it, so a critical section is one action. Where the code releases the
mutex and goes on, there is a new action with a local state in between:

| Code | Actions |
|---|---|
| election timer callback, line 38 | `ElectionTimeout`; it leaves the callback in `starting` |
| `startElection` up to the sends | `StartElection` (or `StartElectionBlocks`), which fixes `ballot` |
| one vote coroutine per peer, line 129 | `CountVote`, `BecomeLeader`, `DeposedByVote` on `voteCall` |
| `raftVote` in the receiver's `run()` | `HandleVote` |
| heartbeat callback, line 56 | `Heartbeat`, once per peer |
| `replicateLog`, one coroutine per peer and leadership | `Replicate`, `ReplicatorQuits`, `ReplicateTimeout`, `ReplicateAcked`, `ReplicateNacked`, `ReplicateOutdated` on `repl` |
| `appendEntries` in the receiver's `run()` | `RefuseAppend`, `HandleAppend`, `HandleAppendMismatch` |
| the coroutine that connects to the others, line 22 | `AddRemoteNode` |
| `m_remote_nodes[nodeId]` without a session, line 268 | `ReplicatorFaults` |
| the session breaks, `rpc_session.h:33` | `Lose` |
| the applier, `raft_logger.h:34` | `Apply` |
| the handlers `handleServerInit`, `handleServiceRegister` | `RegisterBegin`, `RegisterReady`, `RegisterAppend`, `RegisterReply` |

A callback is named by the term it incremented to, a replicator by the term it was
started in: both are unique on a node, and both names survive the term. A replicator
of an earlier leadership that still waits for its answer goes on in a later one, next
to the new one; the model has both, as the code does. That this happens in practice
is a matter of timing: a replicator may wait 100 ms, `wake()` restarts the election
timer's old deadline, and `raftVote` resets that timer only when it grants.

The leaked mutexes. When the follower's search finds no match, `RaftLogger::appendEntry`
returns with `m_mutex` locked and `appendEntries` with `m_raft_mutex` locked, both
owned by the coroutine of `run()`. A `CoroutineMutex` lets its owner in again and the
next handler's `unlock` then frees it. `raftMutex` and `loggerMutex` hold "run" for
that. A coroutine that meets only the second blocks with the first held: "stuck".

Values. `(uint64_t)-1` is `Nil`. A request carries what the handler reads; the fields
of a heartbeat that nobody reads are 0. The op and arguments of an entry are one
value of `Service`. The local `index` of `handleServiceRegister` is not initialised
when a message registers nothing: any value. Elements behind the end of a truncated
vector, which the applier may read: any op.

What the model takes differently, and why nothing is lost by it:

- Vote requests are not ordered on a session (they leave from separate coroutines);
  requests of `appendEntries` are, with at most `MaxNet` in flight.
- A vote call that times out is one whose answer is never consumed; answers without
  effect are left where they are.
- The applier does not run between `setCommitIndex` and `appendEntry` of one request.
  The effect of running there is that of a heartbeat handled just before.
- The backward search of `appendEntry` reads out of bounds when no entry has the
  index; the model takes that for a mismatch.
- The entries of `m_remote_nodes` named in `Late` come at any time and in any order, the
  others are there from the start; the code makes them in ascending order. A leader sets
  `m_nextIndexs` for the entries it finds (line 187) and starts a replicator for every
  node (line 228): the `nextIndex` of the others is 0 or what an earlier leadership left.
  A replicator that finds no entry makes one without a session and follows the null
  pointer: the node is in `ended` and takes no further step.
- `startElection` and the heartbeat callback walk through `m_remote_nodes` without the
  mutex. That an entry comes in the middle of the walk is a race on the map itself; in the
  model it comes before or after.
- `Replicate` computes a request and sends it in one step; the code frees `m_raft_mutex`
  in between (lines 260, 272). That is as if the request took longer, but for two
  replicators of one node that might overtake one another there.
- `handleServerRedirect` reads `m_nodes[-1]` when no leader is known (line 595); a redirect
  changes nothing in the model.
- A session that nobody receives on any more after a reconnection (`RpcSession` shows
  how it comes to that) is one in `Lossy` whose calls time out.
- No coroutine of a node is lost or run twice by the library.
- The loop index at `raft_node.cpp:13` is not initialised. `operator[]` creates the
  missing indices with 0, so `Init` holds either way.
- No state is on disk. A node that restarts is a new node, and the model has no
  crashes.

### How RpcSession and the modules below it stand for the code

A coroutine acts only while a worker runs it: every action of coroutine c has
`Running(c)` in its guard, and `yield` and `Return` give the worker back. A coroutine is
at one place in a function of the session (`pc`), from there in at most one call on a
channel (`at`), and from there in at most one of `lock` or `unlock` (`inCall`). Each of
the three is "out" or resumes when the one below it is.

| Code | Actions |
|---|---|
| `Scheduler::run` | `Take`, `Resume`, `Check`, `PollIdle`, `PollReady`, `PutBack` |
| time, `getExpiredcbs` | `Expire`, `getTaskFromTimer` |
| `CoroutineMutex::lock` | `Lock`, `Enqueue`, `YieldBlocked`, `Retry`, `Own` |
| `CoroutineMutex::unlock` | `Unlock`, `Release`, `Ready`, `Reschedule` |
| `push`, `pop` | `LockChannal`, `Look`, `Act`, then `Notify`, `AddNotified` |
| `CoroutineCV::wait(mutex)` | `Wait`, `Waiting`, `YieldWaiting` |
| `close` with `notifyAll` | `LockChannal`, `BeginClose`, `ClosePush`, `ClosePop`, `AddNotified` |
| `testAndreConnect` | `Connect`, `Adopt` |
| `send` | `Register`, `Registered`, `Submit` |
| `RpcCLient::call`, and the same lines in `raft_node.cpp:145` | `Arm`, `Await`, `Cancel`, `Erase`, `Erased`, `Outcome` |
| the callback of its timer | `Fire`, `CloseChannal`, `Fired` |
| `handle_send` | `TakeRequest`, `Transmit` |
| `handle_receive` | `ReceiveNothing`, `ReceiveAnswer`, `ReceiveEnd`, `CloseSocket`, `Received`, `Deliver`, `Delivered` |
| the peer, the network | `PeerAnswers`, `Break` |

A section under `m_gaurd`, or under the spin lock of a condition variable, is one step.
Where the code calls out of such a section (`wait` unlocks the mutex in it, `notifyAll`
adds tasks in it) the holder is in `cvMutex`. `m_mutex` is a flag in the code; the model
keeps who took it, and no action looks at more than whether it is `Nil`.

The name of a call is that of its coroutine. It stands for the sequence number, the
request, the answer and the response channel, so `message[k] = k` says that a call has
its own answer.

`Undefined`. Two states end what the C++ promises: two threads that run one coroutine on
one stack (`RunsTwice`), and a callback that works on the frame of a call that has
returned (`Dangling`). Both are reachable, the first with two workers, the second with
one: `cancel` comes after `getExpiredcbs` has copied the callback. The model stops
there, and the liveness properties say "or Undefined". A worker thread may also end by
resuming a coroutine whose function has returned: it is then "exited".

What the model takes differently:

- The workers run from the start; `start`, `stop` and the moments in which `addTask`
  refuses a task are in `SchedulerLife`.
- Events have no time. `Expire` may happen to any event at any time after it was added,
  which includes every order that deadlines allow. `Simultaneous` names the pairs that
  may fall into one millisecond; only then `addTimeEvent` may drop one.
- A connection is made or refused in one step. The attempt blocks its thread in
  `epoll_wait`, it does not yield.
- Messages arrive whole. The peer answers a request at most once.
- A request on a broken connection is lost. In the code the second `send` on such a
  socket raises SIGPIPE, which nothing in the program ignores.
- `m_send_channal` is longer than there are calls, as its 1024 is in practice.
- `notify` pops a waiter and marks it READY in one step; the code frees the spin lock
  between the two (`coroutinesync.cpp:75`). Nobody else takes or marks that waiter then.
- `RPC_PUBLISH` messages, `~CoroutineChannal`, `size` and `empty` are left out.

### How Timer and SchedulerLife stand for the code

What a method does under `Timer::m_mutex` is one action; the clock is read outside of
it, by the constructor of an event and by `getExpiredcbs`, and that is another action.
`std::set` orders the events by their millisecond alone: `m_timeEvents` is a function
from times to events, `insert` does nothing where there is one.

| Code | Actions |
|---|---|
| the constructor of `TimeEvent`, then `Timer::addTimeEvent` | `NewTimeEvent`, `addTimeEvent` |
| both `resetTime`, `wake`, `cancel`, `stop`, `setRepeated` and `cancleRepeated` | actions of these names |
| `getExpiredcbs` | `ReadClock`, then `getExpiredcbs` with the mutex |
| `Scheduler::start` and the lambda of each thread | `Start`, `Launch` |
| `while(!addTask(...))` of the programs, `addTask` in a coroutine | `Submit`, `Spawn` |
| `Scheduler::run` | `Loop`, `Take`, `TakeNothing`, `YieldReady`, `YieldOther`, `Leave` |
| `getTaskFromTimer` | `PollBegins`, `Collect`, `AddCallback`, `AddAgain` |
| `stop` and the destructor | `Stop`, `StopSpins`, `StopEnsures` |

Any thread may use any event at any time. A program stops its scheduler only after it has
run a task, as all programs of the repository do. What the model takes differently:

- `addTask` reads the count and the flag before it takes the mutex of the queue. A task
  pushed after the flag changed lies in the queue like one pushed before, so test and
  push are one step.
- A task is a coroutine in `Scheduler`'s sense without its blocking: it runs, yields and
  is READY, ends or waits (both leave the worker), or serves for ever.
- `start` is called once. A second call would destroy joinable threads.
- `getLatestTEOccur` is called nowhere and changes nothing.

### How RpcRegister stands for the code

A handler is one action, and so is a callback; the loop of `run` is between two events
(`at` is `Idle`), at a descriptor of the events that `epoll_wait` returned, or waits in
`receive` for the rest of a message. `m_heartbeat_timers` has no lock in the code, where
a handler and a callback on two threads race on the map itself; the model has the orders
of the two, not that race.

| Code | Actions |
|---|---|
| `epoll_wait`, the loop over its events | `epoll_wait`, `NextEvent` |
| `accept` | `Accept`, `AcceptFails` |
| `handleMsg` and `receive` at the end of a connection | `HandleClosed` |
| `handleCLientInit`, `handleServerInit`, `handleHeartBeat` | actions of these names |
| `Timer::getExpiredcbs` | `getExpiredcbs`, from `armed` to `queued` |
| the callback of the liveness timer, line 178, a task of the scheduler by then | `SilentServer` |
| `addTimeEvent`, `resetTime` over the timer's set | `Arm`, `ResetTimer` with `Insert` |
| the clock | `Tick` |
| `connect`, the `INIT` message, the repeated event of `RpcServer::start`, the end of the process | `Connect`, `Introduce`, `Beat`, `Exit` |

`Accept` takes any free descriptor, as the kernel takes the lowest: that covers each use of a
descriptor by a second connection. A tick is one of the timer's clock, so that two events
with as much left lie in one millisecond of the code, and the set holds one of them
(`timer.cpp:28`, 81): the other is in `lost`. Only the liveness events of this registry are
in the set here. Others share the timer of the process - in a `RaftNode` the two events of
the node and those of its calls - and may take a millisecond away in the same manner; what
is proved for events that are not `lost` would be said of these alike. The timer may take
an event up to `MaxLate` ticks after it is due, by a clock as old. A server beats at any
time, not only each second. A message is whole
(`Framing` has the pieces). `handleServiceRegister` does with connections what
`handleCLientInit` does, nothing; its addresses are in `Registry`. `RaftNode::run` and
`RpcServer::run` have the same loop, line by line; `RaftNode` has the same liveness timers.

### How Registry stands for the code

| Code | Actions |
|---|---|
| the applier of a node | `Apply` |
| `handleServiceRegister` | `Enter`, in the step that takes the answer or for a late request |
| `RpcServer::start`, `run`, the end of the process | `Start`, `Run`, `Crash` |
| `registerFunc`, `registerFunc2Reg`, `RedirectRegister` | `registerFunc`, `Registered`, `Redirected`, `RegisterTimeout`, `RedirectReturns`, `RedirectAgain`, and `HandleLate` for a request nobody waits for any more |
| `deleteFunc`, `deleteFunc2Reg` | `deleteFunc`, `DeleteTimeout`, `DeleteSpins` |
| `RpcCLient::start` | `ClientStart`, `InitAnswered`, `InitTimeout` |
| `RpcCLient::call` with `getRpcSession` and discovery | `Call`, `Discover`, `DiscoverTimeout`, `CallTimeout` |
| `RpcServer::handleCLientRequest`, `call` | `Serve`, `Terminate` |

A server process has one coroutine that registers and deletes (`job`), which is how the
programs of the repository use it. `RPC_SERVER_INIT` names no functions, because
`start()` comes before they are registered. What the model takes differently:

- Which node leads is not kept. Any node may write a registration to its log and answer,
  or redirect to any other; each node applies any of what was written, no matter in which
  order, or never. That covers a leader that answers before its entry is committed
  (`raft_node.cpp:722`) and then loses it, nodes that apply different entries
  (`applied_majority`), and a single `RpcRegister`, which applies what it writes at once
  and never redirects. What the applier reads behind the end of a truncated vector is left
  out.
- Sessions connect in one step, and only to a process that listens.
- A wait may end by its timer at any moment. Whether it does in the end is a matter of
  `RpcSession` and `Timer`; no property here is about it.
- What `RedirectRegister` returns after a timeout is not written in the code; both values
  are taken.
- A null session in `call` (`rpc_client.h:114`) cannot come, because no discovery is ever
  answered.

### How Serializer and Framing stand for the code

`Serializer` is a module of operators: `Bytes` and `Value` are `writeInt8` to
`readUint64`, `Write` and `WriteElement` the overloads of `operator<<` a variable and
an element of a container or tuple take, `Read` and `ReadElement` those of `operator>>`.
A value is read at a position and yields the value, the next position and whether `checkRead`
let it. `Framing` sends messages over one direction of one connection and receives them
in pieces:

| Code | Actions |
|---|---|
| `Message::encode` and `send` | `Send` |
| `recv` in `Socket::receive(void*, size)` | `Recv`, `RecvEnd`, `RecvFails` |
| `Socket::receive(Message&)` | `NextPart`, `HeaderRead` |
| `decode` and what the receiver reads of the content | `Handle` |
| the peer ends | `End` |

`recv` gives one byte or all that is there; other pieces are sequences of these. `End`
loses all or nothing of what has not been received; to lose a part is to lose all after
the rest was received. Sizes are numbers of TLC, so one above 2^31 is read as one that is
too large for its buffer, which it is. An exception in a coroutine is caught nowhere and
ends the process ("terminated"). Floating point numbers, whose bytes are copied,
containers of containers, and the structures of Raft, which are sequences of the types
above, are left out. `Type` and `ValuesOf` say which types and values there are: the
numbers of a type are those of its width, and a `bool` is 0 or 1 of them.

## Runs

| Run | Instance | Checks |
|---|---|---|
| `election` | 5 nodes, two stand in terms 1 and 2, each with the two sessions it needs, one to a common voter | `ElectionInv` (inductive), `OneGrantPerTerm`, `ElectionSafety`, and that `RaftNode` implements `LeaderElection` |
| `replication` | 3 nodes, three leaders in turn, sessions in a ring, one of them late, heartbeats | `TimersMatchRole`, `LeaderHint`, `LogMatching`, `PrevLogIndexDefined`, `LeakNeverMetByLeader` |
| `faults` | 2 nodes, four terms, sessions of n1 lose and time out, registrations | `TypeOK`, `PrevLogIndexDefined`, `LogsOrdered`, `LeaderAppendOnly` |
| `live` | 3 nodes, one leader, heartbeats, fairness | `LeaderApplies`, `EveryNodeApplies` |
| `session` | 1 call, 2 workers, no broken connection | `MutexInv`, `NoCoroutineForgotten`, `AnswerIsOwn`, and that the channels implement `BoundedQueue` |
| `session_live` | 2 calls, 1 worker, timers that may share a millisecond, one broken connection, fairness | `TypeOK`, `EveryCallReturns` |
| `timer` | 3 events, two of them repeated and one of those reset, stopped, woken, cancelled; intervals 1 and 2, one polling thread | `LinkedByTime`, `NeverEarly`, `LostOnlyToTwin` |
| `scheduler` | 2 workers, a task, a task that serves for ever, a repeated event, fairness | `UpUntilStop`, `StopIsFinal`, `QueuedRuns`, `ExpiredIsTaken`, `CallbackRuns`, `StopReturns` |
| `heartbeat` | 2 servers, a client, 2 descriptors, fairness of time and callbacks | `OpenIsFound`, `ClosedInSilence`, `SilentIsClosed` |
| `registry` | 2 nodes, 2 servers of one function, each configured with its own, a client | `RedirectedIsNowhere`, `FunctionIsThere`, `EveryoneCallsTheFirst` |
| `framing` | 3 messages out of 6 requests or 4 answers | `TypeOK`, `ValuesArrive`, `EndsAtMessage`, `DrainedIsRead` |
| `applied_majority` | 3 nodes, a deposed leader | `AppliedHasMajority` is violated |

`applied_majority`: a follower sets its commit index before it compares entries, so a
deposed leader applies its own entry under the number of another.

### Where the code does not do what it seems to promise

The models contain these; the properties are stated around them.

Raft:

- An election callback releases `m_raft_mutex` at `raft_node.cpp:48`. If its node grants
  a vote in a newer term before `startElection` runs, `m_votedFor` is overwritten and the
  node asks for votes in that same term, against the comment at line 364. Two leaders do
  not come of it (`ElectionSafety`): the node is no candidate and counts no grant.
- A refused append leaves both mutexes locked (`raft_logger.h:120`, `raft_node.cpp:449`).
  The node's next election waits for ever at line 37 or in `getLastIndex`.
- A replicator that still waits from an earlier leadership and the new one both
  increment `m_nextIndexs` for one entry (line 332): `m_matchIndexs` runs ahead and the
  leader commits what no follower holds, against the comment at line 335.
- A leader elected before its connecting coroutine is through (line 22) computes
  `prevLogIndex` as 0 - 1 towards a node that is missing (line 257), or ends by the null
  session (line 268). `PrevLogIndexDefined` says that this is the only way to either.
- "Return to the client only when it is applied", says the comment at `raft_node.cpp:720`. The
  loop below it compares `index < m_lastApplied`, the wrong way round: the answer leaves
  before the entry is committed, and a later leader may overwrite it. So nothing lasting is
  said of an answered registration here.
- In `raft_node.cpp`: `m_leaderId < 0` on an unsigned (line 431), a registration appended after
  the node was deposed (line 717; the history variable `strayed`), an entry of an older
  term committed (line 348, against the comment at 346), and a replicator that returns
  after one refusal (line 329).

Coroutines, scheduler, timer:

- `lock` queues its coroutine before it yields (`coroutinesync.cpp:26`). `unlock` on
  another thread adds it to the tasks meanwhile, and the next worker resumes it while it
  still runs. The comment in `lock` names the conflict.
- Between a failed `tryLock` and the queue (line 16) the holder frees the mutex and finds
  nobody waiting. The coroutine that then queues itself is woken only by an unlock that
  need not come.
- An event of the millisecond of another is not inserted (`timer.cpp:81`). Two calls
  whose timeouts fall together have one timer, and the other call waits for ever if its
  answer is lost. A repeated event that is put back on another's millisecond is lost
  for good (`LostOnlyToTwin`).
- `resetTime` of an event that is not in the set erases another with the same time and
  takes its place (`timer.cpp:21`, 37).
- Callbacks that expire before all threads run, and READY coroutines that `addTask`
  refuses, are dropped without a word (`scheduler.cpp:134`, 156). `stop()` never returns while
  a coroutine serves, as `RpcServer::run` does, and if called before all threads are up
  it may throw at its `ENSURE`. While the queue is never empty and nobody yields READY,
  the timer is not polled at all.
- `coroutine_sleep` (`utils.cpp:13`, used nowhere) always throws.

Sessions and calls:

- After end of file `handle_receive` has ended for good; a reconnection starts no other
  (`rpc_session.h:38`). After an error, as a reset is one, `m_is_connected` stays true
  (`socket.cpp:194`) and the session is not even connected again. Every later call
  times out, which `session_live` includes. Sessions made with `connect()` never
  reconnect.
- `RpcCLient::call` returns no value after a timeout (`rpc_client.h:130`), and whatever the
  variable held if only the header of an answer arrived (line 138).

Registry, servers, clients:

- A descriptor keeps its entry in `m_heartbeat_timers` when the server behind it ends
  (`rpc_register.cpp:93`). `emplace` then refuses the timer of the next server on it
  (line 183), whose beats reset the dead one's: it is cut off after 1500 ms though it
  beats (`ClosedInSilence` names this exception).
- A heartbeat that is handled between `getExpiredcbs` and the callback finds no event in the
  set (`timer.cpp:21`), and the callback closes a server that has just been heard.
  `ClosedInSilence` therefore speaks of the silence when the event was taken.
- Two servers whose `INIT`s or beats are handled in one millisecond have one liveness timer
  (`timer.cpp:28`, 81). The other one is never cut off, however silent (`SilentIsClosed`
  excepts what is `lost`).
- An event of a descriptor that a callback closed and `accept` gave to somebody else makes
  `run()` wait in `receive` for that peer, and all others with it.
- `handleMsg` dispatches neither discovery, deletion nor subscription
  (`rpc_register.cpp:102`), so that `publish` has no subscribers, the comment at
  `rpc_client.h:59` notwithstanding. Addresses stay when their server deletes the
  function, is cut off or dies.
- `registerFunc` reports success after a redirect although nothing was registered
  (`rpc_server.cpp:188`); `addRegister` keeps the node of the first redirect for good;
  `RedirectRegister` returns no value after a timeout. `deleteFunc` answered by a
  redirect spins (line 223).
- A client calls the server that was first in the list of its node for as long as it
  runs, dead or not (`EveryoneCallsTheFirst`): `m_addr_to_session` is never filled. Clients
  of nodes that apply in different orders call different servers for good.
- A call of a function that is not there ends the server (`rpc_server.h:51`).

Messages:

- A string that is an element of a container, or an argument of a call, is const and goes
  to the overload that writes nothing (`serializer.h:306`): the argument is missing and
  what follows is read in its place.
- A peer that ends in the middle of a message ends the receiver: what `checkRead` throws
  is caught nowhere.

### Bounds

Operators whose comment begins with "Wrong" are the mutated forms of `PROJECT.json`: each
property of a passing run is violated when one of them replaces the definition it stands
beside, on the same instance, so the instance reaches the case. Nothing else in the modules
uses them.

Raft. `Contest` says which node may time out into which term; a
rivalry needs two nodes in one term, a late answer needs a second term, and a conflict of
logs a leader of a third. `MaxTerm` is the largest term in it. `Connected`, `Lossy` and `Beating`
are the sessions that open, fail and carry heartbeats, `Late` those that a node may make
later than it stands. Votes and entries need a
majority, so the cut sessions leave each candidate its quorum. `MaxLog` 3 allows a
registration behind a no-op. `MaxNet` 1 allows one request per session, 0 in elections
that do not look at logs. `CHECK_DEADLOCK FALSE` is in these configurations because the
bounds end all elections.

Sessions. The races of mutex, condition variable and channel are
between two threads, and one call has enough coroutines for them: itself, sender,
receiver and the callback meet on three mutexes and two channels. Two workers with two
calls or with a broken connection are beyond TLC in the time a run should take. What two
calls do to one another needs no second thread: one worker runs its coroutines in every
order the queue allows, with the expiry of each timer at every point, and `MaxBreaks` 1
ends the receiver before, between or after the answers. `CloseSocket` closes a later
connection only with two threads and a break, which no run has. `CHECK_DEADLOCK FALSE` is
there because a session waits for ever when its calls are over, and because the model
stops where `Undefined` holds.

Timer. A collision needs two events, the erasure of a third's place three.
`MaxTime` 3 lets an event of interval 1 be put back twice and meet one of interval 2. One
thread polls: a second one sees an older clock, and one thread may read the clock and
poll any time later, which is the same. The clock stops, hence `CHECK_DEADLOCK FALSE`.

Scheduler. Two threads are enough for one to be up while the other is not, to leave while
the other runs, and for one to serve while the other works. `StopReturns` and the rest say
"or m_stop" where a stop ends the promise. The program stops, hence `CHECK_DEADLOCK FALSE`.

Heartbeat. Two descriptors for three connections force a descriptor to be used again, by a
server after a server, a server after a client and so on. The interval is two ticks, so
a server may be silent for one of them and still be heard, and two servers may share a
tick or not. `MaxLate` is 0: an event is taken in its tick, and its callback runs any time
later, which is delay enough for a beat to come between. The proofs have any interval and
delay. Deadlock is checked.

Registry. Two nodes, so that a redirect leads somewhere and their lists may differ, and the
two servers are configured with different ones; the first server may crash and come back
once, the second may delete. A redirect to the wrong node is covered, since the node that
is asked may name any other. Clients do not share state: one is enough for what a client
does, and the proofs have any number. Deadlock is checked.

Framing. Three messages, so that one in the middle has a neighbour on each side. The
requests and answers hold each kind of type, numbers at the edges of their width, and
each way a string gets lost. `SizeBound`, 2^24, is above every content, so that a size
fits into the three bytes that `ReadSize` reads as they are. `CHECK_DEADLOCK FALSE`
because the sender has sent all.

### Fairness

`RaftNode` (`FairSpec`) is weakly fair for every coroutine that can go on and every timer that
runs: the scheduler's queue is served in order and a timer re-arms itself. It is
strong for `Replicate` only because the bound `MaxNet`, which the program does not
have, may disable it again and again. Nothing is fair about breaking sessions,
timeouts of calls and clients.

`RpcSession` is weakly fair for each worker's thread, whatever it does next
(operating system), and for the expiry of each timer (time passes). The peer and the
network owe nothing. `EveryCallReturns` rests on the timers, for each call whose timer
was taken into the set; a call whose event fell into the millisecond of the other's
(`timer.cpp:81`) has no timer and comes back once an answer is in its channel. Without
one it waits for ever, which the property excepts.

`SchedulerLife` is weakly fair for each worker's thread and for the main thread. A task
that does not serve gives its worker back in the end, which is what fairness of a worker
in `run` says. The clock and whoever uses the timer owe nothing.

`RpcRegister` is weakly fair for time with the timer's thread, and for the callbacks in the
scheduler's queue. `run()` and the peers owe nothing: `SilentIsClosed` holds while `run()`
waits for somebody's message.

`Registry` has safety properties only.

## Proofs

Raft, for every set of nodes and all bounds:

- `TypeCorrect`. It is inductive by itself.
- `PrevLogIndexCorrect`. `IndexesSet` says that towards a node that was there when a
  leadership began `m_nextIndexs` is at least 1 and an entry stays in `m_remote_nodes`;
  `WrapsEarly` and `EndsEarly` say of requests and of ended processes that their
  leadership began early. A session that comes later does not set `m_nextIndexs`, so the
  history variable `early` names leader, node and term.
- `ElectionInvCorrect`, with `OneGrantCorrect` as its part. `ElectionInv` is inductive
  together with the types. `BallotInv` says that ballots and callbacks are not ahead
  of their node's term; `GrantInv` that a voter neither leads in the term of its grant
  nor votes for a third node; `LeaderInv` that a leader has counted a quorum in its term.
- `TimersCorrect`.
- `LogsOrderedCorrect`, `LeaderHintCorrect`. Both need to know what a request may carry:
  `RequestInv` says that a node that has led the term of the request sent it to another
  node, and that its entry goes one behind `prevLogIndex` and is not older than the entry
  there nor newer than the request. It holds because the sender's log was ordered when it
  sent (`RequestsStep` shows that a request was on its way before or has just been sent),
  and with it a log stays ordered when `appendEntry` cuts and appends. `LogInv` is
  all of this together.

For every odd number of nodes:

- `ElectionSafetyCorrect`. The voters that two winners of a term counted are disjoint
  by `OneGrantPerTerm`, and neither winner is among them by `GrantInv`. With
  `(N + 1) / 2 - 1` voters each that makes more than `N` nodes. With four nodes the
  threshold is two and the theorem is false.
- `RefinesLeaderElection`: `BecomeLeader` is `Elect` because nobody led the term
  before; a step to a newer term is `Advance`; all others stutter.
- `LeaderAppendOnlyCorrect`, `LeakCorrect`. A leader that received a request it does not
  refuse would share its term with the sender (`ReceiverFollows`). So nobody cuts a
  leader's log, and only a follower leaks its logger mutex; it comes to stand for
  election, but asks for no vote in the new term since `startElection` needs that mutex.
- `LogMatchingCorrect`. Agreement of logs alone (`PrefixInv`) is not inductive: a request
  may reach a log that its sender's log no longer agrees with. `MatchInv` therefore
  speaks of every entry with the term of the one before it, in a log or in a request:
  index and term determine both (`SeenOnce`), and a leader of its term has written it
  and, while it leads, has a log that is longer (`SeenFromLeader`). A winner's no-op and
  a leader's registrations are then the only ones of their index and term (`ExtendsMatch`),
  and an entry that a follower takes brings nothing new (`TakesSeen`, `TakesPrefix`). It
  holds until a node that does not lead any more writes a registration (`strayed`), which
  the code lets it do, see above.

Sessions, for every number of coroutines, threads, mutexes, channels and calls:

- `MutexInvCorrect`, that is mutual exclusion of `CoroutineMutex`. `MutexInv` says that
  whoever is between `tryLock` and setting the owner, or between clearing the owner and
  releasing, has the flag, and that an owner has it. It is inductive with the types of
  what it speaks of (`LockInv`) and with the fact that whoever is in a call on a channel
  names one, hence a mutex (`PlaceInv`). It holds through both races above: a waiter that
  runs too early, or never, takes nothing that is not free. (The model, and with it the
  theorem, ends where `Undefined` holds.)
- `RefinesBoundedQueue`: the channels implement `BoundedQueue`, for every capacity. What
  `push` and `pop` find when they look must still hold when they act. `Holds` says that a
  coroutine between the two owns the mutex of its channel (from `MutexInv`, nobody else
  takes the owner's place), `Seen` that what it saw is still so. `Act` is then `Put` or
  `Get`, `BeginClose` is `Close`, and every other step leaves the queues alone.
- `AnswerIsOwnCorrect`. `AnswerInv` ties the place of each coroutine in its function to the
  channel it is at: a call pushes to `Requests` and pops from its own (`CallOK`), the
  receiver pushes to a response channel the answer of that call and nothing else
  (`ReceiverOK`), so such a channel holds copies of one answer, and only a callback that has
  set the flag closes it (`CallbackOK`, `ChannelsOK`). Behind its pop a call then has its
  answer, or its flag is set.
- `NobodyForgotten`. `NoCoroutineForgotten` is not inductive, since a worker decides by
  `m_state`, which lock, wait and notify write in sections of different locks. `Marked` says that a mark other than READY is true, in that the coroutine
  is in a queue of waiters, in the hand of a coroutine that will mark it READY (`Waits`),
  or at its end. That holds because `CoroutineMutex` marks in the section that queues, and
  `CoroutineCV::wait` marks behind it but keeps its own lock until then, so that nobody
  takes the coroutine in between (`Unlocked`, `CvStays`). Whoever has taken one runs until
  it has added it (`Handing`). With `Hands`, a worker between two steps has a coroutine,
  every coroutine that has started and not returned is `Somewhere`.
- `SessionTypeCorrect`, from both.

Timer and scheduler, for every number of events, threads, tasks and intervals:

- `SetIsOrdered`, `NothingComesEarly`, `OnlyTwinsTake`, of `TimerSpec`. The invariant
  `TimerInv` adds to the order of the set that only an added event is in it (or the
  constructor would change a key), that each deadline is one interval behind the last start
  (`DeadlineInv`), and that a poll goes by a clock that is old, never wrong.
- `LifeTypeOK`, `AllUpUntilStop`, `StopEndsEverything`. `CountInv` says what
  `m_runningThreads` counts: the workers between its increment and its decrement. With it
  `addTask` reads off the count where every thread is: none is before the loop once a
  task is in, none leaves before `m_stop`, and none is left when the count is 0 again.
- `SchedulerImplementsTimer`: each step of `SchedulerLife` is one of the timer or leaves
  it alone; `SchedulerIsNeverEarly` carries `NeverEarly` over.

Registry's connections, for every number of connections and descriptors:

- `RegisterType`, `EventsAreFound`, `OnlySilenceCloses`. The event of an open socket has an
  entry under its descriptor (`ArmedInv`); an entry belongs to the socket that is open there,
  or to one whose process ended (`EntryInv`); while an event is found under its own
  descriptor, what is left of it and how long its server has been silent add up to the
  interval (`BeatInv`); and an event that was taken came from such silence, or is not the one
  the beats reset (`QueuedInv`).

Registry, for every number of nodes, servers, clients and functions:

- `RegistryType`, `RedirectedNowhere`, `FirstLifeIsAsked`, `AllCallTheFirst`. The lists of
  each node only grow at their ends, and what a client has begins like those of its
  node (`FirstInv`); whatever names a server and a function, in a log, a list, a session,
  a request or a late registration, names one that the server has had in its first life
  (`KnownInv`, `JobInv`); a registration that still waits, or came back from a redirect, is in
  no log and not late (`NowhereInv`), because the server gives up on it or has an answer
  before either; a client has one request that is not late.

Messages, for all requests and answers, any number of them and every cut of the stream:

- `ConstFound`. What stands for a value in a buffer (`Agrees`: as far as the buffer goes,
  it has the bytes of the value) is read as that value, or `checkRead` throws where the
  buffer ends before (`Found`). It is built up along the types: a number is the value of
  its bytes, with the sign (`ValueOfBytes`, from `ShiftsFacts`), then its size and its
  characters make a string, elements and pairs a container (`ContainerFound`), values a
  tuple (`TupleFound`). Types with a string as an element are not among them (`Kept`).
- What the recursive functions compute is proved by induction over their argument.
  `Induction` states it for a set of numbers, not for a predicate: a set with 0 and with
  the successor of each of its numbers has all of them, since the numbers outside it have
  no least one (`LeastNumber`, from the well-founded order of the library). Each use
  names the set of the lengths for which the claim holds.
- `TypeCorrect`, `ArriveCorrect`, `EndsCorrect`, `DrainedCorrect`. The inductive invariant
  `IInv` says where every byte is: the stream of all messages ever sent (`Layout`) has
  what the receiver holds of its next message at the place where that message begins,
  then what is on its way, then what was lost (`Held`). While the receiver is in a part,
  what it holds and what it waits for reach to the end of that part (`Receiving`, the
  last part ends where the message does, since the size it has read is the one written,
  `SizeOfContent`). A part is left short only when the stream has ended inside a message,
  and then bytes are lost (`HeldDrained`). So a complete content is read as the values
  that were sent (`ContentFound`), an incomplete one throws or holds nothing, and the
  next message begins where this one ends (`HeldHandle`).

The proofs assume the named assumptions on constants that the modules state
(`NodeAssumption`, `BoundAssumption`, `RegistrationAssumption`, `ServiceAssumption`,
`CoroutineAssumption`, `ChannalAssumption`, `SessionAssumption`, `TimerAssumption`,
`SchedulerAssumption`, `RegisterAssumption`, `RegistryAssumption`, `MessageAssumption`),
which the runs evaluate.

Of `SessionAssumption` they need that the calls are finite in number and that calls,
callbacks, sender and receiver are different coroutines, and so are their channels: in the
code they are different objects.

`MessageAssumption` is what C++ guarantees: a call gives each parameter a value of its type,
a function returns one value. That contents are shorter than `SizeBound` is a bound of
the model, see above. In the code `Socket::receive` puts the whole content on the stack of
its coroutine (`socket.cpp:182`), which has 1 MiB (`config.h:31`): a content near that size
overruns it, and the models say nothing of that.

Every invariant and every action property that a passing run checks has a theorem, and
the types of `SchedulerLife`, `RpcRegister` and `Registry` are proved though no run names
them. Only model-checked: everything about progress, that is `live`,
`EveryCallReturns` and the leads-to properties of the other runs (liveness under
fairness and ENABLED are out of the proof system's reach).

## Plan

Done: the cluster, the coroutine library, calls over a session, the timer, the life of a
scheduler, the registry with its servers and clients, messages. What would come next:

1. `RaftNode` with `Registry` above it, to say which registrations do last: those that a
   majority has. The answer does not tell (line 722).
2. Two workers with a broken connection in `RpcSession`, by a coarser scheduler that
   `Scheduler` is shown to implement.

## Not modelled

- spdlog, vendored: about 26 000 of the 30 900 lines under `src/`. The program's own
  code is about 5 100.
- `TCPServer`, `Address`, options of sockets: sequences of system calls.
  Logging and configuration: text.
- `handleServiceDiscover`, `handleServiceDelete`, `handleSubscribe` and `publish`, of
  `RpcRegister` and of `RaftNode`, and `subscribe`'s answers at the client: no message
  reaches them. Methods that nothing calls (of the connection pool, the channel, the timer
  and the condition variable), and destructors.
- Restarts of Raft nodes: no state is on disk, a node that restarts is a new node.
