-------------------------------- MODULE RpcRegister --------------------------------
(***************************************************************************)
(* The connections of the registry and the liveness timers of the servers  *)
(* behind them: the epoll loop of RpcRegister::run, its handlers, and the  *)
(* callback that closes the connection of a server that stays silent. What *)
(* the handlers do with addresses is in Registry.                          *)
(*                                                                         *)
(* run() and the callbacks are coroutines on several threads. A handler    *)
(* and a callback are atomic here; between two of them anything may come.  *)
(* The program does not enforce that: m_heartbeat_timers has no lock.      *)
(*                                                                         *)
(* Time is counted in ticks of the clock by which the timer's set orders   *)
(* its events, as what is left of an event. Timer has the set itself. An   *)
(* event runs once, and there is one for each server's connection, so it   *)
(* has the connection's name. The timer takes an event when it is due or   *)
(* later; the callback is a task of the scheduler and runs later still.    *)
(***************************************************************************)
EXTENDS Integers, FiniteSets, Sequences

CONSTANTS Conn,     \* connections, each opened once by some process
          Server,   \* those of them that an RpcServer opens
          Fd,       \* file descriptors that accept() may return
          Timeout,  \* the interval of the liveness timer: 1500 ms
          MaxLate,  \* bound: the timer takes an event so many ticks after it is due
          MaxInbox  \* bound: messages under way on one connection

ASSUME RegisterAssumption ==
    /\ Server \subseteq Conn
    /\ Fd \subseteq Nat \ {0}
    /\ Timeout \in Nat \ {0}
    /\ MaxLate \in Nat
    /\ MaxInbox \in Nat

Unaccepted == 0   \* the connection waits in the backlog
Closed == -1      \* Socket::close()
Listen == 0       \* the descriptor of m_listenSocket
Idle == -1        \* run() waits for events

VARIABLES peer,        \* the process at the other end of a connection
          inbox,       \* its messages that the registry has not read
          m_sockfd,    \* the registry's Socket
          m_clientSockets, m_heartbeat_timers,
          armed, left, \* events in the timer's set, and how long until they are due
          queued,      \* events taken from it whose callback has not run
          events,      \* descriptors epoll_wait returned that are not done
          at,          \* the one that run() is at
          silent,      \* history: time since the last message of a server was handled
          quiet,       \* history: servers silent for the interval when their event
                       \* was taken
          lost         \* history: servers whose event gave way to another

peerVars == <<peer, inbox>>
sockVars == <<m_sockfd, m_clientSockets>>
timerVars == <<m_heartbeat_timers, armed, left, queued>>
loopVars == <<events, at>>
history == <<silent, quiet, lost>>
vars == <<peerVars, sockVars, timerVars, loopVars, history>>

\* A time before that of every event in the set.
Past == -MaxLate - 1

Message == {"RPC_CLIENT_INIT", "RPC_SERVER_INIT", "HEART_BEAT"}

TypeOK ==
    /\ peer \in [Conn -> {"none", "connected", "open", "gone"}]
    /\ inbox \in [Conn -> Seq(Message)]
    /\ m_sockfd \in [Conn -> Fd \cup {Unaccepted, Closed}]
    /\ DOMAIN m_clientSockets \subseteq Fd
    /\ m_clientSockets \in [DOMAIN m_clientSockets -> Conn]
    /\ DOMAIN m_heartbeat_timers \subseteq Fd
    /\ m_heartbeat_timers \in [DOMAIN m_heartbeat_timers -> Server]
    /\ armed \subseteq Server
    /\ left \in [Conn -> Past..Timeout]
    /\ queued \subseteq Server
    /\ silent \in [Conn -> 0..Timeout]
    /\ quiet \subseteq Server
    /\ lost \subseteq Server
    /\ events \subseteq Fd \cup {Listen}
    /\ at \in Fd \cup {Listen, Idle}

Init ==
    /\ peer = [c \in Conn |-> "none"]
    /\ inbox = [c \in Conn |-> <<>>]
    /\ m_sockfd = [c \in Conn |-> Unaccepted]
    /\ m_clientSockets = [fd \in {} |-> 0]
    /\ m_heartbeat_timers = [fd \in {} |-> 0]
    /\ armed = {}
    /\ left = [c \in Conn |-> Past]
    /\ queued = {}
    /\ events = {}
    /\ at = Idle
    /\ silent = [c \in Conn |-> Timeout]
    /\ quiet = {}
    /\ lost = {}

\* map::erase and operator[]
Without(map, key) == [k \in DOMAIN map \ {key} |-> map[k]]
With(map, key, value) == [k \in DOMAIN map \cup {key} |-> IF k = key THEN value ELSE map[k]]

\* map::emplace leaves an entry as it is.
emplace(map, key, value) == IF key \in DOMAIN map THEN map ELSE With(map, key, value)

IsOpen(c) == m_sockfd[c] \in Fd

-----------------------------------------------------------------------------
(* The processes that connect.                                             *)

\* start() of an RpcServer or an RpcClient: connect(), and then handle_send runs.
Connect(c) ==
    /\ peer[c] = "none"
    /\ peer' = [peer EXCEPT ![c] = "connected"]
    /\ UNCHANGED <<inbox, sockVars, timerVars, loopVars, history>>

Introduce(c) ==
    /\ peer[c] = "connected"
    /\ peer' = [peer EXCEPT ![c] = "open"]
    /\ inbox' = [inbox EXCEPT ![c] =
                    <<IF c \in Server THEN "RPC_SERVER_INIT" ELSE "RPC_CLIENT_INIT">>]
    /\ UNCHANGED <<sockVars, timerVars, loopVars, history>>

\* The repeated event of RpcServer::start, as late as it may be.
Beat(c) ==
    /\ c \in Server
    /\ peer[c] = "open"
    /\ m_sockfd[c] # Closed
    /\ Len(inbox[c]) < MaxInbox
    /\ inbox' = [inbox EXCEPT ![c] = Append(@, "HEART_BEAT")]
    /\ UNCHANGED <<peer, sockVars, timerVars, loopVars, history>>

\* The process ends. What it has sent can still be read.
Exit(c) ==
    /\ peer[c] \in {"connected", "open"}
    /\ peer' = [peer EXCEPT ![c] = "gone"]
    /\ UNCHANGED <<inbox, sockVars, timerVars, loopVars, history>>

-----------------------------------------------------------------------------
(* run()                                                                   *)

\* epoll forgets a socket that is closed.
Readable == {fd \in Fd : \E c \in Conn : m_sockfd[c] = fd /\ (inbox[c] # <<>> \/ peer[c] = "gone")}

Backlog == {c \in Conn : peer[c] # "none" /\ m_sockfd[c] = Unaccepted}

\* The for loop goes on to one of the events, or is through with them.
NextEvent(set) ==
    \/ set = {} /\ at' = Idle /\ events' = {}
    \/ \E fd \in set : at' = fd /\ events' = set \ {fd}

Done == NextEvent(events)

epoll_wait ==
    /\ at = Idle
    /\ Readable \cup Backlog # {}
    /\ NextEvent(Readable \cup IF Backlog = {} THEN {} ELSE {Listen})
    /\ UNCHANGED <<peerVars, sockVars, timerVars, history>>

\* The kernel takes a descriptor that is free.
Accept(c, fd) ==
    /\ at = Listen
    /\ c \in Backlog
    /\ \A d \in Conn : m_sockfd[d] # fd
    /\ m_sockfd' = [m_sockfd EXCEPT ![c] = fd]
    /\ m_clientSockets' = With(m_clientSockets, fd, c)
    /\ Done
    /\ UNCHANGED <<peerVars, timerVars, history>>

\* No descriptor is free: the connection stays in the backlog.
AcceptFails(c) ==
    /\ at = Listen
    /\ c \in Backlog
    /\ {fd \in Fd : \A d \in Conn : m_sockfd[d] # fd} = {}
    /\ Done
    /\ UNCHANGED <<peerVars, sockVars, timerVars, history>>

\* handleMsg finds c and reads from it. With nothing to read it yields until there is
\* something, and the whole loop waits with it. OpenIsFound: it always finds somebody.
Reads(c) ==
    /\ at \in DOMAIN m_clientSockets
    /\ m_clientSockets[at] = c

\* End of file, or a read from the descriptor -1.
HandleClosed(c) ==
    /\ Reads(c)
    /\ ~IsOpen(c) \/ (inbox[c] = <<>> /\ peer[c] = "gone")
    /\ m_sockfd' = [m_sockfd EXCEPT ![c] = Closed]
    /\ m_clientSockets' = Without(m_clientSockets, at)
    /\ Done
    /\ UNCHANGED <<peerVars, timerVars, history>>

Receive(c, message) ==
    /\ Reads(c)
    /\ IsOpen(c)
    /\ inbox[c] # <<>>
    /\ Head(inbox[c]) = message
    /\ inbox' = [inbox EXCEPT ![c] = Tail(@)]
    /\ Done
    /\ UNCHANGED <<peer, sockVars>>

\* Nothing here depends on the answer.
handleCLientInit(c) ==
    /\ Receive(c, "RPC_CLIENT_INIT")
    /\ UNCHANGED <<timerVars, history>>

\* The events of a set that are due in so many ticks: one, or none.
DueIn(set, time) == {u \in set : left[u] = time}

\* insert() of the event e, due in a whole interval. It leaves the set as it is when
\* another event has that time.
Insert(e, set) == IF DueIn(set, Timeout) = {} THEN set \cup {e} ELSE set

\* The events that are in the set no more, and have not been taken.
Loses(gone) == lost' = (lost \cup gone) \ armed'

Arm(c) ==
    /\ armed' = Insert(c, armed)
    /\ left' = [left EXCEPT ![c] = Timeout]
    /\ Loses({c})

Heard(c) == silent' = [silent EXCEPT ![c] = 0] /\ UNCHANGED quiet

handleServerInit(c) ==
    /\ Receive(c, "RPC_SERVER_INIT")
    /\ m_heartbeat_timers' = emplace(m_heartbeat_timers, m_sockfd[c], c)
    /\ Arm(c)
    /\ Heard(c)
    /\ UNCHANGED queued

\* Wrong: the interval runs on.
ResetNothing(c) == UNCHANGED <<armed, left, lost>>

\* resetTime of the event under the descriptor, if any. find() sees an event by its time
\* alone: an event that is not in the set is not found, or another with its time is, and
\* goes in its stead.
ResetTimer(c) ==
    \/ /\ m_sockfd[c] \in DOMAIN m_heartbeat_timers
       /\ LET e == m_heartbeat_timers[m_sockfd[c]]
              found == DueIn(armed, left[e])
          IN  /\ found # {}
              /\ armed' = Insert(e, armed \ found)
              /\ left' = [left EXCEPT ![e] = Timeout]
              /\ Loses(found \cup {e})
    \/ /\ m_sockfd[c] \in DOMAIN m_heartbeat_timers =>
               DueIn(armed, left[m_heartbeat_timers[m_sockfd[c]]]) = {}
       /\ UNCHANGED <<armed, left, lost>>

\* The event that is reset is the one found under the descriptor, if any.
handleHeartBeat(c) ==
    /\ Receive(c, "HEART_BEAT")
    /\ ResetTimer(c)
    /\ Heard(c)
    /\ UNCHANGED <<m_heartbeat_timers, queued>>

-----------------------------------------------------------------------------
(* Time.                                                                   *)

Tick ==
    /\ \A c \in armed : left[c] > -MaxLate
    /\ left' = [c \in Conn |-> IF left[c] > Past THEN left[c] - 1 ELSE Past]
    /\ silent' = [c \in Conn |-> IF silent[c] < Timeout THEN silent[c] + 1 ELSE Timeout]
    /\ UNCHANGED <<peerVars, sockVars, loopVars, m_heartbeat_timers, armed, queued, quiet,
                   lost>>

\* Every event that is due goes, by a clock that may have been read some ticks ago.
getExpiredcbs ==
    \E late \in 0..MaxLate :
        LET expired == {c \in armed : left[c] <= -late} IN
        /\ expired # {}
        /\ armed' = armed \ expired
        /\ queued' = queued \cup expired
        /\ quiet' = quiet \cup {c \in expired : silent[c] = Timeout}
        /\ UNCHANGED <<peerVars, sockVars, loopVars, m_heartbeat_timers, left, silent, lost>>

Called(c) ==
    /\ c \in queued
    /\ queued' = queued \ {c}
    /\ quiet' = quiet \ {c}

\* Wrong: the socket is closed only if the entry of its descriptor is the event's own.
SilentServerIfOwn(c) ==
    /\ Called(c)
    /\ LET own == m_sockfd[c] \in DOMAIN m_heartbeat_timers
                    /\ m_heartbeat_timers[m_sockfd[c]] = c
       IN  /\ m_sockfd' = IF own THEN [m_sockfd EXCEPT ![c] = Closed] ELSE m_sockfd
           /\ m_heartbeat_timers' = IF own THEN Without(m_heartbeat_timers, m_sockfd[c])
                                    ELSE m_heartbeat_timers
    /\ inbox' = [inbox EXCEPT ![c] = <<>>]
    /\ UNCHANGED <<peer, m_clientSockets, loopVars, armed, left, silent, lost>>

\* Wrong: the socket goes out of m_clientSockets too, under the key of the event.
CloseAndForget(c) ==
    LET key(fd) == fd \in DOMAIN m_heartbeat_timers /\ m_heartbeat_timers[fd] = c IN
    /\ m_sockfd' = [m_sockfd EXCEPT ![c] = Closed]
    /\ m_clientSockets' =
           [fd \in {k \in DOMAIN m_clientSockets : ~key(k)} |-> m_clientSockets[fd]]

\* The callback closes its socket, whoever was heard since its event was taken. What
\* was not read is lost.
Close(c) ==
    /\ m_sockfd' = [m_sockfd EXCEPT ![c] = Closed]
    /\ UNCHANGED m_clientSockets

\* Whatever it finds under the descriptor of that socket, which is -1 when the socket is
\* closed already, it erases.
SilentServer(c) ==
    /\ Called(c)
    /\ m_heartbeat_timers' = Without(m_heartbeat_timers, m_sockfd[c])
    /\ Close(c)
    /\ inbox' = [inbox EXCEPT ![c] = <<>>]
    /\ UNCHANGED <<peer, loopVars, armed, left, silent, lost>>

-----------------------------------------------------------------------------
Peers == \E c \in Conn : Connect(c) \/ Introduce(c) \/ Beat(c) \/ Exit(c)

Run ==
    \/ epoll_wait
    \/ \E c \in Conn : \/ \E fd \in Fd : Accept(c, fd)
                       \/ AcceptFails(c)
                       \/ HandleClosed(c)
                       \/ handleCLientInit(c)
                       \/ handleServerInit(c)
                       \/ handleHeartBeat(c)

Callback == \E c \in Server : SilentServer(c)

Next == Peers \/ Run \/ Tick \/ getExpiredcbs \/ Callback

Spec == Init /\ [][Next]_vars

\* Time passes, and the timer takes what is due before it is overdue by more than MaxLate;
\* the scheduler runs its tasks, some time.
FairSpec == Spec /\ WF_vars(Tick \/ getExpiredcbs) /\ WF_vars(Callback)

-----------------------------------------------------------------------------
(* Properties.                                                             *)

\* An open socket is the one that m_clientSockets has under its descriptor, and an event
\* of run() finds a socket there, though descriptors are closed by callbacks and used
\* again: handleMsg drops what it does not find (rpc_register.cpp:83).
OpenIsFound ==
    /\ \A c \in Conn : IsOpen(c) => /\ m_sockfd[c] \in DOMAIN m_clientSockets
                                    /\ m_clientSockets[m_sockfd[c]] = c
    /\ \A fd \in Fd : fd \in events \/ at = fd => fd \in DOMAIN m_clientSockets

\* The connection of a server that has not ended is closed only if the registry had
\* handled nothing from it for the whole interval when its event was taken; a beat that
\* comes between that and the callback does not save it (timer.cpp:21). The exception:
\* the descriptor was that of a server that ended, whose entry in m_heartbeat_timers
\* nobody removes (rpc_register.cpp:93 erases the socket alone). Then emplace (line 183)
\* keeps the old event, the beats reset that one, and the new server is cut off though
\* it beats.
ClosedInSilence ==
    [][\A c \in Server : IsOpen(c) /\ m_sockfd'[c] = Closed /\ peer[c] # "gone" =>
          \/ c \in quiet
          \/ \E d \in Server \ {c} :
                /\ m_sockfd[c] \in DOMAIN m_heartbeat_timers
                /\ m_heartbeat_timers[m_sockfd[c]] = d
                /\ peer[d] = "gone"]_vars

\* A server that stays silent after its INIT loses its connection, even while run() waits
\* for somebody else's message. The exception: its event fell into the millisecond of
\* another's, and was not inserted (timer.cpp:28, 81) or was erased for that one when it
\* was reset (line 21); then nobody watches the server.
SilentIsClosed ==
    \A c \in Server :
        (IsOpen(c) /\ silent[c] = 1) ~> (silent[c] = 0 \/ m_sockfd[c] = Closed \/ c \in lost)

=============================================================================
