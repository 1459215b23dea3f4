---------------------------- MODULE RpcRegister_proofs ----------------------------
(***************************************************************************)
(* The connections of the registry, for every number of connections and    *)
(* descriptors: run() finds a socket for every event, and a server loses   *)
(* its connection only after a silent interval or to a dead server's timer.*)
(*                                                                         *)
(* Four facts carry the second result. The event of an open socket has an  *)
(* entry under the socket's descriptor. An entry belongs to the socket that*)
(* is open on the descriptor, or to one whose process ended. As long as an *)
(* event is found under its own descriptor, what is left of it and how long*)
(* its server has been silent add up to the interval. And an event that was*)
(* taken was so late, or is not the one that the beats reset.              *)
(***************************************************************************)
EXTENDS RpcRegister, TLAPS

\* run() is done with an event before epoll_wait can return it again.
LoopInv == at \notin events

\* Only an RpcServer sends RPC_SERVER_INIT.
InboxInv ==
    \A c \in Conn : \A i \in DOMAIN inbox[c] :
        inbox[c][i] = "RPC_SERVER_INIT" => c \in Server

ArmedInv ==
    \A c \in armed : /\ m_sockfd[c] # Unaccepted
                     /\ IsOpen(c) => m_sockfd[c] \in DOMAIN m_heartbeat_timers

EntryInv ==
    \A fd \in DOMAIN m_heartbeat_timers :
        \/ m_sockfd[m_heartbeat_timers[fd]] = fd
        \/ /\ m_sockfd[m_heartbeat_timers[fd]] = Closed
           /\ peer[m_heartbeat_timers[fd]] = "gone"

BeatInv ==
    \A c \in armed : IsOpen(c) /\ m_heartbeat_timers[m_sockfd[c]] = c =>
                         /\ left[c] >= 0 => left[c] + silent[c] = Timeout
                         /\ left[c] <= 0 => silent[c] = Timeout

\* The entry under the socket's descriptor is that of a server which ended.
Inherits(c) == \E d \in Server \ {c} : /\ m_sockfd[c] \in DOMAIN m_heartbeat_timers
                                       /\ m_heartbeat_timers[m_sockfd[c]] = d
                                       /\ peer[d] = "gone"

QueuedInv ==
    \A c \in queued : /\ m_sockfd[c] # Unaccepted
                      /\ IsOpen(c) => c \in quiet \/ Inherits(c)

TimerInv == ArmedInv /\ EntryInv /\ BeatInv /\ QueuedInv

IInv == TypeOK /\ OpenIsFound /\ LoopInv /\ InboxInv /\ TimerInv

\* What stands for no descriptor is none.
LEMMA FdFacts == Fd \subseteq Nat /\ Unaccepted \notin Fd /\ Closed \notin Fd
                 /\ Listen \notin Fd /\ Idle \notin Fd \cup {Listen}
BY RegisterAssumption DEF Unaccepted, Closed, Listen, Idle

\* The bounds of time.
LEMMA TimeFacts == /\ Timeout \in Nat \ {0} /\ MaxLate \in Nat /\ Past \in Int
                   /\ Past < -MaxLate /\ Past < 0
BY RegisterAssumption DEF Past

\* The entry under an open socket's descriptor is its own, or of a server that ended.
LEMMA OwnOrInherits ==
    ASSUME TypeOK, OpenIsFound, EntryInv, NEW c \in Server, IsOpen(c),
           m_sockfd[c] \in DOMAIN m_heartbeat_timers, m_heartbeat_timers[m_sockfd[c]] # c
    PROVE  Inherits(c)
<1>1. PICK u \in Server : u = m_heartbeat_timers[m_sockfd[c]]
  BY DEF TypeOK
<1>2. m_sockfd[u] # m_sockfd[c]
  BY <1>1, RegisterAssumption DEF OpenIsFound, IsOpen
<1> QED BY <1>1, <1>2 DEF EntryInv, Inherits

\* No two open sockets have the same descriptor.
LEMMA OneSocket ==
    ASSUME OpenIsFound, NEW c \in Conn, NEW d \in Conn, IsOpen(c), m_sockfd[c] = m_sockfd[d]
    PROVE  c = d
BY DEF OpenIsFound, IsOpen

-----------------------------------------------------------------------------
(* Steps that leave the sockets and the timers alone.                      *)

\* A step that changes neither sockets nor timers, after which who ended has ended.
LEMMA TimerStays ==
    ASSUME TypeOK, TimerInv, UNCHANGED <<sockVars, timerVars, history>>,
           \A c \in Conn : peer[c] = "gone" => peer'[c] = "gone"
    PROVE  TimerInv'
<1> USE DEF TimerInv
<1>1. UNCHANGED <<m_sockfd, m_heartbeat_timers, armed, left, queued, silent, quiet>>
  BY DEF sockVars, timerVars, history
<1>2. ArmedInv' /\ BeatInv'
  BY <1>1 DEF ArmedInv, BeatInv, IsOpen
<1>3. EntryInv'
  BY <1>1, RegisterAssumption DEF EntryInv, TypeOK
<1>4. QueuedInv'
  BY <1>1, RegisterAssumption DEF QueuedInv, Inherits, IsOpen
<1> QED BY <1>2, <1>3, <1>4

\* What the peers do: they say or send something, or end.
LEMMA PeersKeep == IInv /\ Peers => IInv'
<1> SUFFICES ASSUME IInv, Peers PROVE IInv'
  OBVIOUS
<1> USE DEF IInv
<1>1. UNCHANGED <<sockVars, timerVars, loopVars, history>>
  BY DEF Peers, Connect, Introduce, Beat, Exit
<1>2. peer' \in [Conn -> {"none", "connected", "open", "gone"}]
  BY DEF Peers, Connect, Introduce, Beat, Exit, TypeOK
<1>3. \A c \in Conn : peer[c] = "gone" => peer'[c] = "gone"
  BY DEF Peers, Connect, Introduce, Beat, Exit, TypeOK
<1>4. inbox' \in [Conn -> Seq(Message)] /\ InboxInv'
  <2>0. inbox \in [Conn -> Seq(Message)]
    BY DEF TypeOK
  <2>1. CASE \E c \in Conn : Connect(c) \/ Exit(c)
    BY <2>0, <2>1 DEF Connect, Exit, InboxInv
  <2>2. CASE \E c \in Conn : Introduce(c)
    BY <2>0, <2>2 DEF Introduce, InboxInv, Message
  <2>3. CASE \E c \in Conn : Beat(c)
    BY <2>0, <2>3 DEF Beat, InboxInv, Message
  <2> QED BY <2>1, <2>2, <2>3 DEF Peers
<1>5. TypeOK'
  BY <1>1, <1>2, <1>4 DEF TypeOK, sockVars, timerVars, loopVars, history
<1>6. TimerInv'
  BY <1>1, <1>3, TimerStays
<1>7. OpenIsFound' /\ LoopInv'
  BY <1>1 DEF OpenIsFound, LoopInv, IsOpen, sockVars, loopVars
<1> QED BY <1>4, <1>5, <1>6, <1>7

\* The loop goes on to the next event it was given.
LEMMA NextEventKeeps ==
    ASSUME NEW set, set \subseteq Fd \cup {Listen}, NextEvent(set)
    PROVE  /\ LoopInv'
           /\ events' \subseteq Fd \cup {Listen}
           /\ at' \in Fd \cup {Listen, Idle}
           /\ \A fd \in Fd : fd \in events' \/ at' = fd => fd \in set
BY FdFacts DEF LoopInv, NextEvent

\* The events that epoll_wait returns are of open sockets.
LEMMA WaitKeeps == IInv /\ epoll_wait => IInv'
<1> SUFFICES ASSUME IInv, epoll_wait PROVE IInv'
  OBVIOUS
<1> USE DEF IInv
<1> DEFINE set == Readable \cup IF Backlog = {} THEN {} ELSE {Listen}
<1>1. UNCHANGED <<peerVars, sockVars, timerVars, history>> /\ NextEvent(set)
  BY DEF epoll_wait
<1>2. set \subseteq Fd \cup {Listen}
  BY DEF Readable
<1>3. \A fd \in Fd : fd \in set => fd \in DOMAIN m_clientSockets
  BY FdFacts DEF Readable, OpenIsFound, IsOpen
<1> HIDE DEF set
<1>4. OpenIsFound'
  BY <1>1, <1>2, <1>3, NextEventKeeps DEF OpenIsFound, IsOpen, sockVars
<1>5. TypeOK' /\ LoopInv'
  BY <1>1, <1>2, NextEventKeeps DEF TypeOK, peerVars, sockVars, timerVars, history
<1>6. InboxInv' /\ TimerInv'
  BY <1>1, TimerStays DEF InboxInv, peerVars
<1> QED BY <1>4, <1>5, <1>6

\* run() goes back to its loop.
LEMMA DoneKeeps ==
    ASSUME IInv, Done
    PROVE  /\ LoopInv'
           /\ events' \subseteq Fd \cup {Listen}
           /\ at' \in Fd \cup {Listen, Idle}
           /\ \A fd \in Fd : fd \in events' \/ at' = fd => fd \in events /\ fd # at
<1>1. events \subseteq Fd \cup {Listen} /\ at \notin events /\ NextEvent(events)
  BY DEF IInv, TypeOK, LoopInv, Done
<1> QED BY <1>1, NextEventKeeps

-----------------------------------------------------------------------------
(* accept() and the end of a connection.                                   *)

\* accept() gives a connection a descriptor that is free.
LEMMA AcceptKeeps ==
    ASSUME IInv, NEW c \in Conn, NEW fd \in Fd, Accept(c, fd)
    PROVE  IInv'
<1> USE DEF IInv
<1>0. /\ m_sockfd \in [Conn -> Fd \cup {Unaccepted, Closed}]
      /\ m_sockfd[c] = Unaccepted
      /\ \A d \in Conn : m_sockfd[d] # fd
      /\ at = Listen
  BY DEF TypeOK, Accept, Backlog
<1>1. /\ UNCHANGED <<peerVars, timerVars, history>>
      /\ m_sockfd' = [m_sockfd EXCEPT ![c] = fd]
      /\ m_clientSockets' = With(m_clientSockets, fd, c)
  BY DEF Accept
<1>2. /\ DOMAIN m_clientSockets' = DOMAIN m_clientSockets \cup {fd}
      /\ \A k \in DOMAIN m_clientSockets' :
            m_clientSockets'[k] = IF k = fd THEN c ELSE m_clientSockets[k]
      /\ m_clientSockets' = [k \in DOMAIN m_clientSockets' |-> m_clientSockets'[k]]
  BY <1>1 DEF With
<1>3. TypeOK'
  <2>1. /\ DOMAIN m_clientSockets' \subseteq Fd
        /\ m_clientSockets' \in [DOMAIN m_clientSockets' -> Conn]
    BY <1>2 DEF TypeOK
  <2>2. m_sockfd' \in [Conn -> Fd \cup {Unaccepted, Closed}]
    BY <1>0, <1>1
  <2> QED BY <1>1, <2>1, <2>2, DoneKeeps DEF Accept, TypeOK, peerVars, timerVars, history
<1>4. OpenIsFound'
  <2>1. \A d \in Conn : IsOpen(d)' => /\ m_sockfd'[d] \in DOMAIN m_clientSockets'
                                      /\ m_clientSockets'[m_sockfd'[d]] = d
    BY <1>0, <1>1, <1>2, FdFacts DEF OpenIsFound, IsOpen
  <2>2. \A k \in Fd : k \in events' \/ at' = k => k \in DOMAIN m_clientSockets'
    BY <1>2, DoneKeeps DEF Accept, OpenIsFound
  <2> QED BY <2>1, <2>2 DEF OpenIsFound
<1>5. \A d \in Conn : d \in armed \cup queued => d # c /\ m_sockfd'[d] = m_sockfd[d]
  BY <1>0, <1>1 DEF TimerInv, ArmedInv, QueuedInv
<1>6. ArmedInv' /\ BeatInv'
  BY <1>1, <1>5, RegisterAssumption
     DEF TypeOK, TimerInv, ArmedInv, BeatInv, IsOpen, timerVars, history
<1>9. QueuedInv'
  BY <1>1, <1>5, RegisterAssumption
     DEF TypeOK, TimerInv, QueuedInv, Inherits, IsOpen, peerVars, timerVars, history
<1>7. EntryInv'
  <2>1. \A k \in DOMAIN m_heartbeat_timers :
           /\ m_heartbeat_timers[k] \in Conn \ {c}
           /\ k \in Fd
    BY <1>0, FdFacts, RegisterAssumption DEF TypeOK, TimerInv, EntryInv, Closed, Unaccepted
  <2>2. \A d \in Conn \ {c} : m_sockfd'[d] = m_sockfd[d]
    BY <1>0, <1>1
  <2> QED BY <1>1, <2>1, <2>2 DEF TimerInv, EntryInv, peerVars, timerVars
<1>8. InboxInv' /\ LoopInv'
  BY <1>1, DoneKeeps DEF Accept, InboxInv, peerVars
<1> QED BY <1>3, <1>4, <1>6, <1>7, <1>8, <1>9 DEF TimerInv

\* accept() fails and changes nothing but the place in the loop.
LEMMA AcceptFailsKeeps ==
    ASSUME IInv, NEW c \in Conn, AcceptFails(c)
    PROVE  IInv'
<1> USE DEF IInv
<1>1. UNCHANGED <<peerVars, sockVars, timerVars, history>>
  BY DEF AcceptFails
<1>2. TypeOK' /\ OpenIsFound' /\ LoopInv'
  BY <1>1, DoneKeeps
     DEF AcceptFails, TypeOK, OpenIsFound, IsOpen, peerVars, sockVars, timerVars, history
<1>3. InboxInv' /\ TimerInv'
  BY <1>1, TimerStays DEF InboxInv, peerVars
<1> QED BY <1>2, <1>3

\* The socket and its entry go, and nobody else is open on that descriptor.
LEMMA HandleClosedKeeps ==
    ASSUME IInv, NEW c \in Conn, HandleClosed(c)
    PROVE  IInv'
<1> USE DEF IInv
<1>0. /\ m_sockfd \in [Conn -> Fd \cup {Unaccepted, Closed}]
      /\ at \in DOMAIN m_clientSockets /\ m_clientSockets[at] = c
      /\ IsOpen(c) => peer[c] = "gone"
  BY DEF TypeOK, HandleClosed, Reads
<1>1. /\ UNCHANGED <<peerVars, timerVars, history>>
      /\ m_sockfd' = [m_sockfd EXCEPT ![c] = Closed]
      /\ m_clientSockets' = [k \in DOMAIN m_clientSockets \ {at} |-> m_clientSockets[k]]
  BY DEF HandleClosed, Without
<1>2. \A d \in Conn : IsOpen(d)' => d # c /\ IsOpen(d) /\ m_sockfd'[d] = m_sockfd[d]
  BY <1>0, <1>1, FdFacts DEF IsOpen
<1>3. TypeOK'
  <2>1. /\ DOMAIN m_clientSockets' \subseteq Fd
        /\ m_clientSockets' \in [DOMAIN m_clientSockets' -> Conn]
    BY <1>1 DEF TypeOK
  <2>2. m_sockfd' \in [Conn -> Fd \cup {Unaccepted, Closed}]
    BY <1>0, <1>1
  <2> QED BY <1>1, <2>1, <2>2, DoneKeeps
          DEF HandleClosed, TypeOK, peerVars, timerVars, history
<1>4. OpenIsFound'
  <2>1. \A d \in Conn : IsOpen(d)' => /\ m_sockfd'[d] \in DOMAIN m_clientSockets'
                                      /\ m_clientSockets'[m_sockfd'[d]] = d
    BY <1>0, <1>1, <1>2 DEF OpenIsFound
  <2>2. \A k \in Fd : k \in events' \/ at' = k => k \in DOMAIN m_clientSockets'
    BY <1>1, DoneKeeps DEF HandleClosed, OpenIsFound
  <2> QED BY <2>1, <2>2 DEF OpenIsFound
<1>5. armed \cup queued \subseteq Conn /\ Server \subseteq Conn
  BY RegisterAssumption DEF TypeOK
<1>6. ArmedInv' /\ BeatInv' /\ QueuedInv'
  <2>1. \A d \in armed \cup queued : m_sockfd'[d] # Unaccepted
    BY <1>0, <1>1, <1>5 DEF TimerInv, ArmedInv, QueuedInv, Closed, Unaccepted
  <2>2. ArmedInv' /\ BeatInv'
    BY <1>1, <1>2, <1>5, <2>1 DEF TimerInv, ArmedInv, BeatInv, timerVars, history
  <2>3. QueuedInv'
    BY <1>1, <1>2, <1>5, <2>1 DEF TimerInv, QueuedInv, Inherits, peerVars, timerVars, history
  <2> QED BY <2>2, <2>3
<1>7. EntryInv'
  <2> SUFFICES ASSUME NEW k \in DOMAIN m_heartbeat_timers, NEW d \in Conn,
                      d = m_heartbeat_timers[k]
               PROVE  m_sockfd'[d] = k \/ (m_sockfd'[d] = Closed /\ peer[d] = "gone")
    BY <1>1, RegisterAssumption DEF TypeOK, EntryInv, peerVars, timerVars
  <2>1. CASE d # c
    BY <1>0, <1>1, <2>1 DEF TimerInv, EntryInv
  <2>2. CASE d = c
    BY <1>0, <1>1, <2>2 DEF TimerInv, EntryInv, TypeOK, IsOpen
  <2> QED BY <2>1, <2>2
<1>8. InboxInv' /\ LoopInv'
  BY <1>1, DoneKeeps DEF HandleClosed, InboxInv, peerVars
<1> QED BY <1>3, <1>4, <1>6, <1>7, <1>8 DEF TimerInv

-----------------------------------------------------------------------------
(* The handlers.                                                           *)

\* What a handler that received a message leaves in order, whatever it does to timers.
LEMMA ReceiveKeeps ==
    ASSUME IInv, NEW c \in Conn, NEW message \in Message, Receive(c, message)
    PROVE  /\ UNCHANGED <<peer, sockVars>>
           /\ IsOpen(c)
           /\ inbox' \in [Conn -> Seq(Message)]
           /\ message = "RPC_SERVER_INIT" => c \in Server
           /\ OpenIsFound' /\ LoopInv' /\ InboxInv'
           /\ events' \subseteq Fd \cup {Listen}
           /\ at' \in Fd \cup {Listen, Idle}
<1> USE DEF IInv
<1>0. inbox \in [Conn -> Seq(Message)]
  BY DEF TypeOK
<1>1. /\ UNCHANGED <<peer, sockVars>> /\ IsOpen(c) /\ Done
      /\ inbox[c] # <<>> /\ Head(inbox[c]) = message
      /\ inbox' = [inbox EXCEPT ![c] = Tail(inbox[c])]
  BY DEF Receive
<1>2. inbox' \in [Conn -> Seq(Message)]
  BY <1>0, <1>1
<1>3. message = "RPC_SERVER_INIT" => c \in Server
  <2>1. inbox[c][1] = message /\ 1 \in DOMAIN inbox[c]
    BY <1>0, <1>1
  <2> QED BY <2>1 DEF InboxInv
<1>4. InboxInv'
  <2>1. \A i \in DOMAIN Tail(inbox[c]) :
           i + 1 \in DOMAIN inbox[c] /\ Tail(inbox[c])[i] = inbox[c][i + 1]
    BY <1>0, <1>1
  <2> QED BY <1>0, <1>1, <2>1 DEF InboxInv
<1>5. OpenIsFound'
  BY <1>1, DoneKeeps DEF OpenIsFound, IsOpen, sockVars
<1> QED BY <1>1, <1>2, <1>3, <1>4, <1>5, DoneKeeps

\* handleCLientInit answers and keeps no timer.
LEMMA ClientInitKeeps ==
    ASSUME IInv, NEW c \in Conn, handleCLientInit(c)
    PROVE  IInv'
<1> USE DEF IInv
<1>1. /\ UNCHANGED <<timerVars, history>>
      /\ Receive(c, "RPC_CLIENT_INIT") /\ "RPC_CLIENT_INIT" \in Message
  BY DEF handleCLientInit, Message
<1>2. TypeOK'
  BY <1>1, ReceiveKeeps DEF TypeOK, sockVars, timerVars, history
<1>3. TimerInv'
  BY <1>1, ReceiveKeeps, TimerStays
<1> QED BY <1>1, <1>2, <1>3, ReceiveKeeps

\* The new timer is found under its descriptor, or an old entry is there.
LEMMA ServerInitKeeps ==
    ASSUME IInv, NEW c \in Conn, handleServerInit(c)
    PROVE  IInv'
<1> USE DEF IInv
<1> DEFINE fd == m_sockfd[c]
<1>0. Receive(c, "RPC_SERVER_INIT") /\ "RPC_SERVER_INIT" \in Message
  BY DEF handleServerInit, Message
<1>1. /\ UNCHANGED <<peer, sockVars>>
      /\ c \in Server /\ Server \subseteq Conn
      /\ fd \in Fd
      /\ Timeout \in Nat
  BY <1>0, ReceiveKeeps, RegisterAssumption DEF IsOpen
<1>2. /\ armed' \subseteq armed \cup {c}
      /\ left' = [left EXCEPT ![c] = Timeout]
      /\ silent' = [silent EXCEPT ![c] = 0]
      /\ UNCHANGED <<queued, quiet>>
      /\ lost' \subseteq lost \cup {c}
  BY DEF handleServerInit, Arm, Heard, Insert, Loses
<1>3. /\ DOMAIN m_heartbeat_timers' = DOMAIN m_heartbeat_timers \cup {fd}
      /\ \A k \in DOMAIN m_heartbeat_timers' :
            m_heartbeat_timers'[k] = IF k \in DOMAIN m_heartbeat_timers
                                     THEN m_heartbeat_timers[k] ELSE c
      /\ m_heartbeat_timers' = [k \in DOMAIN m_heartbeat_timers' |-> m_heartbeat_timers'[k]]
  <2>1. m_heartbeat_timers' = emplace(m_heartbeat_timers, fd, c)
    BY DEF handleServerInit
  <2>2. CASE fd \in DOMAIN m_heartbeat_timers
    BY <2>1, <2>2 DEF emplace, TypeOK
  <2>3. CASE fd \notin DOMAIN m_heartbeat_timers
    BY <2>1, <2>3 DEF emplace, With
  <2> QED BY <2>2, <2>3
<1>4. TypeOK'
  <2>1. /\ DOMAIN m_heartbeat_timers' \subseteq Fd
        /\ m_heartbeat_timers' \in [DOMAIN m_heartbeat_timers' -> Server]
    BY <1>1, <1>3 DEF TypeOK
  <2>2. /\ armed' \subseteq Server /\ lost' \subseteq Server
        /\ left' \in [Conn -> Past..Timeout]
        /\ silent' \in [Conn -> 0..Timeout]
    BY <1>1, <1>2, TimeFacts DEF TypeOK
  <2> QED BY <1>0, <1>1, <1>2, <2>1, <2>2, ReceiveKeeps DEF TypeOK, sockVars
<1>5. ArmedInv'
  BY <1>1, <1>2, <1>3, FdFacts DEF TimerInv, ArmedInv, IsOpen, sockVars
<1>6. EntryInv'
  BY <1>1, <1>3 DEF TimerInv, EntryInv, sockVars
<1>7. BeatInv'
  <2> SUFFICES ASSUME NEW d \in armed', IsOpen(d)', m_heartbeat_timers'[m_sockfd'[d]] = d
               PROVE  /\ left'[d] >= 0 => left'[d] + silent'[d] = Timeout
                      /\ left'[d] <= 0 => silent'[d] = Timeout
    BY DEF BeatInv
  <2>1. CASE d = c
    BY <1>1, <1>2, <2>1, TimeFacts DEF TypeOK
  <2>2. CASE d # c
    <3>1. d \in armed /\ IsOpen(d) /\ d \in Conn
      BY <1>1, <1>2, <2>2, RegisterAssumption DEF IsOpen, TypeOK, sockVars
    <3>2. m_heartbeat_timers[m_sockfd[d]] = d
      BY <1>1, <1>3, <3>1 DEF TimerInv, ArmedInv, sockVars
    <3> QED BY <1>2, <2>2, <3>1, <3>2 DEF TimerInv, BeatInv, TypeOK
  <2> QED BY <2>1, <2>2
<1>8. QueuedInv'
  BY <1>1, <1>2, <1>3 DEF TimerInv, QueuedInv, Inherits, IsOpen, sockVars
<1> QED BY <1>0, <1>4, <1>5, <1>6, <1>7, <1>8, ReceiveKeeps DEF TimerInv

\* A beat resets the event under the descriptor of its sender: if there is one, it is
\* armed again and has a whole interval left, or all events stay as they are.
LEMMA Resets ==
    ASSUME IInv, NEW c \in Conn, IsOpen(c), ResetTimer(c)
    PROVE  \/ \E e \in Server :
                 /\ m_sockfd[c] \in DOMAIN m_heartbeat_timers
                 /\ m_heartbeat_timers[m_sockfd[c]] = e
                 /\ armed' \subseteq armed \cup {e}
                 /\ left' = [left EXCEPT ![e] = Timeout]
                 /\ lost' \subseteq lost \cup armed \cup {e}
           \/ /\ UNCHANGED <<armed, left, lost>>
              /\ m_sockfd[c] \in DOMAIN m_heartbeat_timers =>
                     m_heartbeat_timers[m_sockfd[c]] \notin armed
<1> DEFINE e == m_heartbeat_timers[m_sockfd[c]]
<1>1. m_sockfd[c] \in DOMAIN m_heartbeat_timers => e \in Server
  BY DEF IInv, TypeOK
<1>2. CASE /\ m_sockfd[c] \in DOMAIN m_heartbeat_timers => DueIn(armed, left[e]) = {}
           /\ UNCHANGED <<armed, left, lost>>
  BY <1>2 DEF DueIn
<1>3. CASE /\ m_sockfd[c] \in DOMAIN m_heartbeat_timers
           /\ armed' = Insert(e, armed \ DueIn(armed, left[e]))
           /\ left' = [left EXCEPT ![e] = Timeout]
           /\ Loses(DueIn(armed, left[e]) \cup {e})
  BY <1>1, <1>3 DEF Insert, Loses, DueIn
<1> QED BY <1>2, <1>3 DEF ResetTimer

\* A beat resets the event of its sender, or that of a socket which is not open.
LEMMA HeartBeatKeeps ==
    ASSUME IInv, NEW c \in Conn, handleHeartBeat(c)
    PROVE  IInv'
<1> USE DEF IInv
<1> DEFINE fd == m_sockfd[c]
<1>0. Receive(c, "HEART_BEAT") /\ "HEART_BEAT" \in Message
  BY DEF handleHeartBeat, Message
<1>1. /\ UNCHANGED <<peer, sockVars>> /\ IsOpen(c)
      /\ armed \subseteq Conn /\ Server \subseteq Conn
  BY <1>0, ReceiveKeeps, RegisterAssumption DEF TypeOK
<1>2. /\ UNCHANGED <<m_heartbeat_timers, queued, quiet>>
      /\ silent' = [silent EXCEPT ![c] = 0]
      /\ ResetTimer(c)
  BY DEF handleHeartBeat, Heard
<1>3. EntryInv' /\ QueuedInv' /\ OpenIsFound' /\ LoopInv' /\ InboxInv'
  <2>1. EntryInv'
    BY <1>1, <1>2 DEF TimerInv, EntryInv, sockVars
  <2>2. QueuedInv'
    BY <1>1, <1>2 DEF TimerInv, QueuedInv, Inherits, IsOpen, sockVars
  <2> QED BY <1>0, <2>1, <2>2, ReceiveKeeps
<1>4. CASE \E e \in Server :
             /\ fd \in DOMAIN m_heartbeat_timers /\ m_heartbeat_timers[fd] = e
             /\ armed' \subseteq armed \cup {e}
             /\ left' = [left EXCEPT ![e] = Timeout]
             /\ lost' \subseteq lost \cup armed \cup {e}
  <2>1. PICK e \in Server :
             /\ fd \in DOMAIN m_heartbeat_timers /\ m_heartbeat_timers[fd] = e
             /\ armed' \subseteq armed \cup {e}
             /\ left' = [left EXCEPT ![e] = Timeout]
             /\ lost' \subseteq lost \cup armed \cup {e}
    BY <1>4
  <2>2. m_sockfd[e] = fd \/ m_sockfd[e] = Closed
    BY <2>1 DEF TimerInv, EntryInv
  <2>3. TypeOK'
    <3>1. armed' \subseteq Server /\ lost' \subseteq Server
      BY <2>1 DEF TypeOK
    <3>2. left' \in [Conn -> Past..Timeout]
      <4>1. left \in [Conn -> Past..Timeout] /\ Timeout \in Past..Timeout
        BY TimeFacts DEF TypeOK
      <4> QED BY <2>1, <4>1
    <3>3. silent' \in [Conn -> 0..Timeout]
      BY <1>2, TimeFacts DEF TypeOK
    <3> QED BY <1>0, <1>1, <1>2, <3>1, <3>2, <3>3, ReceiveKeeps DEF TypeOK, sockVars
  <2>4. ArmedInv'
    <3>1. \A d \in armed' : d \in armed \/ d = e
      BY <2>1
    <3>2. m_sockfd[e] # Unaccepted /\ (IsOpen(e) => m_sockfd[e] \in DOMAIN m_heartbeat_timers)
      BY <1>1, <2>1, <2>2, FdFacts DEF IsOpen, Closed, Unaccepted
    <3> QED BY <1>1, <1>2, <3>1, <3>2 DEF TimerInv, ArmedInv, IsOpen, sockVars
  <2>5. BeatInv'
    <3> SUFFICES ASSUME NEW d \in armed', IsOpen(d), m_heartbeat_timers[m_sockfd[d]] = d
                 PROVE  /\ left'[d] >= 0 => left'[d] + silent'[d] = Timeout
                        /\ left'[d] <= 0 => silent'[d] = Timeout
      BY <1>1, <1>2 DEF BeatInv, IsOpen, sockVars
    <3>1. d \in Conn /\ (d = e \/ d \in armed)
      BY <1>1, <2>1
    <3>2. CASE d = e
      <4>1. d = c
        BY <1>1, <2>2, <3>1, <3>2, FdFacts, OneSocket DEF IsOpen
      <4> QED BY <1>2, <2>1, <3>1, <3>2, <4>1, TimeFacts DEF TypeOK
    <3>3. CASE d # e
      <4>1. d # c /\ d \in armed
        BY <2>1, <3>1, <3>3
      <4>2. left'[d] = left[d] /\ silent'[d] = silent[d]
        BY <1>2, <2>1, <3>1, <3>3, <4>1 DEF TypeOK
      <4> QED BY <4>1, <4>2 DEF TimerInv, BeatInv
    <3> QED BY <3>2, <3>3
  <2> QED BY <1>3, <2>3, <2>4, <2>5 DEF TimerInv
<1>5. CASE /\ UNCHANGED <<armed, left, lost>>
           /\ fd \in DOMAIN m_heartbeat_timers => m_heartbeat_timers[fd] \notin armed
  <2>1. silent' \in [Conn -> 0..Timeout]
    BY <1>2, TimeFacts DEF TypeOK
  <2>2. TypeOK'
    BY <1>0, <1>1, <1>2, <1>5, <2>1, ReceiveKeeps DEF TypeOK, sockVars
  <2>3. ArmedInv'
    BY <1>1, <1>2, <1>5 DEF TimerInv, ArmedInv, IsOpen, sockVars
  <2>4. BeatInv'
    <3>1. \A d \in armed : IsOpen(d) /\ m_heartbeat_timers[m_sockfd[d]] = d => d # c
      BY <1>5 DEF TimerInv, ArmedInv
    <3> QED BY <1>1, <1>2, <1>5, <3>1 DEF TimerInv, BeatInv, IsOpen, TypeOK, sockVars
  <2> QED BY <1>3, <2>2, <2>3, <2>4 DEF TimerInv
<1> QED BY <1>1, <1>2, <1>4, <1>5, Resets

-----------------------------------------------------------------------------
(* Time.                                                                   *)

\* What is taken from the one is added to the other.
LEMMA TickKeeps == IInv /\ Tick => IInv'
<1> SUFFICES ASSUME IInv, Tick PROVE IInv'
  OBVIOUS
<1> USE DEF IInv
<1>0. /\ left \in [Conn -> Past..Timeout] /\ silent \in [Conn -> 0..Timeout]
      /\ armed \subseteq Conn
  BY RegisterAssumption DEF TypeOK
<1>1. UNCHANGED <<peerVars, sockVars, loopVars, m_heartbeat_timers, armed, queued, quiet, lost>>
  BY DEF Tick
<1>2. left' \in [Conn -> Past..Timeout] /\ silent' \in [Conn -> 0..Timeout]
  BY <1>0, TimeFacts DEF Tick
<1>3. TypeOK'
  BY <1>1, <1>2 DEF TypeOK, peerVars, sockVars, loopVars
<1>4. BeatInv'
  <2> SUFFICES ASSUME NEW c \in armed,
                      /\ left[c] >= 0 => left[c] + silent[c] = Timeout
                      /\ left[c] <= 0 => silent[c] = Timeout
               PROVE  /\ left'[c] >= 0 => left'[c] + silent'[c] = Timeout
                      /\ left'[c] <= 0 => silent'[c] = Timeout
    BY <1>1 DEF TimerInv, BeatInv, IsOpen, sockVars
  <2>1. left[c] \in Past..Timeout /\ silent[c] \in 0..Timeout /\ left[c] > Past
    BY <1>0, TimeFacts DEF Tick
  <2>2. /\ left'[c] = left[c] - 1
        /\ silent'[c] = IF silent[c] < Timeout THEN silent[c] + 1 ELSE Timeout
    BY <1>0, <2>1 DEF Tick
  <2> QED BY <2>1, <2>2, TimeFacts
<1>5. OpenIsFound' /\ LoopInv' /\ InboxInv' /\ ArmedInv' /\ EntryInv' /\ QueuedInv'
  BY <1>1 DEF TimerInv, OpenIsFound, LoopInv, InboxInv, ArmedInv, EntryInv, QueuedInv, Inherits,
              IsOpen, peerVars, sockVars, loopVars
<1> QED BY <1>3, <1>4, <1>5 DEF TimerInv

\* An event that is due and the one that the beats reset has a server that was silent for
\* the whole interval.
LEMMA ExpiredKeeps == IInv /\ getExpiredcbs => IInv'
<1> SUFFICES ASSUME IInv, getExpiredcbs PROVE IInv'
  OBVIOUS
<1> USE DEF IInv
<1>1. PICK late \in 0..MaxLate :
          LET expired == {c \in armed : left[c] <= -late} IN
          /\ armed' = armed \ expired
          /\ queued' = queued \cup expired
          /\ quiet' = quiet \cup {c \in expired : silent[c] = Timeout}
          /\ UNCHANGED <<peerVars, sockVars, loopVars, m_heartbeat_timers, left, silent, lost>>
  BY DEF getExpiredcbs
<1> DEFINE expired == {c \in armed : left[c] <= -late}
<1>2. /\ armed' = armed \ expired
      /\ queued' = queued \cup expired
      /\ quiet' = quiet \cup {c \in expired : silent[c] = Timeout}
      /\ UNCHANGED <<peerVars, sockVars, loopVars, m_heartbeat_timers, left, silent, lost>>
      /\ expired \subseteq armed /\ armed \subseteq Server
  BY <1>1 DEF TypeOK
<1>3. \A c \in expired : left[c] <= 0
  <2>1. left \in [Conn -> Past..Timeout] /\ -late <= 0 /\ late \in Int
    BY TimeFacts DEF TypeOK
  <2> QED BY <1>2, <2>1, RegisterAssumption, TimeFacts
<1> HIDE DEF expired
<1>4. TypeOK'
  BY <1>2 DEF TypeOK, peerVars, sockVars, loopVars
<1>5. OpenIsFound' /\ LoopInv' /\ InboxInv' /\ ArmedInv' /\ EntryInv' /\ BeatInv'
  BY <1>2 DEF TimerInv, OpenIsFound, LoopInv, InboxInv, ArmedInv, EntryInv, BeatInv, IsOpen,
              peerVars, sockVars, loopVars
<1>6. QueuedInv'
  <2>1. \A c \in expired : IsOpen(c) => silent[c] = Timeout \/ Inherits(c)
    <3> SUFFICES ASSUME NEW c \in expired, IsOpen(c), ~Inherits(c) PROVE silent[c] = Timeout
      OBVIOUS
    <3>1. c \in armed /\ c \in Server /\ left[c] <= 0
      BY <1>2, <1>3
    <3>2. m_heartbeat_timers[m_sockfd[c]] = c
      BY <3>1, OwnOrInherits DEF TimerInv, ArmedInv
    <3> QED BY <3>1, <3>2 DEF TimerInv, BeatInv
  <2>2. \A c \in expired : m_sockfd[c] # Unaccepted
    BY <1>2 DEF TimerInv, ArmedInv
  <2> QED BY <1>2, <2>1, <2>2 DEF TimerInv, QueuedInv, Inherits, IsOpen, peerVars, sockVars
<1> QED BY <1>4, <1>5, <1>6 DEF TimerInv

\* The callback closes its socket and erases what it finds under the descriptor, which
\* is the descriptor of no other open socket.
LEMMA SilentKeeps ==
    ASSUME IInv, NEW c \in Server, SilentServer(c)
    PROVE  IInv'
<1> USE DEF IInv
<1> DEFINE fd == m_sockfd[c]
<1>0. /\ m_sockfd \in [Conn -> Fd \cup {Unaccepted, Closed}]
      /\ c \in Conn /\ Server \subseteq Conn /\ armed \cup queued \subseteq Conn
      /\ DOMAIN m_heartbeat_timers \subseteq Fd
      /\ \A k \in DOMAIN m_heartbeat_timers : m_heartbeat_timers[k] \in Conn
  BY RegisterAssumption DEF TypeOK
<1>1. /\ UNCHANGED <<peer, loopVars, armed, left, silent, lost, m_clientSockets>>
      /\ inbox' = [inbox EXCEPT ![c] = <<>>]
      /\ queued' = queued \ {c} /\ quiet' = quiet \ {c}
      /\ m_sockfd' = [m_sockfd EXCEPT ![c] = Closed]
      /\ m_heartbeat_timers' = [k \in DOMAIN m_heartbeat_timers \ {fd} |-> m_heartbeat_timers[k]]
  BY DEF SilentServer, Called, Close, Without
<1>2. \A d \in Conn : IsOpen(d)' =>
          d # c /\ IsOpen(d) /\ m_sockfd'[d] = m_sockfd[d] /\ m_sockfd[d] # fd
  <2> SUFFICES ASSUME NEW d \in Conn, IsOpen(d)'
               PROVE  d # c /\ IsOpen(d) /\ m_sockfd'[d] = m_sockfd[d] /\ m_sockfd[d] # fd
    OBVIOUS
  <2>1. d # c /\ IsOpen(d) /\ m_sockfd'[d] = m_sockfd[d]
    BY <1>0, <1>1, FdFacts DEF IsOpen
  <2> QED BY <1>0, <2>1, OneSocket
<1>3. TypeOK'
  <2>1. m_sockfd' \in [Conn -> Fd \cup {Unaccepted, Closed}]
    BY <1>0, <1>1
  <2>2. /\ DOMAIN m_heartbeat_timers' \subseteq Fd
        /\ m_heartbeat_timers' \in [DOMAIN m_heartbeat_timers' -> Server]
        /\ queued' \subseteq Server /\ quiet' \subseteq Server
    BY <1>1 DEF TypeOK
  <2>3. inbox' \in [Conn -> Seq(Message)]
    BY <1>0, <1>1 DEF TypeOK
  <2> QED BY <1>1, <2>1, <2>2, <2>3 DEF TypeOK, loopVars
<1>4. OpenIsFound'
  <2>1. \A d \in Conn : IsOpen(d)' => /\ m_sockfd'[d] \in DOMAIN m_clientSockets'
                                      /\ m_clientSockets'[m_sockfd'[d]] = d
    BY <1>1, <1>2 DEF OpenIsFound
  <2>2. \A k \in Fd : k \in events' \/ at' = k => k \in DOMAIN m_clientSockets'
    BY <1>1 DEF OpenIsFound, loopVars
  <2> QED BY <2>1, <2>2 DEF OpenIsFound
<1>5. \A d \in armed \cup queued : m_sockfd'[d] # Unaccepted
  BY <1>0, <1>1 DEF TimerInv, ArmedInv, QueuedInv, Closed, Unaccepted
<1>6. ArmedInv' /\ BeatInv'
  BY <1>0, <1>1, <1>2, <1>5 DEF TimerInv, ArmedInv, BeatInv
<1>7. EntryInv'
  <2> SUFFICES ASSUME NEW k \in DOMAIN m_heartbeat_timers \ {fd}, NEW d \in Conn,
                      d = m_heartbeat_timers[k]
               PROVE  m_sockfd'[d] = k \/ (m_sockfd'[d] = Closed /\ peer[d] = "gone")
    BY <1>0, <1>1 DEF EntryInv
  <2>1. CASE d # c
    BY <1>0, <1>1, <2>1 DEF TimerInv, EntryInv
  <2>2. CASE d = c
    BY <1>0, <1>1, <2>2 DEF TimerInv, EntryInv
  <2> QED BY <2>1, <2>2
<1>8. QueuedInv'
  <2>1. \A d \in queued' : IsOpen(d)' => d \in quiet' \/ Inherits(d)'
    <3> SUFFICES ASSUME NEW d \in queued', IsOpen(d)', d \notin quiet' PROVE Inherits(d)'
      OBVIOUS
    <3>1. /\ d \in queued /\ d \in Conn /\ IsOpen(d) /\ d \notin quiet
          /\ m_sockfd'[d] = m_sockfd[d] /\ m_sockfd[d] # fd
      BY <1>0, <1>1, <1>2
    <3>2. Inherits(d)
      BY <3>1 DEF TimerInv, QueuedInv
    <3> QED BY <1>1, <3>1, <3>2 DEF Inherits
  <2> QED BY <1>1, <1>5, <2>1 DEF QueuedInv
<1>9. InboxInv' /\ LoopInv'
  BY <1>0, <1>1 DEF TypeOK, InboxInv, LoopInv, loopVars
<1> QED BY <1>3, <1>4, <1>6, <1>7, <1>8, <1>9 DEF TimerInv

-----------------------------------------------------------------------------
(* The specification.                                                      *)

\* The registry starts with no connection and no timer.
LEMMA InitInv == Init => IInv
<1> SUFFICES ASSUME Init PROVE IInv
  OBVIOUS
<1>1. TypeOK
  BY RegisterAssumption, TimeFacts DEF Init, TypeOK, Message
<1>2. OpenIsFound /\ LoopInv
  BY FdFacts DEF Init, OpenIsFound, LoopInv, IsOpen
<1>3. InboxInv /\ TimerInv
  BY DEF Init, InboxInv, TimerInv, ArmedInv, EntryInv, BeatInv, QueuedInv
<1> QED BY <1>1, <1>2, <1>3 DEF IInv

\* Each step of run() keeps the invariant.
LEMMA RunKeeps == IInv /\ Run => IInv'
BY WaitKeeps, AcceptKeeps, AcceptFailsKeeps, HandleClosedKeeps,
   ClientInitKeeps, ServerInitKeeps, HeartBeatKeeps
   DEF Run

\* Every step keeps the invariant.
LEMMA NextInv == IInv /\ [Next]_vars => IInv'
<1> SUFFICES ASSUME IInv, [Next]_vars PROVE IInv'
  OBVIOUS
<1>1. CASE UNCHANGED vars
  BY <1>1, TimerStays DEF IInv, TypeOK, OpenIsFound, LoopInv, InboxInv, IsOpen, vars,
                          peerVars, sockVars, timerVars, loopVars, history
<1> QED BY <1>1, PeersKeep, RunKeeps, TickKeeps, ExpiredKeeps, SilentKeeps DEF Next, Callback

\* Who closes an open socket: run(), when the process has ended, or the callback of an event
\* that was taken when it had been silent for so long, or that the beats do not reset.
LEMMA ClosingIsDue ==
    ASSUME IInv, [Next]_vars, NEW c \in Server, IsOpen(c), m_sockfd'[c] = Closed,
           peer[c] # "gone"
    PROVE  c \in quiet \/ Inherits(c)
<1> USE DEF IInv
<1>0. /\ m_sockfd \in [Conn -> Fd \cup {Unaccepted, Closed}]
      /\ Server \subseteq Conn
      /\ m_sockfd[c] \in Fd /\ m_sockfd'[c] # m_sockfd[c]
  BY FdFacts, RegisterAssumption DEF TypeOK, IsOpen
<1>1. PICK d \in Conn : \/ HandleClosed(d) \/ SilentServer(d)
                        \/ \E fd \in Fd : Accept(d, fd)
  BY <1>0 DEF Next, Peers, Connect, Introduce, Beat, Exit, Run, epoll_wait, AcceptFails,
              handleCLientInit, handleServerInit, handleHeartBeat, Receive, Tick,
              getExpiredcbs, Callback, vars, sockVars
<1>2. CASE \E fd \in Fd : Accept(d, fd)
  BY <1>0, <1>2, FdFacts DEF Accept
<1>3. CASE HandleClosed(d)
  <2>1. d = c
    BY <1>0, <1>3 DEF HandleClosed
  <2> QED BY <1>3, <2>1 DEF HandleClosed
<1>4. CASE SilentServer(d)
  <2>1. d = c
    BY <1>0, <1>4 DEF SilentServer, Close
  <2> QED BY <1>4, <2>1 DEF SilentServer, Called, TimerInv, QueuedInv
<1> QED BY <1>1, <1>2, <1>3, <1>4

\* The registry's maps keep their types: m_heartbeat_timers has events of servers only
\* (rpc_register.cpp:171-189).
THEOREM RegisterType == Spec => []TypeOK
BY InitInv, NextInv, PTL DEF Spec, IInv

\* run() finds a socket for every event that epoll_wait returned, also when a callback
\* has closed it meanwhile (rpc_register.cpp:48-99).
THEOREM EventsAreFound == Spec => []OpenIsFound
BY InitInv, NextInv, PTL DEF Spec, IInv

\* A server is cut off only if it was silent for the whole interval when its event was
\* taken, or if the event that its beats reset is that of a dead one whose descriptor it
\* has (rpc_register.cpp:93, 183).
THEOREM OnlySilenceCloses == Spec => ClosedInSilence
<1>1. IInv /\ [Next]_vars =>
          [\A c \in Server : IsOpen(c) /\ m_sockfd'[c] = Closed /\ peer[c] # "gone" =>
              \/ c \in quiet
              \/ \E d \in Server \ {c} :
                    /\ m_sockfd[c] \in DOMAIN m_heartbeat_timers
                    /\ m_heartbeat_timers[m_sockfd[c]] = d
                    /\ peer[d] = "gone"]_vars
  BY ClosingIsDue DEF Inherits
<1> QED BY <1>1, InitInv, NextInv, PTL DEF Spec, ClosedInSilence

=============================================================================
