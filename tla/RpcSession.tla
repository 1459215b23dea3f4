----------------------------- MODULE RpcSession -----------------------------
(***************************************************************************)
(* Remote calls over one RpcSession (source/rpc/rpc_session.h) as RpcCLient *)
(* and RaftNode make them: a call connects the session if need be, enters  *)
(* its response channel, hands the request to the sending coroutine and    *)
(* waits on the channel until the receiving coroutine delivers the answer  *)
(* or the callback of its timer closes the channel.                        *)
(*                                                                         *)
(* A call is named by the coroutine that makes it. The name stands for its *)
(* sequence number, for its request and its answer, and for its response   *)
(* channel. The peer answers a request at most once, and may not at all.   *)
(***************************************************************************)
EXTENDS CoroutineChannal

CONSTANTS Calls,             \* the coroutines that make a call
          Sender, Receiver,  \* those of handle_send and handle_receive
          timerOf,           \* the callback of each call's timer
          Session,           \* RpcSession::m_mutex
          Requests,          \* m_send_channal
          MaxBreaks          \* bound: how often the connection breaks

ASSUME SessionAssumption ==
    /\ IsFiniteSet(Calls)
    /\ Coroutine = Calls \cup {Sender, Receiver} \cup Callback
    /\ Sender # Receiver
    /\ Calls \cap (Callback \cup {Sender, Receiver}) = {}
    /\ Callback \cap {Sender, Receiver} = {}
    /\ Channal = Calls \cup {Requests} /\ Requests \notin Calls
    /\ Mutex = Channal \cup {Session}
    /\ Message = Calls
    /\ timerOf \in [Calls -> Callback]
    /\ \A k, l \in Calls : timerOf[k] = timerOf[l] => k = l
    /\ Callback = {timerOf[k] : k \in Calls}
    /\ MaxBreaks \in Nat

VARIABLES pc,                   \* where each coroutine is, outside of the calls above
          m_is_connected, m_has_connect, m_response_channals,
          link,                 \* the connection: none yet, up or broken
          requests, answers,    \* what the peer has received and sent
          breaks,               \* how often the connection has broken
          timeout,              \* the local flag of each call
          result                \* what each call has come to

socketVars == <<m_is_connected, link, requests, answers, breaks>>
sessionVars == <<m_has_connect, m_response_channals>>
outcomeVars == <<timeout, result>>
vars == <<schedVars, coVars, m_events, mutexVars, channalVars, pc, socketVars,
          sessionVars, outcomeVars>>

TypeOK ==
    /\ SchedulerTypeOK /\ MutexTypeOK /\ ChannalTypeOK
    /\ pc \in [Coroutine -> {"connect", "adopt", "register", "registered", "submit",
                             "arm", "await", "cancel", "erase", "erased", "outcome",
                             "fire", "close", "closed", "take", "transmit",
                             "receive", "received", "deliver", "delivered", "end"}]
    /\ m_is_connected \in BOOLEAN /\ m_has_connect \in BOOLEAN
    /\ m_response_channals \subseteq Calls
    /\ link \in {"none", "up", "broken"}
    /\ requests \subseteq Calls /\ answers \in Seq(Calls)
    /\ breaks \in 0..MaxBreaks
    /\ timeout \in [Calls -> BOOLEAN]
    /\ result \in [Calls -> {"none", "refused", "timeout", "answer"}]

Init ==
    /\ \E first \in SetToSeqs(Calls) : SchedulerInit(first)
    /\ MutexInit
    /\ ChannalInit
    /\ pc = [c \in Coroutine |-> CASE c \in Calls -> "connect"
                                   [] c = Sender -> "take"
                                   [] c = Receiver -> "receive"
                                   [] OTHER -> "fire"]
    /\ m_is_connected = FALSE /\ m_has_connect = FALSE
    /\ m_response_channals = {}
    /\ link = "none" /\ requests = {} /\ answers = <<>> /\ breaks = 0
    /\ timeout = [k \in Calls |-> FALSE]
    /\ result = [k \in Calls |-> "none"]

callOf(t) == CHOOSE k \in Calls : timerOf[k] = t

\* c runs, is in no call of a mutex or channel, and is at this place of its function.
Stands(c, place) == inCall[c] = "out" /\ at[c] = "out" /\ pc[c] = place /\ Running(c)

Proceed(c, place) == pc' = [pc EXCEPT ![c] = place]

-----------------------------------------------------------------------------
(* testAndreConnect() and send()                                           *)

Connect(k) ==
    /\ Stands(k, "connect")
    /\ \/ /\ m_is_connected
          /\ Proceed(k, "register")
          /\ UNCHANGED <<socketVars, outcomeVars, schedVars, coVars>>
       \/ /\ ~m_is_connected
          /\ m_is_connected' = TRUE /\ link' = "up" /\ requests' = {} /\ answers' = <<>>
          /\ Proceed(k, "adopt")
          /\ UNCHANGED <<breaks, outcomeVars, schedVars, coVars>>
       \/ /\ ~m_is_connected
          /\ result' = [result EXCEPT ![k] = "refused"]
          /\ Return(k)
          /\ UNCHANGED <<pc, socketVars, timeout, m_tasks, cur>>
    /\ UNCHANGED <<m_events, sessionVars, mutexVars, channalVars>>

\* Only the first connection starts the two coroutines of the session.
Adopt(k) ==
    /\ Stands(k, "adopt")
    /\ m_has_connect' = TRUE
    /\ m_tasks' = IF m_has_connect THEN m_tasks ELSE m_tasks \o <<Sender, Receiver>>
    /\ Proceed(k, "register")
    /\ UNCHANGED <<m_response_channals, socketVars, outcomeVars, at_worker, cur, coVars,
                   m_events, mutexVars, channalVars>>

Register(k) ==
    /\ Stands(k, "register")
    /\ CallLock(k, Session)
    /\ Proceed(k, "registered")
    /\ UNCHANGED <<schedVars, coVars, m_events, channalVars, socketVars, sessionVars,
                   outcomeVars>>

Registered(k) ==
    /\ Stands(k, "registered")
    /\ m_response_channals' = m_response_channals \cup {k}
    /\ CallUnlock(k, Session)
    /\ Proceed(k, "submit")
    /\ UNCHANGED <<schedVars, coVars, m_events, channalVars, socketVars, m_has_connect,
                   outcomeVars>>

Submit(k) ==
    /\ Stands(k, "submit")
    /\ Push(k, Requests, k)
    /\ Proceed(k, "arm")
    /\ UNCHANGED <<schedVars, coVars, m_events, mutexVars, socketVars, sessionVars,
                   outcomeVars>>

-----------------------------------------------------------------------------
(* The rest of a call                                                      *)

Arm(k) ==
    /\ Stands(k, "arm")
    /\ addTimeEvent(timerOf[k])
    /\ Proceed(k, "await")
    /\ UNCHANGED <<schedVars, coVars, mutexVars, channalVars, socketVars, sessionVars,
                   outcomeVars>>

Await(k) ==
    /\ Stands(k, "await")
    /\ Pop(k, k)
    /\ Proceed(k, "cancel")
    /\ UNCHANGED <<schedVars, coVars, m_events, mutexVars, socketVars, sessionVars,
                   outcomeVars>>

Cancel(k) ==
    /\ Stands(k, "cancel")
    /\ cancel(timerOf[k])
    /\ Proceed(k, "erase")
    /\ UNCHANGED <<schedVars, coVars, mutexVars, channalVars, socketVars, sessionVars,
                   outcomeVars>>

Erase(k) ==
    /\ Stands(k, "erase")
    /\ CallLock(k, Session)
    /\ Proceed(k, "erased")
    /\ UNCHANGED <<schedVars, coVars, m_events, channalVars, socketVars, sessionVars,
                   outcomeVars>>

Erased(k) ==
    /\ Stands(k, "erased")
    /\ m_response_channals' = m_response_channals \ {k}
    /\ CallUnlock(k, Session)
    /\ Proceed(k, "outcome")
    /\ UNCHANGED <<schedVars, coVars, m_events, channalVars, socketVars, m_has_connect,
                   outcomeVars>>

\* The flag decides, not whether a message came.
Outcome(k) ==
    /\ Stands(k, "outcome")
    /\ result' = [result EXCEPT ![k] = IF timeout[k] THEN "timeout" ELSE "answer"]
    /\ Return(k)
    /\ UNCHANGED <<m_tasks, cur, m_events, mutexVars, channalVars, pc, socketVars,
                   sessionVars, timeout>>

CallStep(k) ==
    \/ Connect(k) \/ Adopt(k) \/ Register(k) \/ Registered(k) \/ Submit(k) \/ Arm(k)
    \/ Await(k) \/ Cancel(k) \/ Erase(k) \/ Erased(k) \/ Outcome(k)

-----------------------------------------------------------------------------
(* The callback of the timer of a call                                     *)

Fire(t) ==
    /\ Stands(t, "fire")
    /\ timeout' = [timeout EXCEPT ![callOf(t)] = TRUE]
    /\ Proceed(t, "close")
    /\ UNCHANGED <<schedVars, coVars, m_events, mutexVars, channalVars, socketVars,
                   sessionVars, result>>

CloseChannal(t) ==
    /\ Stands(t, "close")
    /\ Close(t, callOf(t))
    /\ Proceed(t, "closed")
    /\ UNCHANGED <<schedVars, coVars, m_events, mutexVars, socketVars, sessionVars,
                   outcomeVars>>

Fired(t) ==
    /\ Stands(t, "closed")
    /\ Return(t)
    /\ UNCHANGED <<m_tasks, cur, m_events, mutexVars, channalVars, pc, socketVars,
                   sessionVars, outcomeVars>>

\* Wrong: the channel is closed before the flag is set.
CallbackStepLate(t) ==
    \/ /\ Stands(t, "fire")
       /\ Close(t, callOf(t))
       /\ Proceed(t, "closed")
       /\ UNCHANGED <<schedVars, coVars, m_events, mutexVars, socketVars, sessionVars,
                      outcomeVars>>
    \/ /\ Stands(t, "closed")
       /\ timeout' = [timeout EXCEPT ![callOf(t)] = TRUE]
       /\ Return(t)
       /\ UNCHANGED <<m_tasks, cur, m_events, mutexVars, channalVars, pc, socketVars,
                      sessionVars, result>>

CallbackStep(t) == Fire(t) \/ CloseChannal(t) \/ Fired(t)

-----------------------------------------------------------------------------
(* handle_send()                                                           *)

TakeRequest ==
    /\ Stands(Sender, "take")
    /\ Pop(Sender, Requests)
    /\ Proceed(Sender, "transmit")
    /\ UNCHANGED <<schedVars, coVars, m_events, mutexVars, socketVars, sessionVars,
                   outcomeVars>>

\* On a connection that is gone the request is lost, and nobody hears of it.
Transmit ==
    /\ Stands(Sender, "transmit")
    /\ requests' = IF link = "up" THEN requests \cup {message[Sender]} ELSE requests
    /\ Proceed(Sender, "take")
    /\ UNCHANGED <<schedVars, coVars, m_events, mutexVars, channalVars, m_is_connected,
                   link, answers, breaks, sessionVars, outcomeVars>>

-----------------------------------------------------------------------------
(* handle_receive()                                                        *)

ReceiveNothing ==
    /\ Stands(Receiver, "receive")
    /\ answers = <<>> /\ link = "up"
    /\ yield(Receiver)
    /\ UNCHANGED <<m_tasks, cur, coVars, m_events, mutexVars, channalVars, pc, socketVars,
                   sessionVars, outcomeVars>>

ReceiveAnswer ==
    /\ Stands(Receiver, "receive")
    /\ answers # <<>>
    /\ message' = [message EXCEPT ![Receiver] = Head(answers)]
    /\ answers' = Tail(answers)
    /\ Proceed(Receiver, "received")
    /\ UNCHANGED <<schedVars, coVars, m_events, mutexVars, queueVars, op, at, channal,
                   notified, m_is_connected, link, requests, breaks, sessionVars,
                   outcomeVars>>

\* End of file and an error end the coroutine for good, a later connection has none. Of
\* an error the socket takes no note: it is connected for ever to those that ask.
ReceiveEnd ==
    /\ Stands(Receiver, "receive")
    /\ answers = <<>> /\ link = "broken"
    /\ m_is_connected' \in {FALSE, m_is_connected}
    /\ Proceed(Receiver, "end")
    /\ UNCHANGED <<schedVars, coVars, m_events, mutexVars, channalVars, link, requests,
                   answers, breaks, sessionVars, outcomeVars>>

\* The socket it closes is that of a later connection, if a call has made one meanwhile.
CloseSocket ==
    /\ Stands(Receiver, "end")
    /\ link' = "broken" /\ requests' = {} /\ answers' = <<>>
    /\ Return(Receiver)
    /\ UNCHANGED <<m_tasks, cur, m_events, mutexVars, channalVars, pc, m_is_connected,
                   breaks, sessionVars, outcomeVars>>

Received ==
    /\ Stands(Receiver, "received")
    /\ CallLock(Receiver, Session)
    /\ Proceed(Receiver, "deliver")
    /\ UNCHANGED <<schedVars, coVars, m_events, channalVars, socketVars, sessionVars,
                   outcomeVars>>

\* The push happens under m_mutex.
Deliver == LET k == message[Receiver] IN
    /\ Stands(Receiver, "deliver")
    /\ IF k \in m_response_channals THEN Push(Receiver, k, k) ELSE UNCHANGED channalVars
    /\ Proceed(Receiver, "delivered")
    /\ UNCHANGED <<schedVars, coVars, m_events, mutexVars, socketVars, sessionVars,
                   outcomeVars>>

Delivered ==
    /\ Stands(Receiver, "delivered")
    /\ CallUnlock(Receiver, Session)
    /\ Proceed(Receiver, "receive")
    /\ UNCHANGED <<schedVars, coVars, m_events, channalVars, socketVars, sessionVars,
                   outcomeVars>>

SessionStep(c) ==
    \/ c = Sender /\ (TakeRequest \/ Transmit)
    \/ c = Receiver /\ (ReceiveNothing \/ ReceiveAnswer \/ ReceiveEnd \/ CloseSocket
                        \/ Received \/ Deliver \/ Delivered)

-----------------------------------------------------------------------------
(* The peer and the network                                                *)

networkUnchanged == <<schedVars, coVars, m_events, mutexVars, channalVars, pc,
                      m_is_connected, sessionVars, outcomeVars>>

PeerAnswers(k) ==
    /\ link = "up"
    /\ k \in requests
    /\ requests' = requests \ {k}
    /\ answers' = Append(answers, k)
    /\ UNCHANGED <<networkUnchanged, link, breaks>>

\* What the peer has sent before may still be read, or not.
Break ==
    /\ link = "up"
    /\ breaks < MaxBreaks
    /\ breaks' = breaks + 1
    /\ link' = "broken"
    /\ requests' = {}
    /\ answers' \in {answers, <<>>}
    /\ UNCHANGED networkUnchanged

-----------------------------------------------------------------------------
(* The callback of a timer refers to local variables of the call, and      *)
(* through them to the channel: both are gone once the call has returned.  *)
Dangling == \E t \in Callback :
    /\ Running(t)
    /\ callOf(t) \in ended
    /\ \/ pc[t] \in {"fire", "close"}
       \/ at[t] # "out"
       \/ inCall[t] \in InLock \cup {"unlock", "release"}

\* From here on the code promises nothing, and the model stops.
Undefined == RunsTwice \/ Dangling

Step(c) ==
    \/ MutexStep(c) /\ UNCHANGED <<m_events, channalVars, pc, socketVars, sessionVars,
                                   outcomeVars>>
    \/ ChannalStep(c) /\ UNCHANGED <<m_events, pc, socketVars, sessionVars, outcomeVars>>
    \/ c \in Calls /\ CallStep(c)
    \/ c \in Callback /\ CallbackStep(c)
    \/ SessionStep(c)

\* What the thread of worker w does: a step of its own or one of its coroutine.
ThreadStep(w) ==
    /\ ~Undefined
    /\ \/ WorkerStep(w) /\ UNCHANGED <<mutexVars, channalVars, pc, socketVars, sessionVars,
                                       outcomeVars>>
       \/ \E c \in Coroutine : Runs(w, c) /\ Step(c)

TimePasses(t) ==
    /\ ~Undefined
    /\ Expire(t)
    /\ UNCHANGED <<mutexVars, channalVars, pc, socketVars, sessionVars, outcomeVars>>

Environment == ~Undefined /\ (Break \/ \E k \in Calls : PeerAnswers(k))

Next ==
    \/ \E w \in Worker : ThreadStep(w)
    \/ \E t \in Callback : TimePasses(t)
    \/ Environment

Spec == Init /\ [][Next]_vars

\* The operating system runs every thread, and time passes. The peer owes nothing.
FairSpec ==
    /\ Spec
    /\ \A w \in Worker : WF_vars(ThreadStep(w))
    /\ \A t \in Callback : WF_vars(TimePasses(t))

-----------------------------------------------------------------------------
InQueue(c) == \E i \in DOMAIN m_tasks : m_tasks[i] = c

\* No coroutine is ever forgotten by the scheduler (and freed with its function half
\* done): as long as it has not returned, a worker has it in hand, it waits in the queue
\* of tasks, of a mutex or of a condition variable, or somebody is about to add it. What
\* could lose it are the three places that write m_state without a common lock.
Kept(c) ==
    \/ InQueue(c)
    \/ \E w \in Worker :
          /\ cur[w] = c
          /\ \/ at_worker[w] \in {"resume", "run", "poll", "again"}
             \/ at_worker[w] = "check" /\ m_state[c] = "READY"
    \/ \E m \in Mutex : Contains(m_waitQueue[m], c)
    \/ \E ch \in Channal, k \in CV : Contains(cvQueue[ch][k], c)
    \/ \E d \in Coroutine : c \in {wait_coroutine[d], notified[d]} /\ Running(d)

Started(c) ==
    \/ c \in Calls
    \/ c \in {Sender, Receiver} /\ m_has_connect
    \/ c \in Callback /\ m_events[c] = "taken"

NoCoroutineForgotten == \A c \in Coroutine : Started(c) /\ c \notin ended => Kept(c)

\* A call that goes on to decode an answer has one, and it is its own: timeout is set
\* before the channel is closed, so the flag is seen by whoever close() wakes up.
AnswerIsOwn == \A k \in Calls : result[k] = "answer" => message[k] = k

\* The timer did not take the event of the call, because another had its millisecond.
Untimed(k) == m_events[timerOf[k]] = "dropped"

\* Every call whose event the timer took comes back, whatever the peer and the connection
\* do, unless the behaviour is undefined before. One whose event was not inserted
\* (timer.cpp:81), which nobody tells it, waits for ever when no answer reaches its
\* channel; it comes back when one does.
EveryCallReturns ==
    \A k \in Calls :
        /\ <>(k \in ended \/ Untimed(k) \/ Undefined)
        /\ (Untimed(k) /\ m_queue[k] # <<>>) ~> (k \in ended \/ Undefined)

=============================================================================
