-------------------------- MODULE RpcSession_proofs --------------------------
(***************************************************************************)
(* What RpcSession promises, for every number of threads, calls and        *)
(* mutexes and every capacity of its channels:                             *)
(*   - CoroutineMutex excludes (Spec => []MutexInv);                       *)
(*   - the channels are bounded queues (Spec => ImplementsBoundedQueue);   *)
(*   - an answer is that of its call (Spec => []AnswerIsOwn);              *)
(*   - the scheduler forgets nobody (Spec => []NoCoroutineForgotten);      *)
(*   - every variable keeps its type (Spec => []TypeOK).                   *)
(*                                                                         *)
(* MutexInv is inductive together with the types of what it speaks of. A   *)
(* lemma per step of the mutex shows that it keeps MutexInv; a coroutine   *)
(* outside of lock and unlock can only call them, which keeps it as well.  *)
(*                                                                         *)
(* Whoever has looked at a queue and goes on to act on it owns the mutex   *)
(* of the channel all the while (Holds), so that nobody else changes the   *)
(* queue or closes it in between and what it has seen still holds (Seen).  *)
(*                                                                         *)
(* So what is popped was pushed, and a response channel holds nothing but  *)
(* the answer to its call (ChannelsOK): each coroutine of the session is   *)
(* at a place of its own function, in a call on a channel of its own       *)
(* (CallOK, CallbackOK, SenderOK, ReceiverOK).                             *)
(*                                                                         *)
(* A worker drops a coroutine whose mark is not READY. Such a mark is only *)
(* set behind the queueing (Unlocked), and from then on the coroutine is   *)
(* in the queue, or in the hand of one that will mark it READY (Waits),    *)
(* so the mark is true whenever a worker looks at it (Marked). Who has     *)
(* taken it from the queue runs until it has added it (Handing). Hence a   *)
(* coroutine is always Somewhere.                                          *)
(***************************************************************************)
EXTENDS RpcSession, FiniteSetTheorems, SequenceTheorems, TLAPS

\* The types of the variables that MutexInv is about.
LockTypes ==
    /\ m_mutex \in [Mutex -> Coroutine \cup {Nil}]
    /\ m_coroutineId \in [Mutex -> Coroutine \cup {Nil}]
    /\ inCall \in [Coroutine -> {"out"} \cup InLock \cup InUnlock]
    /\ mutexOf \in [Coroutine -> Mutex \cup {Nil}]
    /\ \A c \in Coroutine : inCall[c] # "out" => mutexOf[c] \in Mutex

LockInv == LockTypes /\ MutexInv

\* Whoever is in a call on a channel names one, and with it a mutex.
PlaceInv ==
    /\ at \in [Coroutine -> Place]
    /\ channal \in [Coroutine -> Channal \cup {Nil}]
    /\ \A c \in Coroutine : at[c] # "out" => channal[c] \in Channal
    /\ m_response_channals \subseteq Calls

IInv == LockInv /\ PlaceInv

-----------------------------------------------------------------------------
(* The mutex.                                                              *)

\* A call of lock or unlock by a coroutine that is in neither keeps LockInv.
LEMMA CallKeeps ==
    ASSUME LockInv, NEW c \in Coroutine, NEW m \in Mutex, inCall[c] = "out",
           CallLock(c, m) \/ CallUnlock(c, m)
    PROVE  LockInv'
<1>1. PICK place \in {"lock", "unlock"} : Call(c, place, m)
  BY DEF CallLock, CallUnlock
<1>2. /\ inCall' = [inCall EXCEPT ![c] = place]
      /\ mutexOf' = [mutexOf EXCEPT ![c] = m]
      /\ UNCHANGED <<m_mutex, m_coroutineId>>
  BY <1>1 DEF Call, Goto
<1>3. LockTypes'
  BY <1>2 DEF LockInv, LockTypes, InLock, InUnlock
<1>4. MutexInv'
  BY <1>2 DEF LockInv, LockTypes, MutexInv
<1> QED BY <1>3, <1>4 DEF LockInv

\* tryLock takes a free mutex or sends its caller to the queue.
LEMMA TryLockKeeps ==
    ASSUME LockInv, NEW c \in Coroutine, inCall[c] \in {"lock", "retry"}, tryLock(c),
           UNCHANGED <<m_coroutineId, mutexOf>>
    PROVE  LockInv'
<1> DEFINE m == mutexOf[c]
<1>1. m \in Mutex
  BY DEF LockInv, LockTypes
<1>2. CASE m_mutex[m] = Nil
  <2>1. /\ m_mutex' = [m_mutex EXCEPT ![m] = c]
        /\ inCall' = [inCall EXCEPT ![c] = "own"]
    BY <1>2 DEF tryLock, Goto
  <2>2. m_coroutineId[m] = Nil
    BY <1>1, <1>2 DEF LockInv, MutexInv
  <2>3. LockTypes'
    BY <2>1, <1>1 DEF LockInv, LockTypes, InLock, InUnlock
  <2>4. MutexInv'
    BY <2>1, <2>2, <1>1, <1>2, CoroutineAssumption DEF LockInv, LockTypes, MutexInv
  <2> QED BY <2>3, <2>4 DEF LockInv
<1>3. CASE m_mutex[m] # Nil
  <2>1. m_mutex' = m_mutex /\ inCall' = [inCall EXCEPT ![c] = "enqueue"]
    BY <1>3 DEF tryLock, Goto
  <2>2. LockTypes'
    BY <2>1 DEF LockInv, LockTypes, InLock, InUnlock
  <2>3. MutexInv'
    BY <2>1 DEF LockInv, LockTypes, MutexInv
  <2> QED BY <2>2, <2>3 DEF LockInv
<1> QED BY <1>2, <1>3

\* A step that only moves its coroutine on, to a place outside the two that MutexInv
\* speaks of, keeps LockInv.
LEMMA MoveKeeps ==
    ASSUME LockInv, NEW c \in Coroutine, inCall[c] # "out",
           NEW place \in ({"out"} \cup InLock \cup InUnlock) \ {"own", "release"},
           Goto(c, place), UNCHANGED <<m_mutex, m_coroutineId, mutexOf>>
    PROVE  LockInv'
<1>1. LockTypes'
  BY DEF Goto, LockInv, LockTypes, InLock, InUnlock
<1>2. MutexInv'
  BY DEF Goto, LockInv, LockTypes, MutexInv
<1> QED BY <1>1, <1>2 DEF LockInv

\* Every step inside lock and unlock keeps LockInv.
LEMMA MutexStepKeeps ==
    ASSUME LockInv, NEW c \in Coroutine, MutexStep(c)
    PROVE  LockInv'
<1>1. CASE Lock(c)
  <2>1. CASE m_coroutineId[mutexOf[c]] = c
    BY <1>1, <2>1, MoveKeeps DEF Lock, In, InLock
  <2>2. CASE m_coroutineId[mutexOf[c]] # c
    BY <1>1, <2>2, TryLockKeeps DEF Lock, In
  <2> QED BY <2>1, <2>2
<1>2. CASE Retry(c)
  BY <1>2, TryLockKeeps DEF Retry, In
<1>3. CASE Enqueue(c)
  BY <1>3, MoveKeeps DEF Enqueue, In, InLock
<1>4. CASE YieldBlocked(c)
  BY <1>4, MoveKeeps DEF YieldBlocked, In, InLock
<1>5. CASE Own(c)
  <2>1. /\ inCall[c] = "own"
        /\ m_coroutineId' = [m_coroutineId EXCEPT ![mutexOf[c]] = c]
        /\ inCall' = [inCall EXCEPT ![c] = "out"]
        /\ UNCHANGED <<m_mutex, mutexOf>>
    BY <1>5 DEF Own, In, Goto
  <2>2. mutexOf[c] \in Mutex /\ m_mutex[mutexOf[c]] = c
    BY <2>1 DEF LockInv, LockTypes, MutexInv
  <2>3. LockTypes'
    BY <2>1, <2>2 DEF LockInv, LockTypes, InLock, InUnlock
  <2>4. MutexInv'
    BY <2>1, <2>2 DEF LockInv, LockTypes, MutexInv
  <2> QED BY <2>3, <2>4 DEF LockInv
<1>6. CASE Unlock(c)
  <2>1. CASE m_coroutineId[mutexOf[c]] # c
    BY <1>6, <2>1, MoveKeeps DEF Unlock, In
  <2>2. CASE m_coroutineId[mutexOf[c]] = c
    <3>1. /\ inCall[c] = "unlock"
          /\ m_coroutineId' = [m_coroutineId EXCEPT ![mutexOf[c]] = Nil]
          /\ inCall' = [inCall EXCEPT ![c] = "release"]
          /\ UNCHANGED <<m_mutex, mutexOf>>
      BY <1>6, <2>2 DEF Unlock, In, Goto
    <3>2. mutexOf[c] \in Mutex /\ m_mutex[mutexOf[c]] = c
      BY <3>1, <2>2, CoroutineAssumption DEF LockInv, LockTypes, MutexInv
    <3>3. LockTypes'
      BY <3>1 DEF LockInv, LockTypes, InLock, InUnlock
    <3>4. MutexInv'
      BY <3>1, <3>2 DEF LockInv, LockTypes, MutexInv
    <3> QED BY <3>3, <3>4 DEF LockInv
  <2> QED BY <2>1, <2>2
<1>7. CASE Release(c)
  <2>1. PICK place \in {"out", "ready"} :
          /\ inCall[c] = "release"
          /\ m_mutex' = [m_mutex EXCEPT ![mutexOf[c]] = Nil]
          /\ inCall' = [inCall EXCEPT ![c] = place]
          /\ UNCHANGED <<m_coroutineId, mutexOf>>
    BY <1>7 DEF Release, In, Goto
  <2>2. /\ mutexOf[c] \in Mutex
        /\ m_mutex[mutexOf[c]] = c
        /\ m_coroutineId[mutexOf[c]] = Nil
    BY <2>1 DEF LockInv, LockTypes, MutexInv
  <2>3. LockTypes'
    BY <2>1 DEF LockInv, LockTypes, InLock, InUnlock
  <2>4. MutexInv'
    BY <2>1, <2>2 DEF LockInv, LockTypes, MutexInv
  <2> QED BY <2>3, <2>4 DEF LockInv
<1>8. CASE Ready(c)
  BY <1>8, MoveKeeps DEF Ready, In, InUnlock
<1>9. CASE Reschedule(c)
  BY <1>9, MoveKeeps DEF Reschedule, In
<1> QED
  BY <1>1, <1>2, <1>3, <1>4, <1>5, <1>6, <1>7, <1>8, <1>9 DEF MutexStep

\* A coroutine that is in no call of a mutex, and either calls one or leaves the mutexes
\* alone, keeps LockInv.
LEMMA OutsideKeeps ==
    ASSUME LockInv, NEW c \in Coroutine, NEW m \in Mutex, inCall[c] = "out",
           CallLock(c, m) \/ CallUnlock(c, m) \/ UNCHANGED mutexVars
    PROVE  LockInv'
<1>1. CASE CallLock(c, m) \/ CallUnlock(c, m)
  BY <1>1, CallKeeps
<1>2. CASE UNCHANGED mutexVars
  BY <1>2 DEF mutexVars, LockInv, LockTypes, MutexInv
<1> QED BY <1>1, <1>2

-----------------------------------------------------------------------------
(* The channels.                                                           *)

\* A call of push, pop or close names the channel it is made on.
LEMMA EnterKeeps ==
    ASSUME PlaceInv, NEW c \in Coroutine, NEW ch \in Channal, NEW o, Enter(c, o, ch),
           m_response_channals' \subseteq Calls
    PROVE  PlaceInv'
BY DEF PlaceInv, Enter, Place

\* Whoever goes on inside a call stays with its channel.
LEMMA GotoPlaceKeeps ==
    ASSUME PlaceInv, NEW c \in Coroutine, at[c] # "out", NEW place \in Place,
           GotoPlace(c, place), UNCHANGED <<channal, m_response_channals>>
    PROVE  PlaceInv'
BY DEF PlaceInv, GotoPlace

\* A step inside push, pop or close keeps IInv: what it calls is the mutex of its channel.
LEMMA ChannalStepKeeps ==
    ASSUME IInv, NEW c \in Coroutine, ChannalStep(c), UNCHANGED sessionVars
    PROVE  IInv'
<1> DEFINE ch == channal[c]
<1>1. inCall[c] = "out" /\ at[c] # "out"
  BY DEF ChannalStep, LockChannal, Look, Act, Wait, Waiting, YieldWaiting, Notify,
         AddNotified, BeginClose, ClosePush, ClosePop, Inside
<1>2. ch \in Mutex
  BY <1>1, ChannalAssumption DEF IInv, PlaceInv
<1>3. CallLock(c, ch) \/ CallUnlock(c, ch) \/ UNCHANGED mutexVars
  BY DEF ChannalStep, LockChannal, Look, Act, Wait, Waiting, YieldWaiting, Notify,
         AddNotified, BeginClose, ClosePush, ClosePop, NotifyAll, NotifiedAll
<1>4. LockInv'
  BY <1>1, <1>2, <1>3, OutsideKeeps DEF IInv
<1>5. channal' = channal /\ \E place \in Place : GotoPlace(c, place)
  <2>1. CASE LockChannal(c) \/ Look(c) \/ Act(c)
    BY <2>1 DEF LockChannal, Look, Act, Place, callVars
  <2>2. CASE Wait(c) \/ Waiting(c) \/ YieldWaiting(c)
    BY <2>2 DEF Wait, Waiting, YieldWaiting, Place, callVars
  <2>3. CASE Notify(c) \/ AddNotified(c)
    BY <2>3 DEF Notify, AddNotified, TakeWaiter, Place
  <2>4. CASE BeginClose(c)
    BY <2>4 DEF BeginClose, Place, callVars
  <2>5. CASE ClosePush(c) \/ ClosePop(c)
    BY <2>5 DEF ClosePush, ClosePop, NotifyAll, TakeWaiter, Place
  <2> QED BY <2>1, <2>2, <2>3, <2>4, <2>5 DEF ChannalStep
<1>6. PlaceInv'
  BY <1>1, <1>5, GotoPlaceKeeps DEF IInv, sessionVars
<1> QED BY <1>4, <1>6 DEF IInv

-----------------------------------------------------------------------------
(* The calls and the session.                                              *)

\* A step that leaves the channels and the table of calls alone keeps PlaceInv.
LEMMA PlacesUnchanged ==
    ASSUME PlaceInv, UNCHANGED channalVars, m_response_channals' \subseteq Calls
    PROVE  PlaceInv'
BY DEF PlaceInv, channalVars

\* The step of a call keeps IInv: the one mutex it calls is that of the session.
LEMMA CallStepKeeps ==
    ASSUME IInv, NEW k \in Calls, CallStep(k)
    PROVE  IInv'
<1>1. /\ k \in Coroutine /\ k \in Channal /\ Requests \in Channal
      /\ Session \in Mutex
  BY SessionAssumption
<1>2. inCall[k] = "out"
  BY DEF CallStep, Connect, Adopt, Register, Registered, Submit, Arm, Await, Cancel,
         Erase, Erased, Outcome, Stands
<1>3. CallLock(k, Session) \/ CallUnlock(k, Session) \/ UNCHANGED mutexVars
  BY DEF CallStep, Connect, Adopt, Register, Registered, Submit, Arm, Await, Cancel,
         Erase, Erased, Outcome
<1>4. LockInv'
  BY <1>1, <1>2, <1>3, OutsideKeeps DEF IInv
<1>5. PlaceInv'
  <2>1. CASE Submit(k) \/ Await(k)
    BY <2>1, <1>1, EnterKeeps DEF IInv, PlaceInv, Submit, Await, Push, Pop, sessionVars
  <2>2. CASE Connect(k) \/ Adopt(k) \/ Register(k) \/ Registered(k)
    BY <2>2, PlacesUnchanged
       DEF IInv, PlaceInv, Connect, Adopt, Register, Registered, sessionVars
  <2>3. CASE Arm(k) \/ Cancel(k) \/ Erase(k) \/ Erased(k) \/ Outcome(k)
    BY <2>3, PlacesUnchanged
       DEF IInv, PlaceInv, Arm, Cancel, Erase, Erased, Outcome, sessionVars
  <2> QED BY <2>1, <2>2, <2>3 DEF CallStep
<1> QED BY <1>4, <1>5 DEF IInv

\* The step of a timer's callback keeps IInv: the channel it closes is that of a call.
LEMMA CallbackStepKeeps ==
    ASSUME IInv, NEW t \in Callback, CallbackStep(t)
    PROVE  IInv'
<1>1. t \in Coroutine /\ callOf(t) \in Channal
  <2>1. \E k \in Calls : timerOf[k] = t
    BY SessionAssumption
  <2>2. callOf(t) \in Calls
    BY <2>1 DEF callOf
  <2> QED BY <2>2, SessionAssumption
<1>2. UNCHANGED mutexVars
  BY DEF CallbackStep, Fire, CloseChannal, Fired
<1>3. LockInv'
  BY <1>2 DEF mutexVars, IInv, LockInv, LockTypes, MutexInv
<1>4. PlaceInv'
  <2>1. CASE CloseChannal(t)
    BY <2>1, <1>1, EnterKeeps DEF IInv, PlaceInv, CloseChannal, Close, sessionVars
  <2>2. CASE Fire(t) \/ Fired(t)
    BY <2>2, PlacesUnchanged DEF IInv, PlaceInv, Fire, Fired, sessionVars
  <2> QED BY <2>1, <2>2 DEF CallbackStep
<1> QED BY <1>3, <1>4 DEF IInv

\* A step of the sending or the receiving coroutine keeps IInv.
LEMMA SessionStepKeeps ==
    ASSUME IInv, NEW c \in Coroutine, SessionStep(c)
    PROVE  IInv'
<1>1. Requests \in Channal /\ Session \in Mutex /\ Calls \subseteq Channal
  BY SessionAssumption
<1>2. inCall[c] = "out"
  BY DEF SessionStep, TakeRequest, Transmit, ReceiveNothing, ReceiveAnswer, ReceiveEnd,
         CloseSocket, Received, Deliver, Delivered, Stands
<1>3. CallLock(c, Session) \/ CallUnlock(c, Session) \/ UNCHANGED mutexVars
  BY DEF SessionStep, TakeRequest, Transmit, ReceiveNothing, ReceiveAnswer, ReceiveEnd,
         CloseSocket, Received, Deliver, Delivered
<1>4. LockInv'
  BY <1>1, <1>2, <1>3, OutsideKeeps DEF IInv
<1>5. PlaceInv'
  <2>1. CASE c = Sender /\ TakeRequest
    BY <2>1, <1>1, EnterKeeps DEF IInv, PlaceInv, TakeRequest, Pop, sessionVars
  <2>2. CASE c = Receiver /\ Deliver
    <3>1. CASE message[Receiver] \in m_response_channals
      BY <2>2, <3>1, <1>1, EnterKeeps DEF IInv, PlaceInv, Deliver, Push, sessionVars
    <3>2. CASE message[Receiver] \notin m_response_channals
      BY <2>2, <3>2, PlacesUnchanged DEF IInv, PlaceInv, Deliver, sessionVars
    <3> QED BY <3>1, <3>2
  <2>3. CASE Transmit \/ ReceiveNothing \/ ReceiveEnd \/ CloseSocket \/ Received
            \/ Delivered
    BY <2>3, PlacesUnchanged
       DEF IInv, PlaceInv, Transmit, ReceiveNothing, ReceiveEnd, CloseSocket, Received,
           Delivered, sessionVars
  <2>4. CASE ReceiveAnswer
    BY <2>4 DEF IInv, PlaceInv, ReceiveAnswer, sessionVars
  <2> QED BY <2>1, <2>2, <2>3, <2>4 DEF SessionStep
<1> QED BY <1>4, <1>5 DEF IInv

-----------------------------------------------------------------------------
(* The specification.                                                      *)

\* IInv holds at the start: nobody is in a call.
LEMMA InitHolds == Init => IInv
BY CoroutineAssumption
   DEF Init, MutexInit, ChannalInit, IInv, LockInv, LockTypes, MutexInv, PlaceInv, Place,
       InLock, InUnlock

\* A step that leaves mutexes, channels and the table of calls alone keeps IInv.
LEMMA Unaffected ==
    ASSUME IInv, UNCHANGED <<mutexVars, channalVars, sessionVars>>
    PROVE  IInv'
BY DEF mutexVars, channalVars, sessionVars, IInv, LockInv, LockTypes, MutexInv, PlaceInv

\* Every step of a coroutine keeps IInv.
LEMMA StepKeeps ==
    ASSUME IInv, NEW c \in Coroutine, Step(c)
    PROVE  IInv'
<1>1. CASE MutexStep(c) /\ UNCHANGED <<channalVars, sessionVars>>
  <2>1. LockInv'
    BY <1>1, MutexStepKeeps DEF IInv
  <2>2. PlaceInv'
    BY <1>1, PlacesUnchanged DEF IInv, PlaceInv, sessionVars
  <2> QED BY <2>1, <2>2 DEF IInv
<1>2. CASE ChannalStep(c) /\ UNCHANGED sessionVars
  BY <1>2, ChannalStepKeeps
<1>3. CASE c \in Calls /\ CallStep(c)
  BY <1>3, CallStepKeeps
<1>4. CASE c \in Callback /\ CallbackStep(c)
  BY <1>4, CallbackStepKeeps
<1>5. CASE SessionStep(c)
  BY <1>5, SessionStepKeeps
<1> QED BY <1>1, <1>2, <1>3, <1>4, <1>5 DEF Step

\* Every step of the system keeps IInv.
LEMMA NextKeeps == IInv /\ [Next]_vars => IInv'
<1> SUFFICES ASSUME IInv, [Next]_vars PROVE IInv'
  OBVIOUS
<1>1. ASSUME NEW w \in Worker, ThreadStep(w) PROVE IInv'
  <2>1. CASE WorkerStep(w) /\ UNCHANGED <<mutexVars, channalVars, sessionVars>>
    BY <2>1, Unaffected
  <2>2. CASE \E c \in Coroutine : Runs(w, c) /\ Step(c)
    BY <2>2, StepKeeps
  <2> QED BY <1>1, <2>1, <2>2 DEF ThreadStep
<1>2. ASSUME NEW t \in Callback, TimePasses(t) PROVE IInv'
  BY <1>2, Unaffected DEF TimePasses
<1>3. CASE Environment
  BY <1>3, Unaffected DEF Environment, Break, PeerAnswers, networkUnchanged
<1>4. CASE UNCHANGED vars
  BY <1>4, Unaffected DEF vars
<1> QED BY <1>1, <1>2, <1>3, <1>4 DEF Next

\* coroutinesync.cpp: at every moment at most one coroutine is past lock() of a mutex and
\* not past unlock(), and only that one can release it, however many threads resume the
\* coroutines and whatever they do outside.
THEOREM MutexInvCorrect == Spec => []MutexInv
<1>1. IInv => MutexInv
  BY DEF IInv, LockInv
<1> QED BY InitHolds, NextKeeps, <1>1, PTL DEF Spec

-----------------------------------------------------------------------------
(* What whoever is inside push, pop or close holds and has seen.           *)

\* The places of push, pop and close at which the mutex of the channel is held or,
\* having been called for, is about to be.
HeldPlaces == {"look", "wait", "act", "close"}

\* The types of the variables of the channels.
QueueTypes ==
    /\ m_queue \in [Channal -> Seq(Message)]
    /\ m_is_close \in [Channal -> BOOLEAN]
    /\ op \in [Coroutine -> {"push", "pop", "close"}]
    /\ message = [c \in Coroutine |-> message[c]]

Holds(c) ==
    at[c] \in HeldPlaces =>
        \/ inCall[c] \in InLock /\ mutexOf[c] = channal[c]
        \/ inCall[c] = "out" /\ m_coroutineId[channal[c]] = c

\* Whoever pushes has a message, and whoever acts has seen that it may.
Seen(c) ==
    /\ at[c] # "out" /\ op[c] = "push" => message[c] \in Message
    /\ at[c] = "act" =>
          /\ inCall[c] = "out"
          /\ ~m_is_close[channal[c]]
          /\ IF op[c] = "push" THEN Len(m_queue[channal[c]]) < capacity[channal[c]]
             ELSE m_queue[channal[c]] # <<>>

QueueInv == IInv /\ QueueTypes /\ \A c \in Coroutine : Holds(c) /\ Seen(c)

-----------------------------------------------------------------------------
(* The four kinds of steps.                                                *)

\* A step inside lock or unlock.
Within(c) == MutexStep(c) /\ UNCHANGED channalVars

\* A step inside push, pop or close.
Along(c) == ChannalStep(c)

\* A call of push, pop or close.
Begins(c) ==
    /\ at[c] = "out" /\ inCall[c] = "out"
    /\ UNCHANGED mutexVars
    /\ \E o \in {"push", "pop", "close"}, ch \in Channal :
          Enter(c, o, ch) /\ (o = "push" => message'[c] \in Message)
    /\ message' = [message EXCEPT ![c] = message'[c]]

\* A step outside of the channels, which may call lock or unlock of the session.
Elsewhere(c) ==
    /\ at[c] = "out" /\ inCall[c] = "out"
    /\ \/ CallLock(c, Session) \/ CallUnlock(c, Session)
       \/ UNCHANGED mutexVars
    /\ UNCHANGED <<m_queue, m_is_close, cvQueue, cvMutex, op, at, channal, notified>>
    /\ message' = [message EXCEPT ![c] = message'[c]]

\* A step of a call is one of the latter two.
LEMMA CallKinds ==
    ASSUME QueueInv, NEW k \in Calls, CallStep(k)
    PROVE  Begins(k) \/ Elsewhere(k)
<1>1. /\ k \in Coroutine /\ k \in Channal /\ k \in Message /\ Requests \in Channal
  BY SessionAssumption
<1>2. at[k] = "out" /\ inCall[k] = "out"
  BY DEF CallStep, Connect, Adopt, Register, Registered, Submit, Arm, Await, Cancel,
         Erase, Erased, Outcome, Stands
<1>3. message = [c \in Coroutine |-> message[c]]
  BY DEF QueueInv, QueueTypes
<1>4. CASE Submit(k)
  BY <1>1, <1>2, <1>3, <1>4 DEF Begins, Submit, Push
<1>5. CASE Await(k)
  BY <1>1, <1>2, <1>3, <1>5 DEF Begins, Await, Pop
<1>6. CASE Connect(k) \/ Adopt(k) \/ Arm(k) \/ Cancel(k) \/ Outcome(k)
  BY <1>1, <1>2, <1>3, <1>6
     DEF Elsewhere, Connect, Adopt, Arm, Cancel, Outcome, channalVars
<1>7. CASE Register(k) \/ Registered(k) \/ Erase(k) \/ Erased(k)
  BY <1>1, <1>2, <1>3, <1>7
     DEF Elsewhere, Register, Registered, Erase, Erased, channalVars
<1> QED BY <1>4, <1>5, <1>6, <1>7 DEF CallStep

\* So is a step of a timer's callback.
LEMMA CallbackKinds ==
    ASSUME QueueInv, NEW t \in Callback, CallbackStep(t)
    PROVE  Begins(t) \/ Elsewhere(t)
<1>1. t \in Coroutine /\ callOf(t) \in Channal
  <2>1. callOf(t) \in Calls
    BY SessionAssumption DEF callOf
  <2> QED BY <2>1, SessionAssumption
<1>2. at[t] = "out" /\ inCall[t] = "out"
  BY DEF CallbackStep, Fire, CloseChannal, Fired, Stands
<1>3. message = [c \in Coroutine |-> message[c]]
  BY DEF QueueInv, QueueTypes
<1>4. CASE CloseChannal(t)
  BY <1>1, <1>2, <1>3, <1>4 DEF Begins, CloseChannal, Close
<1>5. CASE Fire(t) \/ Fired(t)
  BY <1>1, <1>2, <1>3, <1>5 DEF Elsewhere, Fire, Fired, channalVars
<1> QED BY <1>4, <1>5 DEF CallbackStep

\* So is a step of the sending or the receiving coroutine.
LEMMA SessionKinds ==
    ASSUME QueueInv, NEW c \in Coroutine, SessionStep(c)
    PROVE  Begins(c) \/ Elsewhere(c)
<1>1. Requests \in Channal /\ Calls \subseteq Channal /\ Calls \subseteq Message
  BY SessionAssumption
<1>2. at[c] = "out" /\ inCall[c] = "out"
  BY DEF SessionStep, TakeRequest, Transmit, ReceiveNothing, ReceiveAnswer, ReceiveEnd,
         CloseSocket, Received, Deliver, Delivered, Stands
<1>3. message = [d \in Coroutine |-> message[d]]
  BY DEF QueueInv, QueueTypes
<1>4. m_response_channals \subseteq Calls
  BY DEF QueueInv, IInv, PlaceInv
<1>5. CASE c = Sender /\ TakeRequest
  BY <1>1, <1>2, <1>3, <1>5 DEF Begins, TakeRequest, Pop
<1>6. CASE c = Sender /\ Transmit
  BY <1>2, <1>3, <1>6 DEF Elsewhere, Transmit, channalVars
<1>7. CASE c = Receiver /\ (ReceiveNothing \/ ReceiveEnd \/ CloseSocket)
  BY <1>2, <1>3, <1>7 DEF Elsewhere, ReceiveNothing, ReceiveEnd, CloseSocket, channalVars
<1>8. CASE c = Receiver /\ ReceiveAnswer
  BY <1>2, <1>3, <1>8 DEF Elsewhere, ReceiveAnswer, queueVars
<1>9. CASE c = Receiver /\ (Received \/ Delivered)
  BY <1>2, <1>3, <1>9 DEF Elsewhere, Received, Delivered, channalVars
<1>10. CASE c = Receiver /\ Deliver
  <2> DEFINE k == message[Receiver]
  <2>1. CASE k \in m_response_channals
    <3>1. k \in Channal /\ k \in Message
      BY <1>1, <1>4, <2>1
    <3> QED BY <1>2, <1>3, <1>10, <2>1, <3>1 DEF Begins, Deliver, Push
  <2>2. CASE k \notin m_response_channals
    BY <1>2, <1>3, <1>10, <2>2 DEF Elsewhere, Deliver, channalVars
  <2> QED BY <2>1, <2>2
<1> QED BY <1>5, <1>6, <1>7, <1>8, <1>9, <1>10 DEF SessionStep

\* Every step of a coroutine is of one of the four kinds.
LEMMA Kinds ==
    ASSUME QueueInv, NEW c \in Coroutine, Step(c)
    PROVE  Within(c) \/ Along(c) \/ Begins(c) \/ Elsewhere(c)
BY CallKinds, CallbackKinds, SessionKinds DEF Step, Within, Along

-----------------------------------------------------------------------------
(* What a step of c leaves alone.                                          *)

\* A step inside lock or unlock moves its own coroutine alone.
LEMMA WithinFrame ==
    ASSUME LockTypes, NEW c \in Coroutine, NEW d \in Coroutine, d # c, MutexStep(c)
    PROVE  inCall'[d] = inCall[d] /\ mutexOf' = mutexOf
BY DEF LockTypes, MutexStep, Lock, Retry, tryLock, Enqueue, YieldBlocked, Own, Unlock,
       Release, Ready, Reschedule, Goto

\* A step inside push, pop or close moves its own coroutine alone.
LEMMA AlongFrame ==
    ASSUME QueueInv, NEW c \in Coroutine, NEW d \in Coroutine, d # c, ChannalStep(c)
    PROVE  /\ at'[d] = at[d] /\ channal' = channal /\ op' = op
           /\ message'[d] = message[d]
           /\ inCall'[d] = inCall[d] /\ mutexOf'[d] = mutexOf[d]
           /\ m_coroutineId' = m_coroutineId
<1>1. /\ at \in [Coroutine -> Place]
      /\ inCall \in [Coroutine -> {"out"} \cup InLock \cup InUnlock]
      /\ mutexOf \in [Coroutine -> Mutex \cup {Nil}]
      /\ message = [b \in Coroutine |-> message[b]]
  BY DEF QueueInv, QueueTypes, IInv, LockInv, LockTypes, PlaceInv
<1>2. CASE LockChannal(c) \/ Look(c) \/ BeginClose(c)
  BY <1>1, <1>2 DEF LockChannal, Look, BeginClose, CallLock, CallUnlock, Call, Goto,
                    GotoPlace, callVars, mutexVars
<1>3. CASE Act(c)
  BY <1>1, <1>3 DEF Act, CallUnlock, Call, Goto, GotoPlace
<1>4. CASE Wait(c) \/ Waiting(c) \/ YieldWaiting(c)
  BY <1>1, <1>4 DEF Wait, Waiting, YieldWaiting, CallUnlock, Call, Goto, GotoPlace,
                    callVars, mutexVars
<1>5. CASE Notify(c) \/ AddNotified(c)
  BY <1>1, <1>5 DEF Notify, AddNotified, TakeWaiter, GotoPlace, mutexVars
<1>6. CASE ClosePush(c) \/ ClosePop(c)
  BY <1>1, <1>6 DEF ClosePush, ClosePop, NotifyAll, TakeWaiter, CallUnlock, Call,
                    Goto, GotoPlace, mutexVars
<1> QED BY <1>2, <1>3, <1>4, <1>5, <1>6 DEF ChannalStep

\* Where a coroutine is, in which call and with what message, is changed by its own steps.
LEMMA Frame ==
    ASSUME QueueInv, NEW c \in Coroutine, NEW d \in Coroutine, d # c, Step(c)
    PROVE  /\ at'[d] = at[d] /\ channal'[d] = channal[d] /\ op'[d] = op[d]
           /\ message'[d] = message[d]
           /\ inCall'[d] = inCall[d] /\ mutexOf'[d] = mutexOf[d]
<1>1. /\ at \in [Coroutine -> Place]
      /\ channal \in [Coroutine -> Channal \cup {Nil}]
      /\ op \in [Coroutine -> {"push", "pop", "close"}]
      /\ inCall \in [Coroutine -> {"out"} \cup InLock \cup InUnlock]
      /\ mutexOf \in [Coroutine -> Mutex \cup {Nil}]
      /\ message = [b \in Coroutine |-> message[b]]
  BY DEF QueueInv, QueueTypes, IInv, LockInv, LockTypes, PlaceInv
<1>2. CASE Within(c)
  BY <1>2, WithinFrame DEF Within, channalVars, QueueInv, IInv, LockInv
<1>3. CASE Along(c)
  BY <1>3, AlongFrame DEF Along
<1>4. CASE Begins(c)
  BY <1>1, <1>4 DEF Begins, Enter, mutexVars
<1>5. CASE Elsewhere(c)
  BY <1>1, <1>5 DEF Elsewhere, CallLock, CallUnlock, Call, Goto, mutexVars
<1> QED BY <1>2, <1>3, <1>4, <1>5, Kinds

\* Nobody but its owner takes a mutex from its owner.
LEMMA OwnerStays ==
    ASSUME QueueInv, NEW c \in Coroutine, NEW d \in Coroutine, d # c, Step(c),
           NEW m \in Mutex, m_coroutineId[m] = d
    PROVE  m_coroutineId'[m] = d
<1>1. CASE MutexStep(c)
  <2>1. LockTypes /\ MutexInv /\ d # Nil
    BY CoroutineAssumption DEF QueueInv, IInv, LockInv
  <2>2. CASE Own(c)
    <3>1. mutexOf[c] # m
      BY <2>1, <2>2 DEF Own, In, MutexInv
    <3> QED BY <2>1, <2>2, <3>1 DEF Own, LockTypes
  <2>3. CASE Unlock(c)
    <3>1. m_coroutineId[mutexOf[c]] = c => mutexOf[c] # m
      OBVIOUS
    <3> QED BY <2>1, <2>3, <3>1 DEF Unlock, LockTypes
  <2>4. CASE ~Own(c) /\ ~Unlock(c)
    BY <1>1, <2>4 DEF MutexStep, Lock, Retry, Enqueue, YieldBlocked, Release, Ready,
                      Reschedule
  <2> QED BY <2>2, <2>3, <2>4
<1>2. CASE Along(c)
  BY <1>2, AlongFrame DEF Along
<1>3. CASE Begins(c)
  BY <1>3 DEF Begins, mutexVars
<1>4. CASE Elsewhere(c)
  BY <1>4 DEF Elsewhere, CallLock, CallUnlock, Call, mutexVars
<1> QED BY <1>1, <1>2, <1>3, <1>4, Kinds DEF Within

\* Whoever changes a queue or closes a channel owns its mutex.
LEMMA ChangesOwn ==
    ASSUME QueueInv, NEW c \in Coroutine, Step(c), NEW ch \in Channal,
           m_queue'[ch] # m_queue[ch] \/ m_is_close'[ch] # m_is_close[ch]
    PROVE  ch = channal[c] /\ m_coroutineId[ch] = c
<1>1. /\ m_queue \in [Channal -> Seq(Message)]
      /\ m_is_close \in [Channal -> BOOLEAN]
  BY DEF QueueInv, QueueTypes
<1>2. Act(c) \/ BeginClose(c)
  <2>1. CASE Within(c)
    BY <2>1 DEF Within, channalVars
  <2>2. CASE Along(c)
    BY <2>2 DEF Along, ChannalStep, LockChannal, Look, Wait, Waiting, YieldWaiting,
                Notify, AddNotified, ClosePush, ClosePop, queueVars
  <2>3. CASE Begins(c)
    BY <2>3 DEF Begins, Enter
  <2>4. CASE Elsewhere(c)
    BY <2>4 DEF Elsewhere
  <2> QED BY <2>1, <2>2, <2>3, <2>4, Kinds
<1>3. ch = channal[c]
  BY <1>1, <1>2 DEF Act, BeginClose
<1>4. inCall[c] = "out" /\ at[c] \in HeldPlaces
  BY <1>2 DEF Act, BeginClose, Inside, HeldPlaces
<1>5. m_coroutineId[channal[c]] = c
  BY <1>4 DEF QueueInv, Holds, InLock
<1> QED BY <1>3, <1>5

-----------------------------------------------------------------------------
(* Holds and Seen.                                                         *)

\* The steps of others do not disturb what a coroutine holds and has seen.
LEMMA OthersKeep ==
    ASSUME QueueInv, NEW c \in Coroutine, NEW d \in Coroutine, d # c, Step(c)
    PROVE  (Holds(d) /\ Seen(d))'
<1>1. /\ at'[d] = at[d] /\ channal'[d] = channal[d] /\ op'[d] = op[d]
      /\ message'[d] = message[d]
      /\ inCall'[d] = inCall[d] /\ mutexOf'[d] = mutexOf[d]
  BY Frame
<1>2. Holds(d) /\ Seen(d)
  BY DEF QueueInv
<1>3. at[d] # "out" => channal[d] \in Channal /\ channal[d] \in Mutex
  BY ChannalAssumption DEF QueueInv, IInv, PlaceInv
<1>4. Holds(d)'
  <2>1. at[d] \in HeldPlaces /\ m_coroutineId[channal[d]] = d
          => m_coroutineId'[channal[d]] = d
    BY <1>3, OwnerStays DEF HeldPlaces
  <2> QED BY <1>1, <1>2, <2>1 DEF Holds
<1>5. Seen(d)'
  <2>1. ASSUME at[d] = "act"
        PROVE  /\ m_queue'[channal[d]] = m_queue[channal[d]]
               /\ m_is_close'[channal[d]] = m_is_close[channal[d]]
    <3>1. channal[d] \in Channal /\ m_coroutineId[channal[d]] = d
      BY <1>2, <1>3, <2>1 DEF Holds, Seen, HeldPlaces, InLock
    <3> QED BY <3>1, ChangesOwn
  <2> QED BY <1>1, <1>2, <2>1 DEF Seen
<1> QED BY <1>4, <1>5

\* A coroutine leaves lock as the owner of the mutex it called lock of.
LEMMA WithinKeeps ==
    ASSUME QueueInv, NEW c \in Coroutine, Within(c)
    PROVE  (Holds(c) /\ Seen(c))'
<1>1. /\ UNCHANGED <<at, channal, op, message, m_queue, m_is_close>>
      /\ MutexStep(c) /\ LockTypes /\ inCall[c] # "out"
  BY DEF Within, channalVars, QueueInv, IInv, LockInv, MutexStep, Lock, Retry, Enqueue,
         YieldBlocked, Own, Unlock, Release, Ready, Reschedule, In
<1>2. Holds(c) /\ Seen(c)
  BY DEF QueueInv
<1>3. Seen(c)'
  BY <1>1, <1>2 DEF Seen
<1>4. CASE at[c] \notin HeldPlaces
  BY <1>1, <1>3, <1>4 DEF Holds
<1>5. CASE at[c] \in HeldPlaces
  <2>1. inCall[c] \in InLock /\ mutexOf[c] = channal[c] /\ mutexOf[c] \in Mutex
    BY <1>1, <1>2, <1>5 DEF Holds, LockTypes
  <2>2. CASE Lock(c) \/ Retry(c) \/ Enqueue(c) \/ YieldBlocked(c)
    <3>1. /\ UNCHANGED <<m_coroutineId, mutexOf>>
          /\ \/ inCall' = [inCall EXCEPT ![c] = "out"] /\ m_coroutineId[mutexOf[c]] = c
             \/ \E place \in InLock : inCall' = [inCall EXCEPT ![c] = place]
      BY <2>2 DEF Lock, tryLock, Retry, Enqueue, YieldBlocked, Goto, InLock
    <3>2. \/ inCall'[c] = "out" /\ m_coroutineId[mutexOf[c]] = c
          \/ inCall'[c] \in InLock
      BY <1>1, <3>1 DEF LockTypes
    <3>3. Holds(c)'
      BY <1>1, <2>1, <3>1, <3>2 DEF Holds
    <3> QED BY <1>3, <3>3
  <2>3. CASE Own(c)
    <3>1. inCall'[c] = "out" /\ m_coroutineId'[mutexOf[c]] = c
      BY <1>1, <2>1, <2>3 DEF Own, Goto, LockTypes
    <3>2. Holds(c)'
      BY <1>1, <2>1, <3>1 DEF Holds
    <3> QED BY <1>3, <3>2
  <2>4. CASE Unlock(c) \/ Release(c) \/ Ready(c) \/ Reschedule(c)
    BY <2>1, <2>4 DEF Unlock, Release, Ready, Reschedule, In, InLock
  <2> QED BY <1>1, <2>2, <2>3, <2>4 DEF MutexStep
<1> QED BY <1>4, <1>5, <1>3

\* A coroutine looks only after lock, and acts on what it has looked at.
LEMMA AlongKeeps ==
    ASSUME QueueInv, NEW c \in Coroutine, ChannalStep(c)
    PROVE  (Holds(c) /\ Seen(c))'
<1>1. /\ at \in [Coroutine -> Place]
      /\ inCall \in [Coroutine -> {"out"} \cup InLock \cup InUnlock]
      /\ mutexOf \in [Coroutine -> Mutex \cup {Nil}]
      /\ message = [b \in Coroutine |-> message[b]]
  BY DEF QueueInv, QueueTypes, IInv, LockInv, LockTypes, PlaceInv
<1>2. Holds(c) /\ Seen(c)
  BY DEF QueueInv
<1>3. CASE LockChannal(c)
  BY <1>1, <1>2, <1>3 DEF LockChannal, Inside, CallLock, Call, Goto, GotoPlace, callVars,
                          Holds, Seen, InLock
<1>4. CASE Look(c)
  <2>1. at[c] = "look" /\ inCall[c] = "out" /\ m_coroutineId[channal[c]] = c
    BY <1>2, <1>4 DEF Look, Inside, Holds, HeldPlaces, InLock
  <2>2. channal[c] \in Channal /\ op[c] \in {"push", "pop", "close"}
    BY <2>1 DEF QueueInv, QueueTypes, IInv, PlaceInv
  <2>3. CASE m_is_close[channal[c]]
    BY <1>1, <1>4, <2>3 DEF Look, GotoPlace, callVars, Holds, Seen, HeldPlaces
  <2>4. CASE ~m_is_close[channal[c]] /\ MustWait(c)
    BY <1>1, <1>2, <1>4, <2>1, <2>4
       DEF Look, GotoPlace, callVars, queueVars, mutexVars, Holds, Seen
  <2>5. CASE ~m_is_close[channal[c]] /\ ~MustWait(c)
    <3>1. /\ at' = [at EXCEPT ![c] = "act"]
          /\ UNCHANGED <<inCall, m_coroutineId, m_queue, m_is_close, op, channal, message>>
      BY <1>4, <2>5 DEF Look, GotoPlace, callVars, queueVars, mutexVars
    <3>2. IF op[c] = "push" THEN Len(m_queue[channal[c]]) < capacity[channal[c]]
          ELSE m_queue[channal[c]] # <<>>
      <4>1. Len(m_queue[channal[c]]) \in Nat /\ capacity[channal[c]] \in Nat
        BY <2>2, ChannalAssumption DEF QueueInv, QueueTypes
      <4> QED BY <4>1, <2>5 DEF MustWait
    <3> QED BY <1>1, <1>2, <2>1, <2>5, <3>1, <3>2 DEF Holds, Seen
  <2> QED BY <2>3, <2>4, <2>5
<1>5. CASE Act(c)
  BY <1>1, <1>2, <1>5 DEF Act, Inside, GotoPlace, Holds, Seen, HeldPlaces
<1>6. CASE Wait(c) \/ Waiting(c) \/ YieldWaiting(c)
  BY <1>1, <1>2, <1>6 DEF Wait, Waiting, YieldWaiting, Inside, GotoPlace, callVars, Holds,
                          Seen, HeldPlaces
<1>7. CASE Notify(c) \/ AddNotified(c)
  BY <1>1, <1>2, <1>7 DEF Notify, AddNotified, Inside, TakeWaiter, GotoPlace, Holds, Seen,
                          HeldPlaces
<1>8. CASE BeginClose(c)
  BY <1>1, <1>2, <1>8 DEF BeginClose, Inside, GotoPlace, callVars, Holds, Seen, HeldPlaces
<1>9. CASE ClosePush(c) \/ ClosePop(c)
  BY <1>1, <1>2, <1>9 DEF ClosePush, ClosePop, Inside, NotifyAll, TakeWaiter, GotoPlace,
                          Holds, Seen, HeldPlaces
<1> QED BY <1>3, <1>4, <1>5, <1>6, <1>7, <1>8, <1>9 DEF ChannalStep

\* A coroutine keeps Holds and Seen by its own steps.
LEMMA SelfKeeps ==
    ASSUME QueueInv, NEW c \in Coroutine, Step(c)
    PROVE  (Holds(c) /\ Seen(c))'
<1>1. /\ at \in [Coroutine -> Place]
      /\ op \in [Coroutine -> {"push", "pop", "close"}]
      /\ message = [b \in Coroutine |-> message[b]]
  BY DEF QueueInv, QueueTypes, IInv, PlaceInv
<1>2. CASE Begins(c)
  BY <1>1, <1>2 DEF Begins, Enter, Holds, Seen, HeldPlaces
<1>3. CASE Elsewhere(c)
  BY <1>3 DEF Elsewhere, Holds, Seen, HeldPlaces
<1> QED BY <1>2, <1>3, WithinKeeps, AlongKeeps, Kinds DEF Along

-----------------------------------------------------------------------------
(* The channels as bounded queues.                                         *)

AbstractStep == [Abstract!Next]_<<m_queue, m_is_close>>

\* What a step inside push, pop or close does to the queues is a step of BoundedQueue.
LEMMA AlongRefines ==
    ASSUME QueueInv, NEW c \in Coroutine, ChannalStep(c)
    PROVE  AbstractStep /\ QueueTypes'
<1> DEFINE ch == channal[c]
<1>1. QueueTypes /\ Seen(c)
  BY DEF QueueInv
<1>2. at[c] # "out"
  BY DEF ChannalStep, LockChannal, Look, Act, Wait, Waiting, YieldWaiting, Notify,
         AddNotified, BeginClose, ClosePush, ClosePop, Inside
<1>3. ch \in Channal
  BY <1>2 DEF QueueInv, IInv, PlaceInv
<1>4. CASE Act(c)
  <2>1. /\ ~m_is_close[ch]
        /\ op' = op /\ m_is_close' = m_is_close
        /\ m_queue[ch] \in Seq(Message)
    BY <1>1, <1>3, <1>4 DEF Act, Inside, Seen, QueueTypes
  <2>2. CASE op[c] = "push"
    <3>1. /\ message[c] \in Message
          /\ Len(m_queue[ch]) < capacity[ch]
          /\ m_queue' = [m_queue EXCEPT ![ch] = Append(@, message[c])]
          /\ message' = message
      BY <1>1, <1>2, <1>4, <2>2 DEF Act, Inside, Seen
    <3>2. Abstract!Put(ch)
      BY <2>1, <3>1 DEF Abstract!Put
    <3>3. QueueTypes'
      BY <1>1, <1>3, <2>1, <3>1 DEF QueueTypes
    <3> QED BY <1>3, <3>2, <3>3 DEF AbstractStep, Abstract!Next
  <2>3. CASE op[c] # "push"
    <3>1. /\ m_queue[ch] # <<>>
          /\ m_queue' = [m_queue EXCEPT ![ch] = Tail(@)]
          /\ message' = [message EXCEPT ![c] = Head(m_queue[ch])]
      BY <1>1, <1>4, <2>3 DEF Act, Inside, Seen, First, Rest
    <3>2. Abstract!Get(ch)
      BY <2>1, <3>1 DEF Abstract!Get
    <3>3. Tail(m_queue[ch]) \in Seq(Message)
      BY <2>1, <3>1
    <3>4. QueueTypes'
      BY <1>1, <1>3, <2>1, <3>1, <3>3 DEF QueueTypes
    <3> QED BY <1>3, <3>2, <3>4 DEF AbstractStep, Abstract!Next
  <2> QED BY <2>2, <2>3
<1>5. CASE BeginClose(c) /\ m_is_close' # m_is_close
  <2>1. /\ m_is_close' = [m_is_close EXCEPT ![ch] = TRUE]
        /\ UNCHANGED <<m_queue, op, message>>
    BY <1>5 DEF BeginClose, callVars
  <2>2. Abstract!Close(ch)
    BY <2>1 DEF Abstract!Close
  <2>3. QueueTypes'
    BY <1>1, <2>1 DEF QueueTypes
  <2> QED BY <1>3, <2>2, <2>3 DEF AbstractStep, Abstract!Next
<1>6. CASE ~Act(c) /\ ~(BeginClose(c) /\ m_is_close' # m_is_close)
  <2>1. UNCHANGED <<m_queue, m_is_close, op, message>>
    BY <1>6 DEF ChannalStep, LockChannal, Look, Wait, Waiting, YieldWaiting, Notify,
                AddNotified, BeginClose, ClosePush, ClosePop, queueVars, callVars
  <2> QED BY <1>1, <2>1 DEF QueueTypes, AbstractStep
<1> QED BY <1>4, <1>5, <1>6

\* So is what any step of a coroutine does to them.
LEMMA StepRefines ==
    ASSUME QueueInv, NEW c \in Coroutine, Step(c)
    PROVE  AbstractStep /\ QueueTypes'
<1>1. QueueTypes
  BY DEF QueueInv
<1>2. CASE Within(c)
  BY <1>1, <1>2 DEF Within, channalVars, QueueTypes, AbstractStep
<1>3. CASE Along(c)
  BY <1>3, AlongRefines DEF Along
<1>4. CASE Begins(c)
  BY <1>1, <1>4 DEF Begins, Enter, QueueTypes, AbstractStep
<1>5. CASE Elsewhere(c)
  BY <1>1, <1>5 DEF Elsewhere, QueueTypes, AbstractStep
<1> QED BY <1>2, <1>3, <1>4, <1>5, Kinds

\* A step that leaves mutexes, channels and the table of calls alone keeps QueueInv.
LEMMA QueueUnaffected ==
    ASSUME QueueInv, UNCHANGED <<mutexVars, channalVars, sessionVars>>
    PROVE  QueueInv' /\ AbstractStep
<1>1. IInv'
  BY Unaffected DEF QueueInv
<1>2. UNCHANGED <<m_queue, m_is_close, op, at, channal, message, inCall, mutexOf,
                  m_coroutineId>>
  BY DEF mutexVars, channalVars
<1> QED BY <1>1, <1>2 DEF QueueInv, QueueTypes, Holds, Seen, AbstractStep

\* Every step of the system keeps QueueInv and is one of BoundedQueue, or stutters.
LEMMA QueueNext == QueueInv /\ [Next]_vars => QueueInv' /\ AbstractStep
<1> SUFFICES ASSUME QueueInv, [Next]_vars PROVE QueueInv' /\ AbstractStep
  OBVIOUS
<1>1. ASSUME NEW c \in Coroutine, Step(c) PROVE QueueInv' /\ AbstractStep
  <2>1. IInv'
    BY <1>1, StepKeeps DEF QueueInv
  <2>2. QueueTypes' /\ AbstractStep
    BY <1>1, StepRefines
  <2>3. ASSUME NEW d \in Coroutine PROVE (Holds(d) /\ Seen(d))'
    BY <1>1, SelfKeeps, OthersKeep
  <2> QED BY <2>1, <2>2, <2>3 DEF QueueInv
<1>2. ASSUME NEW w \in Worker, ThreadStep(w) PROVE QueueInv' /\ AbstractStep
  <2>1. CASE WorkerStep(w) /\ UNCHANGED <<mutexVars, channalVars, sessionVars>>
    BY <2>1, QueueUnaffected
  <2>2. CASE \E c \in Coroutine : Runs(w, c) /\ Step(c)
    BY <2>2, <1>1
  <2> QED BY <1>2, <2>1, <2>2 DEF ThreadStep
<1>3. ASSUME NEW t \in Callback, TimePasses(t) PROVE QueueInv' /\ AbstractStep
  BY <1>3, QueueUnaffected DEF TimePasses
<1>4. CASE Environment
  BY <1>4, QueueUnaffected DEF Environment, Break, PeerAnswers, networkUnchanged
<1>5. CASE UNCHANGED vars
  BY <1>5, QueueUnaffected DEF vars
<1> QED BY <1>2, <1>3, <1>4, <1>5 DEF Next

\* QueueInv holds at the start, where all queues are empty and open.
LEMMA QueueInit == Init => QueueInv /\ Abstract!Init
<1> SUFFICES ASSUME Init PROVE QueueInv /\ Abstract!Init
  OBVIOUS
<1>1. IInv
  BY InitHolds
<1>2. ChannalInit
  BY DEF Init
<1>3. QueueTypes
  BY <1>2 DEF ChannalInit, QueueTypes
<1>4. ASSUME NEW c \in Coroutine PROVE Holds(c) /\ Seen(c)
  BY <1>2 DEF ChannalInit, Holds, Seen, HeldPlaces
<1>5. Abstract!Init
  BY <1>2 DEF ChannalInit, Abstract!Init
<1> QED BY <1>1, <1>3, <1>4, <1>5 DEF QueueInv

\* coroutinechannal.h: no message is pushed beyond the capacity of a channel, popped twice
\* or out of order, and none goes in or out after close(), however push, pop, close, the
\* waits and the wake-ups of any number of coroutines interleave.
THEOREM RefinesBoundedQueue == Spec => ImplementsBoundedQueue
BY QueueInit, QueueNext, PTL DEF Spec, ImplementsBoundedQueue, Abstract!Spec, AbstractStep

-----------------------------------------------------------------------------
(* The calls of the session.                                               *)


CallPlaces == {"connect", "adopt", "register", "registered", "submit", "arm", "await",
               "cancel", "erase", "erased", "outcome"}
CallbackPlaces == {"fire", "close", "closed"}
SenderPlaces == {"take", "transmit"}
ReceiverPlaces == {"receive", "received", "deliver", "delivered", "end"}

\* The types of the variables of the session.
SessionTypes ==
    /\ pc \in [Coroutine -> CallPlaces \cup CallbackPlaces \cup SenderPlaces
                                       \cup ReceiverPlaces]
    /\ m_is_connected \in BOOLEAN /\ m_has_connect \in BOOLEAN
    /\ link \in {"none", "up", "broken"}
    /\ requests \subseteq Calls /\ answers \in Seq(Calls)
    /\ breaks \in 0..MaxBreaks
    /\ timeout \in [Calls -> BOOLEAN]
    /\ result \in [Calls -> {"none", "refused", "timeout", "answer"}]

\* The places of push and pop, and those of close.
OpOf(c) ==
    /\ at[c] \in {"look", "wait", "unlocked", "yield", "act", "notify"} => op[c] \in CV
    /\ at[c] \in {"close", "notifyPush", "notifyPop"} => op[c] = "close"

\* The places at which a pop has its message, or has found the channel closed.
Popped == {"out", "notify", "addTask"}

\* A call pushes its request and pops its answer, from its own channel. Behind the pop it
\* has its answer or its flag is set.
CallOK(k) ==
    /\ pc[k] \in CallPlaces
    /\ at[k] # "out" => \/ pc[k] = "arm" /\ op[k] = "push" /\ channal[k] = Requests
                        \/ pc[k] = "cancel" /\ op[k] = "pop" /\ channal[k] = k
    /\ pc[k] \in {"cancel", "erase", "erased", "outcome"} /\ at[k] \in Popped =>
          message[k] = k \/ timeout[k]
    /\ result[k] = "answer" => message[k] = k /\ pc[k] = "outcome" /\ at[k] = "out"

\* A callback closes the channel of its call, behind setting the flag.
CallbackOK(t) ==
    /\ pc[t] \in CallbackPlaces
    /\ pc[t] # "fire" => timeout[callOf(t)]
    /\ at[t] # "out" => pc[t] = "closed" /\ op[t] = "close" /\ channal[t] = callOf(t)

\* The sender pops requests.
SenderOK ==
    /\ pc[Sender] \in SenderPlaces
    /\ at[Sender] # "out" => /\ pc[Sender] = "transmit"
                             /\ op[Sender] = "pop" /\ channal[Sender] = Requests
    /\ pc[Sender] = "transmit" /\ at[Sender] \in Popped => message[Sender] \in Calls

\* The receiver pushes to the channel of a call what is for this call.
ReceiverOK ==
    /\ pc[Receiver] \in ReceiverPlaces
    /\ at[Receiver] # "out" => /\ op[Receiver] = "push"
                               /\ channal[Receiver] \in Calls
                               /\ message[Receiver] = channal[Receiver]

\* A response channel holds nothing but the answer to its call, and is not closed before
\* the flag of the call is set. That of the requests is never closed.
ChannelsOK ==
    /\ \A k \in Calls : m_queue[k] \in Seq({k}) /\ (m_is_close[k] => timeout[k])
    /\ ~m_is_close[Requests]

AnswerInv ==
    /\ QueueInv /\ SessionTypes /\ ChannelsOK
    /\ \A c \in Coroutine : OpOf(c)
    /\ \A k \in Calls : CallOK(k)
    /\ \A t \in Callback : CallbackOK(t)
    /\ SenderOK /\ ReceiverOK

-----------------------------------------------------------------------------
\* The coroutines are of four kinds.
LEMMA FourKinds ==
    /\ Calls \subseteq Coroutine /\ Callback \subseteq Coroutine
    /\ Sender \in Coroutine /\ Receiver \in Coroutine
    /\ Sender \notin Calls \cup Callback \cup {Receiver}
    /\ Receiver \notin Calls \cup Callback
    /\ \A k \in Calls : k \notin Callback
    /\ \A c \in Coroutine : c \in Calls \/ c \in Callback \/ c = Sender \/ c = Receiver
    /\ Requests \notin Calls /\ Requests \in Channal /\ Calls \subseteq Channal
    /\ Message = Calls
BY SessionAssumption

\* Every callback is that of a call.
LEMMA CallOfType == \A t \in Callback : callOf(t) \in Calls
BY SessionAssumption DEF callOf

\* What a step of c leaves alone of the others: where they are in their functions, what
\* has come of their calls. A flag that is set stays set.
LEMMA SessionFrame ==
    ASSUME SessionTypes, NEW c \in Coroutine, Step(c)
    PROVE  /\ \A d \in Coroutine \ {c} : pc'[d] = pc[d]
           /\ \A k \in Calls : k # c => result'[k] = result[k]
           /\ \A k \in Calls : timeout[k] => timeout'[k]
<1>1. /\ DOMAIN pc = Coroutine
      /\ timeout \in [Calls -> BOOLEAN]
      /\ DOMAIN result = Calls
  BY DEF SessionTypes
<1>2. CASE UNCHANGED <<pc, outcomeVars>>
  BY <1>2 DEF outcomeVars
<1>3. CASE c \in Calls /\ CallStep(c)
  BY <1>1, <1>3 DEF CallStep, Connect, Adopt, Register, Registered, Submit, Arm, Await,
                    Cancel, Erase, Erased, Outcome, Proceed, outcomeVars
<1>4. CASE c \in Callback /\ CallbackStep(c)
  BY <1>1, <1>4, CallOfType
     DEF CallbackStep, Fire, CloseChannal, Fired, Proceed, outcomeVars
<1>5. CASE SessionStep(c)
  BY <1>1, <1>5 DEF SessionStep, TakeRequest, Transmit, ReceiveNothing, ReceiveAnswer,
     ReceiveEnd, CloseSocket, Received, Deliver, Delivered, Proceed, outcomeVars
<1> QED BY <1>2, <1>3, <1>4, <1>5 DEF Step

\* So the steps of others do not disturb what is known of a coroutine.
LEMMA OthersStay ==
    ASSUME AnswerInv, NEW c \in Coroutine, Step(c)
    PROVE  /\ \A d \in Coroutine \ {c} : OpOf(d)'
           /\ \A k \in Calls \ {c} : CallOK(k)'
           /\ \A t \in Callback \ {c} : CallbackOK(t)'
           /\ c # Sender => SenderOK'
           /\ c # Receiver => ReceiverOK'
<1>1. QueueInv /\ SessionTypes
  BY DEF AnswerInv
<1>2. \A d \in Coroutine \ {c} : /\ at'[d] = at[d] /\ channal'[d] = channal[d]
                                 /\ op'[d] = op[d] /\ message'[d] = message[d]
  BY <1>1, Frame
<1>3. /\ \A d \in Coroutine \ {c} : pc'[d] = pc[d]
      /\ \A k \in Calls : k # c => result'[k] = result[k]
      /\ \A k \in Calls : timeout[k] => timeout'[k]
  BY <1>1, SessionFrame
<1>4. \A d \in Coroutine \ {c} : OpOf(d)'
  BY <1>2 DEF AnswerInv, OpOf
<1>5. \A k \in Calls \ {c} : CallOK(k)'
  BY <1>2, <1>3, FourKinds DEF AnswerInv, CallOK
<1>6. \A t \in Callback \ {c} : CallbackOK(t)'
  BY <1>2, <1>3, FourKinds, CallOfType DEF AnswerInv, CallbackOK, callOf
<1>7. c # Sender => SenderOK'
  BY <1>2, <1>3, FourKinds DEF AnswerInv, SenderOK
<1>8. c # Receiver => ReceiverOK'
  BY <1>2, <1>3, FourKinds DEF AnswerInv, ReceiverOK
<1> QED BY <1>4, <1>5, <1>6, <1>7, <1>8

-----------------------------------------------------------------------------
(* What a step does to its own coroutine.                                  *)

\* A step of a call takes it to its next place.
LEMMA CallSelf ==
    ASSUME AnswerInv, NEW k \in Calls, CallStep(k)
    PROVE  CallOK(k)' /\ OpOf(k)'
<1>1. /\ k \in Coroutine
      /\ at \in [Coroutine -> Place]
      /\ channal \in [Coroutine -> Channal \cup {Nil}]
      /\ op \in [Coroutine -> {"push", "pop", "close"}]
      /\ message = [c \in Coroutine |-> message[c]]
      /\ pc \in [Coroutine -> CallPlaces \cup CallbackPlaces \cup SenderPlaces
                                         \cup ReceiverPlaces]
      /\ timeout \in [Calls -> BOOLEAN]
      /\ result \in [Calls -> {"none", "refused", "timeout", "answer"}]
  BY FourKinds DEF AnswerInv, QueueInv, QueueTypes, IInv, PlaceInv, SessionTypes
<1>2. CallOK(k) /\ OpOf(k) /\ at[k] = "out"
  BY <1>1 DEF AnswerInv, CallStep, Connect, Adopt, Register, Registered, Submit, Arm,
              Await, Cancel, Erase, Erased, Outcome, Stands
<1>3. CASE Connect(k) \/ Adopt(k) \/ Register(k) \/ Registered(k)
  BY <1>1, <1>2, <1>3 DEF Connect, Adopt, Register, Registered, Stands, Proceed,
     channalVars, outcomeVars, CallOK, OpOf, CallPlaces
<1>4. CASE Submit(k)
  BY <1>1, <1>2, <1>4 DEF Submit, Push, Enter, Stands, Proceed, outcomeVars, CallOK, OpOf,
     CallPlaces
<1>5. CASE Await(k)
  BY <1>1, <1>2, <1>5 DEF Await, Pop, Enter, Stands, Proceed, outcomeVars, CallOK, OpOf,
     CallPlaces, Popped
<1>6. CASE Arm(k) \/ Cancel(k) \/ Erase(k) \/ Erased(k)
  BY <1>1, <1>2, <1>6 DEF Arm, Cancel, Erase, Erased, Stands, Proceed, channalVars,
     outcomeVars, CallOK, OpOf, CallPlaces, Popped
<1>7. CASE Outcome(k)
  BY <1>1, <1>2, <1>7 DEF Outcome, Stands, channalVars, CallOK, OpOf, CallPlaces, Popped
<1> QED BY <1>3, <1>4, <1>5, <1>6, <1>7 DEF CallStep

\* So does one of a callback.
LEMMA CallbackSelf ==
    ASSUME AnswerInv, NEW t \in Callback, CallbackStep(t)
    PROVE  CallbackOK(t)' /\ OpOf(t)'
<1>1. /\ t \in Coroutine /\ callOf(t) \in Calls
      /\ at \in [Coroutine -> Place]
      /\ channal \in [Coroutine -> Channal \cup {Nil}]
      /\ op \in [Coroutine -> {"push", "pop", "close"}]
      /\ pc \in [Coroutine -> CallPlaces \cup CallbackPlaces \cup SenderPlaces
                                         \cup ReceiverPlaces]
      /\ timeout \in [Calls -> BOOLEAN]
  BY FourKinds, CallOfType
     DEF AnswerInv, QueueInv, QueueTypes, IInv, PlaceInv, SessionTypes
<1>2. CallbackOK(t) /\ OpOf(t) /\ at[t] = "out"
  BY <1>1 DEF AnswerInv, CallbackStep, Fire, CloseChannal, Fired, Stands
<1>3. callOf(t)' = callOf(t)
  BY DEF callOf
<1>4. CASE Fire(t)
  BY <1>1, <1>2, <1>3, <1>4
     DEF Fire, Stands, Proceed, channalVars, CallbackOK, OpOf, CallbackPlaces
<1>5. CASE CloseChannal(t)
  BY <1>1, <1>2, <1>3, <1>5 DEF CloseChannal, Close, Enter, Stands, Proceed, outcomeVars,
     CallbackOK, OpOf, CallbackPlaces
<1>6. CASE Fired(t)
  BY <1>1, <1>2, <1>3, <1>6 DEF Fired, Stands, channalVars, outcomeVars, CallbackOK, OpOf,
     CallbackPlaces
<1> QED BY <1>4, <1>5, <1>6 DEF CallbackStep

\* And one of the sender or the receiver.
LEMMA SessionSelf ==
    ASSUME AnswerInv, NEW c \in Coroutine, SessionStep(c)
    PROVE  OpOf(c)' /\ (c = Sender => SenderOK') /\ (c = Receiver => ReceiverOK')
<1>1. /\ Sender \in Coroutine /\ Receiver \in Coroutine /\ Sender # Receiver
      /\ at \in [Coroutine -> Place]
      /\ channal \in [Coroutine -> Channal \cup {Nil}]
      /\ op \in [Coroutine -> {"push", "pop", "close"}]
      /\ message = [d \in Coroutine |-> message[d]]
      /\ pc \in [Coroutine -> CallPlaces \cup CallbackPlaces \cup SenderPlaces
                                         \cup ReceiverPlaces]
      /\ m_response_channals \subseteq Calls
  BY FourKinds DEF AnswerInv, QueueInv, QueueTypes, IInv, PlaceInv, SessionTypes
<1>2. at[c] = "out" /\ OpOf(c) /\ SenderOK /\ ReceiverOK
  BY DEF AnswerInv, SessionStep, TakeRequest, Transmit, ReceiveNothing, ReceiveAnswer,
         ReceiveEnd, CloseSocket, Received, Deliver, Delivered, Stands
<1>3. CASE c = Sender /\ TakeRequest
  BY <1>1, <1>2, <1>3 DEF TakeRequest, Pop, Enter, Stands, Proceed, OpOf, SenderOK,
     SenderPlaces, Popped
<1>4. CASE c = Sender /\ Transmit
  BY <1>1, <1>2, <1>4 DEF Transmit, Stands, Proceed, channalVars, OpOf, SenderOK,
     SenderPlaces
<1>5. CASE c = Receiver /\ (ReceiveNothing \/ ReceiveEnd \/ CloseSocket \/ Received
                            \/ Delivered)
  BY <1>1, <1>2, <1>5 DEF ReceiveNothing, ReceiveEnd, CloseSocket, Received, Delivered,
     Stands, Proceed, channalVars, OpOf, ReceiverOK, ReceiverPlaces
<1>6. CASE c = Receiver /\ ReceiveAnswer
  BY <1>1, <1>2, <1>6 DEF ReceiveAnswer, Stands, Proceed, OpOf, ReceiverOK, ReceiverPlaces
<1>7. CASE c = Receiver /\ Deliver
  BY <1>1, <1>2, <1>7 DEF Deliver, Push, Enter, Stands, Proceed, channalVars, OpOf,
     ReceiverOK, ReceiverPlaces
<1> QED BY <1>1, <1>3, <1>4, <1>5, <1>6, <1>7 DEF SessionStep

\* What a step inside push, pop or close does to its coroutine: it leaves the call, or
\* has acted, only with a message, behind a closed channel, or at the end of close.
LEMMA AlongSelf ==
    ASSUME AnswerInv, NEW c \in Coroutine, ChannalStep(c)
    PROVE  /\ at[c] # "out" /\ channal[c] \in Channal
           /\ OpOf(c)'
           /\ at'[c] \in Popped => \/ at[c] \in Popped /\ message'[c] = message[c]
                                   \/ m_is_close[channal[c]] \/ op[c] = "close"
                                   \/ op[c] = "push" /\ message'[c] = message[c]
                                   \/ /\ op[c] = "pop" /\ m_queue[channal[c]] # <<>>
                                      /\ message'[c] = Head(m_queue[channal[c]])
           /\ op[c] = "push" => message'[c] = message[c]
<1>1. /\ at \in [Coroutine -> Place]
      /\ op \in [Coroutine -> {"push", "pop", "close"}]
      /\ message = [d \in Coroutine |-> message[d]]
      /\ op' = op
  BY AlongFrame DEF AnswerInv, QueueInv, QueueTypes, IInv, PlaceInv, ChannalStep, Act,
     LockChannal, Look, Wait, Waiting, YieldWaiting, Notify, AddNotified, BeginClose,
     ClosePush, ClosePop, callVars
<1>2. OpOf(c) /\ Seen(c)
  BY DEF AnswerInv, QueueInv
<1>3. at[c] # "out"
  BY DEF ChannalStep, LockChannal, Look, Act, Wait, Waiting, YieldWaiting, Notify,
         AddNotified, BeginClose, ClosePush, ClosePop, Inside
<1>4. channal[c] \in Channal
  BY <1>3 DEF AnswerInv, QueueInv, IInv, PlaceInv
<1>5. CASE LockChannal(c) \/ Look(c)
  BY <1>1, <1>2, <1>3, <1>4, <1>5 DEF LockChannal, Look, Inside, GotoPlace, callVars, OpOf,
     Popped, CV
<1>6. CASE Act(c)
  BY <1>1, <1>2, <1>3, <1>4, <1>6 DEF Act, Inside, GotoPlace, OpOf, Seen, First, Popped, CV
<1>7. CASE Wait(c) \/ Waiting(c) \/ YieldWaiting(c)
  BY <1>1, <1>2, <1>3, <1>4, <1>7 DEF Wait, Waiting, YieldWaiting, Inside, GotoPlace,
     callVars, OpOf, Popped
<1>8. CASE Notify(c) \/ AddNotified(c)
  BY <1>1, <1>2, <1>3, <1>4, <1>8 DEF Notify, AddNotified, TakeWaiter, Inside, GotoPlace,
     OpOf, Popped
<1>9. CASE BeginClose(c)
  BY <1>1, <1>2, <1>3, <1>4, <1>9 DEF BeginClose, Inside, GotoPlace, callVars, OpOf, Popped
<1>10. CASE ClosePush(c) \/ ClosePop(c)
  BY <1>1, <1>2, <1>3, <1>4, <1>10 DEF ClosePush, ClosePop, NotifyAll, TakeWaiter, Inside,
     GotoPlace, OpOf, Popped
<1> QED BY <1>5, <1>6, <1>7, <1>8, <1>9, <1>10 DEF ChannalStep

\* What such a step does to the channels.
LEMMA AlongChannels ==
    ASSUME AnswerInv, NEW c \in Coroutine, ChannalStep(c)
    PROVE  \/ UNCHANGED <<m_queue, m_is_close>>
           \/ /\ op[c] = "push" /\ UNCHANGED m_is_close
              /\ m_queue' = [m_queue EXCEPT ![channal[c]] = Append(@, message[c])]
           \/ /\ op[c] = "pop" /\ UNCHANGED m_is_close
              /\ m_queue[channal[c]] # <<>>
              /\ m_queue' = [m_queue EXCEPT ![channal[c]] = Tail(@)]
           \/ /\ op[c] = "close" /\ UNCHANGED m_queue
              /\ m_is_close' = [m_is_close EXCEPT ![channal[c]] = TRUE]
<1>1. OpOf(c) /\ Seen(c)
  BY DEF AnswerInv, QueueInv
<1>2. CASE Act(c)
  BY <1>1, <1>2 DEF Act, Inside, OpOf, Seen, Rest, CV
<1>3. CASE BeginClose(c)
  BY <1>1, <1>3 DEF BeginClose, Inside, OpOf
<1>4. CASE ~Act(c) /\ ~BeginClose(c)
  BY <1>4 DEF ChannalStep, LockChannal, Look, Wait, Waiting, YieldWaiting, Notify,
     AddNotified, ClosePush, ClosePop, queueVars
<1> QED BY <1>2, <1>3, <1>4

\* Only the receiver pushes to a response channel, and only callbacks close.
LEMMA ChannelsStay ==
    ASSUME AnswerInv, NEW c \in Coroutine, Step(c)
    PROVE  ChannelsOK'
<1>1. /\ QueueInv /\ SessionTypes /\ ChannelsOK
      /\ m_queue \in [Channal -> Seq(Message)]
      /\ m_is_close \in [Channal -> BOOLEAN]
  BY DEF AnswerInv, QueueInv, QueueTypes
<1>2. \A k \in Calls : timeout[k] => timeout'[k]
  BY <1>1, SessionFrame
<1>3. CASE UNCHANGED <<m_queue, m_is_close>>
  BY <1>1, <1>2, <1>3 DEF ChannelsOK
<1>4. CASE ChannalStep(c)
  <2> DEFINE ch == channal[c]
  <2>1. at[c] # "out" /\ ch \in Channal
    BY <1>4, AlongSelf
  <2>2. op[c] = "push" /\ ch \in Calls => message[c] = ch
    BY <2>1, FourKinds DEF AnswerInv, CallOK, CallbackOK, SenderOK, ReceiverOK
  <2>3. op[c] = "close" => ch \in Calls /\ timeout[ch]
    BY <2>1, FourKinds, CallOfType DEF AnswerInv, CallOK, CallbackOK, SenderOK, ReceiverOK
  <2>4. CASE /\ op[c] = "push" /\ UNCHANGED m_is_close
             /\ m_queue' = [m_queue EXCEPT ![ch] = Append(@, message[c])]
    <3>1. ASSUME NEW k \in Calls PROVE m_queue'[k] \in Seq({k})
      <4>1. m_queue[k] \in Seq({k})
        BY <1>1 DEF ChannelsOK
      <4>2. CASE k = ch
        <5>1. m_queue'[k] = Append(m_queue[k], k)
          BY <1>1, <2>1, <2>2, <2>4, <4>2
        <5> QED BY <4>1, <5>1
      <4>3. CASE k # ch
        BY <1>1, <2>1, <2>4, <4>1, <4>3
      <4> QED BY <4>2, <4>3
    <3> QED BY <1>1, <1>2, <2>4, <3>1 DEF ChannelsOK
  <2>5. CASE /\ op[c] = "pop" /\ UNCHANGED m_is_close
             /\ m_queue[ch] # <<>>
             /\ m_queue' = [m_queue EXCEPT ![ch] = Tail(@)]
    <3>1. ASSUME NEW k \in Calls PROVE m_queue'[k] \in Seq({k})
      <4>1. m_queue[k] \in Seq({k})
        BY <1>1 DEF ChannelsOK
      <4>2. CASE k = ch
        <5>1. m_queue'[k] = Tail(m_queue[k]) /\ m_queue[k] # <<>>
          BY <1>1, <2>1, <2>5, <4>2
        <5> QED BY <4>1, <5>1
      <4>3. CASE k # ch
        BY <1>1, <2>1, <2>5, <4>1, <4>3
      <4> QED BY <4>2, <4>3
    <3> QED BY <1>1, <1>2, <2>5, <3>1 DEF ChannelsOK
  <2>6. CASE /\ op[c] = "close" /\ UNCHANGED m_queue
             /\ m_is_close' = [m_is_close EXCEPT ![ch] = TRUE]
    BY <1>1, <1>2, <2>3, <2>6, FourKinds DEF ChannelsOK
  <2> QED BY <1>3, <1>4, <2>4, <2>5, <2>6, AlongChannels
<1>5. CASE Within(c) \/ Begins(c) \/ Elsewhere(c)
  BY <1>3, <1>5 DEF Within, channalVars, Begins, Enter, Elsewhere
<1> QED BY <1>1, <1>4, <1>5, Kinds DEF Along

\* A step inside push, pop or close keeps what is known of its coroutine.
LEMMA AlongKeepsOK ==
    ASSUME AnswerInv, NEW c \in Coroutine, ChannalStep(c), UNCHANGED <<pc, outcomeVars>>
    PROVE  /\ c \in Calls => CallOK(c)'
           /\ c \in Callback => CallbackOK(c)'
           /\ c = Sender => SenderOK'
           /\ c = Receiver => ReceiverOK'
<1>1. /\ at[c] # "out" /\ channal[c] \in Channal
      /\ at'[c] \in Popped => \/ at[c] \in Popped /\ message'[c] = message[c]
                              \/ m_is_close[channal[c]] \/ op[c] = "close"
                              \/ op[c] = "push" /\ message'[c] = message[c]
                              \/ /\ op[c] = "pop" /\ m_queue[channal[c]] # <<>>
                                 /\ message'[c] = Head(m_queue[channal[c]])
      /\ op[c] = "push" => message'[c] = message[c]
  BY AlongSelf
<1>2. channal' = channal /\ op' = op
  BY AlongFrame DEF AnswerInv, ChannalStep, LockChannal, Look, Act, Wait, Waiting,
     YieldWaiting, Notify, AddNotified, BeginClose, ClosePush, ClosePop, callVars
<1>3. UNCHANGED <<pc, timeout, result>>
  BY DEF outcomeVars
<1>4. ChannelsOK /\ m_queue \in [Channal -> Seq(Message)]
  BY DEF AnswerInv, QueueInv, QueueTypes
<1>5. ASSUME c \in Calls PROVE CallOK(c)'
  <2>1. CallOK(c)
    BY <1>5 DEF AnswerInv
  <2>2. ASSUME pc[c] = "cancel", at'[c] \in Popped PROVE message'[c] = c \/ timeout[c]
    <3>1. op[c] = "pop" /\ channal[c] = c
      BY <1>1, <2>1, <2>2 DEF CallOK
    <3>2. m_queue[c] # <<>> => Head(m_queue[c]) = c
      <4>1. m_queue[c] \in Seq({c})
        BY <1>4, <1>5 DEF ChannelsOK
      <4>2. m_queue[c] # <<>> => Head(m_queue[c]) \in {c}
        BY <4>1
      <4> QED BY <4>2
    <3>3. m_is_close[c] => timeout[c]
      BY <1>4, <1>5 DEF ChannelsOK
    <3> QED BY <1>1, <2>1, <2>2, <3>1, <3>2, <3>3 DEF CallOK
  <2> QED BY <1>1, <1>2, <1>3, <2>1, <2>2 DEF CallOK
<1>6. ASSUME c \in Callback PROVE CallbackOK(c)'
  <2>1. callOf(c)' = callOf(c)
    BY DEF callOf
  <2> QED BY <1>1, <1>2, <1>3, <1>6, <2>1 DEF AnswerInv, CallbackOK
<1>7. ASSUME c = Sender PROVE SenderOK'
  <2>1. SenderOK
    BY DEF AnswerInv
  <2>2. pc[c] = "transmit" /\ op[c] = "pop" /\ channal[c] = Requests
    BY <1>1, <1>7, <2>1 DEF SenderOK
  <2>3. m_queue[Requests] # <<>> => Head(m_queue[Requests]) \in Calls
    BY <1>4, FourKinds
  <2>4. ~m_is_close[Requests]
    BY <1>4 DEF ChannelsOK
  <2>5. at'[c] \in Popped => message'[c] \in Calls
    BY <1>1, <1>7, <2>1, <2>2, <2>3, <2>4 DEF SenderOK
  <2> QED BY <1>2, <1>3, <1>7, <2>1, <2>2, <2>5 DEF SenderOK
<1>8. ASSUME c = Receiver PROVE ReceiverOK'
  BY <1>1, <1>2, <1>3, <1>8 DEF AnswerInv, ReceiverOK
<1> QED BY <1>5, <1>6, <1>7, <1>8

-----------------------------------------------------------------------------
(* The specification.                                                      *)

\* The variables of the session keep their types.
LEMMA StepTypes ==
    ASSUME AnswerInv, NEW c \in Coroutine, Step(c)
    PROVE  SessionTypes'
<1>1. SessionTypes /\ SenderOK
  BY DEF AnswerInv
<1>2. CASE UNCHANGED <<pc, socketVars, sessionVars, outcomeVars>>
  BY <1>1, <1>2 DEF SessionTypes, socketVars, sessionVars, outcomeVars
<1>3. CASE c \in Calls /\ CallStep(c)
  <2>1. CASE Connect(c)
    BY <1>1, <1>3, <2>1, EmptySeq DEF Connect, Proceed, SessionTypes, CallPlaces, socketVars,
       sessionVars, outcomeVars
  <2>2. CASE Adopt(c) \/ Register(c) \/ Registered(c) \/ Submit(c) \/ Arm(c)
    BY <1>1, <1>3, <2>2 DEF Adopt, Register, Registered, Submit, Arm, Proceed,
       SessionTypes, CallPlaces, socketVars, sessionVars, outcomeVars
  <2>3. CASE Await(c) \/ Cancel(c) \/ Erase(c) \/ Erased(c) \/ Outcome(c)
    BY <1>1, <1>3, <2>3 DEF Await, Cancel, Erase, Erased, Outcome, Proceed,
       SessionTypes, CallPlaces, socketVars, sessionVars, outcomeVars
  <2> QED BY <1>3, <2>1, <2>2, <2>3 DEF CallStep
<1>4. CASE c \in Callback /\ CallbackStep(c)
  BY <1>1, <1>4, CallOfType DEF CallbackStep, Fire, CloseChannal, Fired, Proceed,
     SessionTypes, CallbackPlaces, socketVars, sessionVars, outcomeVars
<1>5. CASE SessionStep(c)
  <2>1. CASE c = Sender /\ (TakeRequest \/ Transmit)
    BY <1>1, <2>1 DEF TakeRequest, Transmit, Stands, Proceed, SenderOK, Popped,
       SessionTypes, SenderPlaces, socketVars, sessionVars, outcomeVars
  <2>2. CASE c = Receiver /\ ReceiveAnswer
    BY <1>1, <2>2 DEF ReceiveAnswer, Proceed, SessionTypes, ReceiverPlaces, sessionVars,
       outcomeVars
  <2>3. CASE c = Receiver /\ (ReceiveNothing \/ ReceiveEnd \/ CloseSocket)
    BY <1>1, <2>3, EmptySeq DEF ReceiveNothing, ReceiveEnd, CloseSocket, Proceed, SessionTypes,
       ReceiverPlaces, socketVars, sessionVars, outcomeVars
  <2>4. CASE c = Receiver /\ (Received \/ Deliver \/ Delivered)
    BY <1>1, <2>4 DEF Received, Deliver, Delivered, Proceed, SessionTypes, ReceiverPlaces,
       socketVars, sessionVars, outcomeVars
  <2> QED BY <1>5, <2>1, <2>2, <2>3, <2>4 DEF SessionStep
<1> QED BY <1>2, <1>3, <1>4, <1>5 DEF Step

\* Every step of a coroutine keeps AnswerInv.
LEMMA AnswerStep ==
    ASSUME AnswerInv, NEW c \in Coroutine, Step(c), QueueInv'
    PROVE  AnswerInv'
<1>1. /\ \A d \in Coroutine \ {c} : OpOf(d)'
      /\ \A k \in Calls \ {c} : CallOK(k)'
      /\ \A t \in Callback \ {c} : CallbackOK(t)'
      /\ c # Sender => SenderOK'
      /\ c # Receiver => ReceiverOK'
  BY OthersStay
<1>2. /\ OpOf(c)'
      /\ c \in Calls => CallOK(c)'
      /\ c \in Callback => CallbackOK(c)'
      /\ c = Sender => SenderOK'
      /\ c = Receiver => ReceiverOK'
  <2>1. CASE MutexStep(c) /\ UNCHANGED <<channalVars, pc, outcomeVars>>
    <3>1. UNCHANGED <<at, op, channal, message, pc, timeout, result>>
      BY <2>1 DEF channalVars, outcomeVars
    <3>2. callOf(c)' = callOf(c)
      BY DEF callOf
    <3> QED BY <3>1, <3>2
            DEF AnswerInv, OpOf, CallOK, CallbackOK, SenderOK, ReceiverOK
  <2>2. CASE ChannalStep(c) /\ UNCHANGED <<pc, outcomeVars>>
    BY <2>2, AlongSelf, AlongKeepsOK
  <2>3. CASE c \in Calls /\ CallStep(c)
    BY <2>3, CallSelf, FourKinds
  <2>4. CASE c \in Callback /\ CallbackStep(c)
    BY <2>4, CallbackSelf, FourKinds
  <2>5. CASE SessionStep(c)
    BY <2>5, SessionSelf, FourKinds DEF SessionStep
  <2> QED BY <2>1, <2>2, <2>3, <2>4, <2>5 DEF Step
<1>3. SessionTypes' /\ ChannelsOK'
  BY StepTypes, ChannelsStay
<1> QED BY <1>1, <1>2, <1>3 DEF AnswerInv

\* Steps outside of the coroutines change none of it, but what the peer has and sends.
LEMMA AnswerUnaffected ==
    ASSUME AnswerInv, QueueInv', SessionTypes', UNCHANGED <<channalVars, pc, outcomeVars>>
    PROVE  AnswerInv'
<1>1. UNCHANGED <<m_queue, m_is_close, at, op, channal, message, pc, timeout, result>>
  BY DEF channalVars, outcomeVars
<1>2. \A t \in Callback : callOf(t)' = callOf(t)
  BY DEF callOf
<1> QED
  BY <1>1, <1>2 DEF AnswerInv, ChannelsOK, OpOf, CallOK, CallbackOK, SenderOK, ReceiverOK

\* Every step of the system keeps AnswerInv.
LEMMA AnswerNext == AnswerInv /\ [Next]_vars => AnswerInv'
<1> SUFFICES ASSUME AnswerInv, [Next]_vars PROVE AnswerInv'
  OBVIOUS
<1>0. QueueInv' /\ SessionTypes
  BY QueueNext DEF AnswerInv
<1>1. ASSUME UNCHANGED <<channalVars, pc, socketVars, sessionVars, outcomeVars>>
      PROVE  AnswerInv'
  <2>1. SessionTypes'
    BY <1>0, <1>1 DEF SessionTypes, socketVars, sessionVars, outcomeVars
  <2> QED BY <1>0, <1>1, <2>1, AnswerUnaffected
<1>2. ASSUME NEW w \in Worker, ThreadStep(w) PROVE AnswerInv'
  <2>1. CASE WorkerStep(w) /\ UNCHANGED <<channalVars, pc, socketVars, sessionVars,
                                          outcomeVars>>
    BY <1>1, <2>1
  <2>2. CASE \E c \in Coroutine : Runs(w, c) /\ Step(c)
    BY <1>0, <2>2, AnswerStep
  <2> QED BY <1>2, <2>1, <2>2 DEF ThreadStep
<1>3. ASSUME NEW t \in Callback, TimePasses(t) PROVE AnswerInv'
  BY <1>1, <1>3 DEF TimePasses
<1>4. CASE Environment
  <2>1. CASE Break
    <3>1. breaks' \in 0..MaxBreaks
      BY <1>0, <2>1, SessionAssumption DEF Break, SessionTypes
    <3>2. SessionTypes'
      BY <1>0, <2>1, <3>1, EmptySeq
         DEF Break, SessionTypes, networkUnchanged, sessionVars, outcomeVars
    <3> QED BY <1>0, <2>1, <3>2, AnswerUnaffected DEF Break, networkUnchanged
  <2>2. ASSUME NEW k \in Calls, PeerAnswers(k) PROVE AnswerInv'
    <3>1. SessionTypes'
      BY <1>0, <2>2 DEF PeerAnswers, SessionTypes, networkUnchanged, sessionVars,
         outcomeVars
    <3> QED BY <1>0, <2>2, <3>1, AnswerUnaffected DEF PeerAnswers, networkUnchanged
  <2> QED BY <1>4, <2>1, <2>2 DEF Environment
<1>5. CASE UNCHANGED vars
  BY <1>1, <1>5 DEF vars
<1> QED BY <1>2, <1>3, <1>4, <1>5 DEF Next

\* AnswerInv holds at the start: nobody has made a step.
LEMMA AnswerInit == Init => AnswerInv
<1> SUFFICES ASSUME Init PROVE AnswerInv
  OBVIOUS
<1>1. QueueInv
  BY QueueInit
<1>2. pc = [c \in Coroutine |-> CASE c \in Calls -> "connect"
                                  [] c = Sender -> "take"
                                  [] c = Receiver -> "receive"
                                  [] OTHER -> "fire"]
  BY DEF Init
<1>3. /\ \A k \in Calls : pc[k] = "connect"
      /\ \A t \in Callback : pc[t] = "fire"
      /\ pc[Sender] = "take" /\ pc[Receiver] = "receive"
  BY <1>2, FourKinds
<1>4. SessionTypes
  <2>1. pc \in [Coroutine -> CallPlaces \cup CallbackPlaces \cup SenderPlaces
                                       \cup ReceiverPlaces]
    BY <1>2 DEF CallPlaces, CallbackPlaces, SenderPlaces, ReceiverPlaces
  <2>2. breaks \in 0..MaxBreaks
    BY SessionAssumption DEF Init
  <2> QED BY <2>1, <2>2, EmptySeq DEF Init, SessionTypes
<1>5. /\ \A c \in Coroutine : at[c] = "out"
      /\ \A k \in Calls : result[k] = "none"
      /\ \A ch \in Channal : m_queue[ch] = <<>> /\ ~m_is_close[ch]
  BY DEF Init, ChannalInit
<1>6. ChannelsOK
  BY <1>5, FourKinds, EmptySeq DEF ChannelsOK
<1>7. \A c \in Coroutine : OpOf(c)
  BY <1>5 DEF OpOf
<1>8. \A k \in Calls : CallOK(k)
  BY <1>3, <1>5, FourKinds DEF CallOK, CallPlaces
<1>9. \A t \in Callback : CallbackOK(t)
  BY <1>3, <1>5, FourKinds DEF CallbackOK, CallbackPlaces
<1>10. SenderOK /\ ReceiverOK
  BY <1>3, <1>5, FourKinds DEF SenderOK, ReceiverOK, SenderPlaces, ReceiverPlaces
<1> QED BY <1>1, <1>4, <1>6, <1>7, <1>8, <1>9, <1>10 DEF AnswerInv

\* rpc_client.h: a call that goes on to decode an answer has one, and it is its own.
THEOREM AnswerIsOwnCorrect == Spec => []AnswerIsOwn
<1>1. AnswerInv => AnswerIsOwn
  BY DEF AnswerInv, CallOK, AnswerIsOwn
<1> QED BY AnswerInit, AnswerNext, <1>1, PTL DEF Spec

-----------------------------------------------------------------------------
(* Nobody is forgotten.                                                    *)


\* The types of the queues of those that wait, and of who is taken from them.
WaitTypes ==
    /\ m_waitQueue \in [Mutex -> Seq(Coroutine)]
    /\ wait_coroutine \in [Coroutine -> Coroutine \cup {Nil}]
    /\ cvQueue \in [Channal -> [CV -> Seq(Coroutine)]]
    /\ cvMutex \in [Channal -> [CV -> Coroutine \cup {Nil}]]
    /\ notified \in [Coroutine -> Coroutine \cup {Nil}]

\* A worker between Take and PutBack has a coroutine.
Hands == \A w \in Worker :
    at_worker[w] \in {"resume", "run", "check", "poll", "again"} => cur[w] \in Coroutine

\* Whoever has taken a waiter from a queue runs until it has added it.
Handing(d) ==
    /\ inCall[d] \in {"ready", "addTask"} => wait_coroutine[d] # Nil
    /\ wait_coroutine[d] # Nil => inCall[d] \in {"release", "ready", "addTask"}
    /\ notified[d] # Nil <=> at[d] = "addTask"
    /\ at[d] = "addTask" => inCall[d] = "out"
    /\ inCall[d] \in {"release", "ready", "addTask"} \/ at[d] = "addTask" => Running(d)

\* Who is about to mark itself WAITING is in the queue, and nobody takes it from there.
Unlocked(c) ==
    at[c] = "unlocked" => /\ cvMutex[channal[c]][op[c]] = c
                          /\ Contains(cvQueue[channal[c]][op[c]], c)

\* Somebody will mark c READY: it is in a queue, or has been taken from that of a mutex.
Waits(c) ==
    \/ \E m \in Mutex : Contains(m_waitQueue[m], c)
    \/ \E ch \in Channal, k \in CV : Contains(cvQueue[ch][k], c)
    \/ \E d \in Coroutine : inCall[d] \in {"release", "ready"} /\ wait_coroutine[d] = c

\* A mark that would let a worker drop c says that it waits, or is at its end.
Marked(c) ==
    /\ m_state[c] \in {"BLOCKED", "WAITING"} => Waits(c)
    /\ m_state[c] = "TERMINATED" => c \in ended

\* A worker has c in hand, in whatever state.
AtHand(c) == \E w \in Worker :
    cur[w] = c /\ at_worker[w] \in {"resume", "run", "check", "poll", "again"}

\* Somebody has taken c from a queue.
Handed(c) == \E d \in Coroutine : c \in {wait_coroutine[d], notified[d]}

\* Where a coroutine may be.
Somewhere(c) == InQueue(c) \/ AtHand(c) \/ Waits(c) \/ Handed(c)

KeptInv ==
    /\ SchedulerTypeOK /\ WaitTypes /\ Hands
    /\ \A c \in Coroutine :
          /\ Handing(c) /\ Unlocked(c) /\ Marked(c)
          /\ Started(c) /\ c \notin ended => Somewhere(c)

LiveInv == AnswerInv /\ KeptInv

-----------------------------------------------------------------------------
(* What a coroutine does to the scheduler.                                 *)

\* It puts one more into the queue of tasks, or the two of the session.
Grows ==
    \/ m_tasks' = m_tasks
    \/ \E d \in Coroutine : m_tasks' = Append(m_tasks, d)
    \/ m_tasks' = m_tasks \o <<Sender, Receiver>>

\* It marks a coroutine.
Marks ==
    \/ m_state' = m_state
    \/ \E d \in Coroutine, s \in State : Mark(d, s)

\* It adds or cancels an event.
Times ==
    \/ m_events' = m_events
    \/ \E t \in Callback, v \in {"armed", "dropped", "cancelled"} :
          m_events' = [m_events EXCEPT ![t] = v]

\* It leaves the workers alone, or yields, and not while it has a waiter to add.
Yields(c) ==
    /\ cur' = cur
    /\ \/ at_worker' = at_worker
       \/ yield(c) /\ inCall[c] \in {"out", "yield"} /\ at[c] # "addTask"

Effect(c) ==
    /\ Grows /\ Marks /\ Times /\ Yields(c)
    /\ ended' \in {ended, ended \cup {c}}

\* So do the steps inside lock and unlock.
LEMMA MutexEffect ==
    ASSUME LiveInv, NEW c \in Coroutine, MutexStep(c), UNCHANGED m_events
    PROVE  Effect(c)
<1>1. WaitTypes /\ Handing(c)
  BY DEF LiveInv, KeptInv
<1>2. inCall[c] \in {"ready", "addTask"} => wait_coroutine[c] \in Coroutine
  BY <1>1 DEF Handing, WaitTypes
<1>3. Grows
  BY <1>2 DEF MutexStep, Lock, Retry, Enqueue, YieldBlocked, Own, Unlock,
     Release, Ready, Reschedule, In, schedVars, addTask, Grows
<1>4. Marks
  BY <1>2 DEF MutexStep, Lock, Retry, Enqueue, YieldBlocked, Own, Unlock,
     Release, Ready, Reschedule, In, coVars, State, Marks
<1>5. Yields(c)
  BY <1>1 DEF MutexStep, Lock, Retry, Enqueue, YieldBlocked, Own, Unlock, Release,
     Ready, Reschedule, schedVars, In, Handing, Yields
<1>6. ended' = ended
  BY DEF MutexStep, Lock, Retry, Enqueue, YieldBlocked, Own, Unlock, Release, Ready,
     Reschedule, coVars
<1> QED BY <1>3, <1>4, <1>5, <1>6 DEF Effect, Times

\* The first of those that wait is a coroutine.
LEMMA FirstWaiter ==
    ASSUME WaitTypes, NEW ch \in Channal, NEW k \in CV, cvQueue[ch][k] # <<>>
    PROVE  Head(cvQueue[ch][k]) \in Coroutine /\ Tail(cvQueue[ch][k]) \in Seq(Coroutine)
<1>1. cvQueue[ch][k] \in Seq(Coroutine)
  BY DEF WaitTypes
<1> QED BY <1>1

\* So do the steps inside push, pop and close.
LEMMA ChannalEffect ==
    ASSUME LiveInv, NEW c \in Coroutine, ChannalStep(c), UNCHANGED m_events
    PROVE  Effect(c)
<1>1. WaitTypes /\ Handing(c) /\ OpOf(c)
  BY DEF LiveInv, KeptInv, AnswerInv
<1>2. at[c] # "out" /\ channal[c] \in Channal
  BY AlongSelf DEF LiveInv
<1>3. at[c] = "addTask" => notified[c] \in Coroutine
  BY <1>1 DEF Handing, WaitTypes
<1>4. Grows
  BY <1>3 DEF ChannalStep, LockChannal, Look, Act, Wait, Waiting, YieldWaiting, Notify,
     AddNotified, BeginClose, ClosePush, ClosePop, Inside, schedVars, addTask, Grows
<1>5. Marks
  <2>1. CASE LockChannal(c) \/ Look(c) \/ Act(c) \/ Wait(c) \/ YieldWaiting(c)
             \/ AddNotified(c) \/ BeginClose(c)
    BY <2>1 DEF LockChannal, Look, Act, Wait, YieldWaiting, AddNotified, BeginClose,
       coVars, Marks
  <2>2. CASE Waiting(c)
    BY <2>2 DEF Waiting, Marks, State
  <2>3. ASSUME NEW k \in CV, cvQueue[channal[c]][k] # <<>>,
               TakeWaiter(c, channal[c], k)
        PROVE  Marks
    BY <1>1, <1>2, <2>3, FirstWaiter DEF TakeWaiter, Marks, State
  <2>4. CASE Notify(c)
    BY <2>3, <2>4 DEF Notify, Other, CV, Marks
  <2>5. CASE ClosePush(c) \/ ClosePop(c)
    BY <2>3, <2>5 DEF ClosePush, ClosePop, NotifyAll, NotifiedAll, CV, Marks
  <2> QED BY <2>1, <2>2, <2>4, <2>5 DEF ChannalStep
<1>6. Yields(c)
  BY <1>1 DEF ChannalStep, LockChannal, Look, Act, Wait, Waiting, YieldWaiting, Notify,
     AddNotified, BeginClose, ClosePush, ClosePop, Inside, schedVars, Yields
<1>7. ended' = ended
  BY DEF ChannalStep, LockChannal, Look, Act, Wait, Waiting, YieldWaiting, Notify,
     AddNotified, BeginClose, ClosePush, ClosePop, coVars
<1> QED BY <1>4, <1>5, <1>6, <1>7 DEF Effect, Times

\* So do the steps of the session's coroutines.
LEMMA SessionEffect ==
    ASSUME LiveInv, NEW c \in Coroutine,
           \/ c \in Calls /\ CallStep(c)
           \/ c \in Callback /\ CallbackStep(c)
           \/ SessionStep(c)
    PROVE  /\ Effect(c)
           /\ \/ m_state' = m_state
              \/ Mark(c, "TERMINATED") /\ c \in ended'
<1>1. CASE c \in Calls /\ CallStep(c)
  <2>1. timerOf[c] \in Callback
    BY <1>1, SessionAssumption
  <2>2. CASE Connect(c)
    BY <2>2 DEF Connect, Stands, Return, Effect, Grows, Marks, Times, Yields, State,
       schedVars, coVars
  <2>3. CASE Adopt(c)
    BY <2>3 DEF Adopt, Effect, Grows, Marks, Times, Yields, coVars
  <2>4. CASE Register(c) \/ Registered(c) \/ Submit(c) \/ Await(c) \/ Erase(c) \/ Erased(c)
    BY <2>4 DEF Register, Registered, Submit, Await, Erase, Erased, Effect, Grows, Marks,
       Times, Yields, schedVars, coVars
  <2>5. CASE Arm(c) \/ Cancel(c)
    BY <2>1, <2>5 DEF Arm, Cancel, addTimeEvent, cancel, Effect, Grows, Marks, Times,
       Yields, schedVars, coVars
  <2>6. CASE Outcome(c)
    BY <2>6 DEF Outcome, Stands, Return, Effect, Grows, Marks, Times, Yields, State
  <2> QED BY <1>1, <2>2, <2>3, <2>4, <2>5, <2>6 DEF CallStep
<1>2. CASE c \in Callback /\ CallbackStep(c)
  BY <1>2 DEF CallbackStep, Fire, CloseChannal, Fired, Stands, Return, Effect, Grows,
     Marks, Times, Yields, State, schedVars, coVars
<1>3. CASE SessionStep(c)
  <2>1. CASE c = Sender /\ (TakeRequest \/ Transmit)
    BY <2>1 DEF TakeRequest, Transmit, Effect, Grows, Marks, Times, Yields, schedVars,
       coVars
  <2>2. CASE c = Receiver /\ (ReceiveNothing \/ CloseSocket)
    BY <2>2 DEF ReceiveNothing, CloseSocket, Stands, Return, Effect, Grows, Marks, Times,
       Yields, State, coVars
  <2>3. CASE c = Receiver /\ (ReceiveAnswer \/ ReceiveEnd \/ Received \/ Deliver
                              \/ Delivered)
    BY <2>3 DEF ReceiveAnswer, ReceiveEnd, Received, Deliver, Delivered, Effect, Grows,
       Marks, Times, Yields, schedVars, coVars
  <2> QED BY <1>3, <2>1, <2>2, <2>3 DEF SessionStep
<1> QED BY <1>1, <1>2, <1>3

\* So does every step of a coroutine.
LEMMA StepEffect ==
    ASSUME LiveInv, NEW c \in Coroutine, Step(c)
    PROVE  Effect(c)
BY MutexEffect, ChannalEffect, SessionEffect DEF Step

\* What is in the queue of tasks stays there, and no event is taken by a coroutine.
LEMMA EffectKeeps ==
    ASSUME LiveInv, NEW c \in Coroutine, Effect(c)
    PROVE  /\ SchedulerTypeOK' /\ Hands'
           /\ \A e \in Coroutine : InQueue(e) => InQueue(e)'
           /\ \A e \in Coroutine : AtHand(e) => AtHand(e)'
           /\ \A e \in Coroutine \ {c} : Running(e) => Running(e)'
           /\ at_worker' = at_worker /\ Running(c) => Running(c)'
           /\ ended \subseteq ended'
           /\ \A t \in Callback : m_events'[t] = "taken" => m_events[t] = "taken"
<1>1. SchedulerTypeOK /\ Hands
  BY DEF LiveInv, KeptInv
<1>2. Sender \in Coroutine /\ Receiver \in Coroutine
  BY FourKinds
<1>3. m_tasks' \in Seq(Coroutine) /\ \A e \in Coroutine : InQueue(e) => InQueue(e)'
  <2>1. m_tasks \in Seq(Coroutine)
    BY <1>1 DEF SchedulerTypeOK
  <2>2. CASE m_tasks' = m_tasks
    BY <2>1, <2>2 DEF InQueue
  <2>3. ASSUME NEW d \in Coroutine, m_tasks' = Append(m_tasks, d)
        PROVE  m_tasks' \in Seq(Coroutine) /\ \A e \in Coroutine : InQueue(e) => InQueue(e)'
    <3>1. m_tasks' \in Seq(Coroutine)
      BY <2>1, <2>3
    <3>2. \A i \in DOMAIN m_tasks : i \in DOMAIN m_tasks' /\ m_tasks'[i] = m_tasks[i]
      BY <2>1, <2>3
    <3> QED BY <3>1, <3>2 DEF InQueue
  <2>4. CASE m_tasks' = m_tasks \o <<Sender, Receiver>>
    <3>1. <<Sender, Receiver>> \in Seq(Coroutine)
      BY <1>2
    <3>2. m_tasks' \in Seq(Coroutine)
      BY <2>1, <2>4, <3>1
    <3>3. \A i \in DOMAIN m_tasks : i \in DOMAIN m_tasks' /\ m_tasks'[i] = m_tasks[i]
      BY <2>1, <2>4, <3>1
    <3> QED BY <3>2, <3>3 DEF InQueue
  <2> QED BY <2>2, <2>3, <2>4 DEF Effect, Grows
<1>4. /\ cur' = cur
      /\ \A w \in Worker :
            \/ at_worker'[w] = at_worker[w]
            \/ at_worker[w] = "run" /\ at_worker'[w] = "check" /\ cur[w] = c
      /\ at_worker' \in [Worker -> Location]
  <2>1. at_worker \in [Worker -> Location]
    BY <1>1 DEF SchedulerTypeOK
  <2>2. ASSUME NEW w \in Worker, Runs(w, c),
               at_worker' = [at_worker EXCEPT ![w] = "check"]
        PROVE  /\ at_worker' \in [Worker -> Location]
               /\ \A v \in Worker :
                     \/ at_worker'[v] = at_worker[v]
                     \/ at_worker[v] = "run" /\ at_worker'[v] = "check" /\ cur[v] = c
    BY <2>1, <2>2 DEF Runs, Location
  <2> QED BY <2>1, <2>2 DEF Effect, Yields, yield
<1>5. Hands'
  BY <1>1, <1>4 DEF Hands
<1>6. \A e \in Coroutine : AtHand(e) => AtHand(e)'
  BY <1>4 DEF AtHand
<1>7. \A e \in Coroutine \ {c} : Running(e) => Running(e)'
  BY <1>4 DEF Running, Runs
<1>8. at_worker' = at_worker /\ Running(c) => Running(c)'
  BY <1>4 DEF Running, Runs
<1>9. m_state' \in [Coroutine -> State]
  BY <1>1 DEF Effect, Marks, Mark, SchedulerTypeOK
<1>10. ended' \subseteq Coroutine /\ ended \subseteq ended'
  BY <1>1 DEF Effect, SchedulerTypeOK
<1>11. /\ m_events' \in [Callback -> Event]
       /\ \A t \in Callback : m_events'[t] = "taken" => m_events[t] = "taken"
  BY <1>1 DEF Effect, Times, SchedulerTypeOK, Event
<1>12. SchedulerTypeOK'
  BY <1>1, <1>3, <1>4, <1>9, <1>10, <1>11 DEF SchedulerTypeOK
<1> QED BY <1>3, <1>5, <1>6, <1>7, <1>8, <1>10, <1>11, <1>12

-----------------------------------------------------------------------------
(* The queues of those that wait.                                          *)

\* A step outside of lock, unlock, push, pop and close leaves them alone.
OutsideWaits(c) ==
    /\ at[c] = "out" /\ inCall[c] = "out"
    /\ UNCHANGED <<m_waitQueue, wait_coroutine, cvQueue, cvMutex, notified>>
    /\ inCall'[c] \in {"out", "lock", "unlock"} /\ at'[c] \in {"out", "lock"}

\* Those of the session's coroutines are such steps.
LEMMA SessionWaits ==
    ASSUME LiveInv, NEW c \in Coroutine, Begins(c) \/ Elsewhere(c)
    PROVE  OutsideWaits(c)
<1>1. /\ inCall \in [Coroutine -> {"out"} \cup InLock \cup InUnlock]
      /\ at \in [Coroutine -> Place]
  BY DEF LiveInv, AnswerInv, QueueInv, IInv, LockInv, LockTypes, PlaceInv
<1>2. CASE Begins(c)
  BY <1>1, <1>2 DEF Begins, Enter, mutexVars, OutsideWaits
<1>3. CASE Elsewhere(c)
  BY <1>1, <1>3 DEF Elsewhere, CallLock, CallUnlock, Call, Goto, mutexVars, OutsideWaits
<1> QED BY <1>2, <1>3

\* What a coroutine has taken from a queue is its own affair.
LEMMA WaitsFrame ==
    ASSUME LiveInv, NEW c \in Coroutine, NEW d \in Coroutine, d # c, Step(c)
    PROVE  wait_coroutine'[d] = wait_coroutine[d] /\ notified'[d] = notified[d]
<1>1. WaitTypes
  BY DEF LiveInv, KeptInv
<1>2. CASE Within(c)
  BY <1>1, <1>2 DEF Within, channalVars, MutexStep, Lock, Retry, Enqueue, YieldBlocked, Own,
     Unlock, Release, Ready, Reschedule, WaitTypes
<1>3. CASE Along(c)
  <2>1. wait_coroutine' = wait_coroutine
    BY <1>3 DEF Along, ChannalStep, LockChannal, Look, Act, Wait, Waiting, YieldWaiting,
       Notify, AddNotified, BeginClose, ClosePush, ClosePop, NotifyAll, NotifiedAll,
       CallLock, CallUnlock, Call, mutexVars
  <2>2. notified'[d] = notified[d]
    BY <1>1, <1>3 DEF Along, ChannalStep, LockChannal, Look, Act, Wait, Waiting,
       YieldWaiting, Notify, AddNotified, BeginClose, ClosePush, ClosePop, NotifyAll,
       NotifiedAll, TakeWaiter, callVars, WaitTypes
  <2> QED BY <2>1, <2>2
<1>4. CASE Begins(c) \/ Elsewhere(c)
  BY <1>4, SessionWaits DEF OutsideWaits
<1> QED BY <1>2, <1>3, <1>4, Kinds DEF LiveInv, AnswerInv

\* The queues keep their types.
LEMMA WaitTypesStay ==
    ASSUME LiveInv, NEW c \in Coroutine, Step(c)
    PROVE  WaitTypes'
<1>1. WaitTypes /\ LockTypes /\ OpOf(c)
  BY DEF LiveInv, KeptInv, AnswerInv, QueueInv, IInv, LockInv
<1>2. CASE Within(c)
  <2>1. mutexOf[c] \in Mutex /\ UNCHANGED <<cvQueue, cvMutex, notified>>
    BY <1>1, <1>2 DEF Within, channalVars, MutexStep, Lock, Retry, Enqueue, YieldBlocked,
       Own, Unlock, Release, Ready, Reschedule, In, LockTypes
  <2>2. CASE Enqueue(c)
    BY <1>1, <2>1, <2>2 DEF Enqueue, WaitTypes
  <2>3. CASE Unlock(c)
    <3>1. m_waitQueue[mutexOf[c]] \in Seq(Coroutine)
      BY <1>1, <2>1 DEF WaitTypes
    <3>2. /\ First(m_waitQueue[mutexOf[c]]) \in Coroutine \cup {Nil}
          /\ Rest(m_waitQueue[mutexOf[c]]) \in Seq(Coroutine)
      BY <3>1 DEF First, Rest
    <3> QED BY <1>1, <2>1, <2>3, <3>2 DEF Unlock, WaitTypes
  <2>4. CASE ~Enqueue(c) /\ ~Unlock(c)
    <3>1. /\ UNCHANGED m_waitQueue
          /\ wait_coroutine' \in {wait_coroutine, [wait_coroutine EXCEPT ![c] = Nil]}
      BY <1>2, <2>4 DEF Within, MutexStep, Lock, Retry, YieldBlocked, Own, Release, Ready,
         Reschedule
    <3> QED BY <1>1, <2>1, <3>1 DEF WaitTypes
  <2> QED BY <2>2, <2>3, <2>4
<1>3. CASE Along(c)
  <2>1. UNCHANGED <<m_waitQueue, wait_coroutine>>
    BY <1>3 DEF Along, ChannalStep, LockChannal, Look, Act, Wait, Waiting, YieldWaiting,
       Notify, AddNotified, BeginClose, ClosePush, ClosePop, NotifyAll, NotifiedAll,
       CallLock, CallUnlock, Call, mutexVars
  <2>2. channal[c] \in Channal
    BY <1>3, AlongSelf DEF Along, LiveInv
  <2>3. CASE LockChannal(c) \/ Look(c) \/ Act(c) \/ YieldWaiting(c) \/ AddNotified(c)
             \/ BeginClose(c)
    BY <1>1, <2>1, <2>3 DEF LockChannal, Look, Act, YieldWaiting, AddNotified, BeginClose,
       queueVars, callVars, WaitTypes
  <2>4. CASE Wait(c)
    <3>1. op[c] \in CV
      BY <1>1, <2>4 DEF Wait, Inside, OpOf
    <3>2. Append(cvQueue[channal[c]][op[c]], c) \in Seq(Coroutine)
      BY <1>1, <2>2, <3>1 DEF WaitTypes
    <3> QED BY <1>1, <2>1, <2>2, <2>4, <3>1, <3>2 DEF Wait, callVars, WaitTypes
  <2>5. CASE Waiting(c)
    BY <1>1, <2>1, <2>2, <2>5 DEF Waiting, callVars, WaitTypes
  <2>6. ASSUME NEW k \in CV, cvQueue[channal[c]][k] # <<>>, TakeWaiter(c, channal[c], k),
               \/ cvMutex' = cvMutex
               \/ cvMutex' = [cvMutex EXCEPT ![channal[c]][k] = c]
        PROVE  WaitTypes'
    <3>1. /\ Head(cvQueue[channal[c]][k]) \in Coroutine
          /\ Tail(cvQueue[channal[c]][k]) \in Seq(Coroutine)
      BY <1>1, <2>2, <2>6, FirstWaiter
    <3>2. notified' \in [Coroutine -> Coroutine \cup {Nil}]
      BY <1>1, <2>6, <3>1 DEF TakeWaiter, WaitTypes
    <3>3. cvQueue' \in [Channal -> [CV -> Seq(Coroutine)]]
      BY <1>1, <2>2, <2>6, <3>1 DEF TakeWaiter, WaitTypes
    <3>4. cvMutex' \in [Channal -> [CV -> Coroutine \cup {Nil}]]
      <4>1. cvMutex \in [Channal -> [CV -> Coroutine \cup {Nil}]]
        BY <1>1 DEF WaitTypes
      <4> QED BY <2>2, <2>6, <4>1
    <3> QED BY <1>1, <2>1, <3>2, <3>3, <3>4 DEF WaitTypes
  <2>7. CASE Notify(c)
    BY <1>1, <2>1, <2>6, <2>7 DEF Notify, Other, CV, WaitTypes
  <2>8. CASE ClosePush(c) \/ ClosePop(c)
    <3>1. ASSUME NEW k \in CV, NotifyAll(c, k) PROVE WaitTypes'
      BY <2>6, <3>1 DEF NotifyAll
    <3>2. ASSUME NEW k \in CV, NotifiedAll(c, k) PROVE WaitTypes'
      BY <1>1, <2>1, <2>2, <3>2 DEF NotifiedAll, WaitTypes
    <3> QED BY <2>8, <3>1, <3>2 DEF ClosePush, ClosePop, CV
  <2> QED BY <1>3, <2>3, <2>4, <2>5, <2>7, <2>8 DEF Along, ChannalStep
<1>4. CASE Begins(c) \/ Elsewhere(c)
  BY <1>1, <1>4, SessionWaits DEF OutsideWaits, WaitTypes
<1> QED BY <1>2, <1>3, <1>4, Kinds DEF LiveInv, AnswerInv

-----------------------------------------------------------------------------
(* Who has taken a waiter, and who waits.                                  *)

\* Whoever has taken a waiter adds it before it does anything else.
LEMMA HandingStays ==
    ASSUME LiveInv, NEW c \in Coroutine, Running(c), Step(c)
    PROVE  \A d \in Coroutine : Handing(d)'
<1>1. /\ WaitTypes /\ LockTypes /\ QueueInv
      /\ inCall \in [Coroutine -> {"out"} \cup InLock \cup InUnlock]
      /\ at \in [Coroutine -> Place]
      /\ wait_coroutine \in [Coroutine -> Coroutine \cup {Nil}]
      /\ notified \in [Coroutine -> Coroutine \cup {Nil}]
      /\ Nil \notin Coroutine
  BY CoroutineAssumption
     DEF LiveInv, KeptInv, AnswerInv, QueueInv, IInv, LockInv, LockTypes, PlaceInv, WaitTypes
<1>2. /\ \A e \in Coroutine \ {c} : Running(e) => Running(e)'
      /\ at_worker' = at_worker => Running(c)'
      /\ Yields(c)
  BY StepEffect, EffectKeeps DEF Effect
<1>3. ASSUME NEW d \in Coroutine, d # c PROVE Handing(d)'
  <2>1. Handing(d)
    BY DEF LiveInv, KeptInv
  <2>2. at'[d] = at[d] /\ inCall'[d] = inCall[d]
    BY <1>1, <1>3, Frame
  <2>3. wait_coroutine'[d] = wait_coroutine[d] /\ notified'[d] = notified[d]
    BY <1>3, WaitsFrame
  <2>4. Running(d) => Running(d)'
    BY <1>2, <1>3
  <2> QED BY <2>1, <2>2, <2>3, <2>4 DEF Handing
<1>4. Handing(c)'
  <2>1. Handing(c)
    BY DEF LiveInv, KeptInv
  <2>2. CASE Within(c)
    <3>1. UNCHANGED <<at, notified>> /\ MutexStep(c)
      BY <2>2 DEF Within, channalVars
    <3>2. CASE Lock(c) \/ Retry(c) \/ Enqueue(c) \/ YieldBlocked(c) \/ Own(c)
      BY <1>1, <2>1, <3>1, <3>2 DEF Lock, Retry, tryLock, Enqueue, YieldBlocked, Own, In,
         Goto, Handing
    <3>3. CASE Unlock(c)
      BY <1>1, <1>2, <2>1, <3>1, <3>3 DEF Unlock, In, Goto, Handing, schedVars
    <3>4. CASE Release(c) \/ Ready(c)
      BY <1>1, <1>2, <2>1, <3>1, <3>4 DEF Release, Ready, In, Goto, Handing, schedVars
    <3>5. CASE Reschedule(c)
      BY <1>1, <1>2, <2>1, <3>1, <3>5 DEF Reschedule, In, Goto, Handing
    <3> QED BY <3>1, <3>2, <3>3, <3>4, <3>5 DEF MutexStep
  <2>3. CASE Along(c)
    <3>1. ChannalStep(c) /\ UNCHANGED wait_coroutine
      BY <2>3 DEF Along, ChannalStep, LockChannal, Look, Act, Wait, Waiting, YieldWaiting,
         Notify, AddNotified, BeginClose, ClosePush, ClosePop, NotifyAll, NotifiedAll,
         CallLock, CallUnlock, Call, mutexVars
    <3>2. channal[c] \in Channal /\ inCall[c] = "out" /\ OpOf(c)
      BY <3>1, AlongSelf DEF LiveInv, AnswerInv, ChannalStep, LockChannal, Look, Act, Wait,
         Waiting, YieldWaiting, Notify, AddNotified, BeginClose, ClosePush, ClosePop, Inside
    <3>3. inCall'[c] \in {"out", "lock", "unlock"}
      BY <1>1, <3>1, <3>2 DEF ChannalStep, LockChannal, Look, Act, Wait, Waiting,
         YieldWaiting, Notify, AddNotified, BeginClose, ClosePush, ClosePop, NotifyAll,
         NotifiedAll, CallLock, CallUnlock, Call, Goto, mutexVars
    <3>4. CASE LockChannal(c) \/ Look(c) \/ Act(c) \/ Wait(c) \/ Waiting(c)
               \/ YieldWaiting(c) \/ BeginClose(c)
      BY <1>1, <2>1, <3>1, <3>2, <3>3, <3>4 DEF LockChannal, Look, Act, Wait, Waiting,
         YieldWaiting, BeginClose, Inside, GotoPlace, callVars, Handing
    <3>5. CASE AddNotified(c)
      BY <1>1, <2>1, <3>1, <3>2, <3>3, <3>5 DEF AddNotified, Inside, GotoPlace, Handing
    <3>6. ASSUME NEW k \in CV, cvQueue[channal[c]][k] # <<>>, TakeWaiter(c, channal[c], k),
                 UNCHANGED <<mutexVars, at_worker>>
          PROVE  Handing(c)'
      <4>1. Head(cvQueue[channal[c]][k]) \in Coroutine
        BY <1>1, <3>2, <3>6, FirstWaiter
      <4>2. /\ at'[c] = "addTask" /\ notified'[c] # Nil
            /\ inCall'[c] = "out" /\ wait_coroutine'[c] = wait_coroutine[c]
        BY <1>1, <3>2, <3>6, <4>1 DEF TakeWaiter, GotoPlace, mutexVars
      <4>3. Running(c)'
        BY <1>2, <3>6
      <4> QED BY <2>1, <3>2, <4>2, <4>3 DEF Handing
    <3>7. CASE Notify(c)
      <4>1. CASE cvQueue[channal[c]][Other(op[c])] = <<>>
        BY <1>1, <2>1, <3>1, <3>2, <3>3, <3>7, <4>1 DEF Notify, Inside, GotoPlace, Handing
      <4>2. CASE cvQueue[channal[c]][Other(op[c])] # <<>>
        <5>1. Other(op[c]) \in CV
          BY DEF Other, CV
        <5> QED BY <3>6, <3>7, <4>2, <5>1 DEF Notify, schedVars
      <4> QED BY <4>1, <4>2
    <3>8. CASE ClosePush(c) \/ ClosePop(c)
      <4>1. ASSUME NEW k \in CV, NotifyAll(c, k), UNCHANGED at_worker PROVE Handing(c)'
        BY <3>6, <4>1 DEF NotifyAll
      <4>2. ASSUME NEW k \in CV, NotifiedAll(c, k), NEW place \in {"out", "notifyPop"},
                   GotoPlace(c, place), at[c] # "addTask"
            PROVE  Handing(c)'
        BY <1>1, <2>1, <3>1, <3>2, <3>3, <4>2 DEF NotifiedAll, GotoPlace, Handing
      <4> QED
        BY <3>8, <4>1, <4>2 DEF ClosePush, ClosePop, Inside, CV, schedVars
    <3> QED BY <3>1, <3>4, <3>5, <3>7, <3>8 DEF ChannalStep
  <2>4. CASE Begins(c) \/ Elsewhere(c)
    BY <2>1, <2>4, SessionWaits DEF OutsideWaits, Handing
  <2> QED BY <1>1, <2>2, <2>3, <2>4, Kinds
<1> QED BY <1>3, <1>4

\* Who is in a sequence is in it when it has grown, and behind its head or that.
LEMMA ContainsGrown ==
    ASSUME NEW S, NEW s \in Seq(S), NEW e, Contains(s, e)
    PROVE  /\ \A x \in S : Contains(Append(s, x), e)
           /\ s # <<>> /\ (Head(s) = e \/ Contains(Tail(s), e))
<1>1. PICK i \in 1..Len(s) : s[i] = e
  BY DEF Contains
<1>2. \A x \in S : Contains(Append(s, x), e)
  <2> SUFFICES ASSUME NEW x \in S PROVE Contains(Append(s, x), e)
    OBVIOUS
  <2>1. i \in 1..Len(Append(s, x)) /\ Append(s, x)[i] = e
    BY <1>1
  <2> QED BY <2>1 DEF Contains
<1>3. s # <<>>
  BY <1>1
<1>4. CASE i = 1
  BY <1>1, <1>2, <1>3, <1>4
<1>5. CASE i # 1
  <2>1. i - 1 \in 1..Len(Tail(s)) /\ Tail(s)[i - 1] = e
    BY <1>1, <1>3, <1>5
  <2>2. Contains(Tail(s), e)
    BY <2>1 DEF Contains
  <2> QED BY <1>2, <1>3, <2>2
<1> QED BY <1>4, <1>5

\* The last of a sequence is in it.
LEMMA ContainsLast ==
    ASSUME NEW S, NEW s \in Seq(S), NEW e \in S
    PROVE  Contains(Append(s, e), e)
<1>1. Len(s) + 1 \in 1..Len(Append(s, e)) /\ Append(s, e)[Len(s) + 1] = e
  OBVIOUS
<1> QED BY <1>1 DEF Contains

\* A waiter is taken from one queue, the others are left alone.
LEMMA TakenFrom ==
    ASSUME WaitTypes, NEW c \in Coroutine, NEW b \in Channal, NEW j \in CV,
           TakeWaiter(c, b, j), NEW ch \in Channal, NEW k \in CV, ch # b \/ k # j
    PROVE  cvQueue'[ch][k] = cvQueue[ch][k]
<1>1. /\ cvQueue' = [cvQueue EXCEPT ![b][j] = Tail(@)]
      /\ cvQueue \in [Channal -> [CV -> Seq(Coroutine)]]
  BY DEF TakeWaiter, WaitTypes
<1>2. CASE ch # b
  BY <1>1, <1>2
<1>3. CASE ch = b /\ k # j
  BY <1>1, <1>3
<1> QED BY <1>2, <1>3

\* The queue of a condition variable whose mutex another holds is left alone.
LEMMA CvStays ==
    ASSUME LiveInv, NEW c \in Coroutine, Step(c), NEW d \in Coroutine \ {c},
           NEW ch \in Channal, NEW k \in CV, cvMutex[ch][k] = d
    PROVE  cvMutex'[ch][k] = d /\ cvQueue'[ch][k] = cvQueue[ch][k]
<1>1. WaitTypes /\ OpOf(c) /\ Unlocked(c) /\ d # Nil
  BY CoroutineAssumption DEF LiveInv, KeptInv, AnswerInv
<1>2. /\ cvMutex \in [Channal -> [CV -> Coroutine \cup {Nil}]]
      /\ cvQueue \in [Channal -> [CV -> Seq(Coroutine)]]
  BY <1>1 DEF WaitTypes
<1>3. CASE ChannalStep(c)
  <2>1. channal[c] \in Channal
    BY <1>3, AlongSelf DEF LiveInv
  <2>2. CASE LockChannal(c) \/ Look(c) \/ Act(c) \/ YieldWaiting(c) \/ AddNotified(c)
             \/ BeginClose(c)
    BY <2>2 DEF LockChannal, Look, Act, YieldWaiting, AddNotified, BeginClose, queueVars
  <2>3. CASE Wait(c)
    <3>1. op[c] \in CV /\ cvMutex[channal[c]][op[c]] = Nil
      BY <1>1, <2>3 DEF Wait, Inside, OpOf
    <3> QED BY <1>1, <1>2, <2>1, <2>3, <3>1 DEF Wait
  <2>4. CASE Waiting(c)
    <3>1. op[c] \in CV /\ cvMutex[channal[c]][op[c]] = c
      BY <1>1, <2>4 DEF Waiting, Inside, OpOf, Unlocked
    <3> QED BY <1>1, <1>2, <2>1, <2>4, <3>1 DEF Waiting
  <2>5. CASE Notify(c)
    <3>1. Other(op[c]) \in CV /\ cvMutex[channal[c]][Other(op[c])] = Nil
      BY <2>5 DEF Notify, Other, CV
    <3>2. ch # channal[c] \/ k # Other(op[c])
      BY <1>1, <3>1
    <3>3. CASE TakeWaiter(c, channal[c], Other(op[c]))
      BY <1>1, <2>1, <2>5, <3>1, <3>2, <3>3, TakenFrom DEF Notify
    <3>4. CASE UNCHANGED cvQueue
      BY <2>5, <3>4 DEF Notify
    <3> QED BY <2>5, <3>3, <3>4 DEF Notify
  <2>6. ASSUME NEW j \in CV, NotifyAll(c, j) \/ NotifiedAll(c, j)
        PROVE  cvMutex'[ch][k] = d /\ cvQueue'[ch][k] = cvQueue[ch][k]
    <3>1. cvMutex[channal[c]][j] \in {Nil, c}
      BY <2>6 DEF NotifyAll, NotifiedAll
    <3>2. ch # channal[c] \/ k # j
      BY <1>1, <3>1
    <3>3. CASE NotifyAll(c, j)
      <4>1. cvMutex' = [cvMutex EXCEPT ![channal[c]][j] = c]
        BY <3>3 DEF NotifyAll
      <4>2. cvMutex'[ch][k] = cvMutex[ch][k]
        BY <1>2, <2>1, <3>2, <4>1
      <4> QED BY <1>1, <2>1, <3>2, <3>3, <4>2, TakenFrom DEF NotifyAll
    <3>4. CASE NotifiedAll(c, j)
      <4>1. cvMutex' = [cvMutex EXCEPT ![channal[c]][j] = Nil]
        BY <3>4 DEF NotifiedAll
      <4>2. cvMutex'[ch][k] = cvMutex[ch][k]
        BY <1>2, <2>1, <3>2, <4>1
      <4> QED BY <3>4, <4>2 DEF NotifiedAll
    <3> QED BY <2>6, <3>3, <3>4
  <2>7. CASE ClosePush(c) \/ ClosePop(c)
    BY <2>6, <2>7 DEF ClosePush, ClosePop, CV
  <2> QED BY <1>3, <2>2, <2>3, <2>4, <2>5, <2>7 DEF ChannalStep
<1>4. CASE Within(c)
  BY <1>4 DEF Within, channalVars
<1>5. CASE Begins(c) \/ Elsewhere(c)
  BY <1>5, SessionWaits DEF OutsideWaits
<1> QED BY <1>3, <1>4, <1>5, Kinds DEF Along, LiveInv, AnswerInv

\* So Unlocked is kept.
LEMMA UnlockedStays ==
    ASSUME LiveInv, NEW c \in Coroutine, Step(c)
    PROVE  \A d \in Coroutine : Unlocked(d)'
<1>1. QueueInv /\ WaitTypes
  BY DEF LiveInv, AnswerInv, KeptInv
<1>2. ASSUME NEW d \in Coroutine, d # c PROVE Unlocked(d)'
  <2>1. Unlocked(d) /\ OpOf(d)
    BY DEF LiveInv, KeptInv, AnswerInv
  <2>2. at'[d] = at[d] /\ channal'[d] = channal[d] /\ op'[d] = op[d]
    BY <1>1, <1>2, Frame
  <2>3. at[d] # "out" => channal[d] \in Channal
    BY <1>1 DEF QueueInv, IInv, PlaceInv
  <2>4. ASSUME at[d] = "unlocked"
        PROVE  /\ cvMutex'[channal[d]][op[d]] = d
               /\ cvQueue'[channal[d]][op[d]] = cvQueue[channal[d]][op[d]]
    BY <1>2, <2>1, <2>3, <2>4, CvStays DEF Unlocked, OpOf
  <2> QED BY <2>1, <2>2, <2>4 DEF Unlocked
<1>3. Unlocked(c)'
  <2>1. Unlocked(c) /\ OpOf(c)
    BY DEF LiveInv, KeptInv, AnswerInv
  <2>2. CASE Within(c)
    BY <2>1, <2>2 DEF Within, channalVars, Unlocked
  <2>3. CASE Wait(c)
    <3>1. channal[c] \in Channal /\ op[c] \in CV
      BY <1>1, <2>1, <2>3 DEF Wait, Inside, QueueInv, IInv, PlaceInv, OpOf
    <3>2. cvQueue[channal[c]][op[c]] \in Seq(Coroutine)
      BY <1>1, <3>1 DEF WaitTypes
    <3>3. /\ cvMutex'[channal[c]][op[c]] = c
          /\ cvQueue'[channal[c]][op[c]] = Append(cvQueue[channal[c]][op[c]], c)
          /\ UNCHANGED <<op, channal>>
      BY <1>1, <2>3, <3>1 DEF Wait, WaitTypes, callVars
    <3> QED BY <3>2, <3>3, ContainsLast DEF Unlocked
  <2>4. CASE ChannalStep(c) /\ ~Wait(c)
    <3>1. at \in [Coroutine -> Place]
      BY <1>1 DEF QueueInv, IInv, PlaceInv
    <3>2. at'[c] # "unlocked"
      BY <2>4, <3>1 DEF ChannalStep, LockChannal, Look, Act, Waiting, YieldWaiting, Notify,
         AddNotified, BeginClose, ClosePush, ClosePop, NotifyAll, TakeWaiter, GotoPlace
    <3> QED BY <3>2 DEF Unlocked
  <2>5. CASE Begins(c) \/ Elsewhere(c)
    BY <2>5, SessionWaits DEF OutsideWaits, Unlocked
  <2> QED BY <1>1, <2>2, <2>3, <2>4, <2>5, Kinds DEF Along
<1> QED BY <1>2, <1>3

\* Whoever waits goes on to wait, until it is marked READY by who has taken it.
LEMMA WaitsStay ==
    ASSUME LiveInv, NEW c \in Coroutine, Step(c), NEW e \in Coroutine, Waits(e)
    PROVE  Waits(e)' \/ (m_state'[e] = "READY" /\ Handed(e)')
<1>1. /\ WaitTypes /\ LockTypes /\ QueueInv /\ OpOf(c) /\ e # Nil
      /\ inCall \in [Coroutine -> {"out"} \cup InLock \cup InUnlock]
      /\ m_state \in [Coroutine -> State]
  BY CoroutineAssumption
     DEF LiveInv, KeptInv, AnswerInv, QueueInv, IInv, LockInv, LockTypes, SchedulerTypeOK
<1>2. ASSUME NEW m \in Mutex, Contains(m_waitQueue[m], e)
      PROVE  Waits(e)' \/ (m_state'[e] = "READY" /\ Handed(e)')
  <2>1. m_waitQueue[m] \in Seq(Coroutine)
    BY <1>1 DEF WaitTypes
  <2>2. CASE m_waitQueue'[m] = m_waitQueue[m]
    BY <1>2, <2>2 DEF Waits
  <2>3. CASE Enqueue(c)
    <3>1. m_waitQueue'[m] \in {m_waitQueue[m], Append(m_waitQueue[m], c)}
      BY <1>1, <2>3 DEF Enqueue, WaitTypes
    <3>2. Contains(m_waitQueue'[m], e)
      BY <1>2, <2>1, <3>1, ContainsGrown
    <3> QED BY <3>2 DEF Waits
  <2>4. CASE Unlock(c) /\ m_waitQueue'[m] # m_waitQueue[m]
    <3>1. /\ m = mutexOf[c] /\ m_waitQueue'[m] = Rest(m_waitQueue[m])
          /\ wait_coroutine'[c] = First(m_waitQueue[m])
          /\ inCall'[c] = "release"
      BY <1>1, <2>4 DEF Unlock, Goto, WaitTypes
    <3>2. m_waitQueue[m] # <<>>
      BY <1>2, <2>1, ContainsGrown
    <3>3. CASE Head(m_waitQueue[m]) = e
      BY <3>1, <3>2, <3>3 DEF First, Waits
    <3>4. CASE Contains(Tail(m_waitQueue[m]), e)
      BY <3>1, <3>2, <3>4 DEF Rest, Waits
    <3> QED BY <1>2, <2>1, <3>3, <3>4, ContainsGrown
  <2>5. CASE Within(c) /\ ~Enqueue(c) /\ ~Unlock(c)
    BY <2>2, <2>5 DEF Within, MutexStep, Lock, Retry, YieldBlocked, Own, Release, Ready,
       Reschedule
  <2>6. CASE Along(c)
    BY <2>2, <2>6 DEF Along, ChannalStep, LockChannal, Look, Act, Wait, Waiting,
       YieldWaiting, Notify, AddNotified, BeginClose, ClosePush, ClosePop, NotifyAll,
       NotifiedAll, CallLock, CallUnlock, Call, mutexVars
  <2>7. CASE Begins(c) \/ Elsewhere(c)
    BY <2>2, <2>7, SessionWaits DEF OutsideWaits
  <2> QED BY <1>1, <2>2, <2>3, <2>4, <2>5, <2>6, <2>7, Kinds
<1>3. ASSUME NEW ch \in Channal, NEW k \in CV, Contains(cvQueue[ch][k], e)
      PROVE  Waits(e)' \/ (m_state'[e] = "READY" /\ Handed(e)')
  <2>1. cvQueue[ch][k] \in Seq(Coroutine) /\ cvQueue \in [Channal -> [CV -> Seq(Coroutine)]]
    BY <1>1 DEF WaitTypes
  <2>2. CASE cvQueue'[ch][k] = cvQueue[ch][k]
    BY <1>3, <2>2 DEF Waits
  <2>3. CASE Wait(c)
    <3>1. cvQueue'[ch][k] \in {cvQueue[ch][k], Append(cvQueue[ch][k], c)}
      <4>1. op[c] \in CV /\ channal[c] \in Channal
        BY <1>1, <2>3 DEF Wait, Inside, OpOf, QueueInv, IInv, PlaceInv
      <4> QED BY <2>1, <2>3, <4>1 DEF Wait
    <3>2. Contains(Append(cvQueue[ch][k], c), e)
      BY <1>3, <2>1, ContainsGrown
    <3>3. Contains(cvQueue'[ch][k], e)
      BY <1>3, <3>1, <3>2
    <3> QED BY <3>3 DEF Waits
  <2>4. ASSUME NEW j \in CV, TakeWaiter(c, channal[c], j), channal[c] \in Channal
        PROVE  Waits(e)' \/ (m_state'[e] = "READY" /\ Handed(e)')
    <3>1. CASE channal[c] = ch /\ j = k
      <4>1. /\ cvQueue'[ch][k] = Tail(cvQueue[ch][k])
            /\ Mark(Head(cvQueue[ch][k]), "READY")
        BY <2>1, <2>4, <3>1 DEF TakeWaiter
      <4>2. CASE Head(cvQueue[ch][k]) = e
        <5>1. m_state'[e] = "READY"
          BY <1>1, <4>1, <4>2 DEF Mark
        <5>2. notified'[c] = e
          BY <1>1, <2>4, <3>1, <4>2 DEF TakeWaiter, WaitTypes
        <5> QED BY <5>1, <5>2 DEF Handed
      <4>3. CASE Contains(Tail(cvQueue[ch][k]), e)
        BY <4>1, <4>3 DEF Waits
      <4> QED BY <1>3, <2>1, <4>2, <4>3, ContainsGrown
    <3>2. CASE channal[c] # ch \/ j # k
      BY <1>1, <2>2, <2>4, <3>2, TakenFrom
    <3> QED BY <3>1, <3>2
  <2>5. CASE ChannalStep(c) /\ ~Wait(c)
    <3>1. channal[c] \in Channal
      BY <2>5, AlongSelf DEF LiveInv
    <3>2. CASE Notify(c)
      BY <2>2, <2>4, <3>1, <3>2 DEF Notify, Other, CV
    <3>3. CASE ClosePush(c) \/ ClosePop(c)
      BY <2>2, <2>4, <3>1, <3>3 DEF ClosePush, ClosePop, NotifyAll, NotifiedAll, CV
    <3>4. CASE ~Notify(c) /\ ~ClosePush(c) /\ ~ClosePop(c)
      BY <2>2, <2>5, <3>4 DEF ChannalStep, LockChannal, Look, Act, Waiting, YieldWaiting,
         AddNotified, BeginClose, queueVars
    <3> QED BY <3>2, <3>3, <3>4
  <2>6. CASE Within(c)
    BY <2>2, <2>6 DEF Within, channalVars
  <2>7. CASE Begins(c) \/ Elsewhere(c)
    BY <2>2, <2>7, SessionWaits DEF OutsideWaits
  <2> QED BY <1>1, <2>3, <2>5, <2>6, <2>7, Kinds DEF Along
<1>4. ASSUME NEW d \in Coroutine, inCall[d] \in {"release", "ready"}, wait_coroutine[d] = e
      PROVE  Waits(e)' \/ (m_state'[e] = "READY" /\ Handed(e)')
  <2>1. CASE d # c
    <3>1. inCall'[d] = inCall[d] /\ wait_coroutine'[d] = wait_coroutine[d]
      BY <1>1, <2>1, Frame, WaitsFrame
    <3> QED BY <1>4, <3>1 DEF Waits
  <2>2. CASE d = c
    <3>1. Release(c) \/ Ready(c)
      <4>1. ~ChannalStep(c) /\ ~Begins(c) /\ ~Elsewhere(c)
        BY <1>4, <2>2 DEF ChannalStep, LockChannal, Look, Act, Wait, Waiting, YieldWaiting,
           Notify, AddNotified, BeginClose, ClosePush, ClosePop, Inside, Begins, Elsewhere
      <4>2. MutexStep(c)
        BY <1>1, <4>1, Kinds DEF Along, Within
      <4> QED BY <1>4, <2>2, <4>2 DEF MutexStep, Lock, Retry, Enqueue, YieldBlocked, Own,
                                    Unlock, Reschedule, In
    <3>2. CASE Release(c)
      <4>1. inCall'[c] = "ready" /\ wait_coroutine'[c] = e
        BY <1>1, <1>4, <2>2, <3>2 DEF Release, Goto
      <4> QED BY <4>1 DEF Waits
    <3>3. CASE Ready(c)
      BY <1>1, <1>4, <2>2, <3>3 DEF Ready, Mark, Handed
    <3> QED BY <3>1, <3>2, <3>3
  <2> QED BY <2>1, <2>2
<1> QED BY <1>2, <1>3, <1>4 DEF Waits

\* A new mark that would let a worker drop its coroutine is the one it sets itself, when it
\* is in a queue or at its end.
LEMMA NewMark ==
    ASSUME LiveInv, NEW c \in Coroutine, Step(c), NEW e \in Coroutine,
           m_state'[e] # m_state[e], m_state'[e] # "READY"
    PROVE  IF m_state'[e] = "TERMINATED" THEN e \in ended' ELSE Waits(e)'
<1>1. /\ WaitTypes /\ LockTypes /\ QueueInv /\ OpOf(c) /\ Unlocked(c)
      /\ m_state \in [Coroutine -> State]
  BY DEF LiveInv, KeptInv, AnswerInv, QueueInv, IInv, LockInv, SchedulerTypeOK
<1>2. CASE Within(c)
  <2>1. Enqueue(c) /\ e = c /\ m_state'[e] = "BLOCKED"
    BY <1>1, <1>2 DEF Within, MutexStep, Lock, Retry, Enqueue, YieldBlocked, Own, Unlock,
       Release, Ready, Reschedule, coVars, Mark
  <2>2. mutexOf[c] \in Mutex /\ m_waitQueue[mutexOf[c]] \in Seq(Coroutine)
    BY <1>1, <2>1 DEF Enqueue, In, LockTypes, WaitTypes
  <2>3. m_waitQueue'[mutexOf[c]] = Append(m_waitQueue[mutexOf[c]], c)
    BY <1>1, <2>1, <2>2 DEF Enqueue, WaitTypes
  <2>4. Contains(m_waitQueue'[mutexOf[c]], c)
    BY <2>2, <2>3, ContainsLast
  <2> QED BY <2>1, <2>2, <2>4 DEF Waits
<1>3. CASE Along(c)
  <2>1. Waiting(c) /\ e = c /\ m_state'[e] = "WAITING"
    <3>1. ChannalStep(c)
      BY <1>3 DEF Along
    <3>2. CASE Waiting(c)
      BY <1>1, <3>2 DEF Waiting, Mark
    <3>3. ASSUME NEW j \in CV, TakeWaiter(c, channal[c], j) PROVE FALSE
      BY <1>1, <3>3 DEF TakeWaiter, Mark
    <3>4. CASE ~Waiting(c)
      BY <3>1, <3>3, <3>4 DEF ChannalStep, LockChannal, Look, Act, Wait, YieldWaiting,
         Notify, AddNotified, BeginClose, ClosePush, ClosePop, NotifyAll, NotifiedAll,
         coVars, Other, CV
    <3> QED BY <3>2, <3>4
  <2>2. channal[c] \in Channal /\ op[c] \in CV
    BY <1>1, <2>1 DEF Waiting, Inside, OpOf, QueueInv, IInv, PlaceInv
  <2>3. Contains(cvQueue'[channal[c]][op[c]], c)
    BY <1>1, <2>1 DEF Waiting, Inside, Unlocked
  <2> QED BY <2>1, <2>2, <2>3 DEF Waits
<1>4. ASSUME \/ c \in Calls /\ CallStep(c)
             \/ c \in Callback /\ CallbackStep(c)
             \/ SessionStep(c)
      PROVE  m_state'[e] = "TERMINATED" /\ e \in ended'
  <2>1. Mark(c, "TERMINATED") /\ c \in ended'
    BY <1>4, SessionEffect
  <2> QED BY <1>1, <2>1 DEF Mark
<1> QED BY <1>2, <1>3, <1>4 DEF Step, Within, Along

\* So every mark is true.
LEMMA MarkedStays ==
    ASSUME LiveInv, NEW c \in Coroutine, Step(c)
    PROVE  \A e \in Coroutine : Marked(e)'
<1> SUFFICES ASSUME NEW e \in Coroutine PROVE Marked(e)'
  OBVIOUS
<1>1. Marked(e) /\ ended \subseteq ended'
  BY StepEffect, EffectKeeps DEF LiveInv, KeptInv
<1>2. CASE m_state'[e] = m_state[e]
  <2>1. Waits(e) => Waits(e)' \/ m_state'[e] = "READY"
    BY WaitsStay
  <2> QED BY <1>1, <1>2, <2>1 DEF Marked
<1>3. CASE m_state'[e] = "READY"
  BY <1>3 DEF Marked
<1>4. CASE m_state'[e] # m_state[e] /\ m_state'[e] # "READY"
  <2>1. IF m_state'[e] = "TERMINATED" THEN e \in ended' ELSE Waits(e)'
    BY <1>4, NewMark
  <2> QED BY <2>1 DEF Marked
<1> QED BY <1>2, <1>3, <1>4

-----------------------------------------------------------------------------
(* Nobody gets lost.                                                       *)

\* Whoever has been taken from a queue stays so until it is added to that of tasks.
LEMMA HandedStays ==
    ASSUME LiveInv, NEW c \in Coroutine, Step(c), NEW e \in Coroutine, Handed(e)
    PROVE  Handed(e)' \/ InQueue(e)'
<1>1. /\ WaitTypes /\ QueueInv /\ Handing(c) /\ e # Nil
      /\ m_tasks \in Seq(Coroutine)
  BY CoroutineAssumption DEF LiveInv, KeptInv, AnswerInv, SchedulerTypeOK
<1>2. PICK d \in Coroutine : e \in {wait_coroutine[d], notified[d]}
  BY DEF Handed
<1>3. CASE d # c
  <2>1. wait_coroutine'[d] = wait_coroutine[d] /\ notified'[d] = notified[d]
    BY <1>3, WaitsFrame
  <2> QED BY <1>2, <2>1 DEF Handed
<1>4. ASSUME addTask(e) PROVE InQueue(e)'
  <2>1. /\ Len(m_tasks) + 1 \in DOMAIN m_tasks'
        /\ m_tasks'[Len(m_tasks) + 1] = e
    BY <1>1, <1>4 DEF addTask
  <2> QED BY <2>1 DEF InQueue
<1>5. CASE d = c /\ wait_coroutine[c] = e
  <2>1. inCall[c] \in {"release", "ready", "addTask"}
    BY <1>1, <1>5 DEF Handing
  <2>2. MutexStep(c)
    BY <1>1, <2>1, Kinds DEF Within, Along, Begins, Elsewhere, ChannalStep, LockChannal,
       Look, Act, Wait, Waiting, YieldWaiting, Notify, AddNotified, BeginClose, ClosePush,
       ClosePop, Inside
  <2>3. CASE Release(c) \/ Ready(c)
    BY <1>5, <2>3 DEF Release, Ready, Handed
  <2>4. CASE Reschedule(c)
    BY <1>4, <1>5, <2>4 DEF Reschedule
  <2> QED BY <2>1, <2>2, <2>3, <2>4 DEF MutexStep, Lock, Retry, Enqueue, YieldBlocked,
                                       Own, Unlock, In
<1>6. CASE d = c /\ notified[c] = e
  <2>1. at[c] = "addTask" /\ inCall[c] = "out"
    BY <1>1, <1>6 DEF Handing
  <2>2. AddNotified(c)
    BY <1>1, <2>1, Kinds DEF Within, Along, Begins, Elsewhere, MutexStep, Lock, Retry,
       Enqueue, YieldBlocked, Own, Unlock, Release, Ready, Reschedule, In, ChannalStep,
       LockChannal, Look, Act, Wait, Waiting, YieldWaiting, Notify, BeginClose, ClosePush,
       ClosePop, Inside
  <2> QED BY <1>4, <1>6, <2>2 DEF AddNotified
<1> QED BY <1>2, <1>3, <1>5, <1>6

\* What is appended to a sequence is in it.
LEMMA AppendedIn ==
    ASSUME NEW S, NEW s \in Seq(S), NEW t \in Seq(S)
    PROVE  /\ \A i \in DOMAIN s : i \in DOMAIN (s \o t) /\ (s \o t)[i] = s[i]
           /\ \A i \in DOMAIN t : /\ Len(s) + i \in DOMAIN (s \o t)
                                  /\ (s \o t)[Len(s) + i] = t[i]
OBVIOUS

\* A coroutine that a step starts is in the queue of tasks.
LEMMA StartedInQueue ==
    ASSUME LiveInv, NEW c \in Coroutine, Step(c), NEW e \in Coroutine, Started(e)'
    PROVE  Started(e) \/ InQueue(e)'
<1>1. /\ Sender \in Coroutine /\ Receiver \in Coroutine
      /\ m_tasks \in Seq(Coroutine)
  BY FourKinds DEF LiveInv, KeptInv, SchedulerTypeOK
<1>2. \A t \in Callback : m_events'[t] = "taken" => m_events[t] = "taken"
  BY StepEffect, EffectKeeps
<1>3. CASE c \in Calls /\ Adopt(c) /\ ~m_has_connect
  <2>1. m_tasks' = m_tasks \o <<Sender, Receiver>>
    BY <1>3 DEF Adopt
  <2>2. <<Sender, Receiver>> \in Seq(Coroutine)
    BY <1>1
  <2>3. \A i \in DOMAIN <<Sender, Receiver>> :
           /\ Len(m_tasks) + i \in DOMAIN m_tasks'
           /\ m_tasks'[Len(m_tasks) + i] = <<Sender, Receiver>>[i]
    BY <1>1, <2>1, <2>2, AppendedIn
  <2>4. 1 \in DOMAIN <<Sender, Receiver>> /\ 2 \in DOMAIN <<Sender, Receiver>>
    OBVIOUS
  <2>5. InQueue(Sender)' /\ InQueue(Receiver)'
    BY <2>3, <2>4 DEF InQueue
  <2> QED BY <1>2, <2>5 DEF Started
<1>4. CASE ~(c \in Calls /\ Adopt(c) /\ ~m_has_connect)
  <2>1. m_has_connect' => m_has_connect
    BY <1>4 DEF Step, sessionVars, CallStep, Connect, Adopt, Register, Registered, Submit,
       Arm, Await, Cancel, Erase, Erased, Outcome, CallbackStep, Fire, CloseChannal, Fired,
       SessionStep, TakeRequest, Transmit, ReceiveNothing, ReceiveAnswer, ReceiveEnd,
       CloseSocket, Received, Deliver, Delivered
  <2> QED BY <1>2, <2>1 DEF Started
<1> QED BY <1>3, <1>4

\* A step of a coroutine keeps KeptInv.
LEMMA KeptStep ==
    ASSUME LiveInv, NEW c \in Coroutine, Running(c), Step(c)
    PROVE  KeptInv'
<1>1. SchedulerTypeOK' /\ Hands' /\ ended \subseteq ended'
  BY StepEffect, EffectKeeps
<1>2. WaitTypes'
  BY WaitTypesStay
<1>3. ASSUME NEW e \in Coroutine, Started(e)', e \notin ended' PROVE Somewhere(e)'
  <2>1. Started(e) \/ InQueue(e)'
    BY <1>3, StartedInQueue
  <2>2. CASE Started(e)
    <3>1. Somewhere(e)
      BY <1>1, <1>3, <2>2 DEF LiveInv, KeptInv
    <3>2. (InQueue(e) => InQueue(e)') /\ (AtHand(e) => AtHand(e)')
      BY StepEffect, EffectKeeps
    <3>3. Waits(e) => Waits(e)' \/ Handed(e)'
      BY WaitsStay
    <3>4. Handed(e) => Handed(e)' \/ InQueue(e)'
      BY HandedStays
    <3> QED BY <3>1, <3>2, <3>3, <3>4 DEF Somewhere
  <2> QED BY <2>1, <2>2 DEF Somewhere
<1> QED BY <1>1, <1>2, <1>3, HandingStays, UnlockedStays, MarkedStays DEF KeptInv

-----------------------------------------------------------------------------
(* The workers.                                                            *)

\* There are as many callbacks as calls.
LEMMA FiniteCallbacks == IsFiniteSet(Callback)
<1>1. timerOf \in Surjection(Calls, Callback)
  BY SessionAssumption DEF Surjection
<1> QED BY <1>1, SessionAssumption, FS_Surjection

\* An order of a finite set holds each of its members.
LEMMA OrderHolds ==
    ASSUME NEW S, IsFiniteSet(S), NEW order \in SetToSeqs(S)
    PROVE  order \in Seq(S) /\ \A x \in S : \E i \in DOMAIN order : order[i] = x
<1> DEFINE D == 1..Cardinality(S)
<1>1. Cardinality(S) \in Nat
  BY FS_CardinalityType
<1>2. order \in [D -> S] /\ \A i, j \in D : i # j => order[i] # order[j]
  BY DEF SetToSeqs
<1>3. order \in Injection(D, S)
  BY <1>2 DEF Injection, IsInjective
<1>4. IsFiniteSet(D) /\ Cardinality(D) = Cardinality(S)
  BY <1>1, FS_Interval
<1>5. order \in Surjection(D, S)
  BY <1>3, <1>4, FS_Injection
<1>6. order \in Seq(S)
  BY <1>1, <1>2
<1> QED BY <1>2, <1>5, <1>6 DEF Surjection

\* The callbacks that a worker takes are put into the queue of tasks.
LEMMA TakenInQueue ==
    ASSUME SchedulerTypeOK, getTaskFromTimer
    PROVE  /\ m_tasks' \in Seq(Coroutine) /\ m_events' \in [Callback -> Event]
           /\ \A e \in Coroutine : InQueue(e) => InQueue(e)'
           /\ \A t \in Callback : m_events'[t] = "taken" =>
                 m_events[t] = "taken" \/ InQueue(t)'
<1>1. m_tasks \in Seq(Coroutine) /\ m_events \in [Callback -> Event]
  BY DEF SchedulerTypeOK
<1>2. Due \in SUBSET Callback /\ Callback \subseteq Coroutine
  BY CoroutineAssumption DEF Due
<1>3. IsFiniteSet(Due)
  BY <1>2, FiniteCallbacks, FS_Subset
<1>4. PICK order \in SetToSeqs(Due) : m_tasks' = m_tasks \o order
  BY DEF getTaskFromTimer
<1>5. order \in Seq(Due) /\ \A t \in Due : \E i \in DOMAIN order : order[i] = t
  BY <1>3, <1>4, OrderHolds
<1>6. order \in Seq(Coroutine)
  BY <1>2, <1>5
<1>7. m_tasks' \in Seq(Coroutine)
  BY <1>1, <1>4, <1>6
<1>8. /\ \A i \in DOMAIN m_tasks : i \in DOMAIN m_tasks' /\ m_tasks'[i] = m_tasks[i]
      /\ \A i \in DOMAIN order : /\ Len(m_tasks) + i \in DOMAIN m_tasks'
                                 /\ m_tasks'[Len(m_tasks) + i] = order[i]
  BY <1>1, <1>4, <1>6, AppendedIn
<1>9. \A e \in Coroutine : InQueue(e) => InQueue(e)'
  BY <1>8 DEF InQueue
<1>10. \A t \in Due : InQueue(t)'
  BY <1>5, <1>8 DEF InQueue
<1>11. m_events' = [t \in Callback |-> IF t \in Due THEN "taken" ELSE m_events[t]]
  BY DEF getTaskFromTimer
<1>12. m_events' \in [Callback -> Event]
  BY <1>1, <1>11 DEF Event
<1> QED BY <1>7, <1>9, <1>10, <1>11, <1>12

\* The head of the queue of tasks, and those behind it.
LEMMA TaskTaken ==
    ASSUME SchedulerTypeOK, m_tasks # <<>>, m_tasks' = Tail(m_tasks)
    PROVE  /\ Head(m_tasks) \in Coroutine /\ m_tasks' \in Seq(Coroutine)
           /\ \A e \in Coroutine : InQueue(e) => e = Head(m_tasks) \/ InQueue(e)'
<1>1. m_tasks \in Seq(Coroutine)
  BY DEF SchedulerTypeOK
<1>2. Head(m_tasks) \in Coroutine /\ m_tasks' \in Seq(Coroutine)
  BY <1>1
<1>3. ASSUME NEW e \in Coroutine, InQueue(e) PROVE e = Head(m_tasks) \/ InQueue(e)'
  <2>1. PICK i \in DOMAIN m_tasks : m_tasks[i] = e
    BY <1>3 DEF InQueue
  <2>2. CASE i = 1
    BY <1>1, <2>1, <2>2
  <2>3. CASE i # 1
    <3>1. i - 1 \in DOMAIN m_tasks' /\ m_tasks'[i - 1] = e
      BY <1>1, <2>1, <2>3
    <3> QED BY <3>1 DEF InQueue
  <2> QED BY <2>2, <2>3
<1> QED BY <1>2, <1>3

\* What a step of a worker does to the coroutines: those that run go on, and none gets
\* lost that is not marked to wait or at its end.
LEMMA WorkerKeeps ==
    ASSUME SchedulerTypeOK, Hands, NEW w \in Worker, WorkerStep(w)
    PROVE  /\ SchedulerTypeOK' /\ Hands' /\ UNCHANGED coVars
           /\ \A e \in Coroutine : Running(e) => Running(e)'
           /\ \A e \in Coroutine : InQueue(e) \/ AtHand(e) =>
                 \/ InQueue(e)' \/ AtHand(e)'
                 \/ m_state[e] # "READY" \/ e \in ended
           /\ \A t \in Callback : m_events'[t] = "taken" =>
                 m_events[t] = "taken" \/ InQueue(t)'
<1>1. /\ m_tasks \in Seq(Coroutine) /\ at_worker \in [Worker -> Location]
      /\ cur \in [Worker -> Coroutine \cup {Nil}] /\ m_state \in [Coroutine -> State]
      /\ ended \subseteq Coroutine /\ m_events \in [Callback -> Event]
  BY DEF SchedulerTypeOK
<1>2. CASE Take(w)
  <2>1. /\ Head(m_tasks) \in Coroutine /\ m_tasks' \in Seq(Coroutine)
        /\ \A e \in Coroutine : InQueue(e) => e = Head(m_tasks) \/ InQueue(e)'
    BY <1>2, TaskTaken DEF Take
  <2>2. /\ at_worker[w] = "loop"
        /\ cur' = [cur EXCEPT ![w] = Head(m_tasks)]
        /\ at_worker' = [at_worker EXCEPT ![w] = "resume"]
        /\ UNCHANGED <<m_state, ended, m_events>>
    BY <1>2 DEF Take, coVars
  <2>3. SchedulerTypeOK'
    BY <1>1, <2>1, <2>2 DEF SchedulerTypeOK, Location
  <2>4. Hands'
    BY <1>1, <2>1, <2>2 DEF Hands
  <2>5. \A e \in Coroutine : Running(e) => Running(e)'
    BY <1>1, <2>2 DEF Running, Runs
  <2>6. \A e \in Coroutine : AtHand(e) => AtHand(e)'
    BY <1>1, <2>2 DEF AtHand
  <2>7. \A e \in Coroutine : e = Head(m_tasks) => AtHand(e)'
    BY <1>1, <2>2 DEF AtHand
  <2> QED BY <2>1, <2>2, <2>3, <2>4, <2>5, <2>6, <2>7 DEF coVars
<1>3. CASE Resume(w)
  <2>1. /\ at_worker[w] = "resume"
        /\ at_worker' = [at_worker EXCEPT ![w] = IF cur[w] \in ended THEN "exited" ELSE "run"]
        /\ UNCHANGED <<m_tasks, cur, m_state, ended, m_events>>
    BY <1>3 DEF Resume, coVars
  <2>2. SchedulerTypeOK'
    BY <1>1, <2>1 DEF SchedulerTypeOK, Location
  <2>3. Hands'
    BY <1>1, <2>1 DEF Hands
  <2>4. \A e \in Coroutine : Running(e) => Running(e)'
    BY <1>1, <2>1 DEF Running, Runs
  <2>5. \A e \in Coroutine : AtHand(e) => AtHand(e)' \/ e \in ended
    BY <1>1, <2>1 DEF AtHand
  <2>6. \A e \in Coroutine : InQueue(e)' = InQueue(e)
    BY <2>1 DEF InQueue
  <2> QED BY <2>1, <2>2, <2>3, <2>4, <2>5, <2>6 DEF coVars
<1>4. CASE Check(w)
  <2>1. /\ at_worker[w] = "check" /\ cur[w] \in Coroutine
        /\ UNCHANGED <<m_tasks, m_state, ended, m_events>>
    BY <1>4 DEF Check, coVars, Hands
  <2>2. \/ /\ m_state[cur[w]] = "READY"
           /\ at_worker' = [at_worker EXCEPT ![w] = "poll"] /\ cur' = cur
        \/ /\ m_state[cur[w]] # "READY"
           /\ at_worker' = [at_worker EXCEPT ![w] = "loop"]
           /\ cur' = [cur EXCEPT ![w] = Nil]
    BY <1>4 DEF Check
  <2>3. SchedulerTypeOK'
    BY <1>1, <2>1, <2>2 DEF SchedulerTypeOK, Location
  <2>4. Hands'
    BY <1>1, <2>1, <2>2 DEF Hands
  <2>5. \A e \in Coroutine : Running(e) => Running(e)'
    BY <1>1, <2>1, <2>2 DEF Running, Runs
  <2>6. \A e \in Coroutine : AtHand(e) => AtHand(e)' \/ m_state[e] # "READY"
    BY <1>1, <2>1, <2>2 DEF AtHand
  <2>7. \A e \in Coroutine : InQueue(e)' = InQueue(e)
    BY <2>1 DEF InQueue
  <2> QED BY <2>1, <2>3, <2>4, <2>5, <2>6, <2>7 DEF coVars
<1>5. CASE PollIdle(w)
  <2>1. getTaskFromTimer /\ UNCHANGED <<at_worker, cur, m_state, ended>>
    BY <1>5 DEF PollIdle, coVars
  <2>2. /\ m_tasks' \in Seq(Coroutine) /\ m_events' \in [Callback -> Event]
        /\ \A e \in Coroutine : InQueue(e) => InQueue(e)'
        /\ \A t \in Callback : m_events'[t] = "taken" =>
              m_events[t] = "taken" \/ InQueue(t)'
    BY <2>1, TakenInQueue
  <2>3. SchedulerTypeOK' /\ Hands'
    BY <1>1, <2>1, <2>2 DEF SchedulerTypeOK, Hands
  <2>4. \A e \in Coroutine : Running(e)' = Running(e) /\ AtHand(e)' = AtHand(e)
    BY <2>1 DEF Running, Runs, AtHand
  <2> QED BY <2>1, <2>2, <2>3, <2>4 DEF coVars
<1>6. CASE PollReady(w)
  <2>1. /\ getTaskFromTimer /\ at_worker[w] = "poll"
        /\ at_worker' = [at_worker EXCEPT ![w] = "again"]
        /\ UNCHANGED <<cur, m_state, ended>>
    BY <1>6 DEF PollReady, coVars
  <2>2. /\ m_tasks' \in Seq(Coroutine) /\ m_events' \in [Callback -> Event]
        /\ \A e \in Coroutine : InQueue(e) => InQueue(e)'
        /\ \A t \in Callback : m_events'[t] = "taken" =>
              m_events[t] = "taken" \/ InQueue(t)'
    BY <2>1, TakenInQueue
  <2>3. SchedulerTypeOK'
    BY <1>1, <2>1, <2>2 DEF SchedulerTypeOK, Location
  <2>4. Hands'
    BY <1>1, <2>1 DEF Hands
  <2>5. \A e \in Coroutine : (Running(e) => Running(e)') /\ (AtHand(e) => AtHand(e)')
    BY <1>1, <2>1 DEF Running, Runs, AtHand
  <2> QED BY <2>1, <2>2, <2>3, <2>4, <2>5 DEF coVars
<1>7. CASE PutBack(w)
  <2>1. /\ at_worker[w] = "again" /\ cur[w] \in Coroutine
        /\ m_tasks' = Append(m_tasks, cur[w])
        /\ cur' = [cur EXCEPT ![w] = Nil]
        /\ at_worker' = [at_worker EXCEPT ![w] = "loop"]
        /\ UNCHANGED <<m_state, ended, m_events>>
    BY <1>7 DEF PutBack, coVars, addTask, Hands
  <2>2. /\ m_tasks' \in Seq(Coroutine)
        /\ \A i \in DOMAIN m_tasks : i \in DOMAIN m_tasks' /\ m_tasks'[i] = m_tasks[i]
        /\ Len(m_tasks) + 1 \in DOMAIN m_tasks' /\ m_tasks'[Len(m_tasks) + 1] = cur[w]
    BY <1>1, <2>1
  <2>3. \A e \in Coroutine : InQueue(e) \/ e = cur[w] => InQueue(e)'
    BY <2>2 DEF InQueue
  <2>4. SchedulerTypeOK'
    BY <1>1, <2>1, <2>2 DEF SchedulerTypeOK, Location
  <2>5. Hands'
    BY <1>1, <2>1 DEF Hands
  <2>6. \A e \in Coroutine : Running(e) => Running(e)'
    BY <1>1, <2>1 DEF Running, Runs
  <2>7. \A e \in Coroutine : AtHand(e) => AtHand(e)' \/ e = cur[w]
    BY <1>1, <2>1 DEF AtHand
  <2> QED BY <2>1, <2>3, <2>4, <2>5, <2>6, <2>7 DEF coVars
<1> QED BY <1>2, <1>3, <1>4, <1>5, <1>6, <1>7 DEF WorkerStep

\* So it keeps KeptInv.
LEMMA KeptWorker ==
    ASSUME LiveInv, NEW w \in Worker, WorkerStep(w),
           UNCHANGED <<mutexVars, channalVars, sessionVars>>
    PROVE  KeptInv'
<1>1. /\ SchedulerTypeOK /\ Hands /\ WaitTypes
      /\ \A e \in Coroutine : /\ Handing(e) /\ Unlocked(e) /\ Marked(e)
                              /\ Started(e) /\ e \notin ended => Somewhere(e)
  BY DEF LiveInv, KeptInv
<1>2. /\ SchedulerTypeOK' /\ Hands' /\ UNCHANGED <<m_state, ended>>
      /\ \A e \in Coroutine : Running(e) => Running(e)'
      /\ \A e \in Coroutine : InQueue(e) \/ AtHand(e) =>
            \/ InQueue(e)' \/ AtHand(e)'
            \/ m_state[e] # "READY" \/ e \in ended
      /\ \A t \in Callback : m_events'[t] = "taken" =>
            m_events[t] = "taken" \/ InQueue(t)'
  BY <1>1, WorkerKeeps DEF coVars
<1>3. /\ UNCHANGED <<m_waitQueue, inCall, wait_coroutine, cvQueue, cvMutex, op, at,
                     channal, notified, m_has_connect>>
      /\ m_state \in [Coroutine -> State]
  BY <1>1 DEF mutexVars, channalVars, sessionVars, SchedulerTypeOK
<1>4. WaitTypes'
  BY <1>1, <1>3 DEF WaitTypes
<1>5. \A e \in Coroutine : Waits(e)' = Waits(e) /\ Handed(e)' = Handed(e)
  BY <1>3 DEF Waits, Handed
<1>6. \A e \in Coroutine : Handing(e)'
  BY <1>1, <1>2, <1>3 DEF Handing
<1>7. \A e \in Coroutine : Unlocked(e)'
  BY <1>1, <1>3 DEF Unlocked
<1>8. \A e \in Coroutine : Marked(e)'
  BY <1>1, <1>2, <1>5 DEF Marked
<1>9. ASSUME NEW e \in Coroutine, Started(e)', e \notin ended' PROVE Somewhere(e)'
  <2>1. Started(e) \/ InQueue(e)'
    BY <1>2, <1>3, <1>9 DEF Started
  <2>2. CASE Started(e)
    <3>1. Somewhere(e) /\ Marked(e) /\ m_state[e] \in State
      BY <1>1, <1>2, <1>3, <1>9, <2>2
    <3>2. m_state[e] # "READY" => Waits(e)
      BY <1>2, <1>9, <3>1 DEF Marked, State
    <3> QED BY <1>2, <1>5, <1>9, <3>1, <3>2 DEF Somewhere
  <2> QED BY <2>1, <2>2 DEF Somewhere
<1> QED BY <1>2, <1>4, <1>6, <1>7, <1>8, <1>9 DEF KeptInv

\* A step that leaves the coroutines alone and takes no event keeps KeptInv.
LEMMA KeptUnaffected ==
    ASSUME LiveInv, UNCHANGED <<schedVars, coVars, mutexVars, channalVars, sessionVars>>,
           m_events' \in [Callback -> Event],
           \A t \in Callback : m_events'[t] = "taken" => m_events[t] = "taken"
    PROVE  KeptInv'
<1>1. UNCHANGED <<m_tasks, at_worker, cur, m_state, ended, m_waitQueue, inCall,
                  wait_coroutine, cvQueue, cvMutex, op, at, channal, notified,
                  m_has_connect>>
  BY DEF schedVars, coVars, mutexVars, channalVars, sessionVars
<1>2. KeptInv
  BY DEF LiveInv
<1>3. SchedulerTypeOK' /\ WaitTypes' /\ Hands'
  BY <1>1, <1>2 DEF KeptInv, SchedulerTypeOK, WaitTypes, Hands
<1>4. \A e \in Coroutine : /\ Running(e)' = Running(e) /\ InQueue(e)' = InQueue(e)
                           /\ AtHand(e)' = AtHand(e) /\ Waits(e)' = Waits(e)
                           /\ Handed(e)' = Handed(e)
  BY <1>1 DEF Running, Runs, InQueue, AtHand, Waits, Handed
<1>5. ASSUME NEW e \in Coroutine
      PROVE  /\ Handing(e)' /\ Unlocked(e)' /\ Marked(e)'
             /\ Started(e)' /\ e \notin ended' => Somewhere(e)'
  <2>1. Handing(e)' /\ Unlocked(e)' /\ Marked(e)'
    BY <1>1, <1>2, <1>4 DEF KeptInv, Handing, Unlocked, Marked
  <2>2. Started(e)' => Started(e)
    BY <1>1 DEF Started
  <2> QED BY <1>1, <1>2, <1>4, <2>1, <2>2 DEF KeptInv, Somewhere
<1> QED BY <1>3, <1>5 DEF KeptInv

\* Every step of the system keeps LiveInv.
LEMMA LiveNext == LiveInv /\ [Next]_vars => LiveInv'
<1> SUFFICES ASSUME LiveInv, [Next]_vars PROVE KeptInv'
  BY AnswerNext DEF LiveInv
<1>1. m_events \in [Callback -> Event]
  BY DEF LiveInv, KeptInv, SchedulerTypeOK
<1>2. ASSUME NEW w \in Worker, ThreadStep(w) PROVE KeptInv'
  <2>1. CASE WorkerStep(w) /\ UNCHANGED <<mutexVars, channalVars, sessionVars>>
    BY <2>1, KeptWorker
  <2>2. ASSUME NEW c \in Coroutine, Runs(w, c), Step(c) PROVE KeptInv'
    BY <2>2, KeptStep DEF Running
  <2> QED BY <1>2, <2>1, <2>2 DEF ThreadStep
<1>3. ASSUME NEW t \in Callback, TimePasses(t) PROVE KeptInv'
  <2>1. /\ m_events' \in [Callback -> Event]
        /\ \A u \in Callback : m_events'[u] = "taken" => m_events[u] = "taken"
    BY <1>1, <1>3 DEF TimePasses, Expire, Event
  <2> QED BY <1>3, <2>1, KeptUnaffected DEF TimePasses, Expire
<1>4. CASE Environment
  BY <1>1, <1>4, KeptUnaffected DEF Environment, Break, PeerAnswers, networkUnchanged
<1>5. CASE UNCHANGED vars
  BY <1>1, <1>5, KeptUnaffected DEF vars
<1> QED BY <1>2, <1>3, <1>4, <1>5 DEF Next

\* At the start every call is in the queue of tasks, and nobody waits.
LEMMA LiveInit == Init => LiveInv
<1> SUFFICES ASSUME Init PROVE LiveInv
  OBVIOUS
<1>1. AnswerInv
  BY AnswerInit
<1>2. PICK first \in SetToSeqs(Calls) : SchedulerInit(first)
  BY DEF Init
<1>3. Calls \subseteq Coroutine
  BY FourKinds
<1>4. first \in Seq(Calls) /\ \A k \in Calls : \E i \in DOMAIN first : first[i] = k
  BY OrderHolds, SessionAssumption
<1>5. first \in Seq(Coroutine)
  BY <1>3, <1>4
<1>6. SchedulerTypeOK /\ Hands
  BY <1>2, <1>5 DEF SchedulerInit, SchedulerTypeOK, Hands, Location, State, Event
<1>7. WaitTypes
  BY EmptySeq DEF Init, MutexInit, ChannalInit, WaitTypes
<1>8. ASSUME NEW c \in Coroutine
      PROVE  /\ Handing(c) /\ Unlocked(c) /\ Marked(c)
             /\ Started(c) => InQueue(c)
  <2>1. Handing(c) /\ Unlocked(c)
    BY CoroutineAssumption DEF Init, MutexInit, ChannalInit, Handing, Unlocked
  <2>2. Marked(c)
    BY <1>2 DEF SchedulerInit, Marked
  <2>3. Started(c) => c \in Calls
    BY <1>2 DEF Started, SchedulerInit, Init
  <2>4. c \in Calls => InQueue(c)
    BY <1>2, <1>4 DEF SchedulerInit, InQueue
  <2> QED BY <2>1, <2>2, <2>3, <2>4
<1> QED BY <1>1, <1>6, <1>7, <1>8 DEF LiveInv, KeptInv, Somewhere

-----------------------------------------------------------------------------
(* The specification.                                                      *)

\* No coroutine is forgotten by the scheduler, for every number of threads, calls and
\* mutexes, although three places write m_state without a common lock: the marks that
\* would let a worker drop a coroutine are true at every moment.
THEOREM NobodyForgotten == Spec => []NoCoroutineForgotten
<1>1. ASSUME LiveInv, NEW c \in Coroutine, Started(c), c \notin ended PROVE Kept(c)
  <2>1. /\ Somewhere(c) /\ Marked(c) /\ m_state[c] \in State
        /\ \A d \in Coroutine : Handing(d)
    BY <1>1 DEF LiveInv, KeptInv, SchedulerTypeOK
  <2>2. CASE Waits(c) \/ Handed(c)
    <3>1. c # Nil
      BY CoroutineAssumption
    <3> QED BY <2>1, <2>2, <3>1 DEF Waits, Handed, Handing, Kept
  <2>3. CASE InQueue(c)
    BY <2>3 DEF Kept
  <2>4. CASE AtHand(c)
    <3>1. m_state[c] = "READY" \/ Waits(c)
      BY <1>1, <2>1 DEF Marked, State
    <3> QED BY <2>2, <2>4, <3>1 DEF AtHand, Kept
  <2> QED BY <2>1, <2>2, <2>3, <2>4 DEF Somewhere
<1>2. LiveInv => NoCoroutineForgotten
  BY <1>1 DEF NoCoroutineForgotten
<1> QED BY LiveInit, LiveNext, <1>2, PTL DEF Spec

\* A message is the name of a call, or none.
MessageTypes == message \in [Coroutine -> Message \cup {Nil}]

\* A step of a coroutine keeps the type of the messages.
LEMMA MessageStep ==
    ASSUME AnswerInv, MessageTypes, NEW c \in Coroutine, Step(c)
    PROVE  MessageTypes'
<1>1. /\ message \in [Coroutine -> Message \cup {Nil}]
      /\ m_queue \in [Channal -> Seq(Message)] /\ answers \in Seq(Calls)
      /\ m_response_channals \subseteq Calls
      /\ Message = Calls /\ Receiver \in Coroutine
  BY FourKinds DEF AnswerInv, MessageTypes, QueueInv, QueueTypes, IInv, PlaceInv, SessionTypes
<1>2. CASE UNCHANGED message
  BY <1>1, <1>2 DEF MessageTypes
<1>3. CASE ChannalStep(c)
  <2>1. channal[c] \in Channal
    BY <1>3, AlongSelf
  <2>2. CASE Act(c)
    <3>1. m_queue[channal[c]] \in Seq(Message)
      BY <1>1, <2>1
    <3>2. First(m_queue[channal[c]]) \in Message \cup {Nil}
      BY <3>1 DEF First
    <3>3. message' \in {message, [message EXCEPT ![c] = First(m_queue[channal[c]])]}
      BY <2>2 DEF Act
    <3> QED BY <1>1, <3>2, <3>3 DEF MessageTypes
  <2> QED
    BY <1>2, <1>3, <2>2 DEF ChannalStep, LockChannal, Look, Wait, Waiting, YieldWaiting,
       Notify, AddNotified, BeginClose, ClosePush, ClosePop, callVars
<1>4. CASE c \in Calls /\ CallStep(c)
  BY <1>1, <1>2, <1>4 DEF CallStep, Connect, Adopt, Register, Registered, Submit, Arm,
     Await, Cancel, Erase, Erased, Outcome, Push, Pop, channalVars, MessageTypes
<1>5. CASE c \in Callback /\ CallbackStep(c)
  BY <1>2, <1>5 DEF CallbackStep, Fire, CloseChannal, Fired, Close, channalVars
<1>6. CASE SessionStep(c)
  <2>1. CASE Receiver = c /\ ReceiveAnswer
    <3>1. Head(answers) \in Calls
      BY <1>1, <2>1 DEF ReceiveAnswer
    <3> QED BY <1>1, <2>1, <3>1 DEF ReceiveAnswer, MessageTypes
  <2>2. CASE ~(Receiver = c /\ ReceiveAnswer)
    BY <1>1, <1>2, <1>6, <2>2 DEF SessionStep, TakeRequest, Transmit, ReceiveNothing,
       ReceiveEnd, CloseSocket, Received, Deliver, Delivered, Push, Pop, channalVars,
       MessageTypes
  <2> QED BY <2>1, <2>2
<1> QED BY <1>2, <1>3, <1>4, <1>5, <1>6 DEF Step, channalVars

\* Every variable of a session keeps its type.
THEOREM SessionTypeCorrect == Spec => []TypeOK
<1>1. Init => MessageTypes
  BY DEF Init, ChannalInit, MessageTypes
<1>2. LiveInv /\ MessageTypes /\ [Next]_vars => MessageTypes'
  <2> SUFFICES ASSUME LiveInv, MessageTypes, [Next]_vars PROVE MessageTypes'
    OBVIOUS
  <2>1. CASE UNCHANGED channalVars
    BY <2>1 DEF channalVars, MessageTypes
  <2>2. CASE \E c \in Coroutine : Step(c)
    BY <2>2, MessageStep DEF LiveInv
  <2> QED BY <2>1, <2>2 DEF Next, ThreadStep, TimePasses, Environment, Break, PeerAnswers,
                            networkUnchanged, vars
<1>3. LiveInv /\ MessageTypes => TypeOK
  <2> SUFFICES ASSUME LiveInv, MessageTypes PROVE TypeOK
    OBVIOUS
  <2>1. /\ SchedulerTypeOK /\ WaitTypes /\ SessionTypes
        /\ LockTypes /\ QueueTypes /\ PlaceInv
    BY DEF LiveInv, KeptInv, AnswerInv, QueueInv, IInv, LockInv
  <2>2. MutexTypeOK
    BY <2>1 DEF MutexTypeOK, LockTypes, WaitTypes
  <2>3. ChannalTypeOK
    BY <2>1 DEF ChannalTypeOK, QueueTypes, PlaceInv, WaitTypes, MessageTypes, CV
  <2> QED
    BY <2>1, <2>2, <2>3 DEF TypeOK, SessionTypes, PlaceInv, CallPlaces, CallbackPlaces,
                            SenderPlaces, ReceiverPlaces
<1> QED BY LiveInit, LiveNext, <1>1, <1>2, <1>3, PTL DEF Spec

=============================================================================
