-------------------------- MODULE CoroutineChannal --------------------------
(***************************************************************************)
(* CoroutineChannal of source/coroutine/coroutinechannal.h, a bounded      *)
(* queue of messages for coroutines, and the two CoroutineCV it waits on.  *)
(*                                                                         *)
(* A coroutine calls push, pop or close by Push, Pop or Close and is       *)
(* inside the call until at is "out" again; what it pushes, or has popped, *)
(* is in message. Lock and unlock of the mutex of a channel are the steps  *)
(* of CoroutineMutex. The mutex of a CoroutineCV is a spin lock that is    *)
(* only held over several steps where the code calls out of it.            *)
(***************************************************************************)
EXTENDS CoroutineMutex

CONSTANTS Channal,     \* the channels; each is also the name of its mutex
          Message,
          capacity     \* the capacity of each channel

ASSUME ChannalAssumption ==
    /\ Channal \subseteq Mutex
    /\ Nil \notin Message
    /\ capacity \in [Channal -> Nat \ {0}]

VARIABLES m_queue, m_is_close,
          cvQueue,   \* m_waitQueue of m_pushCv and m_popCv of each channel
          cvMutex,   \* the coroutine that holds their m_mutex
          op,        \* the call of push, pop or close each coroutine is in
          at,        \* where it is in that call
          channal,   \* the channel of that call
          message,   \* the message it pushes or has popped
          notified   \* the waiter that notify has taken from its queue

channalVars == <<m_queue, m_is_close, cvQueue, cvMutex, op, at, channal, message, notified>>

\* The two condition variables by what waits on them.
CV == {"push", "pop"}

Place == {"out", "lock", "look", "wait", "unlocked", "yield", "act", "notify",
          "close", "notifyPush", "notifyPop", "addTask"}

ChannalTypeOK ==
    /\ m_queue \in [Channal -> Seq(Message)]
    /\ m_is_close \in [Channal -> BOOLEAN]
    /\ cvQueue \in [Channal -> [CV -> Seq(Coroutine)]]
    /\ cvMutex \in [Channal -> [CV -> Coroutine \cup {Nil}]]
    /\ op \in [Coroutine -> CV \cup {"close"}]
    /\ at \in [Coroutine -> Place]
    /\ channal \in [Coroutine -> Channal \cup {Nil}]
    /\ message \in [Coroutine -> Message \cup {Nil}]
    /\ notified \in [Coroutine -> Coroutine \cup {Nil}]
    /\ \A c \in Coroutine : at[c] # "out" => channal[c] \in Channal

ChannalInit ==
    /\ m_queue = [ch \in Channal |-> <<>>]
    /\ m_is_close = [ch \in Channal |-> FALSE]
    /\ cvQueue = [ch \in Channal |-> [k \in CV |-> <<>>]]
    /\ cvMutex = [ch \in Channal |-> [k \in CV |-> Nil]]
    /\ op = [c \in Coroutine |-> "close"]
    /\ at = [c \in Coroutine |-> "out"]
    /\ channal = [c \in Coroutine |-> Nil]
    /\ message = [c \in Coroutine |-> Nil]
    /\ notified = [c \in Coroutine |-> Nil]

\* c is inside a call on a channel, at this place of it and not in lock or unlock.
Inside(c, place) == inCall[c] = "out" /\ at[c] = place /\ Running(c)

Enter(c, o, ch) ==
    /\ op' = [op EXCEPT ![c] = o]
    /\ channal' = [channal EXCEPT ![c] = ch]
    /\ at' = [at EXCEPT ![c] = "lock"]
    /\ UNCHANGED <<m_queue, m_is_close, cvQueue, cvMutex, notified>>

Push(c, ch, m) == Enter(c, "push", ch) /\ message' = [message EXCEPT ![c] = m]
Pop(c, ch) == Enter(c, "pop", ch) /\ message' = [message EXCEPT ![c] = Nil]
Close(c, ch) == Enter(c, "close", ch) /\ UNCHANGED message

GotoPlace(c, place) == at' = [at EXCEPT ![c] = place]

callVars == <<op, channal, message, notified>>
queueVars == <<m_queue, m_is_close, cvQueue, cvMutex>>

-----------------------------------------------------------------------------
(* push() and pop()                                                        *)

LockChannal(c) ==
    /\ Inside(c, "lock")
    /\ CallLock(c, channal[c])
    /\ GotoPlace(c, IF op[c] = "close" THEN "close" ELSE "look")
    /\ UNCHANGED <<queueVars, callVars, schedVars, coVars>>

MustWait(c) == LET ch == channal[c] IN
    IF op[c] = "push" THEN Len(m_queue[ch]) >= capacity[ch] ELSE m_queue[ch] = <<>>

\* The first look and the one after every wait: first whether the channel is closed.
Look(c) ==
    /\ Inside(c, "look")
    /\ IF m_is_close[channal[c]]
       THEN CallUnlock(c, channal[c]) /\ GotoPlace(c, "out")
       ELSE /\ GotoPlace(c, IF MustWait(c) THEN "wait" ELSE "act")
            /\ UNCHANGED mutexVars
    /\ UNCHANGED <<queueVars, callVars, schedVars, coVars>>

Act(c) == LET ch == channal[c] IN
    /\ Inside(c, "act")
    /\ IF op[c] = "push"
       THEN /\ m_queue' = [m_queue EXCEPT ![ch] = Append(@, message[c])]
            /\ UNCHANGED message
       ELSE /\ message' = [message EXCEPT ![c] = First(m_queue[ch])]
            /\ m_queue' = [m_queue EXCEPT ![ch] = Rest(@)]
    /\ CallUnlock(c, ch)
    /\ GotoPlace(c, "notify")
    /\ UNCHANGED <<m_is_close, cvQueue, cvMutex, op, channal, notified, schedVars, coVars>>

-----------------------------------------------------------------------------
(* CoroutineCV::wait(mutex)                                                *)

\* The mutex of the channel is given up inside that of the condition variable.
Wait(c) == LET ch == channal[c] IN
    /\ Inside(c, "wait")
    /\ cvMutex[ch][op[c]] = Nil
    /\ cvMutex' = [cvMutex EXCEPT ![ch][op[c]] = c]
    /\ cvQueue' = [cvQueue EXCEPT ![ch][op[c]] = Append(@, c)]
    /\ CallUnlock(c, ch)
    /\ GotoPlace(c, "unlocked")
    /\ UNCHANGED <<m_queue, m_is_close, callVars, schedVars, coVars>>

Waiting(c) ==
    /\ Inside(c, "unlocked")
    /\ Mark(c, "WAITING")
    /\ cvMutex' = [cvMutex EXCEPT ![channal[c]][op[c]] = Nil]
    /\ GotoPlace(c, "yield")
    /\ UNCHANGED <<m_queue, m_is_close, cvQueue, callVars, mutexVars, schedVars, ended>>

\* When it runs again it locks the mutex and looks again.
YieldWaiting(c) ==
    /\ Inside(c, "yield")
    /\ yield(c)
    /\ GotoPlace(c, "lock")
    /\ UNCHANGED <<queueVars, callVars, mutexVars, m_tasks, cur, coVars>>

-----------------------------------------------------------------------------
(* CoroutineCV::notify() of the other side, and notifyAll() in close()     *)

Other(o) == IF o = "push" THEN "pop" ELSE "push"

\* Take the first waiter from the queue and mark it. The spin lock is free between
\* the two (coroutinesync.cpp:75), but nobody else takes or marks the waiter then.
TakeWaiter(c, ch, k) ==
    /\ notified' = [notified EXCEPT ![c] = Head(cvQueue[ch][k])]
    /\ cvQueue' = [cvQueue EXCEPT ![ch][k] = Tail(@)]
    /\ Mark(Head(cvQueue[ch][k]), "READY")
    /\ GotoPlace(c, "addTask")

Notify(c) == LET ch == channal[c]  k == Other(op[c]) IN
    /\ Inside(c, "notify")
    /\ cvMutex[ch][k] = Nil
    /\ IF cvQueue[ch][k] = <<>>
       THEN GotoPlace(c, "out") /\ UNCHANGED <<cvQueue, notified, m_state>>
       ELSE TakeWaiter(c, ch, k)
    /\ UNCHANGED <<m_queue, m_is_close, cvMutex, op, channal, message, mutexVars,
                   schedVars, ended>>

AddNotified(c) ==
    /\ Inside(c, "addTask")
    /\ addTask(notified[c])
    /\ notified' = [notified EXCEPT ![c] = Nil]
    /\ GotoPlace(c, IF op[c] # "close" THEN "out"
                    ELSE IF cvMutex[channal[c]]["push"] = c THEN "notifyPush"
                    ELSE "notifyPop")
    /\ UNCHANGED <<queueVars, op, channal, message, mutexVars, at_worker, cur, coVars>>

\* Wrong: nobody is notified.
BeginCloseSilently(c) == LET ch == channal[c] IN
    /\ Inside(c, "close")
    /\ m_is_close' = [m_is_close EXCEPT ![ch] = TRUE]
    /\ CallUnlock(c, ch)
    /\ GotoPlace(c, "out")
    /\ UNCHANGED <<m_queue, cvQueue, cvMutex, callVars, schedVars, coVars>>

BeginClose(c) == LET ch == channal[c] IN
    /\ Inside(c, "close")
    /\ IF m_is_close[ch]
       THEN CallUnlock(c, ch) /\ GotoPlace(c, "out") /\ UNCHANGED m_is_close
       ELSE /\ m_is_close' = [m_is_close EXCEPT ![ch] = TRUE]
            /\ GotoPlace(c, "notifyPush")
            /\ UNCHANGED mutexVars
    /\ UNCHANGED <<m_queue, cvQueue, cvMutex, callVars, schedVars, coVars>>

\* One round of the loop of notifyAll on condition variable k.
NotifyAll(c, k) == LET ch == channal[c] IN
    /\ cvMutex[ch][k] \in {Nil, c}
    /\ cvQueue[ch][k] # <<>>
    /\ cvMutex' = [cvMutex EXCEPT ![ch][k] = c]
    /\ TakeWaiter(c, ch, k)
    /\ UNCHANGED mutexVars

NotifiedAll(c, k) ==
    /\ cvMutex[channal[c]][k] \in {Nil, c}
    /\ cvQueue[channal[c]][k] = <<>>
    /\ cvMutex' = [cvMutex EXCEPT ![channal[c]][k] = Nil]
    /\ UNCHANGED <<cvQueue, notified, m_state>>

ClosePush(c) ==
    /\ Inside(c, "notifyPush")
    /\ \/ NotifyAll(c, "push")
       \/ NotifiedAll(c, "push") /\ GotoPlace(c, "notifyPop") /\ UNCHANGED mutexVars
    /\ UNCHANGED <<m_queue, m_is_close, op, channal, message, schedVars, ended>>

ClosePop(c) ==
    /\ Inside(c, "notifyPop")
    /\ \/ NotifyAll(c, "pop")
       \/ NotifiedAll(c, "pop") /\ GotoPlace(c, "out") /\ CallUnlock(c, channal[c])
    /\ UNCHANGED <<m_queue, m_is_close, op, channal, message, schedVars, ended>>

\* A step inside push, pop or close.
ChannalStep(c) ==
    \/ LockChannal(c) \/ Look(c) \/ Act(c) \/ Wait(c) \/ Waiting(c) \/ YieldWaiting(c)
    \/ Notify(c) \/ AddNotified(c) \/ BeginClose(c) \/ ClosePush(c) \/ ClosePop(c)

-----------------------------------------------------------------------------
Abstract == INSTANCE BoundedQueue WITH queue <- m_queue, closed <- m_is_close

\* Every channel is a bounded queue: what push and pop find under the mutex is still
\* so when they act on it, whatever was closed, filled or emptied while they waited.
ImplementsBoundedQueue == Abstract!Spec

=============================================================================
