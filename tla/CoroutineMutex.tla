--------------------------- MODULE CoroutineMutex ---------------------------
(***************************************************************************)
(* CoroutineMutex of source/coroutine/coroutinesync.*: a spin lock, the id *)
(* of the coroutine that owns it and a queue of coroutines that wait.      *)
(*                                                                         *)
(* A coroutine calls lock or unlock by CallLock or CallUnlock and is       *)
(* inside the call until inCall is "out" again. The section under m_gaurd  *)
(* is one step. m_mutex is a flag in the code; here it names the coroutine *)
(* whose tryLock took it, which no action looks at.                        *)
(***************************************************************************)
EXTENDS Scheduler

CONSTANT Mutex

VARIABLES m_mutex, m_coroutineId, m_waitQueue,
          inCall,         \* where each coroutine is in lock or unlock
          mutexOf,        \* the mutex of that call
          wait_coroutine  \* the waiter that unlock has taken from the queue

mutexVars == <<m_mutex, m_coroutineId, m_waitQueue, inCall, mutexOf, wait_coroutine>>

InLock == {"lock", "retry", "enqueue", "yield", "own"}
InUnlock == {"unlock", "release", "ready", "addTask"}

MutexTypeOK ==
    /\ m_mutex \in [Mutex -> Coroutine \cup {Nil}]
    /\ m_coroutineId \in [Mutex -> Coroutine \cup {Nil}]
    /\ m_waitQueue \in [Mutex -> Seq(Coroutine)]
    /\ inCall \in [Coroutine -> {"out"} \cup InLock \cup InUnlock]
    /\ mutexOf \in [Coroutine -> Mutex \cup {Nil}]
    /\ wait_coroutine \in [Coroutine -> Coroutine \cup {Nil}]
    /\ \A c \in Coroutine : inCall[c] # "out" => mutexOf[c] \in Mutex

MutexInit ==
    /\ m_mutex = [m \in Mutex |-> Nil]
    /\ m_coroutineId = [m \in Mutex |-> Nil]
    /\ m_waitQueue = [m \in Mutex |-> <<>>]
    /\ inCall = [c \in Coroutine |-> "out"]
    /\ mutexOf = [c \in Coroutine |-> Nil]
    /\ wait_coroutine = [c \in Coroutine |-> Nil]

\* c is inside lock or unlock, at this point of it.
In(c, place) == inCall[c] = place /\ Running(c)

Goto(c, place) == inCall' = [inCall EXCEPT ![c] = place]

Call(c, place, m) ==
    /\ Goto(c, place)
    /\ mutexOf' = [mutexOf EXCEPT ![c] = m]
    /\ UNCHANGED <<m_mutex, m_coroutineId, m_waitQueue, wait_coroutine>>

CallLock(c, m) == Call(c, "lock", m)
CallUnlock(c, m) == Call(c, "unlock", m)

-----------------------------------------------------------------------------
(* lock()                                                                  *)

\* Wrong: the result of pthread_spin_trylock is not looked at.
tryLockAnyway(c) ==
    m_mutex' = [m_mutex EXCEPT ![mutexOf[c]] = c] /\ Goto(c, "own")

tryLock(c) == LET m == mutexOf[c] IN
    IF m_mutex[m] = Nil
    THEN m_mutex' = [m_mutex EXCEPT ![m] = c] /\ Goto(c, "own")
    ELSE Goto(c, "enqueue") /\ UNCHANGED m_mutex

\* The owner is let in again.
Lock(c) ==
    /\ In(c, "lock")
    /\ IF m_coroutineId[mutexOf[c]] = c
       THEN Goto(c, "out") /\ UNCHANGED m_mutex
       ELSE tryLock(c)
    /\ UNCHANGED <<m_coroutineId, m_waitQueue, mutexOf, wait_coroutine,
                   schedVars, coVars>>

Retry(c) ==
    /\ In(c, "retry")
    /\ tryLock(c)
    /\ UNCHANGED <<m_coroutineId, m_waitQueue, mutexOf, wait_coroutine,
                   schedVars, coVars>>

\* c is in the queue, and may be taken from it, before it has yielded.
Enqueue(c) == LET m == mutexOf[c] IN
    /\ In(c, "enqueue")
    /\ m_waitQueue' = [m_waitQueue EXCEPT ![m] = Append(@, c)]
    /\ Mark(c, "BLOCKED")
    /\ Goto(c, "yield")
    /\ UNCHANGED <<m_mutex, m_coroutineId, mutexOf, wait_coroutine, schedVars, ended>>

YieldBlocked(c) ==
    /\ In(c, "yield")
    /\ yield(c)
    /\ Goto(c, "retry")
    /\ UNCHANGED <<m_mutex, m_coroutineId, m_waitQueue, mutexOf, wait_coroutine,
                   m_tasks, cur, coVars>>

Own(c) ==
    /\ In(c, "own")
    /\ m_coroutineId' = [m_coroutineId EXCEPT ![mutexOf[c]] = c]
    /\ Goto(c, "out")
    /\ UNCHANGED <<m_mutex, m_waitQueue, mutexOf, wait_coroutine, schedVars, coVars>>

-----------------------------------------------------------------------------
(* unlock()                                                                *)

First(queue) == IF queue = <<>> THEN Nil ELSE Head(queue)
Rest(queue) == IF queue = <<>> THEN <<>> ELSE Tail(queue)

\* Wrong: m_mutex is released as well, with the owner, and again by what follows.
UnlockReleasing(c) == LET m == mutexOf[c] IN
    /\ In(c, "unlock")
    /\ m_coroutineId' = [m_coroutineId EXCEPT ![m] = Nil]
    /\ m_mutex' = [m_mutex EXCEPT ![m] = Nil]
    /\ wait_coroutine' = [wait_coroutine EXCEPT ![c] = First(m_waitQueue[m])]
    /\ m_waitQueue' = [m_waitQueue EXCEPT ![m] = Rest(@)]
    /\ Goto(c, "release")
    /\ UNCHANGED <<mutexOf, schedVars, coVars>>

\* Only the owner goes on; it gives up its id and takes the first waiter.
Unlock(c) == LET m == mutexOf[c] IN
    /\ In(c, "unlock")
    /\ IF m_coroutineId[m] # c
       THEN Goto(c, "out") /\ UNCHANGED <<m_coroutineId, m_waitQueue, wait_coroutine>>
       ELSE /\ m_coroutineId' = [m_coroutineId EXCEPT ![m] = Nil]
            /\ wait_coroutine' = [wait_coroutine EXCEPT ![c] = First(m_waitQueue[m])]
            /\ m_waitQueue' = [m_waitQueue EXCEPT ![m] = Rest(@)]
            /\ Goto(c, "release")
    /\ UNCHANGED <<m_mutex, mutexOf, schedVars, coVars>>

\* Wrong: goes on to add a waiter when there is none.
ReleaseUnchecked(c) ==
    /\ In(c, "release")
    /\ m_mutex' = [m_mutex EXCEPT ![mutexOf[c]] = Nil]
    /\ Goto(c, "ready")
    /\ UNCHANGED <<m_coroutineId, m_waitQueue, mutexOf, wait_coroutine,
                   schedVars, coVars>>

Release(c) ==
    /\ In(c, "release")
    /\ m_mutex' = [m_mutex EXCEPT ![mutexOf[c]] = Nil]
    /\ Goto(c, IF wait_coroutine[c] = Nil THEN "out" ELSE "ready")
    /\ UNCHANGED <<m_coroutineId, m_waitQueue, mutexOf, wait_coroutine,
                   schedVars, coVars>>

\* Wrong: the waiter keeps the state it was queued with.
ReadyUnmarked(c) ==
    /\ In(c, "ready")
    /\ Goto(c, "addTask")
    /\ UNCHANGED <<m_mutex, m_coroutineId, m_waitQueue, mutexOf, wait_coroutine,
                   schedVars, coVars>>

Ready(c) ==
    /\ In(c, "ready")
    /\ Mark(wait_coroutine[c], "READY")
    /\ Goto(c, "addTask")
    /\ UNCHANGED <<m_mutex, m_coroutineId, m_waitQueue, mutexOf, wait_coroutine,
                   schedVars, ended>>

Reschedule(c) ==
    /\ In(c, "addTask")
    /\ addTask(wait_coroutine[c])
    /\ wait_coroutine' = [wait_coroutine EXCEPT ![c] = Nil]
    /\ Goto(c, "out")
    /\ UNCHANGED <<m_mutex, m_coroutineId, m_waitQueue, mutexOf, at_worker, cur, coVars>>

\* A step inside lock or unlock.
MutexStep(c) ==
    \/ Lock(c) \/ Retry(c) \/ Enqueue(c) \/ YieldBlocked(c) \/ Own(c)
    \/ Unlock(c) \/ Release(c) \/ Ready(c) \/ Reschedule(c)

-----------------------------------------------------------------------------
\* Only the coroutine whose tryLock took m_mutex writes the owner and releases it, and
\* the owner, if there is one, is that coroutine (m_coroutineId is read without
\* the guard). So two coroutines are never past lock() at once, and unlock() by
\* another has no effect, for every number of coroutines and threads.
MutexInv ==
    /\ \A c \in Coroutine :
          inCall[c] \in {"own", "release"} => m_mutex[mutexOf[c]] = c
    /\ \A m \in Mutex : m_coroutineId[m] # Nil => m_mutex[m] = m_coroutineId[m]
    /\ \A c \in Coroutine :
          inCall[c] \in {"own", "release"} => m_coroutineId[mutexOf[c]] = Nil

=============================================================================
