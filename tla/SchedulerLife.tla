----------------------------- MODULE SchedulerLife -----------------------------
(***************************************************************************)
(* The life of a Scheduler: a program starts it, offers its first task     *)
(* until addTask takes it, and stops it at the end. In between the worker  *)
(* threads take tasks from the queue and expired callbacks from the timer. *)
(* Scheduler has the same worker loop without either end and without time, *)
(* but with everything that goes on inside of a task.                      *)
(*                                                                         *)
(* The task of an expired callback has the name of its event.              *)
(***************************************************************************)
EXTENDS Timer, Sequences

CONSTANTS Client,  \* tasks that are not callbacks
          Serving, \* those of them that serve for ever, as RpcServer::run does
          Nil      \* the null pointer

ASSUME SchedulerAssumption ==
    /\ IsFiniteSet(Worker) /\ Worker # {}
    /\ Serving \subseteq Client
    /\ Client \cap Event = {}
    /\ Nil \notin Client \cup Event

Task == Client \cup Event

VARIABLES m_stop, m_runningThreads, m_tasks,
          at,        \* where each worker is: in the lambda of start, in run()
          cur,       \* its cur_coroutine
          stopping,  \* where the program is in stop()
          asked,     \* client tasks that were offered to addTask
          accepted   \* history: those it took

mainVars == <<stopping, asked, accepted>>
lifeVars == <<m_stop, m_runningThreads, m_tasks, at, cur, mainVars>>
vars == <<timerVars, lifeVars>>

\* off, new: before start(), before run() counts the thread; loop: the while
\* condition; take: the queue; run: inside a coroutine; poll, collect, add:
\* getTaskFromTimer; leaving, done: behind run().
Location == {"off", "new", "loop", "take", "run", "poll", "collect", "add",
             "leaving", "done"}

\* spin: the while loop of stop(); counted: before ENSURE.
Stopping == {"no", "spin", "counted", "returned", "thrown"}

TypeOK ==
    /\ TimerTypeOK
    /\ m_stop \in BOOLEAN
    /\ m_runningThreads \in Nat
    /\ m_tasks \in Seq(Task)
    /\ at \in [Worker -> Location]
    /\ cur \in [Worker -> Task \cup {Nil}]
    /\ stopping \in Stopping
    /\ asked \subseteq Client
    /\ accepted \subseteq Client

Init ==
    /\ TimerInit
    /\ m_stop = TRUE
    /\ m_runningThreads = 0
    /\ m_tasks = <<>>
    /\ at = [w \in Worker |-> "off"]
    /\ cur = [w \in Worker |-> Nil]
    /\ stopping = "no"
    /\ asked = {}
    /\ accepted = {}

-----------------------------------------------------------------------------
(* addTask reads the count and the flag before it takes m_mutex. A task    *)
(* that is pushed after the flag changed lies in the queue as one that was *)
(* pushed before, so check and push are one step.                          *)

\* Wrong: one thread that runs is enough.
SomeRun == m_runningThreads # 0 /\ ~m_stop

AllRun == m_runningThreads = Cardinality(Worker) /\ ~m_stop

\* The queue after addTask(c).
WithTask(c) == IF AllRun THEN Append(m_tasks, c) ELSE m_tasks

GoTo(w, place) == at' = [at EXCEPT ![w] = place]

-----------------------------------------------------------------------------
(* The program: start(); while(!addTask(test)); ...; stop().               *)

\* start() once. A second one would destroy joinable threads.
Start ==
    /\ \A w \in Worker : at[w] = "off"
    /\ m_stop' = FALSE
    /\ at' = [w \in Worker |-> "new"]
    /\ UNCHANGED <<timerVars, m_runningThreads, m_tasks, cur, mainVars>>

\* A task is offered until addTask takes it.
Submit(c) ==
    /\ c \notin asked
    /\ stopping = "no"
    /\ AllRun
    /\ m_tasks' = WithTask(c)
    /\ asked' = asked \cup {c}
    /\ accepted' = accepted \cup {c}
    /\ UNCHANGED <<timerVars, m_stop, m_runningThreads, at, cur, stopping>>

\* stop(), or the destructor, at the end of a program that has run a task.
Stop ==
    /\ stopping = "no"
    /\ accepted # {}
    /\ m_stop' = TRUE
    /\ stopping' = "spin"
    /\ UNCHANGED <<timerVars, m_runningThreads, m_tasks, at, cur, asked, accepted>>

StopSpins ==
    /\ stopping = "spin"
    /\ m_runningThreads = 0
    /\ stopping' = "counted"
    /\ UNCHANGED <<timerVars, m_stop, m_runningThreads, m_tasks, at, cur, asked, accepted>>

\* ENSURE(m_runningThreads==0)
StopEnsures ==
    /\ stopping = "counted"
    /\ stopping' = IF m_runningThreads = 0 THEN "returned" ELSE "thrown"
    /\ UNCHANGED <<timerVars, m_stop, m_runningThreads, m_tasks, at, cur, asked, accepted>>

-----------------------------------------------------------------------------
(* A worker thread.                                                        *)

Launch(w) ==
    /\ at[w] = "new"
    /\ m_runningThreads' = m_runningThreads + 1
    /\ GoTo(w, "loop")
    /\ UNCHANGED <<timerVars, m_stop, m_tasks, cur, mainVars>>

\* while (!m_stop)
Loop(w) ==
    /\ at[w] = "loop"
    /\ GoTo(w, IF m_stop THEN "leaving" ELSE "take")
    /\ UNCHANGED <<timerVars, m_stop, m_runningThreads, m_tasks, cur, mainVars>>

\* Wrong: the last task is the first to run.
TakeLast(w) ==
    /\ at[w] = "take"
    /\ m_tasks # <<>>
    /\ cur' = [cur EXCEPT ![w] = m_tasks[Len(m_tasks)]]
    /\ m_tasks' = SubSeq(m_tasks, 1, Len(m_tasks) - 1)
    /\ GoTo(w, "run")
    /\ UNCHANGED <<timerVars, m_stop, m_runningThreads, mainVars>>

Take(w) ==
    /\ at[w] = "take"
    /\ m_tasks # <<>>
    /\ cur' = [cur EXCEPT ![w] = Head(m_tasks)]
    /\ m_tasks' = Tail(m_tasks)
    /\ GoTo(w, "run")
    /\ UNCHANGED <<timerVars, m_stop, m_runningThreads, mainVars>>

TakeNothing(w) ==
    /\ at[w] = "take"
    /\ m_tasks = <<>>
    /\ GoTo(w, "poll")
    /\ UNCHANGED <<timerVars, m_stop, m_runningThreads, m_tasks, cur, mainVars>>

\* A running coroutine adds another task and ignores the answer, as
\* RpcSession::connect does.
Spawn(w, c) ==
    /\ at[w] = "run"
    /\ c \notin asked
    /\ m_tasks' = WithTask(c)
    /\ asked' = asked \cup {c}
    /\ accepted' = IF AllRun THEN accepted \cup {c} ELSE accepted
    /\ UNCHANGED <<timerVars, m_stop, m_runningThreads, at, cur, stopping>>

\* Wrong: the worker goes on with the queue, without a look at the timer.
YieldReadyUnpolled(w) ==
    /\ at[w] = "run"
    /\ cur[w] \notin Serving
    /\ m_tasks' = WithTask(cur[w])
    /\ cur' = [cur EXCEPT ![w] = Nil]
    /\ GoTo(w, "loop")
    /\ UNCHANGED <<timerVars, m_stop, m_runningThreads, mainVars>>

\* The coroutine yields and is READY still.
YieldReady(w) ==
    /\ at[w] = "run"
    /\ cur[w] \notin Serving
    /\ GoTo(w, "poll")
    /\ UNCHANGED <<timerVars, m_stop, m_runningThreads, m_tasks, cur, mainVars>>

\* The coroutine ends, or waits for a mutex or channel.
YieldOther(w) ==
    /\ at[w] = "run"
    /\ cur[w] \notin Serving
    /\ cur' = [cur EXCEPT ![w] = Nil]
    /\ GoTo(w, "loop")
    /\ UNCHANGED <<timerVars, m_stop, m_runningThreads, m_tasks, mainVars>>

\* getTaskFromTimer, up to the clock.
PollBegins(w) ==
    /\ at[w] = "poll"
    /\ ReadClock(w)
    /\ GoTo(w, "collect")
    /\ UNCHANGED <<m_stop, m_runningThreads, m_tasks, cur, mainVars>>

Collect(w) ==
    /\ at[w] = "collect"
    /\ getExpiredcbs(w)
    /\ GoTo(w, "add")
    /\ UNCHANGED <<m_stop, m_runningThreads, m_tasks, cur, mainVars>>

\* One addTask per callback, whose answer nobody looks at.
AddCallback(w) ==
    /\ at[w] = "add"
    /\ \E e \in cbs[w] : HandOn(w, e) /\ m_tasks' = WithTask(e)
    /\ UNCHANGED <<m_stop, m_runningThreads, at, cur, mainVars>>

\* Wrong: the queue has its turn before all callbacks are added.
AddAgainAtOnce(w) ==
    /\ at[w] = "add"
    /\ m_tasks' = IF cur[w] = Nil THEN m_tasks ELSE WithTask(cur[w])
    /\ cur' = [cur EXCEPT ![w] = Nil]
    /\ GoTo(w, "loop")
    /\ UNCHANGED <<timerVars, m_stop, m_runningThreads, mainVars>>

\* A READY coroutine is added again. When addTask refuses, it is lost.
AddAgain(w) ==
    /\ at[w] = "add"
    /\ cbs[w] = {}
    /\ m_tasks' = IF cur[w] = Nil THEN m_tasks ELSE WithTask(cur[w])
    /\ cur' = [cur EXCEPT ![w] = Nil]
    /\ GoTo(w, "loop")
    /\ UNCHANGED <<timerVars, m_stop, m_runningThreads, mainVars>>

\* Wrong: the thread is not counted out.
LeaveUncounted(w) ==
    /\ at[w] = "leaving"
    /\ GoTo(w, "done")
    /\ UNCHANGED <<timerVars, m_stop, m_runningThreads, m_tasks, cur, mainVars>>

Leave(w) ==
    /\ at[w] = "leaving"
    /\ m_runningThreads' = m_runningThreads - 1
    /\ GoTo(w, "done")
    /\ UNCHANGED <<timerVars, m_stop, m_tasks, cur, mainVars>>

WorkerStep(w) ==
    \/ Launch(w) \/ Loop(w) \/ Take(w) \/ TakeNothing(w)
    \/ YieldReady(w) \/ YieldOther(w) \/ \E c \in Client : Spawn(w, c)
    \/ PollBegins(w) \/ Collect(w) \/ AddCallback(w) \/ AddAgain(w) \/ Leave(w)

Program == Start \/ (\E c \in Client : Submit(c)) \/ Stop \/ StopSpins \/ StopEnsures

-----------------------------------------------------------------------------
(* Whatever uses the timer, from any thread and at any time.               *)

UseTimer(e) == Use(e) /\ UNCHANGED lifeVars
TimePasses == Tick /\ UNCHANGED lifeVars

Next ==
    \/ Program
    \/ \E w \in Worker : WorkerStep(w)
    \/ \E e \in Event : UseTimer(e)
    \/ TimePasses

Spec == Init /\ [][Next]_vars

\* The system runs each thread of the program. A coroutine gives its worker back
\* in the end unless it serves.
FairSpec ==
    /\ Spec
    /\ WF_vars(Start) /\ WF_vars(StopSpins) /\ WF_vars(StopEnsures)
    /\ \A c \in Client : WF_vars(Submit(c))
    /\ \A w \in Worker : WF_vars(WorkerStep(w))

-----------------------------------------------------------------------------
(* Properties.                                                             *)

Runs(c) == \E w \in Worker : at[w] = "run" /\ cur[w] = c
Taken(e) == \E w \in Worker : e \in cbs[w]

\* The result of addTask is ignored nearly everywhere (rpc_session.h:24,
\* coroutinesync.cpp:60, scheduler.cpp:134 and 156). That is right only if, once it took
\* one task, it takes every task until stop(): all threads were up and none has left.
UpUntilStop == accepted # {} /\ ~m_stop => m_runningThreads = Cardinality(Worker)

\* stop() does not throw at its ENSURE, and when it has returned no worker is anywhere
\* in run() any more: the destructor frees the timer and joins (scheduler.cpp:21).
StopIsFinal ==
    /\ stopping # "thrown"
    /\ stopping = "returned" => \A w \in Worker : at[w] = "done"

\* A task in the queue runs, unless the scheduler is stopped first: coroutines that
\* yield and are READY again do not hold it up, nor does one that serves for ever.
QueuedRuns ==
    \A c \in Task : (\E i \in DOMAIN m_tasks : m_tasks[i] = c) ~> (m_stop \/ Runs(c))

\* An expired event does not stay in the set, even if some coroutine is READY all the
\* time and the queue never empty (scheduler.cpp:131).
ExpiredIsTaken ==
    \A e \in Event : (InSet(e) /\ m_occur_time[e] <= clock) ~>
        (m_stop \/ ~InSet(e) \/ m_occur_time[e] > clock)

\* A callback that was taken out of the timer runs, once the scheduler has taken any
\* task (scheduler.cpp:156).
CallbackRuns ==
    \A e \in Event : (Taken(e) /\ accepted # {}) ~> (m_stop \/ Runs(e))

\* stop() returns unless a worker serves.
StopReturns ==
    stopping = "spin" ~> (stopping = "returned" \/ \E c \in Serving : Runs(c))

=============================================================================
