------------------------------ MODULE Scheduler ------------------------------
(***************************************************************************)
(* The coroutine scheduler of source/coroutine: worker threads that take   *)
(* coroutines from one queue, run them until they yield, and put those     *)
(* that are still READY back; and the one-shot timer events whose          *)
(* callbacks the workers turn into coroutines.                             *)
(*                                                                         *)
(* The workers run from the start on and are not stopped. What a coroutine *)
(* does between two context switches is the business of the modules that   *)
(* extend this one: an action of coroutine c has Running(c) as its guard.  *)
(***************************************************************************)
EXTENDS Naturals, FiniteSets, Sequences, SequencesExt

CONSTANTS Worker,       \* the threads of Scheduler::workerThreads
          Coroutine,    \* every coroutine that is ever created
          Callback,     \* those that run the callback of a timer event
          Simultaneous, \* pairs of timer events that may fall in one millisecond
          Nil           \* a null pointer, the coroutine id 0

ASSUME CoroutineAssumption ==
    /\ Nil \notin Coroutine
    /\ Callback \subseteq Coroutine
    /\ Simultaneous \subseteq SUBSET Callback

VARIABLES m_tasks,    \* the queue of coroutines that wait for a worker
          at_worker,  \* where each worker is in Scheduler::run
          cur,        \* its cur_coroutine
          m_state,    \* the state each coroutine is marked with
          ended,      \* the coroutines whose function has returned
          m_events    \* each timer event: not added, in the set, expired, taken

schedVars == <<m_tasks, at_worker, cur>>
coVars == <<m_state, ended>>

State == {"READY", "BLOCKED", "WAITING", "TERMINATED"}

\* loop: before the queue is looked at; resume: a task is taken; run: inside the
\* coroutine; check: back from it; poll, again: it was READY; exited: the thread is gone.
Location == {"loop", "resume", "run", "check", "poll", "again", "exited"}

\* "dropped": std::set::insert refused it.
Event == {"none", "armed", "due", "taken", "cancelled", "dropped"}

SchedulerTypeOK ==
    /\ m_tasks \in Seq(Coroutine)
    /\ at_worker \in [Worker -> Location]
    /\ cur \in [Worker -> Coroutine \cup {Nil}]
    /\ m_state \in [Coroutine -> State]
    /\ ended \subseteq Coroutine
    /\ m_events \in [Callback -> Event]

SchedulerInit(first) ==
    /\ m_tasks = first
    /\ at_worker = [w \in Worker |-> "loop"]
    /\ cur = [w \in Worker |-> Nil]
    /\ m_state = [c \in Coroutine |-> "READY"]
    /\ ended = {}
    /\ m_events = [t \in Callback |-> "none"]

-----------------------------------------------------------------------------
(* What coroutines do to the scheduler.                                    *)

Runs(w, c) == at_worker[w] = "run" /\ cur[w] = c
Running(c) == \E w \in Worker : Runs(w, c)

addTask(c) == m_tasks' = Append(m_tasks, c)

\* setState
Mark(c, s) == m_state' = [m_state EXCEPT ![c] = s]

\* The context of c is saved and its worker continues behind resume().
yield(c) == \E w \in Worker :
    /\ Runs(w, c)
    /\ at_worker' = [at_worker EXCEPT ![w] = "check"]

\* The function of c returns into MainFunc, which marks c and yields.
Return(c) ==
    /\ ended' = ended \cup {c}
    /\ Mark(c, "TERMINATED")
    /\ yield(c)

\* The set of events is ordered by their time alone: one that falls in the
\* millisecond of another which is still in the set is not inserted.
addTimeEvent(t) ==
    \/ m_events' = [m_events EXCEPT ![t] = "armed"]
    \/ /\ \E u \in Callback \ {t} : /\ {t, u} \in Simultaneous
                                    /\ m_events[u] \in {"armed", "cancelled"}
       /\ m_events' = [m_events EXCEPT ![t] = "dropped"]

\* An event that was taken already is beyond recall.
cancel(t) ==
    m_events' = IF m_events[t] \in {"armed", "due"}
                THEN [m_events EXCEPT ![t] = "cancelled"] ELSE m_events

-----------------------------------------------------------------------------
(* The steps of a worker.                                                  *)

Due == {t \in Callback : m_events[t] = "due"}

Take(w) ==
    /\ at_worker[w] = "loop"
    /\ m_tasks # <<>>
    /\ cur' = [cur EXCEPT ![w] = Head(m_tasks)]
    /\ m_tasks' = Tail(m_tasks)
    /\ at_worker' = [at_worker EXCEPT ![w] = "resume"]
    /\ UNCHANGED <<coVars, m_events>>

\* A coroutine whose function has returned resumes at the end of MainFunc: it has
\* no successor context, so the thread ends with it.
Resume(w) ==
    /\ at_worker[w] = "resume"
    /\ at_worker' = [at_worker EXCEPT ![w] =
                        IF cur[w] \in ended THEN "exited" ELSE "run"]
    /\ UNCHANGED <<m_tasks, cur, coVars, m_events>>

Check(w) ==
    /\ at_worker[w] = "check"
    /\ IF m_state[cur[w]] = "READY"
       THEN at_worker' = [at_worker EXCEPT ![w] = "poll"] /\ cur' = cur
       ELSE /\ at_worker' = [at_worker EXCEPT ![w] = "loop"]
            /\ cur' = [cur EXCEPT ![w] = Nil]
    /\ UNCHANGED <<m_tasks, coVars, m_events>>

\* Every expired callback becomes a task of its own.
getTaskFromTimer ==
    /\ m_events' = [t \in Callback |-> IF t \in Due THEN "taken" ELSE m_events[t]]
    /\ \E order \in SetToSeqs(Due) : m_tasks' = m_tasks \o order

PollIdle(w) ==
    /\ at_worker[w] = "loop"
    /\ m_tasks = <<>>
    /\ Due # {}
    /\ getTaskFromTimer
    /\ UNCHANGED <<at_worker, cur, coVars>>

PollReady(w) ==
    /\ at_worker[w] = "poll"
    /\ getTaskFromTimer
    /\ at_worker' = [at_worker EXCEPT ![w] = "again"]
    /\ UNCHANGED <<cur, coVars>>

PutBack(w) ==
    /\ at_worker[w] = "again"
    /\ addTask(cur[w])
    /\ cur' = [cur EXCEPT ![w] = Nil]
    /\ at_worker' = [at_worker EXCEPT ![w] = "loop"]
    /\ UNCHANGED <<coVars, m_events>>

\* Time passes.
Expire(t) ==
    /\ m_events[t] = "armed"
    /\ m_events' = [m_events EXCEPT ![t] = "due"]
    /\ UNCHANGED <<schedVars, coVars>>

WorkerStep(w) ==
    Take(w) \/ Resume(w) \/ Check(w) \/ PollIdle(w) \/ PollReady(w) \/ PutBack(w)

-----------------------------------------------------------------------------
\* Two threads on the stack of one coroutine: anything may happen.
RunsTwice == \E v, w \in Worker : v # w /\ \E c \in Coroutine : Runs(v, c) /\ Runs(w, c)

=============================================================================
