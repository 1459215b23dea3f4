--------------------------------- MODULE Timer ---------------------------------
(***************************************************************************)
(* The timer of source/coroutine: events in a std::set that is ordered by  *)
(* the millisecond they occur in and by nothing else. What its methods do  *)
(* under Timer::m_mutex is one action here; GetCurrentMS() is read outside *)
(* of the mutex by the constructor of an event and by getExpiredcbs.       *)
(*                                                                         *)
(* Any thread may use any event at any time here. SchedulerLife says which *)
(* threads poll and what becomes of the callbacks they take.               *)
(***************************************************************************)
EXTENDS Naturals, FiniteSets

CONSTANTS Event,      \* the time events that are ever created
          Repeated,   \* those created with is_repeated
          Resets,     \* those that are reset, stopped and so on
          Interval,   \* the intervals, in milliseconds
          Worker,     \* the threads that poll
          MaxTime     \* bound: the clock stops there

ASSUME TimerAssumption ==
    /\ Repeated \subseteq Event
    /\ Resets \subseteq Event
    /\ Interval \subseteq Nat
    /\ MaxTime \in Nat

VARIABLES clock,          \* GetCurrentMS()
          stage,          \* each event: not created, made by its constructor, added
          m_timeEvents,   \* the set: which event is linked under which time
          m_occur_time, m_interval, m_is_repeated, m_is_cancled, m_is_stoped,
          reading,        \* the `now` of each thread in getExpiredcbs, 0 outside of it
          cbs,            \* the callbacks it took and has not handed on
          since           \* history: when the running interval of an event began

flags == <<m_is_repeated, m_is_cancled, m_is_stoped>>
times == <<m_timeEvents, m_occur_time, m_interval, since>>
polls == <<reading, cbs>>
timerVars == <<clock, stage, times, flags, polls>>

\* The set is a partial function from times to events.
TimerTypeOK ==
    /\ clock \in 0..MaxTime
    /\ stage \in [Event -> {"none", "made", "added"}]
    /\ DOMAIN m_timeEvents \subseteq Nat
    /\ m_timeEvents \in [DOMAIN m_timeEvents -> Event]
    /\ m_occur_time \in [Event -> Nat]
    /\ m_interval \in [Event -> Interval \cup {0}]
    /\ m_is_repeated \in [Event -> BOOLEAN]
    /\ m_is_cancled \in [Event -> BOOLEAN]
    /\ m_is_stoped \in [Event -> BOOLEAN]
    /\ reading \in [Worker -> Nat]
    /\ cbs \in [Worker -> SUBSET Event]
    /\ since \in [Event -> Nat]

TimerInit ==
    /\ clock = 0
    /\ stage = [e \in Event |-> "none"]
    /\ m_timeEvents = [t \in {} |-> 0]
    /\ m_occur_time = [e \in Event |-> 0]
    /\ m_interval = [e \in Event |-> 0]
    /\ m_is_repeated = [e \in Event |-> e \in Repeated]
    /\ m_is_cancled = [e \in Event |-> FALSE]
    /\ m_is_stoped = [e \in Event |-> FALSE]
    /\ reading = [w \in Worker |-> 0]
    /\ cbs = [w \in Worker |-> {}]
    /\ since = [e \in Event |-> 0]

\* Is e an element of the set?
InSet(e) == \E t \in DOMAIN m_timeEvents : m_timeEvents[t] = e

-----------------------------------------------------------------------------
(* std::set by time. find() and insert() see an element only through the   *)
(* time it is linked under.                                                *)

\* insert() leaves the set as it is when the time is taken.
insert(set, e, t) ==
    [s \in DOMAIN set \cup {t} |-> IF s \in DOMAIN set THEN set[s] ELSE e]

erase(set, gone) == [s \in DOMAIN set \ gone |-> set[s]]

-----------------------------------------------------------------------------
(* The methods.                                                            *)

Tick ==
    /\ clock < MaxTime
    /\ clock' = clock + 1
    /\ UNCHANGED <<stage, times, flags, polls>>

\* The constructor, before addTimeEvent has the mutex.
NewTimeEvent(e, i) ==
    /\ stage[e] = "none"
    /\ stage' = [stage EXCEPT ![e] = "made"]
    /\ m_interval' = [m_interval EXCEPT ![e] = i]
    /\ m_occur_time' = [m_occur_time EXCEPT ![e] = clock + i]
    /\ since' = [since EXCEPT ![e] = clock]
    /\ UNCHANGED <<clock, m_timeEvents, flags, polls>>

\* The result of insert is not looked at.
addTimeEvent(e) ==
    /\ stage[e] = "made"
    /\ stage' = [stage EXCEPT ![e] = "added"]
    /\ m_timeEvents' = insert(m_timeEvents, e, m_occur_time[e])
    /\ UNCHANGED <<clock, m_occur_time, m_interval, since, flags, polls>>

\* Wrong: the new time is set before the set is searched.
resetTimeFirst(e, i) ==
    LET later == clock + i IN
    /\ stage[e] = "added"
    /\ m_interval' = [m_interval EXCEPT ![e] = i]
    /\ m_occur_time' = [m_occur_time EXCEPT ![e] = later]
    /\ since' = [since EXCEPT ![e] = clock]
    /\ m_is_cancled' = [m_is_cancled EXCEPT ![e] = FALSE]
    /\ m_timeEvents' = IF later \in DOMAIN m_timeEvents
                       THEN insert(erase(m_timeEvents, {later}), e, later)
                       ELSE m_timeEvents
    /\ UNCHANGED <<clock, stage, m_is_repeated, m_is_stoped, polls>>

\* Both forms of resetTime. Whatever is linked under the time of e is erased for
\* it. Nothing happens when nothing is.
resetTime(e, i) ==
    LET later == clock + i IN
    /\ stage[e] = "added"
    /\ m_occur_time[e] \in DOMAIN m_timeEvents
    /\ m_timeEvents' = insert(erase(m_timeEvents, {m_occur_time[e]}), e, later)
    /\ m_interval' = [m_interval EXCEPT ![e] = i]
    /\ m_occur_time' = [m_occur_time EXCEPT ![e] = later]
    /\ since' = [since EXCEPT ![e] = clock]
    /\ m_is_cancled' = [m_is_cancled EXCEPT ![e] = FALSE]
    /\ UNCHANGED <<clock, stage, m_is_repeated, m_is_stoped, polls>>

wake(e) ==
    /\ stage[e] = "added"
    /\ m_is_cancled' = [m_is_cancled EXCEPT ![e] = FALSE]
    /\ m_is_stoped' = [m_is_stoped EXCEPT ![e] = FALSE]
    /\ UNCHANGED <<clock, stage, times, m_is_repeated, polls>>

cancel(e) ==
    /\ stage[e] = "added"
    /\ m_is_cancled' = [m_is_cancled EXCEPT ![e] = TRUE]
    /\ UNCHANGED <<clock, stage, times, m_is_repeated, m_is_stoped, polls>>

stop(e) ==
    /\ stage[e] = "added"
    /\ m_is_stoped' = [m_is_stoped EXCEPT ![e] = TRUE]
    /\ UNCHANGED <<clock, stage, times, m_is_repeated, m_is_cancled, polls>>

\* cancleRepeated, setRepeated
setRepeated(e, repeated) ==
    /\ stage[e] = "added"
    /\ m_is_repeated' = [m_is_repeated EXCEPT ![e] = repeated]
    /\ UNCHANGED <<clock, stage, times, m_is_cancled, m_is_stoped, polls>>

\* Wrong: off by one millisecond.
ExpiredSoon(now) == {t \in DOMAIN m_timeEvents : t <= now + 1}

Expired(now) == {t \in DOMAIN m_timeEvents : t <= now}

\* The callbacks that getExpiredcbs returns.
Callable(now) ==
    {e \in {m_timeEvents[t] : t \in Expired(now)} : ~m_is_cancled[e] /\ ~m_is_stoped[e]}

\* Wrong: a stopped event is not put back, wake() then finds it gone.
PutBackUnlessStopped(now) ==
    {e \in {m_timeEvents[t] : t \in Expired(now)} :
        m_is_repeated[e] /\ ~m_is_cancled[e] /\ ~m_is_stoped[e]}

\* The expired events that are put back: a stopped event goes on in silence.
PutBack(now) ==
    {e \in {m_timeEvents[t] : t \in Expired(now)} : m_is_repeated[e] /\ ~m_is_cancled[e]}

\* The event that gets the place under time t: the earlier of two that are put back.
First(S) == CHOOSE e \in S : \A u \in S : m_occur_time[e] <= m_occur_time[u]

\* getExpiredcbs, before it has the mutex.
ReadClock(w) ==
    /\ reading' = [reading EXCEPT ![w] = clock]
    /\ UNCHANGED <<clock, stage, times, flags, cbs>>

\* With the mutex. The events are put back in the order of their old times.
getExpiredcbs(w) ==
    LET now == reading[w]
        rest == erase(m_timeEvents, Expired(now))
        back == PutBack(now)
        until(t) == {e \in back : now + m_interval[e] = t}
    IN
    /\ m_timeEvents' =
           [t \in DOMAIN rest \cup {now + m_interval[e] : e \in back} |->
               IF t \in DOMAIN rest THEN rest[t] ELSE First(until(t))]
    /\ m_occur_time' = [e \in Event |->
           IF e \in back THEN now + m_interval[e] ELSE m_occur_time[e]]
    /\ since' = [e \in Event |-> IF e \in back THEN now ELSE since[e]]
    /\ cbs' = [cbs EXCEPT ![w] = Callable(now)]
    /\ reading' = [reading EXCEPT ![w] = 0]
    /\ UNCHANGED <<clock, stage, m_interval, flags>>

\* The thread is done with a callback. In which order it goes through them is left open.
HandOn(w, e) ==
    /\ e \in cbs[w]
    /\ cbs' = [cbs EXCEPT ![w] = @ \ {e}]
    /\ UNCHANGED <<clock, stage, times, flags, reading>>

Use(e) ==
    \/ \E i \in Interval : NewTimeEvent(e, i)
    \/ addTimeEvent(e)
    \/ e \in Resets /\ \/ \E i \in Interval : resetTime(e, i)
                       \/ wake(e)
                       \/ cancel(e)
                       \/ stop(e)
                       \/ \E r \in BOOLEAN : setRepeated(e, r)

Poll(w) == ReadClock(w) \/ (cbs[w] = {} /\ getExpiredcbs(w)) \/ \E e \in Event : HandOn(w, e)

TimerNext == Tick \/ (\E e \in Event : Use(e)) \/ \E w \in Worker : Poll(w)

TimerSpec == TimerInit /\ [][TimerNext]_timerVars

-----------------------------------------------------------------------------
(* Properties.                                                             *)

\* The time of an event that is in the set is the time it is linked under. std::set
\* cannot find an element whose key changed behind its back, and iterates in the
\* wrong order; resetTime and getExpiredcbs change keys.
LinkedByTime ==
    \A t \in DOMAIN m_timeEvents : m_occur_time[m_timeEvents[t]] = t

\* The time of an event lies one interval behind the moment it was last made, reset or
\* put back: what NeverEarly needs beside LinkedByTime.
DeadlineInv == \A e \in Event : m_occur_time[e] = since[e] + m_interval[e]

\* No callback is taken before its interval is over, counted from when the event was
\* made, last reset or put back, whatever was reset, stopped or woken meanwhile and
\* however old the clock was that the poll goes by.
NeverEarly ==
    [][\A w \in Worker : \A e \in cbs'[w] \ cbs[w] :
          clock >= since[e] + m_interval[e]]_timerVars

\* A repeated event that nobody cancelled leaves the set in two ways only: its next
\* millisecond belongs to another event of the set, or another event with its time,
\* which is not in the set, is reset and erases it in its own stead (timer.cpp:21).
LostOnlyToTwin ==
    [][\A e \in Event :
          InSet(e) /\ ~InSet(e)' /\ m_is_repeated[e] /\ ~m_is_cancled[e] =>
          \E u \in Event \ {e} :
             \/ InSet(u)' /\ m_occur_time'[u] = m_occur_time'[e]
             \/ /\ ~InSet(u)
                /\ m_occur_time[u] = m_occur_time[e]
                /\ since'[u] = clock]_timerVars

=============================================================================
