--------------------------- MODULE SchedulerLife_proofs ---------------------------
(***************************************************************************)
(* The timer, for every number of events and threads and every clock: its  *)
(* set stays ordered, TimerSpec => []LinkedByTime, and no callback comes   *)
(* early, TimerSpec => NeverEarly. What uses the timer is free in          *)
(* TimerSpec, so that SchedulerLife, which only restricts who polls when,  *)
(* inherits both.                                                          *)
(*                                                                         *)
(* LinkedByTime is inductive together with two facts: an event is in the   *)
(* set only after addTimeEvent, so that the constructor changes no key, and*)
(* no time is after the clock that a poll goes by.                         *)
(*                                                                         *)
(* The life of a scheduler, for every number of threads, tasks and timer   *)
(* events: once a task is in, every thread is up until stop(); stop() does *)
(* not throw and returns after the last thread; and the timer is used as   *)
(* Timer says, so that what is proved there holds of the whole.            *)
(*                                                                         *)
(* m_runningThreads counts the threads between its increment and its       *)
(* decrement: with that, addTask reads off it where all threads are.       *)
(***************************************************************************)
EXTENDS SchedulerLife, FiniteSetTheorems, WellFoundedInduction, TLAPS

\* Only an added event is in the set.
AddedInv == \A e \in Event : InSet(e) => stage[e] = "added"

\* A poll goes by a clock that is old, not wrong.
ReadingInv == \A w \in Worker : reading[w] <= clock

TimerInv == TimerTypeOK /\ LinkedByTime /\ AddedInv /\ DeadlineInv /\ ReadingInv

-----------------------------------------------------------------------------
(* The set.                                                                *)

\* An event has at most one place.
LEMMA OnePlace ==
    ASSUME LinkedByTime, NEW s \in DOMAIN m_timeEvents, NEW t \in DOMAIN m_timeEvents,
           m_timeEvents[s] = m_timeEvents[t]
    PROVE  s = t
BY DEF LinkedByTime

\* The order of the library is that of the numbers.
LEMMA NatOrder == OpToRel(<, Nat) = {p \in Nat \X Nat : p[1] < p[2]}
BY DEF OpToRel

\* A set of times has an earliest one.
LEMMA Earliest ==
    ASSUME NEW T \in SUBSET Nat, T # {}
    PROVE  \E n \in T : \A m \in T : n <= m
<1> DEFINE R == {p \in Nat \X Nat : p[1] < p[2]}
<1>1. IsWellFoundedOn(R, Nat)
  BY NatOrder, NatLessThanWellFounded
<1> HIDE DEF R
<1>2. PICK n \in T : \A m \in T : <<m, n>> \notin R
  BY <1>1, WFMin
<1>3. \A m \in T : ~(m < n)
  BY <1>2 DEF R
<1> QED BY <1>3

\* The place that two events want goes to one of them.
LEMMA FirstIsOne ==
    ASSUME TimerTypeOK, NEW S \in SUBSET Event, S # {}
    PROVE  First(S) \in S
<1> DEFINE T == {m_occur_time[e] : e \in S}
<1>1. T \in SUBSET Nat /\ T # {}
  BY DEF TimerTypeOK
<1>2. PICK n \in T : \A m \in T : n <= m
  BY <1>1, Earliest
<1>3. PICK e \in S : m_occur_time[e] = n
  BY <1>2
<1>4. \A u \in S : m_occur_time[e] <= m_occur_time[u]
  BY <1>2, <1>3
<1> QED BY <1>3, <1>4 DEF First

\* An event that a poll goes by has an old time.
LEMMA ExpiredIsDue ==
    ASSUME TimerTypeOK, LinkedByTime, NEW now \in Nat,
           NEW e \in {m_timeEvents[t] : t \in Expired(now)}
    PROVE  e \in Event /\ InSet(e) /\ m_occur_time[e] <= now
BY DEF TimerTypeOK, LinkedByTime, Expired, InSet

-----------------------------------------------------------------------------
(* Each method keeps the invariant.                                        *)

\* Time passes: what is not after the clock stays so.
LEMMA TickKeeps == TimerInv /\ Tick => TimerInv'
BY TimerAssumption
   DEF TimerInv, TimerTypeOK, LinkedByTime, AddedInv, DeadlineInv, ReadingInv, InSet,
       Tick, times, flags, polls

\* The constructor sets a time, of an event that is not in the set.
LEMMA NewKeeps ==
    ASSUME TimerInv, NEW e \in Event, NEW i \in Interval, NewTimeEvent(e, i)
    PROVE  TimerInv'
<1> USE DEF TimerInv
<1>0. i \in Nat /\ clock \in Nat /\ ~InSet(e)
  BY TimerAssumption DEF TimerTypeOK, AddedInv, NewTimeEvent
<1>1. TimerTypeOK'
  BY <1>0 DEF TimerTypeOK, NewTimeEvent, flags, polls
<1>2. LinkedByTime'
  BY <1>0 DEF TimerTypeOK, LinkedByTime, InSet, NewTimeEvent
<1>3. AddedInv'
  BY DEF TimerTypeOK, AddedInv, InSet, NewTimeEvent
<1>4. DeadlineInv' /\ ReadingInv'
  BY <1>0 DEF TimerTypeOK, DeadlineInv, ReadingInv, NewTimeEvent, polls
<1> QED BY <1>1, <1>2, <1>3, <1>4

\* addTimeEvent links an event under its own time, or not at all.
LEMMA AddKeeps ==
    ASSUME TimerInv, NEW e \in Event, addTimeEvent(e)
    PROVE  TimerInv'
<1> USE DEF TimerInv
<1>1. /\ DOMAIN m_timeEvents' = DOMAIN m_timeEvents \cup {m_occur_time[e]}
      /\ \A t \in DOMAIN m_timeEvents' :
            m_timeEvents'[t] = IF t \in DOMAIN m_timeEvents THEN m_timeEvents[t] ELSE e
      /\ m_timeEvents' = [t \in DOMAIN m_timeEvents' |-> m_timeEvents'[t]]
  BY DEF addTimeEvent, insert
<1>2. TimerTypeOK'
  BY <1>1 DEF TimerTypeOK, addTimeEvent, flags, polls
<1>3. LinkedByTime'
  BY <1>1 DEF LinkedByTime, addTimeEvent
<1>4. AddedInv'
  BY <1>1 DEF TimerTypeOK, AddedInv, InSet, addTimeEvent
<1>5. DeadlineInv' /\ ReadingInv'
  BY DEF DeadlineInv, ReadingInv, addTimeEvent, polls
<1> QED BY <1>2, <1>3, <1>4, <1>5

\* The old key of the event that is reset leaves the set before the key changes.
LEMMA ResetKeeps ==
    ASSUME TimerInv, NEW e \in Event, NEW i \in Interval, resetTime(e, i)
    PROVE  TimerInv'
<1> USE DEF TimerInv
<1> DEFINE later == clock + i
           rest == DOMAIN m_timeEvents \ {m_occur_time[e]}
<1>0. i \in Nat /\ clock \in Nat /\ later \in Nat
  BY TimerAssumption DEF TimerTypeOK
<1>1. /\ DOMAIN m_timeEvents' = rest \cup {later}
      /\ \A t \in DOMAIN m_timeEvents' :
            m_timeEvents'[t] = IF t \in rest THEN m_timeEvents[t] ELSE e
      /\ m_timeEvents' = [t \in DOMAIN m_timeEvents' |-> m_timeEvents'[t]]
  BY DEF resetTime, insert, erase
<1>2. \A t \in rest : m_timeEvents[t] # e
  BY DEF LinkedByTime
<1>3. TimerTypeOK'
  BY <1>0, <1>1 DEF TimerTypeOK, resetTime, polls
<1>4. LinkedByTime'
  <2>1. m_occur_time' = [m_occur_time EXCEPT ![e] = later]
    BY DEF resetTime
  <2>2. \A t \in rest : /\ m_timeEvents[t] \in Event \ {e}
                        /\ m_occur_time[m_timeEvents[t]] = t
    BY <1>2 DEF TimerTypeOK, LinkedByTime
  <2>3. m_occur_time'[e] = later
    BY <2>1 DEF TimerTypeOK
  <2>4. \A u \in Event \ {e} : m_occur_time'[u] = m_occur_time[u]
    BY <2>1 DEF TimerTypeOK
  <2> HIDE DEF later, rest
  <2> QED BY <1>1, <2>2, <2>3, <2>4 DEF LinkedByTime
<1>5. AddedInv'
  BY <1>1 DEF TimerTypeOK, AddedInv, InSet, resetTime
<1>6. DeadlineInv' /\ ReadingInv'
  BY <1>0 DEF TimerTypeOK, DeadlineInv, ReadingInv, resetTime, polls
<1> QED BY <1>3, <1>4, <1>5, <1>6

\* The flags of an event have no part in the order of the set.
LEMMA FlagsKeep ==
    ASSUME TimerInv, NEW e \in Event,
           wake(e) \/ cancel(e) \/ stop(e) \/ \E r \in BOOLEAN : setRepeated(e, r)
    PROVE  TimerInv'
<1> USE DEF TimerInv
<1>1. UNCHANGED <<clock, stage, times, polls>>
  BY DEF wake, cancel, stop, setRepeated
<1>2. /\ m_is_repeated' \in [Event -> BOOLEAN]
      /\ m_is_cancled' \in [Event -> BOOLEAN]
      /\ m_is_stoped' \in [Event -> BOOLEAN]
  BY DEF TimerTypeOK, wake, cancel, stop, setRepeated
<1>3. TimerTypeOK'
  BY <1>1, <1>2 DEF TimerTypeOK, times, polls
<1>4. LinkedByTime' /\ AddedInv' /\ DeadlineInv' /\ ReadingInv'
  BY <1>1 DEF LinkedByTime, AddedInv, InSet, DeadlineInv, ReadingInv, times, polls
<1> QED BY <1>3, <1>4

\* A poll reads the clock, or hands a callback on: the set stays as it is.
LEMMA ReadKeeps ==
    ASSUME TimerInv, NEW w \in Worker, ReadClock(w) \/ \E e \in Event : HandOn(w, e)
    PROVE  TimerInv'
<1> USE DEF TimerInv
<1>1. UNCHANGED <<clock, stage, times, flags>>
  BY DEF ReadClock, HandOn
<1>2. /\ reading' \in [Worker -> Nat]
      /\ cbs' \in [Worker -> SUBSET Event]
      /\ ReadingInv'
  BY TimerAssumption DEF TimerTypeOK, ReadingInv, ReadClock, HandOn
<1>3. TimerTypeOK'
  BY <1>1, <1>2 DEF TimerTypeOK, times, flags
<1>4. LinkedByTime' /\ AddedInv' /\ DeadlineInv'
  BY <1>1 DEF LinkedByTime, AddedInv, InSet, DeadlineInv, times
<1> QED BY <1>2, <1>3, <1>4

\* An event is put back under its new time, and what stays in the set was not touched.
LEMMA CollectKeeps ==
    ASSUME TimerInv, NEW w \in Worker, getExpiredcbs(w)
    PROVE  TimerInv'
<1> USE DEF TimerInv
<1> DEFINE now == reading[w]
           rest == DOMAIN m_timeEvents \ Expired(now)
           back == PutBack(now)
           until(t) == {e \in back : now + m_interval[e] = t}
<1>0. now \in Nat /\ now <= clock /\ clock \in Nat
  BY DEF TimerTypeOK, ReadingInv
<1>1. \A e \in back : /\ e \in Event /\ InSet(e)
                      /\ m_occur_time[e] <= now
                      /\ m_interval[e] \in Nat /\ now + m_interval[e] \in Nat
  BY <1>0, ExpiredIsDue, TimerAssumption DEF TimerTypeOK, PutBack
<1>2. /\ DOMAIN m_timeEvents' = rest \cup {now + m_interval[e] : e \in back}
      /\ \A t \in DOMAIN m_timeEvents' :
            m_timeEvents'[t] = IF t \in rest THEN m_timeEvents[t] ELSE First(until(t))
      /\ m_timeEvents' = [t \in DOMAIN m_timeEvents' |-> m_timeEvents'[t]]
  BY DEF getExpiredcbs, erase
<1>3. \A t \in rest : /\ m_timeEvents[t] \in Event \ back
                      /\ InSet(m_timeEvents[t])
  <2> SUFFICES ASSUME NEW t \in rest PROVE m_timeEvents[t] \in Event \ back
    BY DEF InSet
  <2>1. t \in Nat /\ m_occur_time[m_timeEvents[t]] = t /\ ~(t <= now)
    BY DEF TimerTypeOK, LinkedByTime, Expired
  <2> QED BY <1>1, <2>1 DEF TimerTypeOK
<1>4. \A t \in DOMAIN m_timeEvents' \ rest : First(until(t)) \in until(t)
  <2> SUFFICES ASSUME NEW t \in DOMAIN m_timeEvents' \ rest
               PROVE  until(t) \in SUBSET Event /\ until(t) # {}
    BY FirstIsOne
  <2> QED BY <1>1, <1>2
<1>5. \A e \in Event :
          /\ m_occur_time'[e] = IF e \in back THEN now + m_interval[e] ELSE m_occur_time[e]
          /\ since'[e] = IF e \in back THEN now ELSE since[e]
  BY DEF getExpiredcbs
<1>6. LinkedByTime'
  <2> SUFFICES ASSUME NEW t \in DOMAIN m_timeEvents'
               PROVE  m_occur_time'[m_timeEvents'[t]] = t
    BY DEF LinkedByTime
  <2>1. CASE t \in rest
    <3> DEFINE e == m_timeEvents[t]
    <3>1. m_timeEvents'[t] = e
      BY <1>2, <2>1
    <3>2. e \in Event \ back
      BY <1>3, <2>1
    <3>3. m_occur_time[e] = t
      BY <2>1 DEF LinkedByTime
    <3>4. m_occur_time'[e] = m_occur_time[e]
      BY <1>5, <3>2
    <3> QED BY <3>1, <3>3, <3>4
  <2>2. CASE t \notin rest
    <3> DEFINE e == First(until(t))
    <3>1. m_timeEvents'[t] = e
      BY <1>2, <2>2
    <3>2. e \in back /\ now + m_interval[e] = t
      BY <1>4, <2>2
    <3>3. m_occur_time'[e] = now + m_interval[e]
      BY <1>1, <1>5, <3>2
    <3> QED BY <3>1, <3>2, <3>3
  <2> QED BY <2>1, <2>2
<1>7. AddedInv'
  <2>1. ASSUME NEW t \in DOMAIN m_timeEvents' PROVE InSet(m_timeEvents'[t])
    <3>1. CASE t \in rest
      BY <3>1, <1>2, <1>3
    <3>2. CASE t \notin rest
      BY <3>2, <1>1, <1>2, <1>4
    <3> QED BY <3>1, <3>2
  <2>2. \A e \in Event : InSet(e)' => InSet(e)
    <3> SUFFICES ASSUME NEW e \in Event, NEW t \in DOMAIN m_timeEvents',
                        m_timeEvents'[t] = e
                 PROVE  InSet(e)
      BY DEF InSet
    <3> QED BY <2>1
  <2> QED BY <2>2 DEF AddedInv, getExpiredcbs
<1>8. DeadlineInv'
  BY <1>0, <1>1, <1>5 DEF DeadlineInv, getExpiredcbs
<1>9. ReadingInv'
  BY <1>0 DEF TimerTypeOK, ReadingInv, getExpiredcbs
<1>10. TimerTypeOK'
  <2>1. DOMAIN m_timeEvents' \subseteq Nat
    BY <1>1, <1>2 DEF TimerTypeOK
  <2>2. m_timeEvents' \in [DOMAIN m_timeEvents' -> Event]
    BY <1>1, <1>2, <1>3, <1>4
  <2>3. m_occur_time' \in [Event -> Nat] /\ since' \in [Event -> Nat]
    BY <1>0, <1>1 DEF TimerTypeOK, getExpiredcbs
  <2>4. \A e \in Callable(now) : e \in Event
    BY <1>0, ExpiredIsDue DEF Callable
  <2>5. cbs' \in [Worker -> SUBSET Event] /\ reading' \in [Worker -> Nat]
    BY <2>4 DEF TimerTypeOK, getExpiredcbs
  <2> QED BY <2>1, <2>2, <2>3, <2>5 DEF TimerTypeOK, getExpiredcbs, flags
<1> QED BY <1>6, <1>7, <1>8, <1>9, <1>10

-----------------------------------------------------------------------------
(* The specification.                                                      *)

\* The invariant of the timer holds while it is empty.
LEMMA TimerInitInv == TimerInit => TimerInv
BY TimerAssumption
   DEF TimerInit, TimerInv, TimerTypeOK, LinkedByTime, AddedInv, DeadlineInv, ReadingInv,
       InSet

\* Whatever a user of the timer does with an event keeps its invariant.
LEMMA UseKeeps ==
    ASSUME TimerInv, NEW e \in Event, Use(e)
    PROVE  TimerInv'
BY NewKeeps, AddKeeps, ResetKeeps, FlagsKeep DEF Use

\* Every step of the timer keeps its invariant.
LEMMA TimerNextInv == TimerInv /\ [TimerNext]_timerVars => TimerInv'
<1> SUFFICES ASSUME TimerInv, [TimerNext]_timerVars PROVE TimerInv'
  OBVIOUS
<1>1. CASE Tick
  BY <1>1, TickKeeps
<1>2. CASE \E e \in Event : Use(e)
  BY <1>2, UseKeeps
<1>3. CASE \E w \in Worker : Poll(w)
  BY <1>3, ReadKeeps, CollectKeeps DEF Poll
<1>4. CASE UNCHANGED timerVars
  BY <1>4 DEF TimerInv, TimerTypeOK, LinkedByTime, AddedInv, DeadlineInv, ReadingInv, InSet,
              timerVars, times, flags, polls
<1> QED BY <1>1, <1>2, <1>3, <1>4 DEF TimerNext

\* A callback that a poll takes is due by its clock, and so by the real one.
LEMMA NoStepIsEarly ==
    ASSUME TimerInv, TimerInv', [TimerNext]_timerVars,
           NEW w \in Worker, NEW e \in cbs'[w] \ cbs[w]
    PROVE  clock >= since[e] + m_interval[e]
<1> USE DEF TimerInv
<1>1. cbs' # cbs
  OBVIOUS
<1>2. PICK v \in Worker : getExpiredcbs(v) \/ \E u \in Event : HandOn(v, u)
  BY <1>1 DEF TimerNext, Poll, Tick, Use, NewTimeEvent, addTimeEvent, resetTime, wake,
              cancel, stop, setRepeated, ReadClock, timerVars, polls
<1>3. CASE \E u \in Event : HandOn(v, u)
  BY <1>3 DEF TimerTypeOK, HandOn
<1>4. CASE getExpiredcbs(v)
  <2>1. w = v /\ e \in Callable(reading[v])
    BY <1>4 DEF TimerTypeOK, getExpiredcbs
  <2>2. reading[v] \in Nat /\ clock \in Nat /\ reading[v] <= clock
    BY DEF TimerTypeOK, ReadingInv
  <2>3. e \in Event /\ m_occur_time[e] <= reading[v]
    BY <2>1, <2>2, ExpiredIsDue DEF Callable
  <2>4. /\ m_occur_time[e] = since[e] + m_interval[e]
        /\ m_occur_time[e] \in Nat
    BY <2>3 DEF DeadlineInv, TimerTypeOK
  <2> QED BY <2>2, <2>3, <2>4
<1> QED BY <1>2, <1>3, <1>4

\* An event whose new place is taken shares it with whoever has it.
LEMMA TwinHasPlace ==
    ASSUME TimerInv', NEW e \in Event, ~InSet(e)', m_occur_time'[e] \in DOMAIN m_timeEvents'
    PROVE  \E u \in Event \ {e} : InSet(u)' /\ m_occur_time'[u] = m_occur_time'[e]
<1>1. PICK u \in Event : u = m_timeEvents'[m_occur_time'[e]]
  BY DEF TimerInv, TimerTypeOK
<1>2. InSet(u)' /\ u # e
  BY <1>1 DEF InSet
<1>3. m_occur_time'[u] = m_occur_time'[e]
  BY <1>1 DEF TimerInv, LinkedByTime
<1> QED BY <1>2, <1>3

\* Who has the place of an event that a step took out of the set: the event that was
\* reset in its stead, or the one that had its next millisecond first.
LEMMA LossHasTwin ==
    ASSUME TimerInv, TimerInv', [TimerNext]_timerVars, NEW e \in Event,
           InSet(e), ~InSet(e)', m_is_repeated[e], ~m_is_cancled[e]
    PROVE  \E u \in Event \ {e} :
              \/ InSet(u)' /\ m_occur_time'[u] = m_occur_time'[e]
              \/ /\ ~InSet(u)
                 /\ m_occur_time[u] = m_occur_time[e]
                 /\ since'[u] = clock
<1> USE DEF TimerInv
<1> DEFINE place == m_occur_time[e]
<1>0. place \in DOMAIN m_timeEvents /\ m_timeEvents[place] = e
  BY DEF InSet, LinkedByTime
<1>1. m_timeEvents' # m_timeEvents
  BY DEF InSet
<1>2. CASE \E u \in Event : addTimeEvent(u)
  BY <1>0, <1>2 DEF InSet, addTimeEvent, insert
<1>3. ASSUME NEW u \in Event, NEW i \in Interval, resetTime(u, i)
      PROVE  \/ m_occur_time'[e] \in DOMAIN m_timeEvents'
             \/ u # e /\ ~InSet(u) /\ m_occur_time[u] = place /\ since'[u] = clock
  <2>1. CASE u = e
    BY <1>3, <2>1 DEF TimerTypeOK, resetTime, insert
  <2>2. CASE u # e
    <3>1. m_occur_time[u] = place
      BY <1>0, <1>3 DEF InSet, resetTime, insert, erase
    <3>2. ~InSet(u)
      BY <1>0, <2>2, <3>1 DEF InSet, LinkedByTime
    <3>3. since'[u] = clock
      BY <1>3 DEF TimerTypeOK, resetTime
    <3> QED BY <2>2, <3>1, <3>2, <3>3
  <2> QED BY <2>1, <2>2
<1>4. ASSUME NEW w \in Worker, getExpiredcbs(w)
      PROVE  m_occur_time'[e] \in DOMAIN m_timeEvents'
  <2> DEFINE now == reading[w]
  <2>1. e \in PutBack(now)
    <3>1. place \in Expired(now)
      BY <1>0, <1>4 DEF InSet, getExpiredcbs, erase
    <3> QED BY <1>0, <3>1 DEF PutBack
  <2>2. m_occur_time'[e] = now + m_interval[e]
    BY <1>4, <2>1 DEF getExpiredcbs
  <2> QED BY <1>4, <2>1, <2>2 DEF getExpiredcbs
<1>5. \/ \E u \in Event : addTimeEvent(u)
      \/ \E u \in Event, i \in Interval : resetTime(u, i)
      \/ \E w \in Worker : getExpiredcbs(w)
  BY <1>1 DEF TimerNext, Tick, Use, Poll, NewTimeEvent, wake, cancel, stop, setRepeated,
              ReadClock, HandOn, timerVars, times
<1> QED BY <1>2, <1>3, <1>4, <1>5, TwinHasPlace

\* The timer's variables keep their types (timer.h:78-118).
THEOREM TimerType == TimerSpec => []TimerTypeOK
BY TimerInitInv, TimerNextInv, PTL DEF TimerSpec, TimerInv

\* std::set always finds an event of the set under the time the event has: resetTime
\* and getExpiredcbs never change a key behind its back (timer.cpp:18-48, 135-140).
THEOREM SetIsOrdered == TimerSpec => []LinkedByTime
BY TimerInitInv, TimerNextInv, PTL DEF TimerSpec, TimerInv

\* No callback is taken before its interval is over (timer.cpp:110-142).
THEOREM NothingComesEarly == TimerSpec => NeverEarly
<1>1. TimerInv /\ TimerInv' /\ [TimerNext]_timerVars =>
          [\A w \in Worker : \A e \in cbs'[w] \ cbs[w] :
              clock >= since[e] + m_interval[e]]_timerVars
  BY NoStepIsEarly
<1> QED BY <1>1, TimerInitInv, TimerNextInv, PTL DEF TimerSpec, NeverEarly

\* A repeated event is lost only to an event that has its time: no other way leads out
\* of the set (timer.cpp:18-48, 110-142).
THEOREM OnlyTwinsTake == TimerSpec => LostOnlyToTwin
<1>1. TimerInv /\ TimerInv' /\ [TimerNext]_timerVars =>
          [\A e \in Event :
              InSet(e) /\ ~InSet(e)' /\ m_is_repeated[e] /\ ~m_is_cancled[e] =>
              \E u \in Event \ {e} :
                 \/ InSet(u)' /\ m_occur_time'[u] = m_occur_time'[e]
                 \/ /\ ~InSet(u)
                    /\ m_occur_time[u] = m_occur_time[e]
                    /\ since'[u] = clock]_timerVars
  BY LossHasTwin
<1> QED BY <1>1, TimerInitInv, TimerNextInv, PTL DEF TimerSpec, LostOnlyToTwin

-----------------------------------------------------------------------------
(* The life of a scheduler.                                                *)

\* Where m_runningThreads counts a thread.
Up == {"loop", "take", "run", "poll", "collect", "add", "leaving"}

UpWorkers == {w \in Worker : at[w] \in Up}

CountInv == m_runningThreads = Cardinality(UpWorkers)

\* getTaskFromTimer leaves no callback behind.
CallbackInv == \A w \in Worker : at[w] # "add" => cbs[w] = {}

\* addTask takes nothing before all threads are up, and no thread leaves before m_stop.
LaunchedInv ==
    /\ accepted # {} => \A w \in Worker : at[w] \notin {"off", "new"}
    /\ \A w \in Worker : at[w] \in {"leaving", "done"} => m_stop

\* Behind the loop of stop() every thread is done.
StopInv ==
    /\ stopping # "no" => m_stop /\ accepted # {}
    /\ stopping \in {"counted", "returned"} => \A w \in Worker : at[w] = "done"
    /\ stopping # "thrown"

LifeType == TypeOK /\ TimerInv

LifeInv == LifeType /\ CountInv /\ CallbackInv /\ LaunchedInv /\ StopInv

-----------------------------------------------------------------------------
(* The count.                                                              *)

\* The threads that are counted can be counted.
LEMMA UpIsFinite == IsFiniteSet(UpWorkers) /\ Cardinality(UpWorkers) \in Nat
BY SchedulerAssumption, FS_Subset, FS_CardinalityType DEF UpWorkers

\* A count that is full says that every thread is up.
LEMMA FullCount ==
    ASSUME LifeInv
    PROVE  (m_runningThreads = Cardinality(Worker)) <=> (UpWorkers = Worker)
<1>1. UpWorkers \in SUBSET Worker
  BY DEF UpWorkers
<1> QED BY <1>1, SchedulerAssumption, FS_Subset DEF LifeInv, CountInv

\* A count of zero says that none is.
LEMMA ZeroCount ==
    ASSUME LifeInv
    PROVE  (m_runningThreads = 0) <=> (UpWorkers = {})
BY UpIsFinite, FS_EmptySet DEF LifeInv, CountInv

\* addTask takes a task only while every thread is in run().
LEMMA AllRunIsUp ==
    ASSUME LifeInv, AllRun
    PROVE  \A w \in Worker : at[w] \in Up
BY FullCount DEF AllRun, UpWorkers

-----------------------------------------------------------------------------
(* The timer: a step of the scheduler is one of the timer, or none.        *)

\* A step of the scheduler is one of the timer, or changes nothing of it.
LEMMA LifeUsesTimer ==
    ASSUME LifeInv, [Next]_vars
    PROVE  [TimerNext]_timerVars
<1>1. CASE \E w \in Worker : Collect(w)
  <2>1. PICK w \in Worker : Collect(w)
    BY <1>1
  <2>2. cbs[w] = {}
    BY <2>1 DEF LifeInv, CallbackInv, Collect
  <2> QED BY <2>1, <2>2 DEF Collect, TimerNext, Poll
<1>2. CASE \E w \in Worker : PollBegins(w) \/ AddCallback(w)
  <2>1. PICK w \in Worker : PollBegins(w) \/ AddCallback(w)
    BY <1>2
  <2>2. cbs[w] \subseteq Event
    BY DEF LifeInv, LifeType, TypeOK, TimerTypeOK
  <2>3. ReadClock(w) \/ \E e \in Event : HandOn(w, e)
    BY <2>1, <2>2 DEF PollBegins, AddCallback
  <2> QED BY <2>3 DEF TimerNext, Poll
<1>3. CASE (\E e \in Event : UseTimer(e)) \/ TimePasses
  BY <1>3 DEF UseTimer, TimePasses, TimerNext
<1>4. CASE Program
  BY <1>4 DEF Program, Start, Submit, Stop, StopSpins, StopEnsures
<1>5. CASE \E w \in Worker :
              \/ Launch(w) \/ Loop(w) \/ Take(w) \/ TakeNothing(w)
              \/ YieldReady(w) \/ YieldOther(w) \/ \E c \in Client : Spawn(w, c)
              \/ AddAgain(w) \/ Leave(w)
  BY <1>5 DEF Launch, Loop, Take, TakeNothing, YieldReady, YieldOther, Spawn, AddAgain, Leave
<1>6. CASE UNCHANGED vars
  BY <1>6 DEF vars
<1> QED BY <1>1, <1>2, <1>3, <1>4, <1>5, <1>6 DEF Next, WorkerStep

-----------------------------------------------------------------------------
(* Types.                                                                  *)

\* addTask puts a task into the queue, and nothing else.
LEMMA QueueType ==
    ASSUME TypeOK, NEW c \in Task
    PROVE  WithTask(c) \in Seq(Task)
BY DEF TypeOK, WithTask

\* What a step does to the variables that hold tasks.
LEMMA TaskTypes ==
    ASSUME LifeInv, [Next]_vars
    PROVE  /\ m_tasks' \in Seq(Task)
           /\ cur' \in [Worker -> Task \cup {Nil}]
           /\ asked' \subseteq Client
           /\ accepted' \subseteq Client
<1> USE DEF LifeInv, LifeType
<1>0. /\ m_tasks \in Seq(Task)
      /\ cur \in [Worker -> Task \cup {Nil}]
      /\ asked \subseteq Client
      /\ accepted \subseteq Client
  BY DEF TypeOK
<1>1. CASE \E c \in Client : Submit(c) \/ \E w \in Worker : Spawn(w, c)
  BY <1>0, <1>1, QueueType DEF Submit, Spawn, Task, mainVars
<1>2. CASE \E w \in Worker : Take(w)
  <2>1. PICK w \in Worker : Take(w)
    BY <1>2
  <2>2. Head(m_tasks) \in Task /\ Tail(m_tasks) \in Seq(Task)
    BY <1>0, <2>1 DEF Take
  <2> QED BY <1>0, <2>1, <2>2 DEF Take, mainVars
<1>3. CASE \E w \in Worker : AddAgain(w)
  <2>1. PICK w \in Worker : AddAgain(w)
    BY <1>3
  <2>2. m_tasks' \in Seq(Task)
    BY <1>0, <2>1, QueueType DEF AddAgain
  <2> QED BY <1>0, <2>1, <2>2 DEF AddAgain, mainVars
<1>4. CASE \E w \in Worker : AddCallback(w)
  BY <1>0, <1>4, QueueType DEF AddCallback, HandOn, TypeOK, TimerTypeOK, Task, mainVars
<1>5. CASE \E w \in Worker : YieldOther(w)
  BY <1>0, <1>5 DEF YieldOther, mainVars
<1>6. CASE UNCHANGED <<m_tasks, cur, asked, accepted>>
  BY <1>0, <1>6
<1> QED
  BY <1>1, <1>2, <1>3, <1>4, <1>5, <1>6
     DEF Next, Program, WorkerStep, Start, Stop, StopSpins, StopEnsures, Launch, Loop,
         TakeNothing, YieldReady, PollBegins, Collect, Leave, UseTimer, TimePasses,
         vars, lifeVars, mainVars

\* And to those that say where everybody is.
LEMMA PlaceTypes ==
    ASSUME LifeInv, [Next]_vars
    PROVE  /\ m_stop' \in BOOLEAN
           /\ at' \in [Worker -> Location]
           /\ stopping' \in Stopping
<1>0. /\ m_stop \in BOOLEAN
      /\ at \in [Worker -> Location]
      /\ stopping \in Stopping
  BY DEF LifeInv, LifeType, TypeOK
<1>1. CASE Program
  BY <1>0, <1>1 DEF Program, Start, Submit, Stop, StopSpins, StopEnsures, Location, Stopping,
                    mainVars
<1>2. ASSUME NEW w \in Worker, WorkerStep(w)
      PROVE  /\ m_stop' \in BOOLEAN
             /\ at' \in [Worker -> Location]
             /\ stopping' \in Stopping
  <2>1. UNCHANGED <<m_stop, stopping>>
    BY <1>2 DEF WorkerStep, Launch, Loop, Take, TakeNothing, YieldReady, YieldOther, Spawn,
                PollBegins, Collect, AddCallback, AddAgain, Leave, mainVars
  <2>2. \E place \in Location : at' = [at EXCEPT ![w] = place] \/ at' = at
    BY <1>2 DEF WorkerStep, Launch, Loop, Take, TakeNothing, YieldReady, YieldOther, Spawn,
                PollBegins, Collect, AddCallback, AddAgain, Leave, GoTo, Location
  <2> QED BY <1>0, <2>1, <2>2
<1>3. CASE UNCHANGED lifeVars
  BY <1>0, <1>3 DEF lifeVars, mainVars
<1> QED BY <1>1, <1>2, <1>3 DEF Next, UseTimer, TimePasses, vars

-----------------------------------------------------------------------------
(* The invariants.                                                         *)

\* m_runningThreads counts the threads that are up, through every step.
LEMMA CountKeeps ==
    ASSUME LifeInv, [Next]_vars
    PROVE  CountInv'
<1> USE DEF LifeInv
<1>0. at \in [Worker -> Location] /\ m_runningThreads = Cardinality(UpWorkers)
  BY DEF LifeType, TypeOK, CountInv
<1>1. ASSUME NEW w \in Worker, Launch(w) PROVE CountInv'
  <2>1. w \notin UpWorkers /\ UpWorkers' = UpWorkers \cup {w}
    BY <1>0, <1>1 DEF Launch, GoTo, UpWorkers, Up
  <2> QED BY <1>0, <1>1, <2>1, UpIsFinite, FS_AddElement DEF Launch, CountInv
<1>2. ASSUME NEW w \in Worker, Leave(w) PROVE CountInv'
  <2>1. w \in UpWorkers /\ UpWorkers' = UpWorkers \ {w}
    BY <1>0, <1>2 DEF Leave, GoTo, UpWorkers, Up
  <2> QED BY <1>0, <1>2, <2>1, UpIsFinite, FS_RemoveElement DEF Leave, CountInv
<1>3. CASE UNCHANGED m_runningThreads /\ UpWorkers' = UpWorkers
  BY <1>0, <1>3 DEF CountInv
<1>4. CASE Program
  BY <1>0, <1>3, <1>4
     DEF Program, Start, Submit, Stop, StopSpins, StopEnsures, UpWorkers, Up
<1>5. ASSUME NEW w \in Worker,
             \/ Loop(w) \/ Take(w) \/ TakeNothing(w)
             \/ YieldReady(w) \/ YieldOther(w) \/ \E c \in Client : Spawn(w, c)
             \/ PollBegins(w) \/ Collect(w) \/ AddCallback(w) \/ AddAgain(w)
      PROVE  CountInv'
  <2>1. UNCHANGED m_runningThreads
    BY <1>5 DEF Loop, Take, TakeNothing, YieldReady, YieldOther, Spawn, PollBegins, Collect,
                AddCallback, AddAgain
  <2>2. (\E place \in Up : at' = [at EXCEPT ![w] = place] /\ at[w] \in Up) \/ at' = at
    BY <1>5 DEF Loop, Take, TakeNothing, YieldReady, YieldOther, Spawn, PollBegins, Collect,
                AddCallback, AddAgain, GoTo, Up
  <2>3. UpWorkers' = UpWorkers
    BY <1>0, <2>2 DEF UpWorkers
  <2> QED BY <1>3, <2>1, <2>3
<1>6. CASE UNCHANGED lifeVars
  BY <1>3, <1>6 DEF lifeVars, UpWorkers
<1> QED
  BY <1>1, <1>2, <1>4, <1>5, <1>6 DEF Next, WorkerStep, UseTimer, TimePasses, vars

\* Every step leaves callbacks only to the loop that adds them.
LEMMA CallbackKeeps ==
    ASSUME LifeInv, [Next]_vars
    PROVE  CallbackInv'
<1> USE DEF LifeInv
<1>0. at \in [Worker -> Location] /\ cbs \in [Worker -> SUBSET Event]
  BY DEF LifeType, TypeOK, TimerTypeOK
<1>1. CASE \E w \in Worker : Collect(w)
  BY <1>0, <1>1 DEF Collect, GoTo, getExpiredcbs, CallbackInv
<1>2. CASE \E w \in Worker : AddCallback(w)
  BY <1>0, <1>2 DEF AddCallback, HandOn, CallbackInv
<1>3. CASE \E w \in Worker : PollBegins(w)
  BY <1>0, <1>3 DEF PollBegins, ReadClock, GoTo, CallbackInv
<1>4. CASE \E w \in Worker : AddAgain(w)
  BY <1>0, <1>4 DEF AddAgain, GoTo, timerVars, polls, CallbackInv
<1>5. ASSUME NEW w \in Worker,
             \/ Launch(w) \/ Loop(w) \/ Take(w) \/ TakeNothing(w)
             \/ YieldReady(w) \/ YieldOther(w) \/ (\E c \in Client : Spawn(w, c)) \/ Leave(w)
      PROVE  CallbackInv'
  <2>1. cbs' = cbs /\ at[w] # "add"
    BY <1>5 DEF Launch, Loop, Take, TakeNothing, YieldReady, YieldOther, Spawn, Leave,
                timerVars, polls
  <2>2. \A v \in Worker \ {w} : at'[v] = at[v]
    BY <1>0, <1>5 DEF Launch, Loop, Take, TakeNothing, YieldReady, YieldOther, Spawn, Leave,
                      GoTo
  <2> QED BY <2>1, <2>2 DEF CallbackInv
<1>6. CASE Program
  <2>1. cbs' = cbs
    BY <1>6 DEF Program, Start, Submit, Stop, StopSpins, StopEnsures, timerVars, polls
  <2>2. \A w \in Worker : at[w] = "add" => at'[w] = "add"
    BY <1>6 DEF Program, Start, Submit, Stop, StopSpins, StopEnsures
  <2> QED BY <2>1, <2>2 DEF CallbackInv
<1>7. CASE (\E e \in Event : UseTimer(e)) \/ TimePasses
  <2>1. UNCHANGED <<cbs, at>>
    BY <1>7 DEF UseTimer, TimePasses, Use, Tick, NewTimeEvent, addTimeEvent, resetTime, wake,
                cancel, stop, setRepeated, polls, lifeVars
  <2> QED BY <2>1 DEF CallbackInv
<1>8. CASE UNCHANGED vars
  BY <1>8 DEF vars, timerVars, polls, lifeVars, CallbackInv
<1> QED BY <1>1, <1>2, <1>3, <1>4, <1>5, <1>6, <1>7, <1>8 DEF Next, WorkerStep

\* A task goes in only while all threads are up, and none leaves before m_stop.
LEMMA LaunchedKeeps ==
    ASSUME LifeInv, [Next]_vars
    PROVE  LaunchedInv'
<1> USE DEF LifeInv
<1>0. at \in [Worker -> Location]
  BY DEF LifeType, TypeOK
<1>1. CASE Start
  BY <1>1, SchedulerAssumption DEF Start, LaunchedInv, mainVars
<1>2. CASE \E c \in Client : Submit(c)
  BY <1>2, AllRunIsUp DEF Submit, LaunchedInv, Up
<1>3. CASE Stop \/ StopSpins \/ StopEnsures
  BY <1>3 DEF Stop, StopSpins, StopEnsures, LaunchedInv
<1>4. CASE \E w \in Worker, c \in Client : Spawn(w, c)
  BY <1>4, AllRunIsUp DEF Spawn, LaunchedInv, Up
<1>5. ASSUME NEW w \in Worker,
             \/ Launch(w) \/ Loop(w) \/ Take(w) \/ TakeNothing(w)
             \/ YieldReady(w) \/ YieldOther(w) \/ PollBegins(w) \/ Collect(w)
             \/ AddCallback(w) \/ AddAgain(w) \/ Leave(w)
      PROVE  LaunchedInv'
  <2>1. UNCHANGED <<m_stop, accepted>>
    BY <1>5 DEF Launch, Loop, Take, TakeNothing, YieldReady, YieldOther, PollBegins, Collect,
                AddCallback, AddAgain, Leave, mainVars
  <2>2. \/ at' = at
        \/ \E place \in Up \cup {"done"} :
              /\ at' = [at EXCEPT ![w] = place]
              /\ place \in {"leaving", "done"} => m_stop
    BY <1>5 DEF Launch, Loop, Take, TakeNothing, YieldReady, YieldOther, PollBegins, Collect,
                AddCallback, AddAgain, Leave, GoTo, Up, LaunchedInv
  <2> QED BY <1>0, <2>1, <2>2 DEF LaunchedInv, Up
<1>6. CASE UNCHANGED lifeVars
  BY <1>6 DEF lifeVars, mainVars, LaunchedInv
<1> QED
  BY <1>1, <1>2, <1>3, <1>4, <1>5, <1>6
     DEF Next, Program, WorkerStep, UseTimer, TimePasses, vars

\* Every step of stop() and beside it keeps what stop() may rely on.
LEMMA StopKeeps ==
    ASSUME LifeInv, [Next]_vars
    PROVE  StopInv'
<1> USE DEF LifeInv
<1>0. at \in [Worker -> Location]
  BY DEF LifeType, TypeOK
<1>1. CASE Start
  <2>1. stopping = "no"
    BY <1>1, SchedulerAssumption DEF Start, StopInv, LaunchedInv
  <2> QED BY <1>1, <2>1 DEF Start, StopInv, mainVars
<1>2. CASE \E c \in Client : Submit(c)
  BY <1>2 DEF Submit, StopInv
<1>3. CASE Stop
  BY <1>3 DEF Stop, StopInv
<1>4. CASE StopSpins
  <2>1. \A w \in Worker : at[w] \notin Up
    BY <1>4, ZeroCount DEF StopSpins, UpWorkers
  <2>2. \A w \in Worker : at[w] \notin {"off", "new"}
    BY <1>4 DEF StopSpins, StopInv, LaunchedInv
  <2>3. \A w \in Worker : at[w] = "done"
    BY <1>0, <2>1, <2>2 DEF Location, Up
  <2> QED BY <1>4, <2>3 DEF StopSpins, StopInv
<1>5. CASE StopEnsures
  <2>1. \A w \in Worker : at[w] = "done"
    BY <1>5 DEF StopEnsures, StopInv
  <2>2. m_runningThreads = 0
    BY <2>1, ZeroCount DEF UpWorkers, Up
  <2> QED BY <1>5, <2>1, <2>2 DEF StopEnsures, StopInv
<1>6. ASSUME NEW w \in Worker, WorkerStep(w) PROVE StopInv'
  <2>1. UNCHANGED <<m_stop, stopping>> /\ (accepted # {} => accepted' # {})
    BY <1>6 DEF WorkerStep, Launch, Loop, Take, TakeNothing, YieldReady, YieldOther, Spawn,
                PollBegins, Collect, AddCallback, AddAgain, Leave, mainVars
  <2>2. at[w] # "done"
    BY <1>6 DEF WorkerStep, Launch, Loop, Take, TakeNothing, YieldReady, YieldOther, Spawn,
                PollBegins, Collect, AddCallback, AddAgain, Leave
  <2>3. stopping \notin {"counted", "returned"}
    BY <2>2 DEF StopInv
  <2> QED BY <2>1, <2>3 DEF StopInv
<1>7. CASE UNCHANGED lifeVars
  BY <1>7 DEF lifeVars, mainVars, StopInv
<1> QED
  BY <1>1, <1>2, <1>3, <1>4, <1>5, <1>6, <1>7 DEF Next, Program, UseTimer, TimePasses, vars

-----------------------------------------------------------------------------
(* The specification.                                                      *)

\* The invariant holds before start().
LEMMA LifeInitInv == Init => LifeInv
<1> SUFFICES ASSUME Init PROVE LifeInv
  OBVIOUS
<1>1. TimerInv
  BY TimerInitInv DEF Init
<1>2. UpWorkers = {}
  BY DEF Init, UpWorkers, Up
<1>3. CountInv
  BY <1>2, FS_EmptySet DEF Init, CountInv
<1>4. TypeOK
  BY <1>1 DEF Init, TypeOK, TimerInv, Location, Stopping, Task
<1>5. CallbackInv /\ LaunchedInv /\ StopInv
  BY DEF Init, TimerInit, CallbackInv, LaunchedInv, StopInv
<1> QED BY <1>1, <1>3, <1>4, <1>5 DEF LifeInv, LifeType

\* Every step keeps the invariant.
LEMMA LifeNextInv == LifeInv /\ [Next]_vars => LifeInv'
<1> SUFFICES ASSUME LifeInv, [Next]_vars PROVE LifeInv'
  OBVIOUS
<1>1. TimerInv'
  BY LifeUsesTimer, TimerNextInv DEF LifeInv, LifeType
<1>2. CountInv'
  BY CountKeeps
<1>3. m_runningThreads' \in Nat
  <2>1. UpWorkers' \in SUBSET Worker
    BY DEF UpWorkers
  <2>2. Cardinality(UpWorkers') \in Nat
    BY <2>1, SchedulerAssumption, FS_Subset, FS_CardinalityType
  <2> QED BY <1>2, <2>2 DEF CountInv
<1>4. TypeOK'
  BY <1>1, <1>3, TaskTypes, PlaceTypes DEF TypeOK, TimerInv
<1> QED
  BY <1>1, <1>2, <1>4, CallbackKeeps, LaunchedKeeps, StopKeeps DEF LifeInv, LifeType

\* The scheduler's variables keep their types: the queue holds tasks and no null pointer
\* (scheduler.cpp:131-136 adds cur_coroutine only if there is one).
THEOREM LifeTypeOK == Spec => []TypeOK
BY LifeInitInv, LifeNextInv, PTL DEF Spec, LifeInv, LifeType

\* Whoever ignores the answer of addTask may do so until stop() (scheduler.cpp:79).
THEOREM AllUpUntilStop == Spec => []UpUntilStop
<1>1. LifeInv => UpUntilStop
  <2> SUFFICES ASSUME LifeInv, accepted # {}, ~m_stop
               PROVE  m_runningThreads = Cardinality(Worker)
    BY DEF UpUntilStop
  <2>1. \A w \in Worker : at[w] \in Up
    BY DEF LifeInv, LifeType, TypeOK, LaunchedInv, Location, Up
  <2>2. UpWorkers = Worker
    BY <2>1 DEF UpWorkers
  <2> QED BY <2>2, FullCount
<1> QED BY <1>1, LifeInitInv, LifeNextInv, PTL DEF Spec

\* stop() neither throws nor returns before the last thread is through (scheduler.cpp:46).
THEOREM StopEndsEverything == Spec => []StopIsFinal
<1>1. LifeInv => StopIsFinal
  BY DEF LifeInv, StopInv, StopIsFinal
<1> QED BY <1>1, LifeInitInv, LifeNextInv, PTL DEF Spec

\* The scheduler uses its timer in one of the ways that Timer allows: it implements it.
THEOREM SchedulerImplementsTimer == Spec => TimerSpec
<1>1. Init => TimerInit
  BY DEF Init
<1>2. LifeInv /\ [Next]_vars => [TimerNext]_timerVars
  BY LifeUsesTimer
<1> QED BY <1>1, <1>2, LifeInitInv, LifeNextInv, PTL DEF Spec, TimerSpec

\* So no callback of a scheduler comes early either.
THEOREM SchedulerIsNeverEarly == Spec => NeverEarly
BY SchedulerImplementsTimer, NothingComesEarly

=============================================================================
