---------------------------- MODULE TimerThread ----------------------------
(***************************************************************************)
(* threadutil/TimerThread.c: a list of events ordered by time, and one     *)
(* persistent job of a thread pool that hands each event to that pool when *)
(* its time has come.  Time is a clock in whole seconds, as time() is.     *)
(*                                                                         *)
(* The module is extended by the modules of the timer's users, which call  *)
(* TimerThreadSchedule and TimerThreadRemove inside their own actions.     *)
(***************************************************************************)
EXTENDS Integers, Sequences, FiniteSets, SequencesExt

CONSTANTS
  MaxEventId,  \* bound on the events scheduled in a behaviour
  MaxTime,     \* bound on the clock
  MaxJobs      \* how many jobs wait in the pool before it refuses one

ASSUME TimerAssumption ==
  MaxEventId \in Nat /\ MaxTime \in Nat /\ MaxJobs \in Nat

VARIABLES
  eventQ,       \* events in the order in which they will fire
  lastEventId,
  shutdown,
  timer,        \* where TimerThreadWorker is: "run" means inside the mutex
  wakeAt,       \* the time-out of its condition wait, Never while it does not wait
  now,
  jobs          \* the jobs the timer has handed to the pool and no thread has picked up

timerVars == <<eventQ, lastEventId, shutdown, timer, wakeAt, now>>

Never == MaxTime + 1
Queued(id) == \E i \in DOMAIN eventQ : eventQ[i].id = id

TimerInit ==
  /\ eventQ = <<>> /\ lastEventId = 0 /\ shutdown = 0
  /\ timer = "woken" /\ wakeAt = Never
  /\ now = 0 /\ jobs = {}

-----------------------------------------------------------------------------
(* What the users of the timer call.  The mutex is held for the whole call. *)
(* None of them touches the pool.                                           *)

MutexFree == timer # "run"

\* A waiting worker leaves its condition wait, and has yet to lock the mutex.
Signal ==
  IF timer = "wait" THEN timer' = "woken" /\ wakeAt' = Never ELSE UNCHANGED <<timer, wakeAt>>

\* Before the first event that is not earlier, or at the end: events of the same
\* time fire in reverse.  There is one such place, for the list is in order.
Places(time) ==
  {k \in 1..Len(eventQ) + 1 :
     /\ \A i \in 1..k - 1 : eventQ[i].eventTime < time
     /\ k <= Len(eventQ) => time <= eventQ[k].eventTime}

EventFor(job, time) == [id |-> lastEventId, eventTime |-> time, job |-> job]

\* The worker is not woken.
Schedule_NoSignal(job, time) ==
  /\ MutexFree
  /\ \E k \in Places(time) : eventQ' = InsertAt(eventQ, k, EventFor(job, time))
  /\ lastEventId' = lastEventId + 1
  /\ UNCHANGED <<shutdown, timer, wakeAt, now>>

TimerThreadSchedule(job, time) ==
  /\ MutexFree
  /\ \E k \in Places(time) : eventQ' = InsertAt(eventQ, k, EventFor(job, time))
  /\ lastEventId' = lastEventId + 1
  /\ Signal
  /\ UNCHANGED <<shutdown, now>>

\* The caller learns from Queued(id) whether the event was still there.
TimerThreadRemove(id) ==
  /\ MutexFree
  /\ IF Queued(id)
     THEN \E i \in DOMAIN eventQ :
            /\ eventQ[i].id = id
            /\ \A k \in 1..i - 1 : eventQ[k].id # id
            /\ eventQ' = RemoveAt(eventQ, i)
     ELSE UNCHANGED eventQ
  /\ UNCHANGED <<lastEventId, shutdown, timer, wakeAt, now>>

\* Up to the wait for the worker: the caller frees the arguments of the events.
TimerThreadShutdown ==
  /\ MutexFree
  /\ shutdown' = 1
  /\ eventQ' = <<>>
  /\ Signal
  /\ UNCHANGED <<lastEventId, now>>

-----------------------------------------------------------------------------
(* The steps of TimerThreadWorker *)

Due == eventQ # <<>> /\ Head(eventQ).eventTime <= now

\* A condition wait returns inside the mutex.
WorkerLock ==
  /\ timer = "woken"
  /\ timer' = "run"
  /\ UNCHANGED <<eventQ, lastEventId, shutdown, wakeAt, now, jobs>>

WorkerTimedOut ==
  /\ timer = "wait" /\ wakeAt <= now
  /\ timer' = "woken" /\ wakeAt' = Never
  /\ UNCHANGED <<eventQ, lastEventId, shutdown, now, jobs>>

WorkerReturn ==
  /\ timer = "run" /\ shutdown = 1
  /\ shutdown' = 0
  /\ timer' = "done"
  /\ UNCHANGED <<eventQ, lastEventId, wakeAt, now, jobs>>

\* The event leaves the list whether the pool takes the job or refuses it.
WorkerFire ==
  /\ timer = "run" /\ shutdown = 0 /\ Due
  /\ jobs' = IF Cardinality(jobs) < MaxJobs THEN jobs \cup {Head(eventQ).job} ELSE jobs
  /\ eventQ' = Tail(eventQ)
  /\ UNCHANGED <<lastEventId, shutdown, timer, wakeAt, now>>

WorkerWait ==
  /\ timer = "run" /\ shutdown = 0 /\ ~Due
  /\ timer' = "wait"
  /\ wakeAt' = IF eventQ = <<>> THEN Never ELSE Head(eventQ).eventTime
  /\ UNCHANGED <<eventQ, lastEventId, shutdown, now, jobs>>

Tick ==
  /\ now < MaxTime
  /\ now' = now + 1
  /\ UNCHANGED <<eventQ, lastEventId, shutdown, timer, wakeAt, jobs>>

TimerThreadWorker == WorkerLock \/ WorkerTimedOut \/ WorkerReturn \/ WorkerFire \/ WorkerWait

\* The worker has a step to take.
WorkerReady == timer \in {"woken", "run"} \/ (timer = "wait" /\ wakeAt <= now)

TimerNext == TimerThreadWorker \/ Tick

-----------------------------------------------------------------------------
\* While the worker sleeps its time-out is no later than the first event: an
\* event scheduled before all others shortens the wait (line 387 of TimerThread.c),
\* and one that is removed does not lengthen it.
WakesInTime ==
  timer = "wait" /\ eventQ # <<>> => wakeAt <= Head(eventQ).eventTime
=============================================================================
