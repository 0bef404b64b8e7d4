----------------------------- MODULE ThreadPool -----------------------------
(***************************************************************************)
(* The thread pool of threadutil (ThreadPool.c).  Every operation works    *)
(* under tp->mutex and gives it up only in a condition wait, so one action *)
(* below is one critical section: from the lock (or the return of a wait)  *)
(* to the unlock (or the next wait).                                       *)
(*                                                                         *)
(* tp->condition is signalled to one idle worker; tp->start_and_shutdown   *)
(* is broadcast to the callers that wait for a thread to start, for a      *)
(* persistent job to be picked up, or for all threads to end.              *)
(***************************************************************************)
EXTENDS Integers, Sequences, FiniteSets

CONSTANTS
  Workers,        \* identities of pool threads; as many as the system can create
  Clients,        \* threads of the application and of other pools
  Jobs,           \* each job is submitted at most once
  NULL,
  InitAttr,       \* the attributes given to ThreadPoolInit
  Attrs,          \* the attributes ThreadPoolSetAttr may be given
  JobsMayAdd,     \* whether running jobs may themselves add jobs to this pool
  JobsPerThread,
  MaxJobsTotal,
  StarvationTime, \* in clock ticks
  MaxIdleTime     \* in clock ticks

INFINITE_THREADS == -1
INVALID_JOB_ID == -2

Attr == [minThreads : Nat, maxThreads : Nat \cup {INFINITE_THREADS}]

ASSUME PoolAssumption ==
  /\ IsFiniteSet(Workers) /\ IsFiniteSet(Clients) /\ IsFiniteSet(Jobs)
  /\ Workers \cap Clients = {}
  /\ NULL \notin Jobs
  /\ InitAttr \in Attr /\ Attrs \subseteq Attr
  /\ JobsMayAdd \in BOOLEAN
  /\ JobsPerThread \in Nat \ {0} /\ MaxJobsTotal \in Nat
  /\ StarvationTime \in Nat /\ MaxIdleTime \in Nat

VARIABLES
  phase,             \* life of the pool; "shutdown" is tp->shutdown = 1
  attr,              \* tp->attr
  lastJobId,
  queue,             \* tp->lowJobQ, tp->medJobQ, tp->highJobQ
  persistentJob,     \* the one slot for a persistent job that waits
  totalThreads,
  persistentThreads,
  idleThreads,       \* tp->stats.idleThreads
  workerThreads,     \* tp->stats.workerThreads
  wpc,               \* where each thread is in WorkerThread
  wjob,              \* local variable job of WorkerThread
  persistent,        \* local variable persistent of WorkerThread
  call,              \* the pool operation each caller is inside
  notified,          \* waiting callers reached by a broadcast
  jobId,             \* the id stored in the job
  returned,          \* the id handed back to the submitter
  fate,              \* what became of the job record
  age                \* ticks since requestTime, while the job is queued

idVars == <<jobId, returned, lastJobId>>
counters == <<totalThreads, persistentThreads, idleThreads, workerThreads>>
locals == <<wjob, persistent>>
vars == <<phase, attr, queue, persistentJob, idVars, fate, age,
          counters, wpc, locals, call, notified>>

Callers == Clients \cup Workers
Priorities == {"low", "med", "high"}

(***************************************************************************)
(* A caller is outside the pool ("idle"), waits in CreateWorker on behalf  *)
(* of an operation ("init", "setattr", "add", "addPersistent"), waits for  *)
(* its persistent job to be picked up ("persist") or for the threads to    *)
(* end ("join"), or is about to shut down a pool it could not fill         *)
(* ("failed").  The other fields are the locals that survive a wait.       *)
(***************************************************************************)
CreatePcs == {"init", "setattr", "add", "addPersistent"}
CallPcs == CreatePcs \cup {"idle", "persist", "join", "failed"}
Frame == [pc : CallPcs, job : Jobs \cup {NULL}, jobs : Nat, threads : Int, target : Nat]
At(pc, j) == [pc |-> pc, job |-> j, jobs |-> 0, threads |-> 0, target |-> 0]
Idle == At("idle", NULL)

\* A thread does not exist, has been created but has not run yet, is outside
\* the mutex (running its job, or new), or is in ithread_cond_timedwait: still
\* waiting, or about to return because of a signal or of the timeout.
WorkerPcs == {"none", "starting", "busy", "waiting", "signaled", "timedout"}

\* tp->shutdown is never reset.
shutdown == phase \in {"shutdown", "destroyed"}

MaxAge == IF StarvationTime > MaxIdleTime THEN StarvationTime ELSE MaxIdleTime

Queued(j) == \E p \in Priorities : \E i \in DOMAIN queue[p] : queue[p][i] = j
QueuedJobs == Len(queue["high"]) + Len(queue["low"]) + Len(queue["med"])
HasWork == QueuedJobs > 0 \/ persistentJob # NULL
Fresh(j) == fate[j] = "new" /\ \A c \in Callers : call[c].job # j

\* Clients call the pool while it is up; a job may call it from its worker for
\* as long as it runs, also while the pool is being shut down.
MayCall(c) ==
  /\ call[c].pc = "idle"
  /\ \/ c \in Clients /\ phase = "running"
     \/ /\ JobsMayAdd /\ c \in Workers
        /\ wpc[c] = "busy" /\ wjob[c] # NULL

-----------------------------------------------------------------------------
(* Condition variables *)

Blocked == {c \in Callers : call[c].pc \in CreatePcs \cup {"persist", "join"}}

\* ithread_cond_broadcast(&tp->start_and_shutdown)
Broadcast == notified' = notified \cup Blocked

\* A signal that nobody gets.
Signal_Lost == UNCHANGED wpc

\* ithread_cond_signal(&tp->condition): one waiting worker, if there is any.
Signal ==
  \/ \E w \in Workers : wpc[w] = "waiting" /\ wpc' = [wpc EXCEPT ![w] = "signaled"]
  \/ (\A w \in Workers : wpc[w] # "waiting") /\ UNCHANGED wpc

\* A caller starts to wait, or returns from its operation.
Becomes(c, frame) ==
  /\ call' = [call EXCEPT ![c] = frame]
  /\ notified' = notified \ {c}

-----------------------------------------------------------------------------
(* CreateWorker and AddWorker *)

CanCreate(a) ==
  /\ a.maxThreads = INFINITE_THREADS \/ totalThreads + 1 <= a.maxThreads
  /\ \E w \in Workers : wpc[w] = "none"

\* CreateWorker up to its wait: the caller sleeps until totalThreads reaches
\* the value it computed on entry.
CreateWorker(c, pc, j, jobs, threads) ==
  /\ \E w \in Workers : wpc[w] = "none" /\ wpc' = [wpc EXCEPT ![w] = "starting"]
  /\ Becomes(c, [pc |-> pc, job |-> j, jobs |-> jobs, threads |-> threads,
                 target |-> totalThreads + 1])

\* The caller's wait in CreateWorker is over.
Created(c, pc) ==
  /\ call[c].pc = pc /\ c \in notified
  /\ totalThreads >= call[c].target

\* The rest of ThreadPoolAdd once no more workers are needed or possible.
AddDone(c, j) ==
  /\ Signal
  /\ returned' = [returned EXCEPT ![j] = lastJobId]
  /\ lastJobId' = lastJobId + 1
  /\ Becomes(c, Idle)

\* The loop of AddWorker, then the end of ThreadPoolAdd.  The number of jobs is
\* the one read before the loop.
AddWorker(c, j, jobs, threads) ==
  IF (threads = 0 \/ jobs \div threads >= JobsPerThread) /\ CanCreate(attr)
  THEN CreateWorker(c, "add", j, jobs, threads) /\ UNCHANGED <<returned, lastJobId>>
  ELSE AddDone(c, j)

-----------------------------------------------------------------------------
(* Operations *)

\* The loop of ThreadPoolInit and ThreadPoolSetAttr that starts the minimum of
\* threads, i of them done.
FillToMin(c, pc, i, a) ==
  \/ \* enough threads, or no more to be had: the operation ends
     /\ i >= a.minThreads \/ ~CanCreate(a)
     /\ IF pc = "setattr" THEN Signal ELSE UNCHANGED wpc
     /\ Becomes(c, At(IF i >= a.minThreads THEN "idle" ELSE "failed", NULL))
     /\ phase' = IF pc = "setattr" THEN phase
                 ELSE IF i >= a.minThreads THEN "running" ELSE "starting"
  \/ /\ i < a.minThreads /\ CanCreate(a)
     /\ CreateWorker(c, pc, NULL, 0, i)
     /\ phase' = IF pc = "setattr" THEN phase ELSE "starting"

ThreadPoolInit(c) ==
  /\ phase = "unused"
  /\ FillToMin(c, "init", 0, attr)
  /\ UNCHANGED <<attr, queue, persistentJob, idVars, fate, age, counters, locals>>

ThreadPoolSetAttr(c, a) ==
  /\ MayCall(c)
  /\ attr' = a
  /\ FillToMin(c, "setattr", totalThreads, a)
  /\ UNCHANGED <<queue, persistentJob, idVars, fate, age, counters, locals>>

FillResume(c) ==
  /\ \E pc \in {"init", "setattr"} :
       Created(c, pc) /\ FillToMin(c, pc, call[c].threads + 1, attr)
  /\ UNCHANGED <<attr, queue, persistentJob, idVars, fate, age, counters, locals>>

\* A job beyond MaxJobsTotal is refused with EOUTOFMEM and changes nothing.
ThreadPoolAdd(c, j, p) ==
  /\ MayCall(c) /\ Fresh(j)
  /\ QueuedJobs < MaxJobsTotal
  /\ queue' = [queue EXCEPT ![p] = Append(@, j)]
  /\ jobId' = [jobId EXCEPT ![j] = lastJobId]
  /\ fate' = [fate EXCEPT ![j] = "live"]
  /\ AddWorker(c, j, QueuedJobs + 1, totalThreads - persistentThreads)
  /\ UNCHANGED <<phase, attr, persistentJob, age, counters, locals>>

AddResume(c) ==
  /\ Created(c, "add")
  /\ AddWorker(c, call[c].job, call[c].jobs, call[c].threads + 1)
  /\ UNCHANGED <<phase, attr, queue, persistentJob, jobId, fate, age, counters, locals>>

\* Put the job in the slot, overwriting what may still be there, and wait.
SchedulePersistent(c, j) ==
  /\ persistentJob' = j
  /\ jobId' = [jobId EXCEPT ![j] = lastJobId]
  /\ fate' = [fate EXCEPT ![j] = "live"]
  /\ Signal
  /\ Becomes(c, At("persist", j))

\* At the maximum the call is refused with EMAXTHREADS if only one thread is
\* left for ordinary jobs.  Below it, a thread is created if possible.
ThreadPoolAddPersistent(c, j) ==
  /\ MayCall(c) /\ c \in Clients /\ Fresh(j)
  /\ IF totalThreads < attr.maxThreads
     THEN IF CanCreate(attr)
          THEN CreateWorker(c, "addPersistent", j, 0, 0) /\ UNCHANGED <<persistentJob, jobId, fate>>
          ELSE SchedulePersistent(c, j)
     ELSE totalThreads - persistentThreads - 1 # 0 /\ SchedulePersistent(c, j)
  /\ UNCHANGED <<phase, attr, queue, returned, lastJobId, age, counters, locals>>

AddPersistentResume(c) ==
  /\ Created(c, "addPersistent")
  /\ SchedulePersistent(c, call[c].job)
  /\ UNCHANGED <<phase, attr, queue, returned, lastJobId, age, counters, locals>>

AddPersistentDone(c) ==
  /\ call[c].pc = "persist" /\ c \in notified
  /\ persistentJob = NULL
  /\ returned' = [returned EXCEPT ![call[c].job] = lastJobId]
  /\ lastJobId' = lastJobId + 1
  /\ Becomes(c, Idle)
  /\ UNCHANGED <<phase, attr, queue, persistentJob, jobId, fate, age, counters, wpc, locals>>

\* The first job with the given id in the high, medium, low queue or the slot.
FirstIn(s, id) == {i \in DOMAIN s : jobId[s[i]] = id /\ \A k \in 1..(i-1) : jobId[s[k]] # id}

\* The record is freed but stays in the queue.
RemoveFrom_StaysQueued(p, i) ==
  /\ fate' = [fate EXCEPT ![queue[p][i]] = "removed"]
  /\ UNCHANGED <<queue, persistentJob>>

RemoveFrom(p, i) ==
  /\ queue' = [queue EXCEPT ![p] = SubSeq(@, 1, i-1) \o SubSeq(@, i+1, Len(@))]
  /\ fate' = [fate EXCEPT ![queue[p][i]] = "removed"]
  /\ UNCHANGED persistentJob

RemoveSlot ==
  /\ persistentJob' = NULL
  /\ fate' = [fate EXCEPT ![persistentJob] = "removed"]
  /\ UNCHANGED queue

Holds(p, id) == FirstIn(queue[p], id) # {}

ThreadPoolRemove(c, id) ==
  /\ MayCall(c) /\ c \in Clients
  /\ \/ \E i \in FirstIn(queue["high"], id) : RemoveFrom("high", i)
     \/ /\ ~Holds("high", id)
        /\ \E i \in FirstIn(queue["med"], id) : RemoveFrom("med", i)
     \/ /\ ~Holds("high", id) /\ ~Holds("med", id)
        /\ \E i \in FirstIn(queue["low"], id) : RemoveFrom("low", i)
     \/ /\ \A p \in Priorities : ~Holds(p, id)
        /\ persistentJob # NULL /\ jobId[persistentJob] = id
        /\ RemoveSlot
  /\ UNCHANGED <<phase, attr, idVars, age, counters, wpc, locals, call, notified>>

EmptyQueues == [p \in Priorities |-> <<>>]

\* ThreadPoolShutdown: discard what is queued, wake every idle worker, and wait
\* unless there is no thread.  The application calls it when none of its own
\* threads is inside the pool, and so does an Init or SetAttr that failed.
ThreadPoolShutdown(c) ==
  /\ \/ /\ MayCall(c) /\ c \in Clients
        /\ \A d \in Clients : call[d].pc = "idle"
     \/ call[c].pc = "failed"
  /\ fate' = [j \in Jobs |-> IF Queued(j) \/ j = persistentJob THEN "discarded" ELSE fate[j]]
  /\ queue' = EmptyQueues
  /\ persistentJob' = NULL
  /\ wpc' = [w \in Workers |-> IF wpc[w] = "waiting" THEN "signaled" ELSE wpc[w]]
  /\ phase' = IF totalThreads > 0 THEN "shutdown" ELSE "destroyed"
  /\ Becomes(c, IF totalThreads > 0 THEN At("join", NULL) ELSE Idle)
  /\ UNCHANGED <<attr, idVars, age, counters, locals>>

\* The end of one thread is taken for the end of all.
ShutdownDone_NoRecheck(c) ==
  /\ call[c].pc = "join" /\ c \in notified
  /\ phase' = "destroyed"
  /\ Becomes(c, Idle)
  /\ UNCHANGED <<attr, queue, persistentJob, idVars, fate, age, counters, wpc, locals>>

ShutdownDone(c) ==
  /\ call[c].pc = "join" /\ c \in notified
  /\ totalThreads = 0
  /\ phase' = "destroyed"
  /\ Becomes(c, Idle)
  /\ UNCHANGED <<attr, queue, persistentJob, idVars, fate, age, counters, wpc, locals>>

\* Woken by a broadcast, but what the caller waits for has not happened.
WaitAgain(c) ==
  /\ c \in notified
  /\ \/ call[c].pc \in CreatePcs /\ totalThreads < call[c].target
     \/ call[c].pc = "persist" /\ persistentJob # NULL
     \/ call[c].pc = "join" /\ totalThreads > 0
  /\ notified' = notified \ {c}
  /\ UNCHANGED <<phase, attr, queue, persistentJob, idVars, fate, age, counters, wpc, locals, call>>

-----------------------------------------------------------------------------
(* Worker threads *)

\* How many jobs at the head of s have all waited for t ticks.
AgedPrefix(s, t) == Cardinality({n \in DOMAIN s : \A i \in 1..n : age[s[i]] >= t})

(***************************************************************************)
(* BumpPriority.  Its loop moves the head of the medium queue to the high  *)
(* queue while that head has starved, and otherwise the head of the low    *)
(* queue to the medium one while it has waited for maxIdleTime.  So the    *)
(* aged low jobs join the medium queue, and of the result the longest      *)
(* starved prefix joins the high queue.                                    *)
(***************************************************************************)
Bumped ==
  LET low == queue["low"]
      m   == AgedPrefix(low, MaxIdleTime)
      med == queue["med"] \o SubSeq(low, 1, m)
      k   == AgedPrefix(med, StarvationTime)
  IN  [p \in Priorities |->
         CASE p = "low"  -> SubSeq(low, m+1, Len(low))
           [] p = "med"  -> SubSeq(med, k+1, Len(med))
           [] p = "high" -> queue["high"] \o SubSeq(med, 1, k)]

Highest_MedFirst(q) ==
  IF q["med"] # <<>> THEN "med" ELSE IF q["high"] # <<>> THEN "high" ELSE "low"

Highest(q) == IF q["high"] # <<>> THEN "high" ELSE IF q["med"] # <<>> THEN "med" ELSE "low"

WorkerStart(w) ==
  /\ wpc[w] = "starting"
  /\ totalThreads' = totalThreads + 1
  /\ wpc' = [wpc EXCEPT ![w] = "busy"]
  /\ Broadcast
  /\ UNCHANGED <<phase, attr, queue, persistentJob, idVars, fate, age,
                 persistentThreads, idleThreads, workerThreads, locals, call>>

\* A thread ends without telling those who wait for it.
Exit_Silent(w) ==
  /\ wpc' = [wpc EXCEPT ![w] = "none"]
  /\ wjob' = [wjob EXCEPT ![w] = NULL]
  /\ persistent' = [persistent EXCEPT ![w] = -1]
  /\ totalThreads' = totalThreads - 1
  /\ UNCHANGED <<persistentJob, notified>>

\* The thread is counted out twice.
Exit_Twice(w) ==
  /\ wpc' = [wpc EXCEPT ![w] = "none"]
  /\ wjob' = [wjob EXCEPT ![w] = NULL]
  /\ persistent' = [persistent EXCEPT ![w] = -1]
  /\ totalThreads' = totalThreads - 2
  /\ Broadcast
  /\ UNCHANGED persistentJob

\* The thread ends.
Exit(w) ==
  /\ wpc' = [wpc EXCEPT ![w] = "none"]
  /\ wjob' = [wjob EXCEPT ![w] = NULL]
  /\ persistent' = [persistent EXCEPT ![w] = -1]
  /\ totalThreads' = totalThreads - 1
  /\ Broadcast
  /\ UNCHANGED persistentJob

Take(w, j, isPersistent) ==
  /\ wpc' = [wpc EXCEPT ![w] = "busy"]
  /\ wjob' = [wjob EXCEPT ![w] = j]
  /\ persistent' = [persistent EXCEPT ![w] = isPersistent]
  /\ UNCHANGED totalThreads

\* An idle thread ends after a timed out wait if there are more than the minimum,
\* and in any case if there are more than the maximum.
MayDie(timedOut) ==
  \/ timedOut /\ totalThreads > attr.minThreads
  \/ attr.maxThreads # INFINITE_THREADS /\ totalThreads > attr.maxThreads

(***************************************************************************)
(* From the test of the inner loop of WorkerThread to the next wait, job   *)
(* or end; idle, pt and wt are the three counters as the thread finds them *)
(* there.                                                                  *)
(***************************************************************************)
LookForWork(w, timedOut, idle, pt, wt) ==
  \/ \* wait for a job
     /\ ~HasWork /\ ~shutdown /\ ~MayDie(timedOut)
     /\ wpc' = [wpc EXCEPT ![w] = "waiting"]
     /\ wjob' = [wjob EXCEPT ![w] = NULL]
     /\ idleThreads' = idle /\ persistentThreads' = pt /\ workerThreads' = wt
     /\ persistent' = [persistent EXCEPT ![w] = -1]
     /\ UNCHANGED <<queue, persistentJob, totalThreads, notified>>
  \/ \* idle for too long, or too many threads
     /\ ~HasWork /\ ~shutdown /\ MayDie(timedOut)
     /\ idleThreads' = idle - 1 /\ persistentThreads' = pt /\ workerThreads' = wt
     /\ Exit(w) /\ UNCHANGED queue
  \/ \* shutdown
     /\ shutdown
     /\ idleThreads' = idle - 1 /\ persistentThreads' = pt /\ workerThreads' = wt
     /\ Exit(w) /\ queue' = Bumped
  \/ \* the persistent job first
     /\ ~shutdown /\ persistentJob # NULL
     /\ queue' = Bumped
     /\ Take(w, persistentJob, 1)
     /\ persistentJob' = NULL
     /\ idleThreads' = idle - 1 /\ persistentThreads' = pt + 1 /\ workerThreads' = wt
     /\ Broadcast
  \/ \* the oldest job of the highest priority
     /\ ~shutdown /\ persistentJob = NULL /\ QueuedJobs > 0
     /\ LET p == Highest(Bumped)
        IN  /\ queue' = [Bumped EXCEPT ![p] = Tail(@)]
            /\ Take(w, Head(Bumped[p]), 0)
     /\ idleThreads' = idle - 1 /\ persistentThreads' = pt /\ workerThreads' = wt + 1
     /\ UNCHANGED <<persistentJob, notified>>

\* A thread that has run a persistent job stays counted as persistent.
WorkerReturn_StaysPersistent(w) ==
  /\ wpc[w] = "busy" /\ call[w].pc = "idle"
  /\ fate' = [j \in Jobs |-> IF j = wjob[w] THEN "done" ELSE fate[j]]
  /\ LookForWork(w, FALSE, idleThreads + 1, persistentThreads,
                 workerThreads - (IF persistent[w] = 0 THEN 1 ELSE 0))
  /\ UNCHANGED <<phase, attr, idVars, age, call>>

\* Top of the outer loop: free the job that has run, if any, and look for work.
WorkerReturn(w) ==
  /\ wpc[w] = "busy" /\ call[w].pc = "idle"
  /\ fate' = [j \in Jobs |-> IF j = wjob[w] THEN "done" ELSE fate[j]]
  /\ LookForWork(w, FALSE, idleThreads + 1,
                 persistentThreads - (IF persistent[w] = 1 THEN 1 ELSE 0),
                 workerThreads - (IF persistent[w] = 0 THEN 1 ELSE 0))
  /\ UNCHANGED <<phase, attr, idVars, age, call>>

WorkerWake(w) ==
  /\ wpc[w] \in {"signaled", "timedout"}
  /\ LookForWork(w, wpc[w] = "timedout", idleThreads, persistentThreads, workerThreads)
  /\ UNCHANGED <<phase, attr, idVars, fate, age, call>>

WorkerTimeout(w) ==
  /\ wpc[w] = "waiting"
  /\ wpc' = [wpc EXCEPT ![w] = "timedout"]
  /\ UNCHANGED <<phase, attr, queue, persistentJob, idVars, fate, age, counters, locals,
                 call, notified>>

\* Time passes for the jobs that wait.
Tick ==
  /\ \E j \in Jobs : Queued(j) /\ age[j] < MaxAge
  /\ age' = [j \in Jobs |-> IF Queued(j) /\ age[j] < MaxAge THEN age[j] + 1 ELSE age[j]]
  /\ UNCHANGED <<phase, attr, queue, persistentJob, idVars, fate, counters, wpc, locals,
                 call, notified>>

-----------------------------------------------------------------------------
Init ==
  /\ phase = "unused" /\ attr = InitAttr
  /\ lastJobId = 0
  /\ queue = [p \in Priorities |-> <<>>] /\ persistentJob = NULL
  /\ totalThreads = 0 /\ persistentThreads = 0 /\ idleThreads = 0 /\ workerThreads = 0
  /\ wpc = [w \in Workers |-> "none"]
  /\ wjob = [w \in Workers |-> NULL]
  /\ persistent = [w \in Workers |-> -1]
  /\ call = [c \in Callers |-> Idle] /\ notified = {}
  /\ jobId = [j \in Jobs |-> INVALID_JOB_ID]
  /\ returned = [j \in Jobs |-> INVALID_JOB_ID]
  /\ fate = [j \in Jobs |-> "new"]
  /\ age = [j \in Jobs |-> 0]

WorkerStep(w) == WorkerStart(w) \/ WorkerReturn(w) \/ WorkerWake(w) \/ WorkerTimeout(w)

CallerStep(c) ==
  \/ FillResume(c) \/ AddResume(c) \/ AddPersistentResume(c) \/ AddPersistentDone(c)
  \/ ShutdownDone(c) \/ WaitAgain(c)

Next ==
  \/ \E w \in Workers : WorkerStep(w)
  \/ \E c \in Callers : CallerStep(c)
  \/ \E c \in Callers, j \in Jobs, p \in Priorities : ThreadPoolAdd(c, j, p)
  \/ \E c \in Callers : ThreadPoolShutdown(c)
  \/ \E c \in Clients : ThreadPoolInit(c)
  \/ \E c \in Clients, a \in Attrs : ThreadPoolSetAttr(c, a)
  \/ \E c \in Clients, j \in Jobs : ThreadPoolAddPersistent(c, j)
  \/ \E c \in Clients, j \in Jobs : ThreadPoolRemove(c, returned[j])
  \/ Tick

Spec == Init /\ [][Next]_vars

\* Threads that can run are run, callers that were woken go on, timed waits end
\* and jobs return.  Nobody has to call the pool.
FairSpec ==
  /\ Spec
  /\ \A w \in Workers : WF_vars(WorkerStart(w)) /\ WF_vars(WorkerReturn(w)) /\ WF_vars(WorkerWake(w))
  /\ \A c \in Callers : WF_vars(CallerStep(c))
  /\ \A c \in Clients : WF_vars(call[c].pc = "failed" /\ ThreadPoolShutdown(c))

-----------------------------------------------------------------------------
(* Types *)

StateOK ==
  /\ phase \in {"unused", "starting", "running", "shutdown", "destroyed"}
  /\ attr \in Attr
  /\ lastJobId \in Nat
  /\ queue \in [Priorities -> Seq(Jobs)]
  /\ persistentJob \in Jobs \cup {NULL}
  /\ wpc \in [Workers -> WorkerPcs]
  /\ wjob \in [Workers -> Jobs \cup {NULL}]
  /\ persistent \in [Workers -> {-1, 0, 1}]
  /\ call \in [Callers -> Frame]
  /\ notified \subseteq Callers
  /\ jobId \in [Jobs -> Int] /\ returned \in [Jobs -> Int]
  /\ fate \in [Jobs -> {"new", "live", "done", "removed", "discarded"}]
  /\ age \in [Jobs -> Nat]

CountersOK ==
  /\ totalThreads \in Nat /\ persistentThreads \in Nat
  /\ idleThreads \in Nat /\ workerThreads \in Nat

\* Every variable keeps its type; no counter ever drops below zero.
TypeOK == StateOK /\ CountersOK

-----------------------------------------------------------------------------
(* Safety *)

Awake(w) == wpc[w] \in {"busy", "waiting", "signaled", "timedout"}
Idling == {w \in Workers : wpc[w] \in {"waiting", "signaled", "timedout"}}

\* The four counters of ThreadPool are never off from the threads they count,
\* whatever the order in which threads start, time out, pick up jobs and end.
\* A thread is idle also between the signal and its return from the wait.
ThreadsCounted ==
  /\ totalThreads = Cardinality({w \in Workers : Awake(w)})
  /\ idleThreads = Cardinality(Idling)
  /\ persistentThreads = Cardinality({w \in Workers : persistent[w] = 1})
  /\ workerThreads = Cardinality({w \in Workers : persistent[w] = 0})

\* In how many places the pool holds job j.
Held(j) ==
  Cardinality({x \in Priorities \X (1..Cardinality(Jobs)) :
                 x[2] <= Len(queue[x[1]]) /\ queue[x[1]][x[2]] = j})
    + Cardinality({w \in Workers : wjob[w] = j})
    + (IF persistentJob = j THEN 1 ELSE 0)

\* An accepted job is in one place, a queue, the slot or one thread, until it has
\* been run, removed or discarded, and then in none: no job is run twice, lost,
\* or freed while something still refers to it.
OnePlacePerJob == \A j \in Jobs : Held(j) = (IF fate[j] = "live" THEN 1 ELSE 0)

Adding == {c \in Callers : call[c].pc = "add"}

\* While threads sleep, the jobs that nobody has signalled yet are those of the
\* callers still inside ThreadPoolAdd: for every other job a thread has been
\* woken that has not looked at the queues yet.  So no job waits with an idle
\* thread beside it.
EverySignalCounts ==
  (\E w \in Workers : wpc[w] = "waiting") =>
    QueuedJobs + (IF persistentJob = NULL THEN 0 ELSE 1)
      <= Cardinality({w \in Workers : wpc[w] \in {"signaled", "timedout"}}) + Cardinality(Adding)

Existing == {w \in Workers : wpc[w] # "none"}

\* ThreadPoolShutdown waits for all threads to finish (ThreadPool.c:1147): the
\* mutex and the condition variables are destroyed only when no thread, new
\* ones included, is left to use them, and with no job stranded in a list.
NothingOutlivesPool == phase = "destroyed" => Existing = {} /\ ~HasWork

-----------------------------------------------------------------------------
(* Action properties *)

\* i is served before j as the queues stand.
Before(q, i, j) ==
  \/ \E p \in Priorities : \E m, n \in DOMAIN q[p] : m < n /\ q[p][m] = i /\ q[p][n] = j
  \/ \E p, r \in Priorities :
       /\ <<p, r>> \in {<<"high", "med">>, <<"high", "low">>, <<"med", "low">>}
       /\ \E m \in DOMAIN q[p], n \in DOMAIN q[r] : q[p][m] = i /\ q[r][n] = j

SameQueue(i, j) ==
  \E p \in Priorities : \E m, n \in DOMAIN queue[p] : queue[p][m] = i /\ queue[p][n] = j

Started(j) == \E w \in Workers : wjob[w] # j /\ wjob'[w] = j

\* Jobs of one priority are served in the order of submission: a job enters a
\* queue behind those already there, bumping never lets it overtake an older job
\* of its own queue, and of two jobs of one queue the older one starts first.
FifoWithinPriority ==
  [][\A i, j \in Jobs : Queued(i) =>
       /\ ~Queued(j) /\ SameQueue(i, j)' => Before(queue', i, j)
       /\ SameQueue(i, j) /\ Before(queue, i, j) =>
            /\ Started(j) => ~Queued(i)'
            /\ Queued(i)' /\ Queued(j)' => Before(queue', i, j)]_vars

-----------------------------------------------------------------------------
(* Liveness *)

\* Every accepted job is in the end run, removed or discarded.
JobsEnd == \A j \in Jobs : fate[j] = "live" ~> fate[j] # "live"

\* A shutdown ends with the pool destroyed: no thread misses it.
ShutdownEnds == phase = "shutdown" ~> phase = "destroyed"
-----------------------------------------------------------------------------
(* Refinement *)

\* The pool as its users see it: a live job is running once a thread holds it.
Status ==
  [j \in Jobs |-> IF fate[j] # "live" THEN fate[j]
                  ELSE IF \E w \in Workers : wjob[w] = j THEN "running" ELSE "queued"]

AbstractPool == INSTANCE JobPool WITH
  MaxRunning <- InitAttr.maxThreads, status <- Status, open <- phase = "running"

\* With one caller ThreadPool implements what its header promises.
ImplementsJobPool == AbstractPool!Spec
=============================================================================
