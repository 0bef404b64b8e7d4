------------------------ MODULE ThreadPoolJobsProofs ------------------------
(***************************************************************************)
(* Proofs about the jobs of ThreadPool and its end, from what              *)
(* ThreadPoolProofs shows of its threads.                                  *)
(***************************************************************************)
EXTENDS ThreadPoolProofs, SequenceTheorems

Early == phase \in {"unused", "starting"}

(***************************************************************************)
(* The life of the pool: before it runs, one caller at most is in it and   *)
(* there is no work; nobody initialises it once it runs; who joins has     *)
(* shut it down; and from then on no thread goes to sleep.                 *)
(***************************************************************************)
LifeInv ==
  /\ Early => /\ ~HasWork /\ \A w \in Workers : wjob[w] = NULL
              /\ \A c \in Callers : call[c].pc \in {"idle", "init", "failed"}
              /\ \A c, d \in Callers : call[c].pc # "idle" /\ call[d].pc # "idle" => c = d
  /\ phase = "unused" => \A c \in Callers : call[c].pc = "idle"
  /\ \A c \in Callers : call[c].pc = "init" => phase = "starting"
  /\ \A c \in Callers : call[c].pc = "join" => shutdown
  /\ shutdown => \A w \in Workers : wpc[w] # "waiting"

\* No thread falls asleep.
NoNewSleeper == \A w \in Workers : wpc'[w] = "waiting" => wpc[w] = "waiting"

LEMMA NobodySleeps ==
  ASSUME StateOK,
         \/ Signal \/ UNCHANGED wpc
         \/ \E c, pc, j, jobs, threads : CreateWorker(c, pc, j, jobs, threads)
  PROVE  NoNewSleeper
<1> QED BY DEF StateOK, Signal, CreateWorker, NoNewSleeper

LEMMA InitLife == Init => LifeInv
<1> QED BY DEF Init, LifeInv, Early, HasWork, QueuedJobs, shutdown, Idle, At, Priorities

\* A call begins only once the pool runs, or from a job.
LEMMA CallsAreLate == ASSUME LifeInv, NEW c \in Callers, MayCall(c) PROVE ~Early /\ call[c].pc = "idle"
<1> QED BY DEF LifeInv, MayCall, Early

\* What a caller does inside a running pool.
LEMMA LateCall ==
  ASSUME StateOK, LifeInv, ~Early, NEW c \in Callers, NEW f, f.pc \notin {"init", "join"},
         Becomes(c, f) \/ UNCHANGED call, NoNewSleeper, UNCHANGED phase
  PROVE  LifeInv'
<1>1. ~Early'
  BY DEF Early
<1>2. \A d \in Callers : call'[d] = call[d] \/ call'[d] = f
  BY DEF Becomes, StateOK
<1> QED BY <1>1, <1>2 DEF LifeInv, NoNewSleeper, Early, shutdown

\* What a thread does: before the pool runs there is nothing for it to take.
LEMMA ThreadLife ==
  ASSUME StateOK, LifeInv, NEW w \in Workers, NEW timedOut, NEW idle, NEW pt, NEW wt,
         LookForWork(w, timedOut, idle, pt, wt), UNCHANGED <<phase, call>>
  PROVE  LifeInv'
<1>1. CASE Early
  <2>1. ~HasWork /\ ~shutdown /\ phase' = phase
    BY <1>1 DEF LifeInv, Early, shutdown
  <2>2. QueuedJobs = 0 /\ persistentJob = NULL
    BY <2>1, QueuedJobsType DEF HasWork
  <2>3. queue' = queue /\ persistentJob' = persistentJob /\ wjob' = [wjob EXCEPT ![w] = NULL]
    BY <2>1, <2>2 DEF LookForWork, Exit
  <2>4. ~HasWork'
    BY <2>1, <2>3 DEF HasWork, QueuedJobs
  <2>5. ~shutdown'
    BY <2>1 DEF shutdown
  <2> QED BY <1>1, <2>1, <2>3, <2>4, <2>5 DEF LifeInv, Early, StateOK
<1>2. CASE ~Early
  <2>1. shutdown => NoNewSleeper
    BY DEF LookForWork, Exit, StateOK, NoNewSleeper, shutdown
  <2>2. ~Early' /\ phase' = phase /\ call' = call
    BY <1>2 DEF Early
  <2> QED BY <1>2, <2>1, <2>2 DEF LifeInv, Early, shutdown, NoNewSleeper
<1> QED BY <1>1, <1>2

\* The loop that fills the pool, of ThreadPoolInit or ThreadPoolSetAttr.
LEMMA FillLife ==
  ASSUME StateOK, LifeInv, NEW c \in Callers, NEW pc \in {"init", "setattr"}, NEW i, NEW a,
         FillToMin(c, pc, i, a), UNCHANGED <<queue, persistentJob, wjob>>,
         pc = "init" => (phase = "unused" \/ (phase = "starting" /\ call[c].pc = "init")),
         pc = "setattr" => ~Early
  PROVE  LifeInv'
<1>1. NoNewSleeper
  BY NobodySleeps DEF FillToMin
<1>2. PICK f : Becomes(c, f) /\ f.pc \in {"idle", "failed", pc}
  <2>1. CASE \E s \in {"idle", "failed"} : Becomes(c, At(s, NULL))
    BY <2>1 DEF FillToMin, At
  <2>2. CASE CreateWorker(c, pc, NULL, 0, i)
    BY <2>2 DEF CreateWorker
  <2> QED BY <2>1, <2>2 DEF FillToMin
<1>3. CASE pc = "setattr"
  <2>1. phase' = phase /\ f.pc \notin {"init", "join"}
    BY <1>2, <1>3 DEF FillToMin
  <2> QED BY <1>1, <1>2, <1>3, <2>1, LateCall
<1>4. CASE pc = "init"
  <2>1. Early /\ ~HasWork /\ \A d \in Callers : d # c => call[d].pc = "idle"
    BY <1>4 DEF LifeInv, Early
  <2>2. call' = [call EXCEPT ![c] = f] /\ call \in [Callers -> Frame]
    BY <1>2 DEF Becomes, StateOK
  <2>3. \A d \in Callers : d # c => call'[d].pc = "idle"
    BY <2>1, <2>2
  <2>4. call'[c] = f
    BY <2>2
  <2>5. ~HasWork' /\ \A w \in Workers : wjob'[w] = NULL
    BY <2>1 DEF LifeInv, HasWork, QueuedJobs
  <2>6. /\ phase' \in {"running", "starting"} /\ (f.pc = "init" => phase' = "starting")
        /\ f.pc \in {"idle", "failed", "init"}
    <3>1. CASE \E s \in {"idle", "failed"} : Becomes(c, At(s, NULL)) /\ phase' \in {"running", "starting"}
      <4>1. PICK s \in {"idle", "failed"} : Becomes(c, At(s, NULL)) /\ phase' \in {"running", "starting"}
        BY <3>1
      <4>2. f = At(s, NULL)
        BY <2>2, <2>4, <4>1 DEF Becomes
      <4> QED BY <4>1, <4>2 DEF At
    <3>2. CASE phase' = "starting"
      BY <1>2, <1>4, <3>2
    <3> QED BY <1>4, <3>1, <3>2 DEF FillToMin
  <2>7. ~shutdown' /\ phase' # "unused"
    BY <2>6 DEF shutdown
  <2> QED BY <2>3, <2>4, <2>5, <2>6, <2>7 DEF LifeInv, Early
<1> QED BY <1>3, <1>4

LEMMA StepLife == ASSUME TypeOK, LifeInv, [Next]_vars PROVE LifeInv'
<1> USE DEF TypeOK
<1>1. ASSUME NEW w \in Workers, WorkerStep(w) PROVE LifeInv'
  <2>1. CASE WorkerStart(w) \/ WorkerTimeout(w)
    <3>1. UNCHANGED <<phase, call, queue, persistentJob, wjob>> /\ NoNewSleeper
      BY <2>1 DEF WorkerStart, WorkerTimeout, locals, NoNewSleeper, StateOK
    <3> QED BY <3>1 DEF LifeInv, Early, HasWork, QueuedJobs, shutdown, NoNewSleeper
  <2>2. CASE WorkerReturn(w) \/ WorkerWake(w)
    BY <2>2, ThreadLife DEF WorkerReturn, WorkerWake
  <2> QED BY <1>1, <2>1, <2>2 DEF WorkerStep
<1>2. ASSUME NEW c \in Callers, FillResume(c) PROVE LifeInv'
  <2>1. PICK pc \in {"init", "setattr"} : call[c].pc = pc /\ FillToMin(c, pc, call[c].threads + 1, attr)
    BY <1>2 DEF FillResume, Created
  <2>2. pc = "init" => phase = "starting"
    BY <2>1 DEF LifeInv
  <2>3. pc = "setattr" => ~Early
    BY <2>1 DEF LifeInv
  <2> QED BY <1>2, <2>1, <2>2, <2>3, FillLife DEF FillResume, locals
<1>3. ASSUME NEW c \in Callers, AddResume(c) \/ AddPersistentResume(c) \/ AddPersistentDone(c) PROVE LifeInv'
  <2>1. ~Early
    BY <1>3 DEF AddResume, AddPersistentResume, AddPersistentDone, Created, LifeInv
  <2>2. phase' = phase /\ NoNewSleeper
    BY <1>3, NobodySleeps DEF AddResume, AddPersistentResume, AddPersistentDone, AddWorker, AddDone, SchedulePersistent
  <2>3. PICK f : Becomes(c, f) /\ f.pc \in {"idle", "add", "persist"}
    <3>1. Idle.pc = "idle" /\ At("persist", call[c].job).pc = "persist"
      BY DEF Idle, At
    <3>2. CASE Becomes(c, Idle) \/ Becomes(c, At("persist", call[c].job))
      BY <3>1, <3>2
    <3>3. CASE CreateWorker(c, "add", call[c].job, call[c].jobs, call[c].threads + 1)
      BY <3>3 DEF CreateWorker
    <3> QED BY <1>3, <3>2, <3>3 DEF AddResume, AddPersistentResume, AddPersistentDone, AddWorker, AddDone, SchedulePersistent
  <2> QED BY <2>1, <2>2, <2>3, LateCall
<1>4. ASSUME NEW c \in Callers, ShutdownDone(c) PROVE LifeInv'
  <2>1. shutdown /\ phase' = "destroyed" /\ wpc' = wpc /\ Becomes(c, Idle)
    BY <1>4 DEF ShutdownDone, LifeInv
  <2>2. ~Early' /\ shutdown'
    BY <2>1 DEF Early, shutdown
  <2>3. \A d \in Callers : call'[d] = call[d] \/ call'[d] = Idle
    BY <2>1 DEF Becomes, StateOK
  <2>4. \A d \in Callers : call[d].pc # "init"
    BY <2>1 DEF LifeInv, shutdown
  <2> QED BY <2>1, <2>2, <2>3, <2>4 DEF LifeInv, Early, Idle, At
<1>5. ASSUME NEW c \in Callers, WaitAgain(c) PROVE LifeInv'
  BY <1>5 DEF WaitAgain, locals, LifeInv, Early, HasWork, QueuedJobs, shutdown
<1>6. ASSUME NEW c \in Callers, NEW j \in Jobs, NEW p \in Priorities, ThreadPoolAdd(c, j, p) PROVE LifeInv'
  <2>1. ~Early
    BY <1>6, CallsAreLate DEF ThreadPoolAdd
  <2>2. phase' = phase /\ NoNewSleeper
    BY <1>6, NobodySleeps DEF ThreadPoolAdd, AddWorker, AddDone
  <2>3. PICK f : Becomes(c, f) /\ f.pc \in {"idle", "add"}
    <3>1. CASE Becomes(c, Idle)
      BY <3>1 DEF Idle, At
    <3>2. CASE CreateWorker(c, "add", j, QueuedJobs + 1, totalThreads - persistentThreads)
      BY <3>2 DEF CreateWorker
    <3> QED BY <1>6, <3>1, <3>2 DEF ThreadPoolAdd, AddWorker, AddDone
  <2> QED BY <2>1, <2>2, <2>3, LateCall
<1>7. ASSUME NEW c \in Callers, ThreadPoolShutdown(c) PROVE LifeInv'
  <2>1. /\ shutdown' /\ ~Early' /\ \A w \in Workers : wpc'[w] # "waiting"
    BY <1>7 DEF ThreadPoolShutdown, shutdown, Early
  <2>2. \A d \in Callers : d # c => call[d].pc # "init"
    <3>1. CASE call[c].pc = "failed"
      BY <3>1 DEF LifeInv, Early
    <3>2. CASE MayCall(c)
      BY <3>2, CallsAreLate DEF LifeInv, Early
    <3> QED BY <1>7, <3>1, <3>2 DEF ThreadPoolShutdown
  <2>3. \A d \in Callers : call'[d] = IF d = c THEN (IF totalThreads > 0 THEN At("join", NULL) ELSE Idle) ELSE call[d]
    BY <1>7 DEF ThreadPoolShutdown, Becomes, StateOK
  <2> QED BY <2>1, <2>2, <2>3 DEF LifeInv, Early, Idle, At, shutdown
<1>8. ASSUME NEW c \in Clients, ThreadPoolInit(c) PROVE LifeInv'
  <2>1. phase = "unused" /\ FillToMin(c, "init", 0, attr) /\ UNCHANGED <<queue, persistentJob, wjob>> /\ c \in Callers
    BY <1>8 DEF ThreadPoolInit, locals, Callers
  <2> QED BY <2>1, FillLife
<1>9. ASSUME NEW c \in Clients, NEW a \in Attrs, ThreadPoolSetAttr(c, a) PROVE LifeInv'
  <2>1. FillToMin(c, "setattr", totalThreads, a) /\ UNCHANGED <<queue, persistentJob, wjob>> /\ c \in Callers /\ ~Early
    BY <1>9, CallsAreLate DEF ThreadPoolSetAttr, locals, Callers
  <2> QED BY <2>1, FillLife
<1>10. ASSUME NEW c \in Clients, NEW j \in Jobs, ThreadPoolAddPersistent(c, j) PROVE LifeInv'
  <2>1. ~Early /\ c \in Callers /\ phase' = phase /\ NoNewSleeper
    BY <1>10, CallsAreLate, NobodySleeps DEF ThreadPoolAddPersistent, Callers, SchedulePersistent
  <2>2. PICK f : Becomes(c, f) /\ f.pc \in {"addPersistent", "persist"}
    <3>1. CASE Becomes(c, At("persist", j))
      BY <3>1 DEF At
    <3>2. CASE CreateWorker(c, "addPersistent", j, 0, 0)
      BY <3>2 DEF CreateWorker
    <3> QED BY <1>10, <3>1, <3>2 DEF ThreadPoolAddPersistent, SchedulePersistent
  <2> QED BY <2>1, <2>2, LateCall
<1>11. ASSUME NEW c \in Clients, NEW id, ThreadPoolRemove(c, id) PROVE LifeInv'
  <2>1. ~Early /\ c \in Callers /\ phase' = phase /\ call' = call /\ wpc' = wpc
    BY <1>11, CallsAreLate DEF ThreadPoolRemove, Callers
  <2>2. NoNewSleeper /\ Idle.pc \notin {"init", "join"}
    BY <2>1 DEF NoNewSleeper, Idle, At
  <2> QED BY <2>1, <2>2, LateCall
<1>12. CASE Tick \/ UNCHANGED vars
  BY <1>12 DEF Tick, vars, locals, LifeInv, Early, HasWork, QueuedJobs, shutdown
<1> QED BY <1>1, <1>2, <1>3, <1>4, <1>5, <1>6, <1>7, <1>8, <1>9, <1>10, <1>11, <1>12 DEF Next, CallerStep

LEMMA LifeInvariant == Spec => []LifeInv
<1>1. TypeOK /\ LifeInv /\ [Next]_vars => LifeInv'
  BY StepLife
<1> QED BY <1>1, InitLife, TypeCorrect, PTL DEF Spec

-----------------------------------------------------------------------------
(* Signals: the jobs nobody has been woken for are those still being added. *)

Woken == {w \in Workers : wpc[w] \in {"signaled", "timedout"}}
Load == QueuedJobs + (IF persistentJob = NULL THEN 0 ELSE 1)

LEMMA LoadType ==
  /\ StateOK => Load \in Nat /\ QueuedJobs \in Nat
  /\ StateOK' => Load' \in Nat /\ QueuedJobs' \in Nat
<1>1. ASSUME NEW q \in [Priorities -> Seq(Jobs)]
      PROVE  Len(q["high"]) + Len(q["low"]) + Len(q["med"]) \in Nat
  <2>1. q["high"] \in Seq(Jobs) /\ q["low"] \in Seq(Jobs) /\ q["med"] \in Seq(Jobs)
    BY DEF Priorities
  <2>2. Len(q["high"]) \in Nat /\ Len(q["low"]) \in Nat /\ Len(q["med"]) \in Nat
    BY <2>1
  <2>3. \A a, b, c \in Nat : a + b + c \in Nat
    OBVIOUS
  <2> QED BY <2>2, <2>3, Zenon
<1>2. \A n \in Nat : n + 0 \in Nat /\ n + 1 \in Nat
  OBVIOUS
<1>3. StateOK => QueuedJobs \in Nat
  BY <1>1 DEF QueuedJobs, StateOK
<1>4. StateOK' => QueuedJobs' \in Nat
  BY <1>1 DEF QueuedJobs, StateOK
<1> QED BY <1>2, <1>3, <1>4 DEF Load

LEMMA SignalFinite ==
  /\ IsFiniteSet(Woken) /\ IsFiniteSet(Adding)
  /\ Cardinality(Woken) \in Nat /\ Cardinality(Adding) \in Nat
<1>1. IsFiniteSet(Callers)
  BY PoolAssumption, FS_Union DEF Callers
<1>2. Woken \in SUBSET Workers /\ Adding \in SUBSET Callers
  BY DEF Woken, Adding
<1> QED BY <1>1, <1>2, PoolAssumption, FS_Subset, FS_CardinalityType

LEMMA SignalFiniteNext ==
  /\ IsFiniteSet(Woken') /\ IsFiniteSet(Adding')
  /\ Cardinality(Woken') \in Nat /\ Cardinality(Adding') \in Nat
<1>1. IsFiniteSet(Callers)
  BY PoolAssumption, FS_Union DEF Callers
<1>2. Woken' \in SUBSET Workers /\ Adding' \in SUBSET Callers
  BY DEF Woken, Adding
<1> QED BY <1>1, <1>2, PoolAssumption, FS_Subset, FS_CardinalityType

\* A caller that goes in or out of ThreadPoolAdd.
LEMMA AddingChanges ==
  ASSUME StateOK, NEW c \in Callers, NEW f, call' = [call EXCEPT ![c] = f]
  PROVE  Cardinality(Adding') =
           Cardinality(Adding) + (IF f.pc = "add" THEN 1 ELSE 0) - (IF call[c].pc = "add" THEN 1 ELSE 0)
<1>1. Adding' = IF f.pc = "add" THEN Adding \cup {c} ELSE Adding \ {c}
  BY DEF Adding, StateOK
<1>2. c \in Adding <=> call[c].pc = "add"
  BY DEF Adding
<1>3. Cardinality(Adding \cup {c}) = IF c \in Adding THEN Cardinality(Adding) ELSE Cardinality(Adding) + 1
  BY SignalFinite, FS_AddElement
<1>4. Cardinality(Adding \ {c}) = IF c \in Adding THEN Cardinality(Adding) - 1 ELSE Cardinality(Adding)
  BY SignalFinite, FS_RemoveElement
<1>5. Cardinality(Adding) \in Nat
  BY SignalFinite
<1>6. CASE f.pc = "add"
  BY <1>1, <1>2, <1>3, <1>5, <1>6
<1>7. CASE f.pc # "add"
  BY <1>1, <1>2, <1>4, <1>5, <1>7
<1> QED BY <1>6, <1>7

\* A step that wakes nobody and adds no work.
LEMMA QuietStep ==
  ASSUME StateOK, StateOK', EverySignalCounts, NoNewSleeper, Woken \subseteq Woken',
         Load' - Cardinality(Adding') <= Load - Cardinality(Adding)
  PROVE  EverySignalCounts'
<1>1. Cardinality(Woken) <= Cardinality(Woken')
  BY SignalFiniteNext, FS_Subset
<1>2. Load \in Nat /\ Load' \in Nat
  BY LoadType
<1>3. /\ Cardinality(Adding) \in Nat /\ Cardinality(Adding') \in Nat
      /\ Cardinality(Woken) \in Nat /\ Cardinality(Woken') \in Nat
  BY SignalFinite, SignalFiniteNext
<1>4. (\E w \in Workers : wpc'[w] = "waiting") => Load <= Cardinality(Woken) + Cardinality(Adding)
  BY DEF EverySignalCounts, NoNewSleeper, Load, Woken
<1>5. (\E w \in Workers : wpc'[w] = "waiting") => Load' <= Cardinality(Woken') + Cardinality(Adding')
  BY <1>1, <1>2, <1>3, <1>4
<1> QED BY <1>5 DEF EverySignalCounts, Load, Woken, QueuedJobs, Adding

\* A step that adds one job and signals, or leaves the signal to somebody else.
LEMMA SignalStep ==
  ASSUME StateOK, StateOK', EverySignalCounts, Signal,
         Load' - Cardinality(Adding') <= Load + 1 - Cardinality(Adding)
  PROVE  EverySignalCounts'
<1>1. Load \in Nat /\ Load' \in Nat
  BY LoadType
<1>2. /\ Cardinality(Adding) \in Nat /\ Cardinality(Adding') \in Nat
      /\ Cardinality(Woken) \in Nat /\ Cardinality(Woken') \in Nat
  BY SignalFinite, SignalFiniteNext
<1>3. CASE \E w \in Workers : wpc[w] = "waiting" /\ wpc' = [wpc EXCEPT ![w] = "signaled"]
  <2>1. PICK w \in Workers : wpc[w] = "waiting" /\ wpc' = [wpc EXCEPT ![w] = "signaled"]
    BY <1>3
  <2>2. Woken' = Woken \cup {w} /\ w \notin Woken
    BY <2>1 DEF Woken, StateOK
  <2>3. Cardinality(Woken') = Cardinality(Woken) + 1
    BY <2>2, SignalFinite, FS_AddElement
  <2>4. Load <= Cardinality(Woken) + Cardinality(Adding)
    BY <2>1 DEF EverySignalCounts, Load, Woken
  <2>5. Load' <= Cardinality(Woken') + Cardinality(Adding')
    BY <1>1, <1>2, <2>3, <2>4
  <2> QED BY <2>5 DEF EverySignalCounts, Load, Woken, QueuedJobs, Adding
<1>4. CASE (\A w \in Workers : wpc[w] # "waiting") /\ UNCHANGED wpc
  BY <1>4 DEF EverySignalCounts
<1> QED BY <1>3, <1>4 DEF Signal

\* A thread that looks for work sleeps only when there is none, and takes one job at most.
LEMMA LookForWorkSignals ==
  ASSUME StateOK, StateOK', LifeInv, EverySignalCounts,
         NEW w \in Workers, Awake(w), wpc[w] # "waiting", NEW timedOut, NEW idle, NEW pt, NEW wt,
         LookForWork(w, timedOut, idle, pt, wt), call' = call
  PROVE  EverySignalCounts'
<1>1. Load \in Nat /\ Load' \in Nat /\ QueuedJobs \in Nat /\ QueuedJobs' \in Nat
  BY LoadType
<1>2. /\ Cardinality(Adding) \in Nat /\ Cardinality(Adding') \in Nat
      /\ Cardinality(Woken) \in Nat /\ Cardinality(Woken') \in Nat
  BY SignalFinite, SignalFiniteNext
<1>3. Adding' = Adding
  BY DEF Adding
<1>4. Cardinality(Woken') >= Cardinality(Woken) - 1
  <2>1. Woken \ {w} \subseteq Woken'
    BY DEF LookForWork, Exit, Take, Woken, StateOK
  <2>2. Cardinality(Woken \ {w}) >= Cardinality(Woken) - 1
    <3>1. Cardinality(Woken \ {w}) = IF w \in Woken THEN Cardinality(Woken) - 1 ELSE Cardinality(Woken)
      BY SignalFinite, FS_RemoveElement
    <3> QED BY <1>2, <3>1
  <2>3. Cardinality(Woken \ {w}) <= Cardinality(Woken') /\ Cardinality(Woken \ {w}) \in Nat
    BY <2>1, SignalFiniteNext, FS_Subset, FS_CardinalityType
  <2> QED BY <1>2, <2>2, <2>3
<1>5. CASE ~HasWork /\ UNCHANGED <<queue, persistentJob>>
  <2>1. Load' = 0
    <3>1. QueuedJobs = 0 /\ persistentJob = NULL
      BY <1>1, <1>5 DEF HasWork
    <3>2. QueuedJobs' = QueuedJobs
      BY <1>5 DEF QueuedJobs
    <3> QED BY <1>5, <3>1, <3>2 DEF Load
  <2>2. Load' <= Cardinality(Woken') + Cardinality(Adding')
    BY <1>2, <2>1
  <2> QED BY <2>2 DEF EverySignalCounts, Load, Woken, QueuedJobs, Adding
<1>6. CASE shutdown /\ Exit(w)
  <2>1. \A v \in Workers : wpc'[v] # "waiting"
    BY <1>6 DEF LifeInv, Exit, StateOK
  <2> QED BY <2>1 DEF EverySignalCounts
<1>7. CASE (\E j, m : Take(w, j, m)) /\ Load' = Load - 1
  <2>1. (\E v \in Workers : wpc'[v] = "waiting") => Load <= Cardinality(Woken) + Cardinality(Adding)
    BY <1>7 DEF EverySignalCounts, Take, StateOK, Load, Woken
  <2>2. (\E v \in Workers : wpc'[v] = "waiting") => Load' <= Cardinality(Woken') + Cardinality(Adding')
    BY <1>1, <1>2, <1>3, <1>4, <1>7, <2>1
  <2> QED BY <2>2 DEF EverySignalCounts, Load, Woken, QueuedJobs, Adding
<1>8. Bumped \in [Priorities -> Seq(Jobs)]
        /\ Len(Bumped["high"]) + Len(Bumped["low"]) + Len(Bumped["med"]) = QueuedJobs
  BY BumpedType DEF StateOK
<1>9. ASSUME persistentJob # NULL, queue' = Bumped, persistentJob' = NULL PROVE Load' = Load - 1
  <2>1. QueuedJobs' = QueuedJobs
    BY <1>8, <1>9 DEF QueuedJobs
  <2> QED BY <1>1, <1>9, <2>1 DEF Load
<1>10. ASSUME QueuedJobs > 0, persistentJob' = persistentJob,
              queue' = [Bumped EXCEPT ![Highest(Bumped)] = Tail(@)]
       PROVE  Load' = Load - 1
  <2> DEFINE h == Bumped["high"]  d == Bumped["med"]  l == Bumped["low"]
  <2>1. h \in Seq(Jobs) /\ d \in Seq(Jobs) /\ l \in Seq(Jobs) /\ Len(h) + Len(l) + Len(d) = QueuedJobs
    BY <1>8 DEF Priorities
  <2>2. \/ h # <<>> /\ queue'["high"] = Tail(h) /\ queue'["med"] = d /\ queue'["low"] = l
        \/ d # <<>> /\ queue'["high"] = h /\ queue'["med"] = Tail(d) /\ queue'["low"] = l
        \/ h = <<>> /\ d = <<>> /\ queue'["high"] = h /\ queue'["med"] = d /\ queue'["low"] = Tail(l)
    BY <1>8, <1>10 DEF Highest, Priorities
  <2>3. QueuedJobs' = Len(queue'["high"]) + Len(queue'["low"]) + Len(queue'["med"])
    BY DEF QueuedJobs
  <2> HIDE DEF h, d, l
  <2>4. QueuedJobs' = QueuedJobs - 1
    <3>1. CASE h # <<>> /\ queue'["high"] = Tail(h) /\ queue'["med"] = d /\ queue'["low"] = l
      <4>1. Len(Tail(h)) = Len(h) - 1 /\ Len(h) \in Nat /\ Len(d) \in Nat /\ Len(l) \in Nat
        BY <2>1, <3>1
      <4> QED BY <2>1, <2>3, <3>1, <4>1
    <3>2. CASE d # <<>> /\ queue'["high"] = h /\ queue'["med"] = Tail(d) /\ queue'["low"] = l
      <4>1. Len(Tail(d)) = Len(d) - 1 /\ Len(h) \in Nat /\ Len(d) \in Nat /\ Len(l) \in Nat
        BY <2>1, <3>2
      <4> QED BY <2>1, <2>3, <3>2, <4>1
    <3>3. CASE h = <<>> /\ d = <<>> /\ queue'["high"] = h /\ queue'["med"] = d /\ queue'["low"] = Tail(l)
      <4>1. Len(h) = 0 /\ Len(d) = 0 /\ Len(l) \in Nat
        BY <2>1, <3>3
      <4>2. l # <<>>
        BY <1>10, <2>1, <4>1
      <4>3. Len(Tail(l)) = Len(l) - 1
        BY <2>1, <4>2
      <4> QED BY <2>1, <2>3, <3>3, <4>1, <4>3
    <3> QED BY <2>2, <3>1, <3>2, <3>3
  <2> QED BY <1>1, <1>10, <2>4 DEF Load
<1>11. CASE \* the persistent job
            /\ persistentJob # NULL /\ queue' = Bumped /\ persistentJob' = NULL
            /\ Take(w, persistentJob, 1)
  BY <1>7, <1>9, <1>11
<1>12. CASE \* an ordinary one
            /\ QueuedJobs > 0 /\ persistentJob' = persistentJob
            /\ queue' = [Bumped EXCEPT ![Highest(Bumped)] = Tail(@)]
            /\ Take(w, Head(Bumped[Highest(Bumped)]), 0)
  BY <1>7, <1>10, <1>12
<1> QED BY <1>5, <1>6, <1>11, <1>12 DEF LookForWork, Exit

LEMMA StepSignals ==
  ASSUME TypeOK, TypeOK', LifeInv, EverySignalCounts, [Next]_vars
  PROVE  EverySignalCounts'
<1> USE DEF TypeOK
<1>a. /\ Load \in Nat /\ Load' \in Nat /\ QueuedJobs \in Nat /\ QueuedJobs' \in Nat
      /\ Cardinality(Adding) \in Nat /\ Cardinality(Adding') \in Nat
  BY LoadType, SignalFinite, SignalFiniteNext
<1>b. ASSUME UNCHANGED <<queue, persistentJob>> PROVE Load' = Load
  BY <1>b DEF Load, QueuedJobs
\* Waking a thread, or making one, takes no signal from another.
<1>c. ASSUME \/ Signal \/ UNCHANGED wpc
             \/ \E c, pc, j, jobs, threads : CreateWorker(c, pc, j, jobs, threads)
      PROVE  NoNewSleeper /\ Woken \subseteq Woken'
  BY <1>c, NobodySleeps DEF StateOK, Signal, CreateWorker, Woken
<1>d. ASSUME NEW c \in Callers, NEW f, Becomes(c, f), call[c].pc # "add", f.pc # "add"
      PROVE  Cardinality(Adding') = Cardinality(Adding)
  <2>1. call' = [call EXCEPT ![c] = f]
    BY <1>d DEF Becomes
  <2>2. Cardinality(Adding') = Cardinality(Adding) + 0 - 0
    BY <1>d, <2>1, AddingChanges
  <2> QED BY <1>a, <2>2
<1>1. ASSUME NEW w \in Workers, WorkerStep(w) PROVE EverySignalCounts'
  <2>1. CASE WorkerStart(w) \/ WorkerTimeout(w)
    <3>1. Load' = Load /\ Adding' = Adding /\ NoNewSleeper /\ Woken \subseteq Woken'
      BY <1>b, <2>1 DEF WorkerStart, WorkerTimeout, NoNewSleeper, Woken, Adding, StateOK
    <3> QED BY <1>a, <3>1, QuietStep
  <2>2. CASE WorkerReturn(w) \/ WorkerWake(w)
    BY <2>2, LookForWorkSignals DEF WorkerReturn, WorkerWake, Awake
  <2> QED BY <1>1, <2>1, <2>2 DEF WorkerStep
<1>2. ASSUME NEW c \in Callers, NEW pc \in {"init", "setattr"}, NEW i, NEW a, FillToMin(c, pc, i, a),
             UNCHANGED <<queue, persistentJob>>, call[c].pc # "add"
      PROVE  EverySignalCounts'
  <2>1. NoNewSleeper /\ Woken \subseteq Woken'
    BY <1>2, <1>c DEF FillToMin
  <2>2. Cardinality(Adding') = Cardinality(Adding)
    <3>1. CASE \E s \in {"idle", "failed"} : Becomes(c, At(s, NULL))
      BY <1>2, <1>d, <3>1 DEF At
    <3>2. CASE CreateWorker(c, pc, NULL, 0, i)
      BY <1>2, <1>d, <3>2 DEF CreateWorker
    <3> QED BY <1>2, <3>1, <3>2 DEF FillToMin
  <2> QED BY <1>2, <1>a, <1>b, <2>1, <2>2, QuietStep
\* Inside ThreadPoolAdd the caller itself owes the signal.
<1>3. ASSUME NEW c \in Callers, NEW j, NEW jobs, NEW threads, AddWorker(c, j, jobs, threads),
             Load' = Load + (IF call[c].pc = "add" THEN 0 ELSE 1)
      PROVE  EverySignalCounts'
  <2>1. CASE CreateWorker(c, "add", j, jobs, threads)
    <3>1. PICK f : f.pc = "add" /\ call' = [call EXCEPT ![c] = f]
      BY <2>1 DEF CreateWorker, Becomes
    <3>2. Cardinality(Adding') = Cardinality(Adding) + 1 - (IF call[c].pc = "add" THEN 1 ELSE 0)
      <4>1. Cardinality(Adding') = Cardinality(Adding) + (IF f.pc = "add" THEN 1 ELSE 0)
                                     - (IF call[c].pc = "add" THEN 1 ELSE 0)
        <5>1. StateOK /\ c \in Callers /\ call' = [call EXCEPT ![c] = f]
          BY <3>1
        <5> QED BY <5>1, AddingChanges
      <4> QED BY <3>1, <4>1
    <3>3. Load' - Cardinality(Adding') <= Load - Cardinality(Adding)
      BY <1>3, <1>a, <3>2
    <3> QED BY <1>c, <2>1, <3>3, QuietStep
  <2>2. CASE AddDone(c, j)
    <3>1. call' = [call EXCEPT ![c] = Idle] /\ Idle.pc # "add"
      BY <2>2 DEF AddDone, Becomes, Idle, At
    <3>2. Cardinality(Adding') = Cardinality(Adding) + 0 - (IF call[c].pc = "add" THEN 1 ELSE 0)
      BY <3>1, AddingChanges
    <3>3. Load' - Cardinality(Adding') <= Load + 1 - Cardinality(Adding)
      BY <1>3, <1>a, <3>2
    <3> QED BY <2>2, <3>3, SignalStep DEF AddDone
  <2> QED BY <1>3, <2>1, <2>2 DEF AddWorker
<1>4. ASSUME NEW c \in Callers, NEW j, SchedulePersistent(c, j), call[c].pc # "add", UNCHANGED queue
      PROVE  EverySignalCounts'
  <2>1. Load' <= Load + 1
    <3>1. QueuedJobs' = QueuedJobs
      BY <1>4 DEF QueuedJobs
    <3> QED BY <1>a, <3>1 DEF Load
  <2>2. Cardinality(Adding') = Cardinality(Adding)
    BY <1>4, <1>d DEF SchedulePersistent, At
  <2>3. Load' - Cardinality(Adding') <= Load + 1 - Cardinality(Adding)
    BY <1>a, <2>1, <2>2
  <2> QED BY <1>4, <2>3, SignalStep DEF SchedulePersistent
<1>5. ASSUME NEW c \in Callers, FillResume(c) PROVE EverySignalCounts'
  BY <1>2, <1>5 DEF FillResume, Created
<1>6. ASSUME NEW c \in Callers, AddResume(c) PROVE EverySignalCounts'
  <2>1. Load' = Load + 0
    BY <1>6, <1>a, <1>b DEF AddResume
  <2> QED BY <1>3, <1>6, <2>1 DEF AddResume, Created
<1>7. ASSUME NEW c \in Callers, AddPersistentResume(c) PROVE EverySignalCounts'
  BY <1>4, <1>7 DEF AddPersistentResume, Created
<1>8. ASSUME NEW c \in Callers, AddPersistentDone(c) \/ ShutdownDone(c) \/ WaitAgain(c) PROVE EverySignalCounts'
  <2>1. Load' = Load /\ NoNewSleeper /\ Woken \subseteq Woken'
    BY <1>8, <1>b, <1>c DEF AddPersistentDone, ShutdownDone, WaitAgain
  <2>2. Cardinality(Adding') = Cardinality(Adding)
    <3>1. CASE AddPersistentDone(c) \/ ShutdownDone(c)
      BY <1>d, <3>1 DEF AddPersistentDone, ShutdownDone, Idle, At
    <3>2. CASE WaitAgain(c)
      BY <3>2 DEF WaitAgain, Adding
    <3> QED BY <1>8, <3>1, <3>2
  <2> QED BY <1>a, <2>1, <2>2, QuietStep
<1>9. ASSUME NEW c \in Callers, NEW j \in Jobs, NEW p \in Priorities, ThreadPoolAdd(c, j, p)
      PROVE  EverySignalCounts'
  <2>1. call[c].pc # "add"
    BY <1>9 DEF ThreadPoolAdd, MayCall
  <2>2. QueuedJobs' = QueuedJobs + 1
    <3>1. queue["high"] \in Seq(Jobs) /\ queue["low"] \in Seq(Jobs) /\ queue["med"] \in Seq(Jobs)
      BY DEF StateOK, Priorities
    <3>2. \A q \in Priorities : queue'[q] = IF q = p THEN Append(queue[q], j) ELSE queue[q]
      BY <1>9 DEF ThreadPoolAdd, StateOK
    <3>3. /\ Len(queue["high"]) \in Nat /\ Len(queue["low"]) \in Nat /\ Len(queue["med"]) \in Nat
          /\ Len(Append(queue["high"], j)) = Len(queue["high"]) + 1
          /\ Len(Append(queue["low"], j)) = Len(queue["low"]) + 1
          /\ Len(Append(queue["med"], j)) = Len(queue["med"]) + 1
      BY <3>1
    <3>4. \/ /\ Len(queue'["high"]) = Len(queue["high"]) + 1 /\ Len(queue'["low"]) = Len(queue["low"])
             /\ Len(queue'["med"]) = Len(queue["med"])
          \/ /\ Len(queue'["high"]) = Len(queue["high"]) /\ Len(queue'["low"]) = Len(queue["low"]) + 1
             /\ Len(queue'["med"]) = Len(queue["med"])
          \/ /\ Len(queue'["high"]) = Len(queue["high"]) /\ Len(queue'["low"]) = Len(queue["low"])
             /\ Len(queue'["med"]) = Len(queue["med"]) + 1
      BY <3>2, <3>3, Zenon DEF Priorities
    <3> DEFINE h == Len(queue["high"])   l == Len(queue["low"])   m == Len(queue["med"])
               hh == Len(queue'["high"])  ll == Len(queue'["low"])  mm == Len(queue'["med"])
    <3>5. /\ h \in Nat /\ l \in Nat /\ m \in Nat
          /\ \/ hh = h + 1 /\ ll = l /\ mm = m
             \/ hh = h /\ ll = l + 1 /\ mm = m
             \/ hh = h /\ ll = l /\ mm = m + 1
      BY <3>3, <3>4
    <3>6. QueuedJobs = h + l + m /\ QueuedJobs' = hh + ll + mm
      BY DEF QueuedJobs
    <3> HIDE DEF h, l, m, hh, ll, mm
    <3> QED BY <3>5, <3>6
  <2>3. Load' = Load + 1
    BY <1>9, <1>a, <2>2 DEF Load, ThreadPoolAdd
  <2> QED BY <1>3, <1>9, <2>1, <2>3 DEF ThreadPoolAdd
<1>10. ASSUME NEW c \in Callers, ThreadPoolShutdown(c) PROVE EverySignalCounts'
  BY <1>10 DEF ThreadPoolShutdown, EverySignalCounts
<1>11. ASSUME NEW c \in Clients, ThreadPoolInit(c) PROVE EverySignalCounts'
  BY <1>2, <1>11 DEF ThreadPoolInit, LifeInv, Callers
<1>12. ASSUME NEW c \in Clients, NEW a \in Attrs, ThreadPoolSetAttr(c, a) PROVE EverySignalCounts'
  BY <1>2, <1>12 DEF ThreadPoolSetAttr, MayCall, Callers
<1>13. ASSUME NEW c \in Clients, NEW j \in Jobs, ThreadPoolAddPersistent(c, j) PROVE EverySignalCounts'
  <2>1. c \in Callers /\ call[c].pc # "add" /\ queue' = queue
    BY <1>13 DEF ThreadPoolAddPersistent, MayCall, Callers
  <2>2. CASE CreateWorker(c, "addPersistent", j, 0, 0) /\ UNCHANGED persistentJob
    <3>1. Cardinality(Adding') = Cardinality(Adding)
      BY <1>d, <2>1, <2>2 DEF CreateWorker
    <3> QED BY <1>a, <1>b, <1>c, <2>1, <2>2, <3>1, QuietStep
  <2>3. CASE SchedulePersistent(c, j)
    BY <1>4, <2>1, <2>3
  <2> QED BY <1>13, <2>2, <2>3 DEF ThreadPoolAddPersistent
<1>14. ASSUME NEW c \in Clients, NEW id, ThreadPoolRemove(c, id) PROVE EverySignalCounts'
  <2>1. Adding' = Adding /\ NoNewSleeper /\ Woken \subseteq Woken'
    BY <1>14, <1>c DEF ThreadPoolRemove, Adding
  <2>2. Load' <= Load
    <3>1. CASE RemoveSlot
      <4>1. QueuedJobs' = QueuedJobs /\ persistentJob' = NULL
        BY <3>1 DEF RemoveSlot, QueuedJobs
      <4> QED BY <1>a, <4>1 DEF Load
    <3>2. ASSUME NEW p \in Priorities, NEW i \in FirstIn(queue[p], id), RemoveFrom(p, i)
          PROVE  Load' <= Load
      <4>1. \A q \in Priorities : Len(queue[q]) \in Nat /\ queue[q] \in Seq(Jobs)
        BY DEF StateOK
      <4>2. queue[p] \in Seq(Jobs) /\ i \in 1..Len(queue[p])
        BY <3>2, <4>1 DEF FirstIn
      <4>3. /\ SubSeq(queue[p], 1, i-1) \in Seq(Jobs) /\ Len(SubSeq(queue[p], 1, i-1)) = i - 1
            /\ SubSeq(queue[p], i+1, Len(queue[p])) \in Seq(Jobs)
            /\ Len(SubSeq(queue[p], i+1, Len(queue[p]))) = Len(queue[p]) - i
        BY <4>2
      <4>4. Len(SubSeq(queue[p], 1, i-1) \o SubSeq(queue[p], i+1, Len(queue[p]))) =
              Len(SubSeq(queue[p], 1, i-1)) + Len(SubSeq(queue[p], i+1, Len(queue[p])))
        BY <4>3, ConcatProperties
      <4>5. Len(queue'[p]) = Len(queue[p]) - 1
        <5>1. queue'[p] = SubSeq(queue[p], 1, i-1) \o SubSeq(queue[p], i+1, Len(queue[p]))
          BY <3>2 DEF RemoveFrom, StateOK
        <5>2. Len(queue'[p]) = (i - 1) + (Len(queue[p]) - i)
          BY <4>3, <4>4, <5>1
        <5>3. Len(queue[p]) \in Nat /\ i \in Int
          BY <4>2
        <5> QED BY <5>2, <5>3
      <4>6. \A q \in Priorities : q # p => queue'[q] = queue[q]
        BY <3>2 DEF RemoveFrom, StateOK
      <4>7. QueuedJobs' = QueuedJobs - 1
        <5>1. \/ p = "high" /\ Len(queue'["low"]) = Len(queue["low"]) /\ Len(queue'["med"]) = Len(queue["med"])
              \/ p = "low" /\ Len(queue'["high"]) = Len(queue["high"]) /\ Len(queue'["med"]) = Len(queue["med"])
              \/ p = "med" /\ Len(queue'["low"]) = Len(queue["low"]) /\ Len(queue'["high"]) = Len(queue["high"])
          BY <4>6 DEF Priorities
        <5>4. \/ /\ Len(queue'["high"]) = Len(queue["high"]) - 1 /\ Len(queue'["low"]) = Len(queue["low"])
                 /\ Len(queue'["med"]) = Len(queue["med"])
              \/ /\ Len(queue'["high"]) = Len(queue["high"]) /\ Len(queue'["low"]) = Len(queue["low"]) - 1
                 /\ Len(queue'["med"]) = Len(queue["med"])
              \/ /\ Len(queue'["high"]) = Len(queue["high"]) /\ Len(queue'["low"]) = Len(queue["low"])
                 /\ Len(queue'["med"]) = Len(queue["med"]) - 1
          BY <4>5, <5>1
        <5>2. Len(queue["high"]) \in Nat /\ Len(queue["low"]) \in Nat /\ Len(queue["med"]) \in Nat
          BY <4>1 DEF Priorities
        <5> DEFINE h == Len(queue["high"])   l == Len(queue["low"])   m == Len(queue["med"])
                   hh == Len(queue'["high"])  ll == Len(queue'["low"])  mm == Len(queue'["med"])
        <5>5. /\ h \in Nat /\ l \in Nat /\ m \in Nat
              /\ \/ hh = h - 1 /\ ll = l /\ mm = m
                 \/ hh = h /\ ll = l - 1 /\ mm = m
                 \/ hh = h /\ ll = l /\ mm = m - 1
          BY <5>2, <5>4
        <5>6. QueuedJobs = h + l + m /\ QueuedJobs' = hh + ll + mm
          BY DEF QueuedJobs
        <5> HIDE DEF h, l, m, hh, ll, mm
        <5> QED BY <5>5, <5>6
      <4>8. persistentJob' = persistentJob
        BY <3>2 DEF RemoveFrom
      <4> QED BY <1>a, <4>7, <4>8 DEF Load
    <3> QED BY <1>14, <3>1, <3>2 DEF ThreadPoolRemove, Priorities
  <2>3. Load' - Cardinality(Adding') <= Load - Cardinality(Adding)
    BY <1>a, <2>1, <2>2
  <2> QED BY <2>1, <2>3, QuietStep
<1>15. CASE Tick \/ UNCHANGED vars
  <2>1. Load' = Load /\ Adding' = Adding /\ NoNewSleeper /\ Woken \subseteq Woken'
    BY <1>15, <1>b, <1>c DEF Tick, vars, Adding
  <2> QED BY <1>a, <2>1, QuietStep
<1> QED BY <1>1, <1>5, <1>6, <1>7, <1>8, <1>9, <1>10, <1>11, <1>12, <1>13, <1>14, <1>15 DEF Next, CallerStep

\* No job waits with an idle thread beside it: every job a thread has not yet been woken
\* for is one whose caller is still inside ThreadPoolAdd (ThreadPool.c:754-816).
THEOREM NoSignalLost == Spec => []EverySignalCounts
<1>1. Init => EverySignalCounts
  BY DEF Init, EverySignalCounts
<1>2. TypeOK /\ TypeOK' /\ LifeInv /\ EverySignalCounts /\ [Next]_vars => EverySignalCounts'
  BY StepSignals
<1> QED BY <1>1, <1>2, TypeCorrect, LifeInvariant, PTL DEF Spec

-----------------------------------------------------------------------------
(* The order of service.  The three queues one behind the other are the     *)
(* line in which the jobs are served; raising priorities leaves it as it is. *)

Cat(a, b) == a \o b
LineOf(q) == Cat(Cat(q["high"], q["med"]), q["low"])

InLine(s, x) == \E i \in 1..Len(s) : s[i] = x
Ahead(s, x, y) == \E i, k \in 1..Len(s) : i < k /\ s[i] = x /\ s[k] = y
NoneTwice(s) == \A i, k \in 1..Len(s) : s[i] = s[k] => i = k

\* The line t is the line s and j between its parts a and b.
Inserted(s, t, j) ==
  \E a, b \in Seq(Jobs) : s = a \o b /\ t = (a \o <<j>>) \o b

LEMMA InsertedOrder ==
  ASSUME NEW s, NEW t, NEW j \in Jobs, Inserted(s, t, j)
  PROVE  /\ s \in Seq(Jobs) /\ t \in Seq(Jobs)
         /\ \A x : InLine(t, x) <=> x = j \/ InLine(s, x)
         /\ \A x, y : Ahead(s, x, y) => Ahead(t, x, y)
         /\ \A x, y : x # j /\ y # j /\ Ahead(t, x, y) => Ahead(s, x, y)
         /\ NoneTwice(t) <=> NoneTwice(s) /\ ~InLine(s, j)
<1>1. PICK a \in Seq(Jobs), b \in Seq(Jobs) : s = a \o b /\ t = (a \o <<j>>) \o b
  BY DEF Inserted
<1> DEFINE c == a \o <<j>>
           k == Len(a) + 1
<1>2. c \in Seq(Jobs) /\ Len(c) = k /\ c[k] = j /\ \A i \in 1..Len(a) : c[i] = a[i]
  BY <1>1
<1>3. Len(a) \in Nat /\ Len(b) \in Nat
  BY <1>1
<1>4. /\ s \in Seq(Jobs) /\ Len(s) = Len(a) + Len(b)
      /\ \A i \in 1..(Len(a) + Len(b)) : s[i] = IF i <= Len(a) THEN a[i] ELSE b[i - Len(a)]
  BY <1>1, ConcatProperties
<1>5. /\ t \in Seq(Jobs) /\ Len(t) = Len(c) + Len(b)
      /\ \A i \in 1..(Len(c) + Len(b)) : t[i] = IF i <= Len(c) THEN c[i] ELSE b[i - Len(c)]
  <2> HIDE DEF c
  <2> QED BY <1>1, <1>2, ConcatProperties DEF c
<1> HIDE DEF c, k
<1>6. k \in Nat /\ k = Len(a) + 1 /\ k \in 1..Len(t) /\ Len(s) \in Nat /\ Len(t) = Len(s) + 1
  BY <1>2, <1>3, <1>4, <1>5 DEF k
<1>7. t[k] = j
  BY <1>2, <1>3, <1>5, <1>6
<1>8. ASSUME NEW i \in 1..Len(s), i < k PROVE t[i] = s[i] /\ i \in 1..Len(t)
  <2>1. i \in 1..Len(a) /\ i \in 1..(Len(a) + Len(b)) /\ i \in 1..(Len(c) + Len(b)) /\ i <= Len(c)
    BY <1>2, <1>3, <1>4, <1>6, <1>8
  <2>2. s[i] = a[i] /\ t[i] = c[i]
    BY <1>4, <1>5, <2>1
  <2> QED BY <1>2, <1>5, <2>1, <2>2
<1>9. ASSUME NEW i \in 1..Len(s), i >= k PROVE t[i + 1] = s[i] /\ i + 1 \in 1..Len(t)
  <2>1. /\ i \in 1..(Len(a) + Len(b)) /\ ~(i <= Len(a)) /\ i + 1 \in 1..(Len(c) + Len(b))
        /\ ~(i + 1 <= Len(c)) /\ (i + 1) - Len(c) = i - Len(a)
    BY <1>2, <1>3, <1>4, <1>6, <1>9
  <2>2. s[i] = b[i - Len(a)] /\ t[i + 1] = b[(i + 1) - Len(c)]
    BY <1>4, <1>5, <2>1
  <2> QED BY <1>5, <2>1, <2>2
<1> HIDE <1>2, <1>4, <1>5
<1>10. ASSUME NEW i \in 1..Len(t)
       PROVE  \/ i < k /\ i \in 1..Len(s) /\ t[i] = s[i]
              \/ i = k /\ t[i] = j
              \/ i > k /\ i - 1 \in 1..Len(s) /\ t[i] = s[i - 1]
  <2>1. CASE i < k
    <3>1. i \in 1..Len(s)
      BY <1>6, <2>1
    <3> QED BY <1>8, <2>1, <3>1
  <2>2. CASE i > k
    <3>1. i - 1 \in 1..Len(s) /\ i - 1 >= k /\ (i - 1) + 1 = i
      BY <1>6, <2>2
    <3> QED BY <1>9, <2>2, <3>1
  <2> QED BY <1>6, <1>7, <2>1, <2>2
<1>11. ASSUME NEW x PROVE InLine(t, x) <=> x = j \/ InLine(s, x)
  <2>1. ASSUME NEW i \in 1..Len(s), s[i] = x PROVE InLine(t, x)
    BY <1>6, <1>8, <1>9, <2>1 DEF InLine
  <2>2. ASSUME NEW i \in 1..Len(t), t[i] = x PROVE x = j \/ InLine(s, x)
    BY <1>10, <2>2 DEF InLine
  <2>3. InLine(t, j)
    BY <1>6, <1>7 DEF InLine
  <2> QED BY <2>1, <2>2, <2>3 DEF InLine
<1>12. ASSUME NEW x, NEW y, Ahead(s, x, y) PROVE Ahead(t, x, y)
  <2>1. PICK i \in 1..Len(s), n \in 1..Len(s) : i < n /\ s[i] = x /\ s[n] = y
    BY <1>12 DEF Ahead
  <2> DEFINE u == IF i < k THEN i ELSE i + 1
             v == IF n < k THEN n ELSE n + 1
  <2>2. u \in 1..Len(t) /\ t[u] = x
    BY <1>6, <1>8, <1>9, <2>1
  <2>3. v \in 1..Len(t) /\ t[v] = y
    BY <1>6, <1>8, <1>9, <2>1
  <2>4. u < v
    BY <1>6, <2>1
  <2> HIDE DEF u, v
  <2> QED BY <2>2, <2>3, <2>4 DEF Ahead
<1>13. ASSUME NEW x, NEW y, x # j, y # j, Ahead(t, x, y) PROVE Ahead(s, x, y)
  <2>1. PICK i \in 1..Len(t), n \in 1..Len(t) : i < n /\ t[i] = x /\ t[n] = y
    BY <1>13 DEF Ahead
  <2> DEFINE u == IF i < k THEN i ELSE i - 1
             v == IF n < k THEN n ELSE n - 1
  <2>2. u \in 1..Len(s) /\ s[u] = x /\ i # k
    BY <1>6, <1>7, <1>10, <1>13, <2>1
  <2>3. v \in 1..Len(s) /\ s[v] = y /\ n # k
    BY <1>6, <1>7, <1>10, <1>13, <2>1
  <2>4. u < v
    BY <1>6, <2>1, <2>2, <2>3
  <2> HIDE DEF u, v
  <2> QED BY <2>2, <2>3, <2>4 DEF Ahead
<1>14. ASSUME NoneTwice(t) PROVE NoneTwice(s) /\ ~InLine(s, j)
  <2>1. ASSUME NEW i \in 1..Len(s), NEW n \in 1..Len(s), s[i] = s[n] PROVE i = n
    <3> DEFINE u == IF i < k THEN i ELSE i + 1
               v == IF n < k THEN n ELSE n + 1
    <3>0. u \in 1..Len(t) /\ t[u] = s[i]
      BY <1>6, <1>8, <1>9
    <3>1. u \in 1..Len(t) /\ t[u] = s[i] /\ v \in 1..Len(t) /\ t[v] = s[n]
      BY <1>6, <1>8, <1>9, <3>0
    <3>2. u = v
      BY <1>14, <2>1, <3>1 DEF NoneTwice
    <3> QED BY <1>6, <3>2
  <2>2. ASSUME NEW i \in 1..Len(s), s[i] = j PROVE FALSE
    <3> DEFINE u == IF i < k THEN i ELSE i + 1
    <3>1. u \in 1..Len(t) /\ t[u] = t[k] /\ u # k
      BY <1>6, <1>7, <1>8, <1>9, <2>2
    <3> QED BY <1>6, <1>14, <3>1 DEF NoneTwice
  <2> QED BY <2>1, <2>2 DEF NoneTwice, InLine
<1>15. ASSUME NoneTwice(s), ~InLine(s, j) PROVE NoneTwice(t)
  <2>1. ASSUME NEW i \in 1..Len(t), NEW n \in 1..Len(t), t[i] = t[n] PROVE i = n
    <3>1. \A m \in 1..Len(s) : s[m] # j
      BY <1>15 DEF InLine
    <3>2. ASSUME NEW m \in 1..Len(t), m # k PROVE t[m] # j
      <4> DEFINE v == IF m < k THEN m ELSE m - 1
      <4>1. v \in 1..Len(s) /\ s[v] = t[m]
        BY <1>6, <1>10, <3>2
      <4> QED BY <3>1, <4>1
    <3>3. CASE i # k /\ n # k
      <4> DEFINE u == IF i < k THEN i ELSE i - 1
                 v == IF n < k THEN n ELSE n - 1
      <4>1. u \in 1..Len(s) /\ s[u] = t[i]
        BY <1>6, <1>10, <3>3
      <4>2. v \in 1..Len(s) /\ s[v] = t[n]
        BY <1>6, <1>10, <3>3
      <4>3. u = v
        BY <1>15, <2>1, <4>1, <4>2 DEF NoneTwice
      <4> QED BY <1>6, <3>3, <4>3
    <3>4. CASE i = k \/ n = k
      BY <1>7, <2>1, <3>2, <3>4
    <3> QED BY <3>3, <3>4
  <2> QED BY <2>1 DEF NoneTwice
<1> QED BY <1>4, <1>5, <1>11, <1>12, <1>13, <1>14, <1>15

LEMMA Joins ==
  /\ \A a, b \in Seq(Jobs) : Cat(a, b) \in Seq(Jobs)
  /\ \A a, b, c \in Seq(Jobs) : Cat(Cat(a, b), c) = Cat(a, Cat(b, c))
<1>1. \A a, b \in Seq(Jobs) : a \o b \in Seq(Jobs)
  BY ConcatProperties, Zenon
<1>2. ASSUME NEW a \in Seq(Jobs), NEW b \in Seq(Jobs), NEW c \in Seq(Jobs)
      PROVE  (a \o b) \o c = a \o (b \o c)
  BY ConcatAssociative
<1> QED BY <1>1, <1>2, Zenon DEF Cat

\* Regrouping a line around one of its jobs.
LEMMA Regroup ==
  ASSUME NEW h \in Seq(Jobs), NEW m \in Seq(Jobs), NEW l \in Seq(Jobs), NEW u \in Seq(Jobs), NEW v \in Seq(Jobs)
  PROVE  /\ Cat(Cat(Cat(u, v), m), l) = Cat(u, Cat(Cat(v, m), l))
         /\ Cat(Cat(h, Cat(u, v)), l) = Cat(Cat(h, u), Cat(v, l))
         /\ Cat(Cat(h, m), Cat(u, v)) = Cat(Cat(Cat(h, m), u), v)
<1>1. Cat(Cat(Cat(u, v), m), l) = Cat(u, Cat(Cat(v, m), l))
  <2>1. Cat(Cat(u, v), m) = Cat(u, Cat(v, m)) /\ Cat(v, m) \in Seq(Jobs)
    BY Joins
  <2>2. Cat(Cat(u, Cat(v, m)), l) = Cat(u, Cat(Cat(v, m), l))
    BY <2>1, Joins
  <2> QED BY <2>1, <2>2
<1>2. Cat(Cat(h, Cat(u, v)), l) = Cat(Cat(h, u), Cat(v, l))
  <2>1. Cat(h, Cat(u, v)) = Cat(Cat(h, u), v) /\ Cat(h, u) \in Seq(Jobs)
    BY Joins
  <2>2. Cat(Cat(Cat(h, u), v), l) = Cat(Cat(h, u), Cat(v, l))
    BY <2>1, Joins
  <2> QED BY <2>1, <2>2
<1>3. Cat(Cat(h, m), Cat(u, v)) = Cat(Cat(Cat(h, m), u), v)
  <2>1. Cat(h, m) \in Seq(Jobs)
    BY Joins
  <2> QED BY <2>1, Joins
<1> QED BY <1>1, <1>2, <1>3

\* A job put into one queue is put into the line.
LEMMA LineInsert ==
  ASSUME NEW q \in [Priorities -> Seq(Jobs)], NEW r \in [Priorities -> Seq(Jobs)],
         NEW p \in Priorities, NEW u \in Seq(Jobs), NEW v \in Seq(Jobs), NEW j \in Jobs
  PROVE  /\ q[p] = Cat(u, v) /\ r[p] = Cat(Cat(u, <<j>>), v)
         /\ \A z \in Priorities : z # p => r[z] = q[z]
         => Inserted(LineOf(q), LineOf(r), j)
<1> DEFINE h == q["high"]   m == q["med"]   l == q["low"]   x == <<j>>   y == Cat(u, x)
<1>1. h \in Seq(Jobs) /\ m \in Seq(Jobs) /\ l \in Seq(Jobs) /\ x \in Seq(Jobs)
  BY DEF Priorities
<1>2. LineOf(q) = Cat(Cat(h, m), l) /\ LineOf(r) = Cat(Cat(r["high"], r["med"]), r["low"])
  BY DEF LineOf
<1> HIDE DEF h, m, l, x
<1>0. y \in Seq(Jobs)
  BY <1>1, Joins
<1>4. /\ Cat(Cat(Cat(u, v), m), l) = Cat(u, Cat(Cat(v, m), l))
      /\ Cat(Cat(h, Cat(u, v)), l) = Cat(Cat(h, u), Cat(v, l))
      /\ Cat(Cat(h, m), Cat(u, v)) = Cat(Cat(Cat(h, m), u), v)
  BY <1>1, Regroup
<1> HIDE DEF y
<1>5. /\ Cat(Cat(Cat(y, v), m), l) = Cat(y, Cat(Cat(v, m), l))
      /\ Cat(Cat(h, Cat(y, v)), l) = Cat(Cat(h, y), Cat(v, l))
      /\ Cat(Cat(h, m), Cat(y, v)) = Cat(Cat(Cat(h, m), y), v)
  BY <1>0, <1>1, Regroup
<1>3. y = Cat(u, x)
  BY DEF y
<1>6. SUFFICES ASSUME q[p] = Cat(u, v) /\ r[p] = Cat(y, v),
                      \A z \in Priorities : z # p => r[z] = q[z]
               PROVE  Inserted(LineOf(q), LineOf(r), j)
  BY DEF y, x
<1>7. \/ p = "high" /\ h = q[p] /\ r["high"] = r[p] /\ r["med"] = m /\ r["low"] = l
      \/ p = "med" /\ m = q[p] /\ r["high"] = h /\ r["med"] = r[p] /\ r["low"] = l
      \/ p = "low" /\ l = q[p] /\ r["high"] = h /\ r["med"] = m /\ r["low"] = r[p]
  BY <1>6 DEF Priorities, h, m, l
<1>8. \E a, b \in Seq(Jobs) : LineOf(q) = Cat(a, b) /\ LineOf(r) = Cat(Cat(a, x), b)
  <2>1. CASE p = "high"
    <3>1. Cat(Cat(v, m), l) \in Seq(Jobs)
      BY <1>1, Joins
    <3>2. LineOf(q) = Cat(Cat(Cat(u, v), m), l) /\ LineOf(r) = Cat(Cat(Cat(y, v), m), l)
      BY <1>2, <1>6, <1>7, <2>1
    <3>3. LineOf(q) = Cat(u, Cat(Cat(v, m), l)) /\ LineOf(r) = Cat(Cat(u, x), Cat(Cat(v, m), l))
      BY <1>3, <1>4, <1>5, <3>2
    <3> QED BY <3>1, <3>3
  <2>2. CASE p = "med"
    <3>1. Cat(h, u) \in Seq(Jobs) /\ Cat(v, l) \in Seq(Jobs) /\ Cat(h, Cat(u, x)) = Cat(Cat(h, u), x)
      BY <1>1, Joins
    <3>2. LineOf(q) = Cat(Cat(h, Cat(u, v)), l) /\ LineOf(r) = Cat(Cat(h, Cat(y, v)), l)
      BY <1>2, <1>6, <1>7, <2>2
    <3>3. LineOf(q) = Cat(Cat(h, u), Cat(v, l)) /\ LineOf(r) = Cat(Cat(h, Cat(u, x)), Cat(v, l))
      BY <1>3, <1>4, <1>5, <3>2
    <3> QED BY <3>1, <3>3
  <2>3. CASE p = "low"
    <3>1. Cat(Cat(h, m), u) \in Seq(Jobs) /\ Cat(h, m) \in Seq(Jobs)
      BY <1>1, Joins
    <3>2. LineOf(q) = Cat(Cat(h, m), Cat(u, v)) /\ LineOf(r) = Cat(Cat(h, m), Cat(y, v))
      BY <1>2, <1>6, <1>7, <2>3
    <3>3. LineOf(q) = Cat(Cat(Cat(h, m), u), v) /\ LineOf(r) = Cat(Cat(Cat(h, m), Cat(u, x)), v)
      BY <1>3, <1>4, <1>5, <3>2
    <3>4. Cat(Cat(h, m), Cat(u, x)) = Cat(Cat(Cat(h, m), u), x)
      BY <1>1, <3>1, Joins
    <3> QED BY <3>1, <3>3, <3>4
  <2> QED BY <2>1, <2>2, <2>3 DEF Priorities
<1> QED BY <1>8 DEF Inserted, Cat, x

\* A line cut in two.
LEMMA Split ==
  ASSUME NEW s \in Seq(Jobs), NEW m \in 0..Len(s)
  PROVE  /\ SubSeq(s, 1, m) \in Seq(Jobs) /\ SubSeq(s, m+1, Len(s)) \in Seq(Jobs)
         /\ Cat(SubSeq(s, 1, m), SubSeq(s, m+1, Len(s))) = s
<1>1. 1 \in 1..(Len(s) + 1) /\ m \in (1 - 1)..Len(s) /\ Len(s) \in m..Len(s)
  OBVIOUS
<1>2. SubSeq(s, 1, m) \o SubSeq(s, m+1, Len(s)) = SubSeq(s, 1, Len(s))
  BY <1>1, ConcatAdjacentSubSeq, Zenon
<1>3. SubSeq(s, 1, Len(s)) = s
  OBVIOUS
<1>4. SubSeq(s, 1, m) \in Seq(Jobs) /\ SubSeq(s, m+1, Len(s)) \in Seq(Jobs)
  OBVIOUS
<1> QED BY <1>2, <1>3, <1>4 DEF Cat

\* Raising priorities moves the borders between the queues, not the jobs.
LEMMA BumpedLine ==
  ASSUME queue \in [Priorities -> Seq(Jobs)]
  PROVE  LineOf(Bumped) = LineOf(queue)
<1> DEFINE h == queue["high"]
           d == queue["med"]
           low == queue["low"]
           m == AgedPrefix(low, MaxIdleTime)
           low1 == SubSeq(low, 1, m)
           low2 == SubSeq(low, m+1, Len(low))
           med == d \o low1
           k == AgedPrefix(med, StarvationTime)
           med1 == SubSeq(med, 1, k)
           med2 == SubSeq(med, k+1, Len(med))
<1>1. low \in Seq(Jobs) /\ d \in Seq(Jobs) /\ h \in Seq(Jobs)
  BY DEF Priorities
<1>2. low1 \in Seq(Jobs) /\ low2 \in Seq(Jobs) /\ Cat(low1, low2) = low
  <2>1. m \in 0..Len(low)
    BY <1>1, AgedPrefixRange
  <2> HIDE DEF m, low
  <2> QED BY <1>1, <2>1, Split
<1> HIDE DEF low1, low2
<1>3. med = Cat(d, low1) /\ med \in Seq(Jobs)
  BY <1>1, <1>2, Joins DEF Cat
<1>4. med1 \in Seq(Jobs) /\ med2 \in Seq(Jobs) /\ Cat(med1, med2) = med
  <2> HIDE DEF med
  <2>1. k \in 0..Len(med)
    BY <1>3, AgedPrefixRange
  <2> HIDE DEF k
  <2> QED BY <1>3, <2>1, Split
<1>5. Bumped = [p \in Priorities |->
                  CASE p = "low" -> low2 [] p = "med" -> med2 [] p = "high" -> Cat(h, med1)]
  BY DEF Bumped, low2, low1, Cat
<1> HIDE DEF med1, med2, k, med
<1>6. Bumped["low"] = low2 /\ Bumped["med"] = med2 /\ Bumped["high"] = Cat(h, med1)
  BY <1>5 DEF Priorities
<1>7. LineOf(queue) = Cat(Cat(h, d), low) /\ LineOf(Bumped) = Cat(Cat(Cat(h, med1), med2), low2)
  BY <1>6 DEF LineOf
<1> HIDE DEF h, d, low
<1>8. Cat(Cat(h, med1), med2) = Cat(Cat(h, d), low1)
  BY <1>1, <1>2, <1>3, <1>4, Joins
<1>9. Cat(Cat(Cat(h, d), low1), low2) = Cat(Cat(h, d), low)
  BY <1>1, <1>2, Joins
<1> QED BY <1>7, <1>8, <1>9

\* Where the queue of priority p begins in the line.
Offset(q, p) ==
  IF p = "high" THEN 0
  ELSE IF p = "med" THEN Len(q["high"]) ELSE Len(q["high"]) + Len(q["med"])

\* The places of the line are the places of the queues.
LEMMA LinePlaces ==
  ASSUME NEW q \in [Priorities -> Seq(Jobs)]
  PROVE  /\ LineOf(q) \in Seq(Jobs)
         /\ \A p \in Priorities : Offset(q, p) \in Nat /\ q[p] \in Seq(Jobs) /\ Len(q[p]) \in Nat
         /\ \A p \in Priorities : \A i \in 1..Len(q[p]) :
              Offset(q, p) + i \in 1..Len(LineOf(q)) /\ LineOf(q)[Offset(q, p) + i] = q[p][i]
         /\ \A k \in 1..Len(LineOf(q)) :
              \E p \in Priorities : \E i \in 1..Len(q[p]) : k = Offset(q, p) + i
<1> DEFINE h == q["high"]   m == q["med"]   l == q["low"]   hm == h \o m   a == Len(h)   b == Len(m)   c == Len(l)
<1>1. h \in Seq(Jobs) /\ m \in Seq(Jobs) /\ l \in Seq(Jobs) /\ a \in Nat /\ b \in Nat /\ c \in Nat
  <2>1. h \in Seq(Jobs) /\ m \in Seq(Jobs) /\ l \in Seq(Jobs)
    BY DEF Priorities
  <2> HIDE DEF h, m, l
  <2> QED BY <2>1
<1>2. LineOf(q) = hm \o l
  BY DEF LineOf, Cat
<1>3. /\ \A p \in Priorities : q[p] \in Seq(Jobs) /\ Len(q[p]) \in Nat
      /\ \A p \in Priorities : \/ p = "high" /\ q[p] = h /\ Offset(q, p) = 0
                               \/ p = "med" /\ q[p] = m /\ Offset(q, p) = a
                               \/ p = "low" /\ q[p] = l /\ Offset(q, p) = a + b
      /\ h = q["high"] /\ Offset(q, "high") = 0 /\ m = q["med"] /\ Offset(q, "med") = a
      /\ l = q["low"] /\ Offset(q, "low") = a + b
  <2>1. \A p \in Priorities : q[p] \in Seq(Jobs) /\ Len(q[p]) \in Nat
    OBVIOUS
  <2> QED BY <2>1 DEF Offset, Priorities
<1> HIDE DEF h, m, l
<1>4. /\ hm \in Seq(Jobs) /\ Len(hm) = a + b
      /\ \A i \in 1..(a + b) : hm[i] = IF i <= a THEN h[i] ELSE m[i - a]
  BY <1>1, ConcatProperties
<1> HIDE DEF hm
<1>5. /\ hm \o l \in Seq(Jobs) /\ Len(hm \o l) = (a + b) + c
      /\ \A i \in 1..((a + b) + c) : (hm \o l)[i] = IF i <= a + b THEN hm[i] ELSE l[i - (a + b)]
  <2>1. /\ hm \o l \in Seq(Jobs) /\ Len(hm \o l) = Len(hm) + Len(l)
        /\ \A i \in 1..(Len(hm) + Len(l)) : (hm \o l)[i] = IF i <= Len(hm) THEN hm[i] ELSE l[i - Len(hm)]
    <3>1. hm \in Seq(Jobs) /\ l \in Seq(Jobs)
      BY <1>1, <1>4
    <3> HIDE DEF a, b, c
    <3> QED BY <3>1, ConcatProperties
  <2> QED BY <1>4, <2>1
<1> DEFINE t == LineOf(q)
<1>6. /\ t \in Seq(Jobs) /\ Len(t) = (a + b) + c
      /\ \A i \in 1..((a + b) + c) : t[i] = IF i <= a + b THEN hm[i] ELSE l[i - (a + b)]
  BY <1>2, <1>5
<1> HIDE DEF t
<1>7. /\ \A i \in 1..a : i \in 1..Len(t) /\ t[i] = h[i]
      /\ \A i \in 1..b : a + i \in 1..Len(t) /\ t[a + i] = m[i]
      /\ \A i \in 1..c : (a + b) + i \in 1..Len(t) /\ t[(a + b) + i] = l[i]
  <2> HIDE DEF a, b, c
  <2>1. ASSUME NEW i \in 1..a PROVE i \in 1..Len(t) /\ t[i] = h[i]
    <3>1. i \in 1..((a + b) + c) /\ i <= a + b /\ i \in 1..(a + b) /\ i <= a
      BY <1>1
    <3>2. t[i] = hm[i] /\ hm[i] = h[i]
      BY <1>4, <1>6, <3>1
    <3> QED BY <1>6, <3>1, <3>2
  <2>2. ASSUME NEW i \in 1..b PROVE a + i \in 1..Len(t) /\ t[a + i] = m[i]
    <3>1. a + i \in 1..((a + b) + c) /\ a + i <= a + b /\ a + i \in 1..(a + b) /\ ~(a + i <= a) /\ (a + i) - a = i
      BY <1>1
    <3>2. t[a + i] = hm[a + i] /\ hm[a + i] = m[(a + i) - a]
      BY <1>4, <1>6, <3>1
    <3> QED BY <1>6, <3>1, <3>2
  <2>3. ASSUME NEW i \in 1..c PROVE (a + b) + i \in 1..Len(t) /\ t[(a + b) + i] = l[i]
    <3>1. (a + b) + i \in 1..((a + b) + c) /\ ~((a + b) + i <= a + b) /\ ((a + b) + i) - (a + b) = i
      BY <1>1
    <3>2. t[(a + b) + i] = l[((a + b) + i) - (a + b)]
      BY <1>6, <3>1
    <3> QED BY <1>6, <3>1, <3>2
  <2> QED BY <2>1, <2>2, <2>3
<1>8. ASSUME NEW p \in Priorities, NEW i \in 1..Len(q[p])
      PROVE  Offset(q, p) + i \in 1..Len(t) /\ t[Offset(q, p) + i] = q[p][i]
  <2>1. CASE p = "high"
    <3>1. i \in 1..a /\ Offset(q, p) + i = i
      BY <1>1, <1>3, <2>1
    <3> QED BY <1>3, <1>7, <2>1, <3>1
  <2>2. CASE p = "med"
    BY <1>3, <1>7, <2>2
  <2>3. CASE p = "low"
    BY <1>3, <1>7, <2>3
  <2> QED BY <2>1, <2>2, <2>3 DEF Priorities
<1>9. ASSUME NEW k \in 1..Len(t)
      PROVE  \E p \in Priorities : \E i \in 1..Len(q[p]) : k = Offset(q, p) + i
  <2>1. CASE k <= a
    <3>1. k \in 1..Len(q["high"]) /\ k = Offset(q, "high") + k
      BY <1>1, <1>3, <1>6, <2>1
    <3> QED BY <3>1 DEF Priorities
  <2>2. CASE k > a /\ k <= a + b
    <3>1. k - a \in 1..Len(q["med"]) /\ k = Offset(q, "med") + (k - a)
      <4> HIDE DEF a
      <4>1. k - a \in 1..b /\ k = a + (k - a)
        BY <1>1, <1>6, <2>2
      <4> QED BY <1>3, <4>1
    <3> QED BY <3>1 DEF Priorities
  <2>3. CASE k > a + b
    <3>1. k - (a + b) \in 1..Len(q["low"]) /\ k = Offset(q, "low") + (k - (a + b))
      <4> HIDE DEF a, b
      <4>1. k - (a + b) \in 1..c /\ k = (a + b) + (k - (a + b))
        BY <1>1, <1>6, <2>3
      <4> QED BY <1>3, <4>1
    <3> QED BY <3>1 DEF Priorities
  <2> QED BY <1>1, <1>6, <2>1, <2>2, <2>3
<1>10. \A p \in Priorities : Offset(q, p) \in Nat
  <2> HIDE DEF a, b, c
  <2>1. 0 \in Nat /\ a \in Nat /\ a + b \in Nat
    BY <1>1
  <2>2. Offset(q, "high") \in Nat /\ Offset(q, "med") \in Nat /\ Offset(q, "low") \in Nat
    BY <1>3, <2>1
  <2> QED BY <2>2 DEF Priorities
<1> QED BY <1>3, <1>6, <1>8, <1>9, <1>10 DEF t

\* What is before in the queues is before in the line.
LEMMA OffsetsGrow ==
  ASSUME NEW q \in [Priorities -> Seq(Jobs)], NEW p \in Priorities, NEW r \in Priorities,
         NEW i \in 1..Len(q[p]), NEW k \in 1..Len(q[r]),
         \/ p = r /\ i < k
         \/ <<p, r>> \in {<<"high", "med">>, <<"high", "low">>, <<"med", "low">>}
  PROVE  Offset(q, p) + i < Offset(q, r) + k
<1>1. \A z \in Priorities : Offset(q, z) \in Nat /\ Len(q[z]) \in Nat
  BY LinePlaces
<1>2. Offset(q, p) \in Nat /\ Offset(q, r) \in Nat /\ i \in Nat /\ k \in Nat /\ k > 0
  BY <1>1
<1>3. CASE p = r /\ i < k
  BY <1>2, <1>3
<1>4. CASE <<p, r>> \in {<<"high", "med">>, <<"high", "low">>, <<"med", "low">>}
  <2>1. Len(q["high"]) \in Nat /\ Len(q["med"]) \in Nat /\ i <= Len(q[p])
    BY <1>1 DEF Priorities
  <2>2. CASE p = "high" /\ r = "med"
    BY <1>2, <2>1, <2>2 DEF Offset
  <2>3. CASE p = "high" /\ r = "low"
    BY <1>2, <2>1, <2>3 DEF Offset
  <2>4. CASE p = "med" /\ r = "low"
    BY <1>2, <2>1, <2>4 DEF Offset
  <2> QED BY <1>4, <2>2, <2>3, <2>4
<1> QED BY <1>3, <1>4

\* Who is in the line, and in which order, is who is in the queues.
LEMMA LineOrder ==
  ASSUME NEW q \in [Priorities -> Seq(Jobs)], NEW x, NEW y
  PROVE  /\ InLine(LineOf(q), x) <=> \E p \in Priorities : \E i \in DOMAIN q[p] : q[p][i] = x
         /\ Ahead(LineOf(q), x, y) <=> Before(q, x, y)
<1> DEFINE t == LineOf(q)
<1>1. \A p \in Priorities : DOMAIN q[p] = 1..Len(q[p]) /\ Offset(q, p) \in Nat /\ Len(q[p]) \in Nat
  BY LinePlaces
<1>2. InLine(t, x) <=> \E p \in Priorities : \E i \in DOMAIN q[p] : q[p][i] = x
  <2>1. ASSUME NEW p \in Priorities, NEW i \in 1..Len(q[p]), q[p][i] = x PROVE InLine(t, x)
    BY <2>1, LinePlaces DEF InLine
  <2>2. ASSUME NEW k \in 1..Len(t), t[k] = x PROVE \E p \in Priorities : \E i \in 1..Len(q[p]) : q[p][i] = x
    <3>1. PICK p \in Priorities : \E i \in 1..Len(q[p]) : k = Offset(q, p) + i
      BY LinePlaces
    <3>2. PICK i \in 1..Len(q[p]) : k = Offset(q, p) + i
      BY <3>1
    <3>3. t[Offset(q, p) + i] = q[p][i]
      BY LinePlaces
    <3> QED BY <2>2, <3>2, <3>3
  <2> QED BY <1>1, <2>1, <2>2 DEF InLine
<1>4. ASSUME Before(q, x, y) PROVE Ahead(t, x, y)
  <2>0. PICK p \in Priorities, r \in Priorities : \E i \in 1..Len(q[p]), k \in 1..Len(q[r]) :
          /\ \/ p = r /\ i < k
             \/ <<p, r>> \in {<<"high", "med">>, <<"high", "low">>, <<"med", "low">>}
          /\ q[p][i] = x /\ q[r][k] = y
    BY <1>1, <1>4 DEF Before
  <2>1. PICK i \in 1..Len(q[p]), k \in 1..Len(q[r]) :
          /\ \/ p = r /\ i < k
             \/ <<p, r>> \in {<<"high", "med">>, <<"high", "low">>, <<"med", "low">>}
          /\ q[p][i] = x /\ q[r][k] = y
    BY <2>0
  <2>2. Offset(q, p) + i < Offset(q, r) + k
    BY <2>1, OffsetsGrow
  <2> QED BY <2>1, <2>2, LinePlaces DEF Ahead
<1>5. ASSUME Ahead(t, x, y) PROVE Before(q, x, y)
  <2>1. PICK u \in 1..Len(t), v \in 1..Len(t) : u < v /\ t[u] = x /\ t[v] = y
    BY <1>5 DEF Ahead
  <2>2. PICK p \in Priorities : \E i \in 1..Len(q[p]) : u = Offset(q, p) + i
    BY LinePlaces
  <2>3. PICK i \in 1..Len(q[p]) : u = Offset(q, p) + i
    BY <2>2
  <2>4. PICK r \in Priorities : \E i1 \in 1..Len(q[r]) : v = Offset(q, r) + i1
    BY LinePlaces
  <2>5. PICK k \in 1..Len(q[r]) : v = Offset(q, r) + k
    BY <2>4
  <2>6. q[p][i] = x /\ q[r][k] = y
    BY <2>1, <2>3, <2>5, LinePlaces
  <2>7. CASE p = r
    <3>1. i < k
      <4>1. i \in Int /\ k \in Int /\ Offset(q, p) \in Nat
        BY <1>1
      <4> QED BY <2>1, <2>3, <2>5, <2>7, <4>1
    <3> QED BY <1>1, <2>6, <2>7, <3>1 DEF Before
  <2>8. CASE p # r
    <3>1. ~(<<r, p>> \in {<<"high", "med">>, <<"high", "low">>, <<"med", "low">>})
      <4>1. SUFFICES ASSUME <<r, p>> \in {<<"high", "med">>, <<"high", "low">>, <<"med", "low">>} PROVE FALSE
        OBVIOUS
      <4>2. Offset(q, r) + k < Offset(q, p) + i
        BY <4>1, OffsetsGrow
      <4>3. u \in Int /\ v \in Int
        OBVIOUS
      <4> QED BY <2>1, <2>3, <2>5, <4>2, <4>3
    <3>2. <<p, r>> \in {<<"high", "med">>, <<"high", "low">>, <<"med", "low">>}
      BY <2>8, <3>1 DEF Priorities
    <3> QED BY <1>1, <2>6, <3>2 DEF Before
  <2> QED BY <2>7, <2>8
<1> QED BY <1>2, <1>4, <1>5

\* ThreadPoolAdd puts a job into the line,
LEMMA AddLine ==
  ASSUME queue \in [Priorities -> Seq(Jobs)], NEW j \in Jobs, NEW p \in Priorities,
         queue' = [queue EXCEPT ![p] = Append(@, j)]
  PROVE  queue' \in [Priorities -> Seq(Jobs)] /\ Inserted(LineOf(queue), LineOf(queue'), j)
<1> DEFINE u == queue[p]
<1>1. u \in Seq(Jobs) /\ <<>> \in Seq(Jobs)
  OBVIOUS
<1>2. u = u \o <<>> /\ Append(u, j) = (u \o <<j>>) \o <<>> /\ Append(u, j) \in Seq(Jobs)
  <2> HIDE DEF u
  <2>1. Append(u, j) = u \o <<j>> /\ Append(u, j) \in Seq(Jobs)
    BY <1>1, AppendIsConcat
  <2>2. u \o <<>> = u /\ Append(u, j) \o <<>> = Append(u, j)
    BY <1>1, <2>1, ConcatEmptySeq
  <2> QED BY <2>1, <2>2
<1>3. queue' \in [Priorities -> Seq(Jobs)] /\ queue'[p] = Append(u, j) /\ \A z \in Priorities : z # p => queue'[z] = queue[z]
  BY <1>2
<1>4. queue[p] = Cat(u, <<>>) /\ queue'[p] = Cat(Cat(u, <<j>>), <<>>)
  BY <1>2, <1>3 DEF Cat
<1> HIDE DEF u
<1> QED BY <1>1, <1>3, <1>4, LineInsert

\* ThreadPoolRemove takes one out of it,
LEMMA RemoveLine ==
  ASSUME queue \in [Priorities -> Seq(Jobs)], NEW p \in Priorities, NEW i \in 1..Len(queue[p]),
         queue' = [queue EXCEPT ![p] = SubSeq(@, 1, i-1) \o SubSeq(@, i+1, Len(@))]
  PROVE  /\ queue' \in [Priorities -> Seq(Jobs)] /\ queue[p][i] \in Jobs
         /\ Inserted(LineOf(queue'), LineOf(queue), queue[p][i])
<1> DEFINE s == queue[p]
           u == SubSeq(s, 1, i-1)
           v == SubSeq(s, i+1, Len(s))
           r == SubSeq(s, i, Len(s))
<1>1. s \in Seq(Jobs) /\ i \in 1..Len(s)
  OBVIOUS
<1>2. queue'[p] = u \o v /\ \A z \in Priorities : z # p => queue'[z] = queue[z]
  OBVIOUS
<1>3. queue' = [queue EXCEPT ![p] = u \o v]
  OBVIOUS
<1> HIDE DEF s
<1>4. u \in Seq(Jobs) /\ v \in Seq(Jobs) /\ r \in Seq(Jobs) /\ s[i] \in Jobs /\ <<s[i]>> \in Seq(Jobs)
  BY <1>1
<1>5. r = Cat(<<s[i]>>, v)
  BY <1>1, SubSeqRecursiveFirst DEF Cat
<1>6. s = Cat(u, r)
  <2>1. i - 1 \in 0..Len(s) /\ (i - 1) + 1 = i
    BY <1>1
  <2>2. Cat(SubSeq(s, 1, i-1), SubSeq(s, (i-1)+1, Len(s))) = s
    BY <1>1, <2>1, Split
  <2> QED BY <2>1, <2>2
<1> HIDE DEF u, v, r
<1>7. s = Cat(Cat(u, <<s[i]>>), v)
  <2> DEFINE x == <<s[i]>>
  <2> HIDE DEF x
  <2>1. x \in Seq(Jobs) /\ r = Cat(x, v)
    BY <1>4, <1>5 DEF x
  <2>2. s = Cat(Cat(u, x), v)
    BY <1>4, <1>6, <2>1, Joins
  <2> QED BY <2>2 DEF x
<1>8. queue' \in [Priorities -> Seq(Jobs)]
  BY <1>3, <1>4, ConcatProperties
<1>9. queue[p] = Cat(Cat(u, <<s[i]>>), v) /\ queue'[p] = Cat(u, v) /\ queue[p][i] = s[i]
  BY <1>2, <1>7 DEF s, Cat
<1>10. Inserted(LineOf(queue'), LineOf(queue), s[i])
  <2>1. \A z \in Priorities : z # p => queue[z] = queue'[z]
    BY <1>2
  <2>2. queue \in [Priorities -> Seq(Jobs)]
    OBVIOUS
  <2> DEFINE x == s[i]
  <2>3. x \in Jobs /\ queue[p] = Cat(Cat(u, <<x>>), v)
    BY <1>4, <1>9
  <2> HIDE DEF x
  <2>4. Inserted(LineOf(queue'), LineOf(queue), x)
    BY <1>4, <1>8, <1>9, <2>1, <2>2, <2>3, LineInsert
  <2> QED BY <2>4 DEF x
<1> QED BY <1>4, <1>8, <1>9, <1>10

\* and a thread takes the first.
LEMMA ServeLine ==
  ASSUME queue \in [Priorities -> Seq(Jobs)], QueuedJobs > 0,
         queue' = [Bumped EXCEPT ![Highest(Bumped)] = Tail(@)]
  PROVE  LET j == Head(Bumped[Highest(Bumped)])
         IN  /\ queue' \in [Priorities -> Seq(Jobs)] /\ j \in Jobs
             /\ Inserted(LineOf(queue'), LineOf(queue), j)
             /\ 1 \in 1..Len(LineOf(queue)) /\ LineOf(queue)[1] = j
<1> DEFINE p == Highest(Bumped)
           b == Bumped
           s == b[p]
<1>1. b \in [Priorities -> Seq(Jobs)] /\ Len(b["high"]) + Len(b["low"]) + Len(b["med"]) > 0
  BY BumpedType
<1>2. LineOf(b) = LineOf(queue)
  BY BumpedLine
<1>3. p \in Priorities /\ Offset(b, p) = 0 /\ s # <<>>
  <2> HIDE DEF b
  <2>1. b["high"] \in Seq(Jobs) /\ b["low"] \in Seq(Jobs) /\ b["med"] \in Seq(Jobs)
    BY <1>1 DEF Priorities
  <2>2. b["high"] # <<>> \/ b["med"] # <<>> \/ b["low"] # <<>>
    <3> DEFINE h == b["high"]  d == b["med"]  l == b["low"]
    <3>1. h \in Seq(Jobs) /\ d \in Seq(Jobs) /\ l \in Seq(Jobs) /\ Len(h) + Len(l) + Len(d) > 0
      BY <1>1, <2>1
    <3> HIDE DEF h, d, l
    <3>2. h # <<>> \/ d # <<>> \/ l # <<>>
      BY <3>1
    <3> QED BY <3>2 DEF h, d, l
  <2>3. p = Highest(b)
    BY DEF b
  <2> HIDE DEF p
  <2>4. CASE b["high"] # <<>>
    BY <2>3, <2>4 DEF Highest, Offset, Priorities
  <2>5. CASE b["high"] = <<>> /\ b["med"] # <<>>
    BY <2>3, <2>5 DEF Highest, Offset, Priorities
  <2>6. CASE b["high"] = <<>> /\ b["med"] = <<>>
    BY <2>2, <2>3, <2>6 DEF Highest, Offset, Priorities
  <2> QED BY <2>4, <2>5, <2>6
<1>4. queue' = [b EXCEPT ![p] = Tail(s)]
  OBVIOUS
<1> HIDE DEF b, p
<1>5. s \in Seq(Jobs)
  BY <1>1, <1>3
<1>6. /\ Head(s) \in Jobs /\ Tail(s) \in Seq(Jobs) /\ <<Head(s)>> \in Seq(Jobs) /\ <<>> \in Seq(Jobs)
      /\ 1 \in 1..Len(s) /\ s[1] = Head(s)
  <2> HIDE DEF s
  <2> QED BY <1>3, <1>5
<1>7. s = (<<>> \o <<Head(s)>>) \o Tail(s) /\ Tail(s) = <<>> \o Tail(s)
  <2> HIDE DEF s
  <2>1. s = <<Head(s)>> \o Tail(s)
    <3>1. SubSeq(s, 1, Len(s)) = s /\ Tail(s) = SubSeq(s, 2, Len(s)) /\ 1 \in 1..Len(s) /\ Len(s) \in 1..Len(s)
      BY <1>3, <1>5
    <3>2. SubSeq(s, 1, Len(s)) = <<s[1]>> \o SubSeq(s, 1 + 1, Len(s))
      BY <1>5, <3>1, SubSeqRecursiveFirst
    <3> QED BY <1>6, <3>1, <3>2
  <2>2. <<>> \o <<Head(s)>> = <<Head(s)>> /\ <<>> \o Tail(s) = Tail(s)
    BY <1>6, ConcatEmptySeq
  <2> QED BY <2>1, <2>2
<1>8. queue' \in [Priorities -> Seq(Jobs)] /\ queue'[p] = <<>> \o Tail(s) /\ \A z \in Priorities : z # p => b[z] = queue'[z]
  <2>1. queue' \in [Priorities -> Seq(Jobs)] /\ queue'[p] = Tail(s) /\ \A z \in Priorities : z # p => b[z] = queue'[z]
    <3> HIDE DEF s
    <3> QED BY <1>1, <1>3, <1>4, <1>6
  <2> QED BY <1>7, <2>1
<1>9. Inserted(LineOf(queue'), LineOf(b), Head(s))
  <2>1. b[p] = Cat(Cat(<<>>, <<Head(s)>>), Tail(s)) /\ queue'[p] = Cat(<<>>, Tail(s))
    BY <1>7, <1>8 DEF Cat
  <2> DEFINE x == Head(s)   y == Tail(s)   e == <<>>
  <2>2. /\ x \in Jobs /\ y \in Seq(Jobs)
        /\ b[p] = Cat(Cat(e, <<x>>), y) /\ queue'[p] = Cat(e, y) /\ e \in Seq(Jobs)
    BY <1>6, <2>1
  <2> HIDE DEF s, x, y, e
  <2>3. Inserted(LineOf(queue'), LineOf(b), x)
    BY <1>1, <1>3, <1>8, <2>2, LineInsert
  <2> QED BY <2>3 DEF x
<1>10. 1 \in 1..Len(LineOf(b)) /\ LineOf(b)[1] = Head(s)
  <2>1. Offset(b, p) + 1 \in 1..Len(LineOf(b)) /\ LineOf(b)[Offset(b, p) + 1] = b[p][1]
    <3>1. 1 \in 1..Len(b[p])
      BY <1>6
    <3> QED BY <1>1, <1>3, <3>1, LinePlaces
  <2>2. Offset(b, p) + 1 = 1
    BY <1>3
  <2> QED BY <1>6, <2>1, <2>2
<1> QED BY <1>2, <1>6, <1>8, <1>9, <1>10 DEF b, p

-----------------------------------------------------------------------------
(* A job is in one place at most. *)

Line == LineOf(queue)

(***************************************************************************)
(* The line holds no job twice; what is in the line, in the slot or on a   *)
(* thread is live and in no other of these places; only a busy thread has  *)
(* a job; and a persistent job that still waits for its thread is new and  *)
(* its caller's alone.                                                     *)
(***************************************************************************)
LinePlacesOK ==
  /\ NoneTwice(Line)
  /\ \A j \in Jobs : InLine(Line, j) => fate[j] = "live" /\ persistentJob # j

ThreadPlacesOK ==
  \A w \in Workers : wjob[w] # NULL =>
    /\ wpc[w] = "busy" /\ fate[wjob[w]] = "live" /\ persistentJob # wjob[w]
    /\ ~InLine(Line, wjob[w])
    /\ \A v \in Workers : wjob[v] = wjob[w] => v = w

SlotOK == persistentJob # NULL => fate[persistentJob] = "live"

PromisedOK ==
  \A c \in Callers : call[c].pc = "addPersistent" =>
    /\ call[c].job \in Jobs /\ fate[call[c].job] = "new"
    /\ \A d \in Callers : call[d].job = call[c].job => d = c

PlacesInv == LinePlacesOK /\ ThreadPlacesOK /\ SlotOK /\ PromisedOK

LEMMA InitPlaces == Init => PlacesInv
<1> SUFFICES ASSUME Init PROVE PlacesInv
  OBVIOUS
<1>1. Line = <<>>
  <2>1. \A p \in Priorities : queue[p] = <<>>
    BY DEF Init
  <2>2. Line = (<<>> \o <<>>) \o <<>>
    BY <2>1 DEF Line, LineOf, Cat, Priorities
  <2> QED BY <2>2
<1>2. LinePlacesOK
  BY <1>1 DEF LinePlacesOK, NoneTwice, InLine
<1> QED BY <1>2 DEF Init, PlacesInv, ThreadPlacesOK, SlotOK, PromisedOK, Idle, At

\* Nothing moves.
LEMMA PlacesStay ==
  ASSUME StateOK, PlacesInv, UNCHANGED <<queue, persistentJob, wjob, fate>>,
         \A w \in Workers : wpc[w] = "busy" => wpc'[w] = "busy"
  PROVE  LinePlacesOK' /\ ThreadPlacesOK' /\ SlotOK'
<1>1. Line' = Line
  BY DEF Line
<1> QED BY <1>1 DEF PlacesInv, LinePlacesOK, ThreadPlacesOK, SlotOK, StateOK

\* A caller's frame is replaced by one that promises no job, or one nobody else has.
LEMMA PromisesStay ==
  ASSUME StateOK, PlacesInv, NEW c \in Callers, NEW f, Becomes(c, f) \/ UNCHANGED call,
         f.job \in Jobs => Fresh(f.job) \/ f.job = call[c].job,
         f.pc = "addPersistent" => f.job \in Jobs /\ Fresh(f.job) /\ fate'[f.job] = "new",
         \A d \in Callers : call[d].pc = "addPersistent" => fate'[call[d].job] = "new" \/ (d = c /\ Becomes(c, f))
  PROVE  PromisedOK'
<1>1. CASE UNCHANGED call
  <2>1. \A d \in Callers : call[d].pc = "addPersistent" => fate'[call[d].job] = "new" \/ Becomes(c, f)
    OBVIOUS
  <2>2. CASE \A d \in Callers : call[d].pc = "addPersistent" => fate'[call[d].job] = "new"
    BY <1>1, <2>2 DEF PlacesInv, PromisedOK
  <2>3. CASE Becomes(c, f)
    <3>1. f = call[c]
      BY <1>1, <2>3 DEF Becomes, StateOK
    <3>2. \A d \in Callers : d # c /\ call[d].pc = "addPersistent" => fate'[call[d].job] = "new"
      OBVIOUS
    <3> QED BY <1>1, <3>1, <3>2 DEF PlacesInv, PromisedOK
  <2> QED BY <2>2, <2>3
<1>2. CASE Becomes(c, f)
  <2>1. call' = [call EXCEPT ![c] = f] /\ call \in [Callers -> Frame]
    BY <1>2 DEF Becomes, StateOK
  <2>2. call'[c] = f /\ \A d \in Callers : d # c => call'[d] = call[d]
    BY <2>1
  <2>3. ASSUME NEW d \in Callers, call'[d].pc = "addPersistent", d # c
        PROVE  /\ call'[d].job \in Jobs /\ fate'[call'[d].job] = "new"
               /\ \A e \in Callers : call'[e].job = call'[d].job => e = d
    <3>1. call'[d] = call[d] /\ call[d].job \in Jobs /\ fate'[call[d].job] = "new"
      BY <2>2, <2>3 DEF PlacesInv, PromisedOK
    <3>2. f.job # call[d].job
      <4>1. call[c].job # call[d].job
        BY <2>3, <3>1 DEF PlacesInv, PromisedOK
      <4>2. ~Fresh(call[d].job)
        BY DEF Fresh
      <4> QED BY <3>1, <4>1, <4>2
    <3>3. \A e \in Callers : call[e].job = call[d].job => e = d
      BY <2>3, <3>1 DEF PlacesInv, PromisedOK
    <3> QED BY <2>2, <3>1, <3>2, <3>3
  <2>4. ASSUME call'[c].pc = "addPersistent"
        PROVE  /\ call'[c].job \in Jobs /\ fate'[call'[c].job] = "new"
               /\ \A e \in Callers : call'[e].job = call'[c].job => e = c
    BY <2>2, <2>4 DEF Fresh
  <2> QED BY <2>3, <2>4 DEF PromisedOK
<1> QED BY <1>1, <1>2

\* A thread frees the job it has run and looks for the next one.
LEMMA LookForWorkPlaces ==
  ASSUME StateOK, PlacesInv, NEW w \in Workers, NEW timedOut, NEW idle, NEW pt, NEW wt,
         LookForWork(w, timedOut, idle, pt, wt), UNCHANGED call,
         fate' = [j \in Jobs |-> IF j = wjob[w] THEN "done" ELSE fate[j]]
  PROVE  PlacesInv'
<1>1. /\ LinePlacesOK /\ ThreadPlacesOK /\ SlotOK /\ PromisedOK
      /\ queue \in [Priorities -> Seq(Jobs)] /\ persistentJob \in Jobs \cup {NULL}
      /\ wjob \in [Workers -> Jobs \cup {NULL}] /\ wpc \in [Workers -> WorkerPcs] /\ NULL \notin Jobs
  BY PoolAssumption DEF PlacesInv, StateOK
<1>2. PromisedOK'
  <2>1. \A d \in Callers : call[d].pc = "addPersistent" => fate'[call[d].job] = "new"
    <3>1. wjob[w] # NULL => fate[wjob[w]] = "live"
      BY <1>1 DEF ThreadPlacesOK
    <3> QED BY <1>1, <3>1 DEF PromisedOK
  <2> QED BY <1>1, <2>1 DEF PromisedOK
<1>3. \A v \in Workers : v # w => wjob[v] = NULL \/ (wjob[v] # wjob[w] /\ fate'[wjob[v]] = "live")
  BY <1>1 DEF ThreadPlacesOK
<1>4. \A j \in Jobs : InLine(Line, j) => fate'[j] = "live" /\ j # wjob[w] /\ \A v \in Workers : wjob[v] # j
  BY <1>1 DEF LinePlacesOK, ThreadPlacesOK
<1>5. persistentJob # NULL => /\ fate'[persistentJob] = "live" /\ ~InLine(Line, persistentJob)
                              /\ \A v \in Workers : wjob[v] # persistentJob
  BY <1>1 DEF LinePlacesOK, ThreadPlacesOK, SlotOK
<1>6. CASE /\ wjob' = [wjob EXCEPT ![w] = NULL] /\ persistentJob' = persistentJob
           /\ queue' = queue \/ queue' = Bumped
           /\ \A v \in Workers : v # w => wpc'[v] = wpc[v]
  <2>1. Line' = Line
    BY <1>1, <1>6, BumpedLine DEF Line
  <2>2. LinePlacesOK'
    BY <1>1, <1>4, <1>6, <2>1 DEF LinePlacesOK
  <2>3. ThreadPlacesOK'
    BY <1>1, <1>3, <1>6, <2>1 DEF ThreadPlacesOK
  <2>4. SlotOK'
    BY <1>5, <1>6 DEF SlotOK
  <2> QED BY <1>2, <2>2, <2>3, <2>4 DEF PlacesInv
<1>7. CASE /\ persistentJob # NULL /\ queue' = Bumped /\ Take(w, persistentJob, 1) /\ persistentJob' = NULL
  <2>1. Line' = Line
    BY <1>1, <1>7, BumpedLine DEF Line
  <2>2. wjob' = [wjob EXCEPT ![w] = persistentJob] /\ wpc' = [wpc EXCEPT ![w] = "busy"]
    BY <1>7 DEF Take
  <2>3. LinePlacesOK'
    BY <1>1, <1>4, <1>7, <2>1 DEF LinePlacesOK
  <2>4. ThreadPlacesOK'
    BY <1>1, <1>3, <1>5, <1>7, <2>1, <2>2 DEF ThreadPlacesOK
  <2>5. SlotOK'
    BY <1>7 DEF SlotOK
  <2> QED BY <1>2, <2>3, <2>4, <2>5 DEF PlacesInv
<1>8. CASE /\ persistentJob = NULL /\ QueuedJobs > 0
           /\ queue' = [Bumped EXCEPT ![Highest(Bumped)] = Tail(@)]
           /\ Take(w, Head(Bumped[Highest(Bumped)]), 0) /\ persistentJob' = persistentJob
  <2> DEFINE j == Head(Bumped[Highest(Bumped)])
  <2>1. j \in Jobs /\ Inserted(Line', Line, j)
    BY <1>1, <1>8, ServeLine DEF Line
  <2>2. wjob' = [wjob EXCEPT ![w] = j] /\ wpc' = [wpc EXCEPT ![w] = "busy"]
    BY <1>8 DEF Take
  <2> HIDE DEF j
  <2>3. /\ InLine(Line, j) /\ NoneTwice(Line') /\ ~InLine(Line', j)
        /\ \A x : InLine(Line', x) => InLine(Line, x)
    BY <1>1, <2>1, InsertedOrder DEF LinePlacesOK
  <2>4. fate'[j] = "live" /\ \A v \in Workers : wjob[v] # j
    BY <1>4, <2>1, <2>3
  <2>5. LinePlacesOK'
    BY <1>1, <1>4, <1>8, <2>3 DEF LinePlacesOK
  <2>6. ThreadPlacesOK'
    <3>1. wjob'[w] = j /\ wpc'[w] = "busy" /\ \A v \in Workers : v # w => wjob'[v] = wjob[v] /\ wpc'[v] = wpc[v]
      BY <1>1, <2>2
    <3>2. j # NULL /\ persistentJob' = NULL
      BY <1>1, <1>8, <2>1
    <3>3. ASSUME NEW v \in Workers, wjob'[v] # NULL, v # w
          PROVE  /\ wpc'[v] = "busy" /\ fate'[wjob'[v]] = "live" /\ persistentJob' # wjob'[v]
                 /\ ~InLine(Line', wjob'[v])
                 /\ \A u \in Workers : wjob'[u] = wjob'[v] => u = v
      BY <1>1, <1>3, <2>3, <2>4, <3>1, <3>2, <3>3 DEF ThreadPlacesOK
    <3>4. \A u \in Workers : wjob'[u] = wjob'[w] => u = w
      BY <2>4, <3>1
    <3> QED BY <2>3, <2>4, <3>1, <3>2, <3>3, <3>4 DEF ThreadPlacesOK
  <2>7. SlotOK'
    BY <1>8 DEF SlotOK
  <2> QED BY <1>2, <2>5, <2>6, <2>7 DEF PlacesInv
<1> QED BY <1>1, <1>6, <1>7, <1>8 DEF LookForWork, Exit

\* A new job becomes live in the line or in the slot.
LEMMA AddPlaces ==
  ASSUME StateOK, PlacesInv, NEW j \in Jobs, NEW p \in Priorities, fate[j] = "new",
         queue' = [queue EXCEPT ![p] = Append(@, j)], fate' = [fate EXCEPT ![j] = "live"],
         UNCHANGED <<persistentJob, wjob>>, \A w \in Workers : wpc[w] = "busy" => wpc'[w] = "busy"
  PROVE  LinePlacesOK' /\ ThreadPlacesOK' /\ SlotOK' /\ ~InLine(Line, j) /\ Inserted(Line, Line', j)
<1>1. /\ LinePlacesOK /\ ThreadPlacesOK /\ SlotOK /\ NULL \notin Jobs
      /\ queue \in [Priorities -> Seq(Jobs)] /\ persistentJob \in Jobs \cup {NULL}
      /\ wjob \in [Workers -> Jobs \cup {NULL}] /\ fate \in [Jobs -> {"new", "live", "done", "removed", "discarded"}]
  BY PoolAssumption DEF PlacesInv, StateOK
<1>2. Inserted(Line, Line', j)
  BY <1>1, AddLine DEF Line
<1>3. ~InLine(Line, j) /\ persistentJob # j /\ \A w \in Workers : wjob[w] # j
  BY <1>1 DEF LinePlacesOK, SlotOK, ThreadPlacesOK
<1>4. NoneTwice(Line') /\ \A x : InLine(Line', x) <=> x = j \/ InLine(Line, x)
  BY <1>1, <1>2, <1>3, InsertedOrder DEF LinePlacesOK
<1>5. LinePlacesOK'
  BY <1>1, <1>3, <1>4 DEF LinePlacesOK
<1>6. ThreadPlacesOK'
  BY <1>1, <1>3, <1>4 DEF ThreadPlacesOK
<1>7. SlotOK'
  BY <1>1, <1>3 DEF SlotOK
<1> QED BY <1>2, <1>3, <1>5, <1>6, <1>7

LEMMA SlotPlaces ==
  ASSUME StateOK, PlacesInv, NEW c, NEW j \in Jobs, fate[j] = "new", SchedulePersistent(c, j),
         UNCHANGED <<queue, wjob>>
  PROVE  LinePlacesOK' /\ ThreadPlacesOK' /\ SlotOK'
<1>1. /\ LinePlacesOK /\ ThreadPlacesOK /\ SlotOK /\ NULL \notin Jobs /\ Line' = Line
      /\ wjob \in [Workers -> Jobs \cup {NULL}] /\ fate \in [Jobs -> {"new", "live", "done", "removed", "discarded"}]
  BY PoolAssumption DEF PlacesInv, StateOK, Line
<1>2. persistentJob' = j /\ fate' = [fate EXCEPT ![j] = "live"] /\ \A w \in Workers : wpc[w] = "busy" => wpc'[w] = "busy"
  BY DEF SchedulePersistent, Signal, StateOK
<1>3. ~InLine(Line, j) /\ \A w \in Workers : wjob[w] # j
  BY <1>1 DEF LinePlacesOK, ThreadPlacesOK
<1>4. LinePlacesOK'
  BY <1>1, <1>2, <1>3 DEF LinePlacesOK
<1>5. ThreadPlacesOK'
  BY <1>1, <1>2, <1>3 DEF ThreadPlacesOK
<1>6. SlotOK'
  BY <1>1, <1>2 DEF SlotOK
<1> QED BY <1>4, <1>5, <1>6

\* ThreadPoolRemove takes a live job from the line or the slot.
LEMMA RemovePlaces ==
  ASSUME StateOK, PlacesInv, UNCHANGED <<wjob, wpc, call>>,
         \/ RemoveSlot /\ persistentJob # NULL
         \/ \E p \in Priorities : \E id : \E i \in FirstIn(queue[p], id) : RemoveFrom(p, i)
  PROVE  /\ PlacesInv'
         /\ Line' = Line \/ \E x \in Jobs : Inserted(Line', Line, x)
<1>1. /\ LinePlacesOK /\ ThreadPlacesOK /\ SlotOK /\ PromisedOK /\ NULL \notin Jobs
      /\ queue \in [Priorities -> Seq(Jobs)] /\ persistentJob \in Jobs \cup {NULL}
      /\ wjob \in [Workers -> Jobs \cup {NULL}] /\ fate \in [Jobs -> {"new", "live", "done", "removed", "discarded"}]
  BY PoolAssumption DEF PlacesInv, StateOK
<1>2. ASSUME NEW x \in Jobs, fate' = [fate EXCEPT ![x] = "removed"], fate[x] = "live" PROVE PromisedOK'
  BY <1>1, <1>2 DEF PromisedOK
<1>3. CASE RemoveSlot /\ persistentJob # NULL
  <2>1. /\ persistentJob \in Jobs /\ fate[persistentJob] = "live" /\ fate' = [fate EXCEPT ![persistentJob] = "removed"]
        /\ Line' = Line /\ persistentJob' = NULL
    BY <1>1, <1>3 DEF RemoveSlot, SlotOK, Line
  <2>2. PromisedOK' /\ SlotOK'
    BY <1>2, <2>1 DEF SlotOK
  <2>3. LinePlacesOK' /\ ThreadPlacesOK'
    BY <1>1, <2>1 DEF LinePlacesOK, ThreadPlacesOK
  <2> QED BY <2>1, <2>2, <2>3 DEF PlacesInv
<1>4. ASSUME NEW p \in Priorities, NEW i \in 1..Len(queue[p]), RemoveFrom(p, i)
      PROVE  PlacesInv' /\ \E x \in Jobs : Inserted(Line', Line, x)
  <2> DEFINE x == queue[p][i]
  <2>1. x \in Jobs /\ Inserted(Line', Line, x)
    BY <1>1, <1>4, RemoveLine DEF RemoveFrom, Line
  <2>2. fate' = [fate EXCEPT ![x] = "removed"] /\ persistentJob' = persistentJob
    BY <1>4 DEF RemoveFrom
  <2> HIDE DEF x
  <2>3. /\ InLine(Line, x) /\ NoneTwice(Line') /\ ~InLine(Line', x)
        /\ \A y : InLine(Line', y) => InLine(Line, y)
    BY <1>1, <2>1, InsertedOrder DEF LinePlacesOK
  <2>4. fate[x] = "live" /\ persistentJob # x /\ \A w \in Workers : wjob[w] # x
    BY <1>1, <2>1, <2>3 DEF LinePlacesOK, ThreadPlacesOK
  <2>5. PromisedOK' /\ SlotOK'
    BY <1>1, <1>2, <2>1, <2>2, <2>4 DEF SlotOK
  <2>6. LinePlacesOK'
    BY <1>1, <2>2, <2>3 DEF LinePlacesOK
  <2>7. ThreadPlacesOK'
    BY <1>1, <2>2, <2>3, <2>4 DEF ThreadPlacesOK
  <2> QED BY <2>1, <2>5, <2>6, <2>7 DEF PlacesInv
<1>5. \A p \in Priorities : DOMAIN queue[p] = 1..Len(queue[p])
  BY <1>1
<1> QED BY <1>3, <1>4, <1>5 DEF FirstIn

\* What a step does to the line: nothing, with no job of it started; one more job, at the
\* end of its queue; one job less, the first one if it is started; or all are discarded.
NoStart == \A j \in Jobs : ~Started(j)

LineStep ==
  \/ Line' = Line /\ \A j \in Jobs : Started(j) => ~InLine(Line, j)
  \/ /\ NoStart
     /\ \E x \in Jobs, p \in Priorities :
          queue' = [queue EXCEPT ![p] = Append(@, x)] /\ ~InLine(Line, x) /\ Inserted(Line, Line', x)
  \/ \E x \in Jobs :
       /\ Inserted(Line', Line, x)
       /\ \A j \in Jobs : Started(j) => j = x /\ 1 \in 1..Len(Line) /\ Line[1] = x
  \/ NoStart /\ \A x : ~InLine(Line', x)

LEMMA LookForWorkLine ==
  ASSUME StateOK, PlacesInv, NEW w \in Workers, NEW timedOut, NEW idle, NEW pt, NEW wt,
         LookForWork(w, timedOut, idle, pt, wt)
  PROVE  LineStep
<1>1. /\ LinePlacesOK /\ queue \in [Priorities -> Seq(Jobs)] /\ persistentJob \in Jobs \cup {NULL}
      /\ wjob \in [Workers -> Jobs \cup {NULL}] /\ NULL \notin Jobs
  BY PoolAssumption DEF PlacesInv, StateOK
<1>2. CASE wjob' = [wjob EXCEPT ![w] = NULL] /\ (queue' = queue \/ queue' = Bumped)
  <2>1. Line' = Line
    BY <1>1, <1>2, BumpedLine DEF Line
  <2>2. NoStart
    BY <1>1, <1>2 DEF NoStart, Started
  <2> QED BY <2>1, <2>2 DEF LineStep, NoStart
<1>3. CASE persistentJob # NULL /\ queue' = Bumped /\ Take(w, persistentJob, 1)
  <2>1. Line' = Line
    BY <1>1, <1>3, BumpedLine DEF Line
  <2>2. \A j \in Jobs : Started(j) => j = persistentJob
    BY <1>1, <1>3 DEF Take, Started
  <2> QED BY <1>1, <2>1, <2>2 DEF LineStep, LinePlacesOK
<1>4. CASE /\ persistentJob = NULL /\ QueuedJobs > 0
           /\ queue' = [Bumped EXCEPT ![Highest(Bumped)] = Tail(@)]
           /\ Take(w, Head(Bumped[Highest(Bumped)]), 0)
  <2> DEFINE x == Head(Bumped[Highest(Bumped)])
  <2>1. x \in Jobs /\ Inserted(Line', Line, x) /\ 1 \in 1..Len(Line) /\ Line[1] = x
    BY <1>1, <1>4, ServeLine DEF Line
  <2>2. wjob' = [wjob EXCEPT ![w] = x]
    BY <1>4 DEF Take
  <2> HIDE DEF x
  <2>3. \A j \in Jobs : Started(j) => j = x
    BY <1>1, <2>2 DEF Started
  <2> QED BY <2>1, <2>3 DEF LineStep
<1> QED BY <1>1, <1>2, <1>3, <1>4 DEF LookForWork, Exit

LEMMA StepPlaces ==
  ASSUME TypeOK, PlacesInv, [Next]_vars
  PROVE  PlacesInv' /\ LineStep
<1> DEFINE Goal == PlacesInv' /\ LineStep
<1>a. /\ StateOK /\ CountersOK /\ LinePlacesOK /\ ThreadPlacesOK /\ SlotOK /\ PromisedOK /\ NULL \notin Jobs
      /\ call \in [Callers -> Frame] /\ wjob \in [Workers -> Jobs \cup {NULL}]
      /\ fate \in [Jobs -> {"new", "live", "done", "removed", "discarded"}]
      /\ queue \in [Priorities -> Seq(Jobs)] /\ persistentJob \in Jobs \cup {NULL}
  BY PoolAssumption DEF TypeOK, PlacesInv, StateOK
<1>b. UNCHANGED wjob => NoStart
  BY DEF NoStart, Started
<1>c. UNCHANGED <<wjob, queue>> => LineStep
  BY <1>b DEF LineStep, Line, NoStart
<1>d. ASSUME NEW c \in Callers, NEW f, Becomes(c, f) \/ UNCHANGED call,
             UNCHANGED <<queue, persistentJob, wjob, fate>>,
             \A w \in Workers : wpc[w] = "busy" => wpc'[w] = "busy",
             f.job \in Jobs => Fresh(f.job) \/ f.job = call[c].job,
             f.pc = "addPersistent" => f.job \in Jobs /\ Fresh(f.job)
      PROVE  Goal
  <2>1. LinePlacesOK' /\ ThreadPlacesOK' /\ SlotOK'
    BY <1>a, <1>d, PlacesStay
  <2>2. \A d \in Callers : call[d].pc = "addPersistent" => fate'[call[d].job] = "new"
    BY <1>a, <1>d DEF PromisedOK
  <2>3. f.pc = "addPersistent" => f.job \in Jobs /\ Fresh(f.job) /\ fate'[f.job] = "new"
    BY <1>d DEF Fresh
  <2>4. PromisedOK'
    <3>1. CASE UNCHANGED call
      BY <1>a, <2>2, <3>1 DEF PromisedOK
    <3>2. CASE Becomes(c, f)
      <4>1. f.job \in Jobs => Fresh(f.job) \/ f.job = call[c].job
        BY <1>d
      <4> QED BY <1>a, <2>2, <2>3, <3>2, <4>1, PromisesStay
    <3> QED BY <1>d, <3>1, <3>2
  <2> QED BY <1>c, <1>d, <2>1, <2>4 DEF PlacesInv
<1>e. Idle.job = NULL /\ Idle.pc = "idle" /\ \A pc, j : At(pc, j).job = j /\ At(pc, j).pc = pc
  BY DEF Idle, At
<1>f. ASSUME Signal \/ UNCHANGED wpc \/ \E c, pc, j, jobs, threads : CreateWorker(c, pc, j, jobs, threads)
      PROVE  \A w \in Workers : wpc[w] = "busy" => wpc'[w] = "busy"
  BY <1>a, <1>f DEF StateOK, Signal, CreateWorker
<1>1. ASSUME NEW w \in Workers, WorkerStep(w) PROVE Goal
  <2>1. CASE WorkerStart(w) \/ WorkerTimeout(w)
    <3>1. /\ UNCHANGED <<queue, persistentJob, wjob, fate, call>>
          /\ \A v \in Workers : wpc[v] = "busy" => wpc'[v] = "busy"
      BY <1>a, <2>1 DEF WorkerStart, WorkerTimeout, locals, StateOK
    <3>2. LinePlacesOK' /\ ThreadPlacesOK' /\ SlotOK'
      BY <1>a, <3>1, PlacesStay
    <3>3. PromisedOK'
      BY <1>a, <3>1 DEF PromisedOK
    <3> QED BY <1>c, <3>1, <3>2, <3>3 DEF PlacesInv
  <2>2. CASE WorkerReturn(w)
    BY <1>a, <2>2, LookForWorkPlaces, LookForWorkLine DEF WorkerReturn
  <2>3. CASE WorkerWake(w)
    <3>1. LookForWork(w, wpc[w] = "timedout", idleThreads, persistentThreads, workerThreads) /\ UNCHANGED call
      BY <2>3 DEF WorkerWake
    <3>2. wjob[w] = NULL
      BY <1>a, <2>3 DEF WorkerWake, ThreadPlacesOK
    <3>3. fate' = [j \in Jobs |-> IF j = wjob[w] THEN "done" ELSE fate[j]]
      BY <1>a, <2>3, <3>2 DEF WorkerWake
    <3> QED BY <1>a, <3>1, <3>3, LookForWorkPlaces, LookForWorkLine
  <2> QED BY <1>1, <2>1, <2>2, <2>3 DEF WorkerStep
<1>2. ASSUME NEW c \in Callers, NEW pc \in {"init", "setattr"}, NEW i, NEW a, FillToMin(c, pc, i, a),
             UNCHANGED <<queue, persistentJob, wjob, fate>>
      PROVE  Goal
  <2>1. PICK f : Becomes(c, f) /\ f.job = NULL /\ f.pc # "addPersistent"
    <3>1. CASE \E s \in {"idle", "failed"} : Becomes(c, At(s, NULL))
      BY <1>e, <3>1
    <3>2. CASE CreateWorker(c, pc, NULL, 0, i)
      BY <3>2 DEF CreateWorker
    <3> QED BY <1>2, <3>1, <3>2 DEF FillToMin
  <2>2. \A w \in Workers : wpc[w] = "busy" => wpc'[w] = "busy"
    BY <1>2, <1>f DEF FillToMin
  <2> QED BY <1>a, <1>2, <1>d, <2>1, <2>2
<1>3. ASSUME NEW c \in Callers, FillResume(c) PROVE Goal
  BY <1>2, <1>3 DEF FillResume, locals
<1>4. ASSUME NEW c \in Clients, ThreadPoolInit(c) PROVE Goal
  <2>1. c \in Callers /\ FillToMin(c, "init", 0, attr) /\ UNCHANGED <<queue, persistentJob, wjob, fate>>
    BY <1>4 DEF ThreadPoolInit, Callers, locals
  <2> QED BY <1>2, <2>1
<1>5. ASSUME NEW c \in Clients, NEW a \in Attrs, ThreadPoolSetAttr(c, a) PROVE Goal
  <2>1. c \in Callers /\ FillToMin(c, "setattr", totalThreads, a) /\ UNCHANGED <<queue, persistentJob, wjob, fate>>
    BY <1>5 DEF ThreadPoolSetAttr, Callers, locals
  <2> QED BY <1>2, <2>1
<1>6. ASSUME NEW c \in Callers, NEW j, NEW jobs, NEW threads, AddWorker(c, j, jobs, threads)
      PROVE  /\ \A w \in Workers : wpc[w] = "busy" => wpc'[w] = "busy"
             /\ \E f : Becomes(c, f) /\ f.job \in {j, NULL} /\ f.pc # "addPersistent"
  <2>1. CASE CreateWorker(c, "add", j, jobs, threads)
    <3>1. PICK f : Becomes(c, f) /\ f.job = j /\ f.pc # "addPersistent"
      BY <2>1 DEF CreateWorker
    <3> QED BY <1>f, <2>1, <3>1
  <2>2. CASE AddDone(c, j)
    BY <1>e, <1>f, <2>2 DEF AddDone
  <2> QED BY <1>6, <2>1, <2>2 DEF AddWorker
<1>7. ASSUME NEW c \in Callers, AddResume(c) PROVE Goal
  <2>1. AddWorker(c, call[c].job, call[c].jobs, call[c].threads + 1) /\ UNCHANGED <<queue, persistentJob, wjob, fate>>
    BY <1>7 DEF AddResume, locals
  <2>2. PICK f : Becomes(c, f) /\ f.job \in {call[c].job, NULL} /\ f.pc # "addPersistent"
    BY <1>6, <2>1
  <2>3. \A w \in Workers : wpc[w] = "busy" => wpc'[w] = "busy"
    BY <1>6, <2>1
  <2> QED BY <1>a, <1>d, <2>1, <2>2, <2>3
<1>8. ASSUME NEW c \in Callers, NEW j \in Jobs, NEW p \in Priorities, ThreadPoolAdd(c, j, p) PROVE Goal
  <2>1. /\ Fresh(j) /\ queue' = [queue EXCEPT ![p] = Append(@, j)] /\ fate' = [fate EXCEPT ![j] = "live"]
        /\ AddWorker(c, j, QueuedJobs + 1, totalThreads - persistentThreads) /\ UNCHANGED <<persistentJob, wjob>>
    BY <1>8 DEF ThreadPoolAdd, locals
  <2>2. PICK f : Becomes(c, f) /\ f.job \in {j, NULL} /\ f.pc # "addPersistent"
    BY <1>6, <2>1
  <2>3. \A w \in Workers : wpc[w] = "busy" => wpc'[w] = "busy"
    BY <1>6, <2>1
  <2>4. LinePlacesOK' /\ ThreadPlacesOK' /\ SlotOK' /\ ~InLine(Line, j) /\ Inserted(Line, Line', j)
    BY <1>a, <2>1, <2>3, AddPlaces DEF Fresh
  <2>5. \A d \in Callers : call[d].pc = "addPersistent" => fate'[call[d].job] = "new"
    BY <1>a, <2>1 DEF Fresh, PromisedOK
  <2>6. PromisedOK'
    BY <1>a, <2>1, <2>2, <2>5, PromisesStay
  <2>7. LineStep
    BY <1>b, <2>1, <2>4 DEF LineStep
  <2> QED BY <2>4, <2>6, <2>7 DEF PlacesInv
<1>9. ASSUME NEW c \in Callers, NEW j \in Jobs, SchedulePersistent(c, j), UNCHANGED <<queue, wjob>>,
             Fresh(j) \/ (call[c].pc = "addPersistent" /\ call[c].job = j)
      PROVE  Goal
  <2>1. fate[j] = "new"
    BY <1>a, <1>9 DEF Fresh, PromisedOK
  <2>2. LinePlacesOK' /\ ThreadPlacesOK' /\ SlotOK'
    BY <1>a, <1>9, <2>1, SlotPlaces
  <2>3. fate' = [fate EXCEPT ![j] = "live"] /\ Becomes(c, At("persist", j))
    BY <1>9 DEF SchedulePersistent
  <2>4. \A d \in Callers : call[d].pc = "addPersistent" => fate'[call[d].job] = "new" \/ d = c
    BY <1>a, <1>9, <2>3 DEF Fresh, PromisedOK
  <2>5. PromisedOK'
    <3> DEFINE f == At("persist", j)
    <3>1. f.job = j /\ f.pc = "persist" /\ Becomes(c, f)
      BY <1>e, <2>3
    <3> HIDE DEF f
    <3> QED BY <1>a, <1>9, <2>4, <3>1, PromisesStay
  <2> QED BY <1>c, <1>9, <2>2, <2>5 DEF PlacesInv
<1>10. ASSUME NEW c \in Callers, AddPersistentResume(c) PROVE Goal
  <2>1. call[c].pc = "addPersistent" /\ SchedulePersistent(c, call[c].job) /\ UNCHANGED <<queue, wjob>>
    BY <1>10 DEF AddPersistentResume, Created, locals
  <2>2. call[c].job \in Jobs
    BY <1>a, <2>1 DEF PromisedOK
  <2> QED BY <1>9, <2>1, <2>2
<1>11. ASSUME NEW c \in Clients, NEW j \in Jobs, ThreadPoolAddPersistent(c, j) PROVE Goal
  <2>1. c \in Callers /\ Fresh(j) /\ UNCHANGED <<queue, wjob>>
    BY <1>11 DEF ThreadPoolAddPersistent, Callers, locals
  <2>2. CASE SchedulePersistent(c, j)
    BY <1>9, <2>1, <2>2
  <2>3. CASE CreateWorker(c, "addPersistent", j, 0, 0) /\ UNCHANGED <<persistentJob, fate>>
    <3>1. PICK f : Becomes(c, f) /\ f.job = j
      BY <2>3 DEF CreateWorker
    <3> QED BY <1>d, <1>f, <2>1, <2>3, <3>1
  <2> QED BY <1>11, <2>2, <2>3 DEF ThreadPoolAddPersistent
<1>12. ASSUME NEW c \in Callers, AddPersistentDone(c) PROVE Goal
  <2>1. Becomes(c, Idle) /\ UNCHANGED <<queue, persistentJob, wjob, fate, wpc>>
    BY <1>12 DEF AddPersistentDone, locals
  <2> QED BY <1>a, <1>d, <1>e, <2>1
<1>13. ASSUME NEW c \in Callers, ShutdownDone(c) PROVE Goal
  <2>1. Becomes(c, Idle) /\ UNCHANGED <<queue, persistentJob, wjob, fate, wpc>>
    BY <1>13 DEF ShutdownDone, locals
  <2> QED BY <1>a, <1>d, <1>e, <2>1
<1>14. ASSUME UNCHANGED <<queue, persistentJob, wjob, fate, wpc, call>> PROVE Goal
  <2>1. LinePlacesOK' /\ ThreadPlacesOK' /\ SlotOK'
    BY <1>a, <1>14, PlacesStay
  <2>2. PromisedOK'
    BY <1>a, <1>14 DEF PromisedOK
  <2> QED BY <1>c, <1>14, <2>1, <2>2 DEF PlacesInv
<1>15. ASSUME NEW c \in Callers, WaitAgain(c) PROVE Goal
  BY <1>14, <1>15 DEF WaitAgain, locals
<1>16. CASE Tick \/ UNCHANGED vars
  BY <1>14, <1>16 DEF Tick, vars, locals
<1>17. ASSUME NEW c \in Clients, NEW id, ThreadPoolRemove(c, id) PROVE Goal
  <2>1. UNCHANGED <<wjob, wpc, call>>
    BY <1>17 DEF ThreadPoolRemove, locals
  <2>2. \/ RemoveSlot /\ persistentJob # NULL
        \/ \E p \in Priorities : \E z : \E i \in FirstIn(queue[p], z) : RemoveFrom(p, i)
    BY <1>17 DEF ThreadPoolRemove, Priorities
  <2>3. PlacesInv' /\ (Line' = Line \/ \E x \in Jobs : Inserted(Line', Line, x))
    BY <1>a, <2>1, <2>2, RemovePlaces
  <2> QED BY <1>b, <2>1, <2>3 DEF LineStep, NoStart
<1>18. ASSUME NEW c \in Callers, ThreadPoolShutdown(c) PROVE Goal
  <2>1. /\ fate' = [j \in Jobs |-> IF Queued(j) \/ j = persistentJob THEN "discarded" ELSE fate[j]]
        /\ queue' = EmptyQueues /\ persistentJob' = NULL /\ wjob' = wjob
        /\ Becomes(c, IF totalThreads > 0 THEN At("join", NULL) ELSE Idle)
        /\ \A w \in Workers : wpc[w] = "busy" => wpc'[w] = "busy"
    BY <1>18 DEF ThreadPoolShutdown, locals
  <2>2. \A x : ~InLine(Line', x)
    <3>1. \A p \in Priorities : queue'[p] = <<>>
      BY <2>1 DEF EmptyQueues
    <3>2. Line' = (<<>> \o <<>>) \o <<>>
      BY <3>1 DEF Line, LineOf, Cat, Priorities
    <3> QED BY <3>2 DEF InLine
  <2>3. LinePlacesOK' /\ SlotOK'
    BY <2>1, <2>2 DEF LinePlacesOK, SlotOK, NoneTwice, InLine
  <2>4. \A j \in Jobs : Queued(j) <=> InLine(Line, j)
    BY <1>a, LineOrder DEF Queued, Line
  <2>5. \A w \in Workers : wjob[w] # NULL => fate'[wjob[w]] = "live"
    BY <1>a, <2>1, <2>4 DEF ThreadPlacesOK
  <2>6. ThreadPlacesOK'
    BY <1>a, <2>1, <2>2, <2>5 DEF ThreadPlacesOK
  <2>7. \A d \in Callers : call[d].pc = "addPersistent" => fate'[call[d].job] = "new"
    BY <1>a, <2>1, <2>4 DEF PromisedOK, LinePlacesOK, SlotOK
  <2>8. PromisedOK'
    <3>1. PICK f : Becomes(c, f) /\ f.job = NULL /\ f.pc # "addPersistent"
      BY <1>e, <2>1
    <3> QED BY <1>a, <2>7, <3>1, PromisesStay
  <2> QED BY <1>b, <2>1, <2>2, <2>3, <2>6, <2>8 DEF LineStep, PlacesInv
<1> QED BY <1>1, <1>3, <1>4, <1>5, <1>7, <1>8, <1>10, <1>11, <1>12, <1>13, <1>15, <1>16, <1>17, <1>18
        DEF Next, CallerStep

LEMMA PlacesInvariant == Spec => []PlacesInv
<1>1. TypeOK /\ PlacesInv /\ [Next]_vars => PlacesInv'
  BY StepPlaces
<1> QED BY <1>1, InitPlaces, TypeCorrect, PTL DEF Spec

\* FifoWithinPriority: whatever the callers do, a job never overtakes another of its queue.
THEOREM ServedInOrder == Spec => FifoWithinPriority
<1> DEFINE Fifo ==
      \A i, j \in Jobs : Queued(i) =>
        /\ ~Queued(j) /\ SameQueue(i, j)' => Before(queue', i, j)
        /\ SameQueue(i, j) /\ Before(queue, i, j) =>
             /\ Started(j) => ~Queued(i)'
             /\ Queued(i)' /\ Queued(j)' => Before(queue', i, j)
<1>1. ASSUME TypeOK, TypeOK', PlacesInv, [Next]_vars, NEW i \in Jobs, NEW j \in Jobs, Queued(i)
      PROVE  /\ ~Queued(j) /\ SameQueue(i, j)' => Before(queue', i, j)
             /\ SameQueue(i, j) /\ Before(queue, i, j) =>
                  /\ Started(j) => ~Queued(i)'
                  /\ Queued(i)' /\ Queued(j)' => Before(queue', i, j)
  <2>1. LineStep
    BY <1>1, StepPlaces
  <2>2. queue \in [Priorities -> Seq(Jobs)] /\ queue' \in [Priorities -> Seq(Jobs)] /\ NoneTwice(Line)
    BY <1>1 DEF TypeOK, StateOK, PlacesInv, LinePlacesOK
  <2>3. /\ \A x : Queued(x) <=> InLine(Line, x)
        /\ \A x, y : Before(queue, x, y) <=> Ahead(Line, x, y)
    BY <2>2, LineOrder DEF Queued, Line
  <2>4. /\ \A x : Queued(x)' <=> InLine(Line', x)
        /\ \A x, y : Before(queue', x, y) <=> Ahead(Line', x, y)
    BY <2>2, LineOrder DEF Queued, Line
  <2>5. SameQueue(i, j)' => Queued(i)' /\ Queued(j)'
    BY DEF SameQueue, Queued
  <2>6. CASE Line' = Line /\ \A y \in Jobs : Started(y) => ~InLine(Line, y)
    <3>1. SameQueue(i, j) => Queued(j)
      BY DEF SameQueue, Queued
    <3> QED BY <2>3, <2>4, <2>5, <2>6, <3>1
  <2>7. ASSUME NoStart, NEW x \in Jobs, NEW p \in Priorities, queue' = [queue EXCEPT ![p] = Append(@, x)],
               ~InLine(Line, x), Inserted(Line, Line', x)
        PROVE  /\ ~Queued(j) /\ SameQueue(i, j)' => Before(queue', i, j)
               /\ SameQueue(i, j) /\ Before(queue, i, j) =>
                    /\ Started(j) => ~Queued(i)'
                    /\ Queued(i)' /\ Queued(j)' => Before(queue', i, j)
    <3>1. /\ \A y : InLine(Line', y) <=> y = x \/ InLine(Line, y)
          /\ \A y, z : Ahead(Line, y, z) => Ahead(Line', y, z)
      BY <2>7, InsertedOrder
    <3>2. ASSUME ~Queued(j), SameQueue(i, j)' PROVE Before(queue', i, j)
      <4>1. j = x /\ i # x
        BY <1>1, <2>3, <2>4, <2>5, <2>7, <3>1, <3>2
      <4>2. PICK r \in Priorities : \E m, n \in DOMAIN queue'[r] : queue'[r][m] = i /\ queue'[r][n] = x
        BY <3>2, <4>1 DEF SameQueue
      <4>3. PICK m \in DOMAIN queue'[r], n \in DOMAIN queue'[r] : queue'[r][m] = i /\ queue'[r][n] = x
        BY <4>2
      <4>4. r = p
        <5>1. SUFFICES ASSUME r # p PROVE FALSE
          OBVIOUS
        <5>2. queue'[r] = queue[r]
          BY <2>2, <2>7, <5>1
        <5> QED BY <2>3, <2>7, <4>3, <5>2 DEF Queued
      <4> DEFINE s == queue[p]
      <4>5. /\ s \in Seq(Jobs) /\ queue'[p] = Append(s, x)
            /\ \A k \in DOMAIN s : s[k] # x
        BY <2>2, <2>3, <2>7 DEF Queued
      <4>6. m \in DOMAIN Append(s, x) /\ n \in DOMAIN Append(s, x) /\ Append(s, x)[m] = i /\ Append(s, x)[n] = x
        BY <4>3, <4>4, <4>5
      <4> HIDE DEF s
      <4>7. m < n
        BY <4>1, <4>5, <4>6
      <4> QED BY <4>1, <4>3, <4>4, <4>7 DEF Before
    <3> QED BY <2>3, <2>4, <2>7, <3>1, <3>2 DEF NoStart
  <2>8. ASSUME NEW x \in Jobs, Inserted(Line', Line, x),
               \A y \in Jobs : Started(y) => y = x /\ 1 \in 1..Len(Line) /\ Line[1] = x
        PROVE  /\ ~Queued(j) /\ SameQueue(i, j)' => Before(queue', i, j)
               /\ SameQueue(i, j) /\ Before(queue, i, j) =>
                    /\ Started(j) => ~Queued(i)'
                    /\ Queued(i)' /\ Queued(j)' => Before(queue', i, j)
    <3>1. /\ \A y : InLine(Line, y) <=> y = x \/ InLine(Line', y)
          /\ \A y, z : y # x /\ z # x /\ Ahead(Line, y, z) => Ahead(Line', y, z)
          /\ ~InLine(Line', x)
      BY <2>2, <2>8, InsertedOrder
    <3>2. ASSUME Started(j), Ahead(Line, i, j) PROVE FALSE
      <4>1. 1 \in 1..Len(Line) /\ Line[1] = j
        BY <2>8, <3>2
      <4>2. PICK m \in 1..Len(Line), n \in 1..Len(Line) : m < n /\ Line[n] = j
        BY <3>2 DEF Ahead
      <4>3. n = 1
        BY <2>2, <4>1, <4>2 DEF NoneTwice
      <4>4. m \in Int /\ m >= 1
        OBVIOUS
      <4> QED BY <4>2, <4>3, <4>4
    <3> QED BY <2>3, <2>4, <2>5, <3>1, <3>2
  <2>9. CASE NoStart /\ \A x : ~InLine(Line', x)
    BY <2>4, <2>5, <2>9 DEF NoStart
  <2> QED BY <2>1, <2>6, <2>7, <2>8, <2>9 DEF LineStep
<1>2. TypeOK /\ TypeOK' /\ PlacesInv /\ [Next]_vars => [Fifo]_vars
  BY <1>1
<1> QED BY <1>2, TypeCorrect, PlacesInvariant, PTL DEF Spec, FifoWithinPriority

-----------------------------------------------------------------------------
(* Every live job is in one place. *)

\* A caller is inside ThreadPoolAddPersistent.
Submitting(c) == call[c].pc \in {"addPersistent", "persist"}

\* At most one caller at a time, as the library has it: the two persistent jobs are the
\* timer and the mini server, which start-up adds to a pool each (TimerThread.c:277,
\* miniserver.c:748).
OneSubmitter == \A c, d \in Callers : Submitting(c) /\ Submitting(d) => c = d

\* A job waits in the slot only while the caller that put it there does.
SlotOwned == persistentJob # NULL => \E c \in Callers : call[c].pc = "persist"

Placed(j) == InLine(Line, j) \/ persistentJob = j \/ \E w \in Workers : wjob[w] = j
AllPlaced == \A j \in Jobs : fate[j] = "live" => Placed(j)

LEMMA StepSlotOwned ==
  ASSUME TypeOK, LifeInv, SlotOwned, [Next]_vars
  PROVE  SlotOwned'
<1>a. call \in [Callers -> Frame] /\ NULL \notin Jobs
  BY PoolAssumption DEF TypeOK, StateOK
<1>b. ASSUME UNCHANGED <<call, persistentJob>> PROVE SlotOwned'
  BY <1>b DEF SlotOwned
<1>c. ASSUME persistentJob' = NULL PROVE SlotOwned'
  BY <1>c DEF SlotOwned
<1>d. ASSUME NEW c \in Callers, NEW f, Becomes(c, f), call[c].pc # "persist", UNCHANGED persistentJob PROVE SlotOwned'
  <2>1. call' = [call EXCEPT ![c] = f]
    BY <1>d DEF Becomes
  <2> QED BY <1>a, <1>d, <2>1 DEF SlotOwned
<1>e. ASSUME NEW c \in Callers, NEW j, SchedulePersistent(c, j) PROVE SlotOwned'
  <2>1. call' = [call EXCEPT ![c] = At("persist", j)]
    BY <1>e DEF SchedulePersistent, Becomes
  <2>2. call'[c].pc = "persist"
    BY <1>a, <2>1 DEF At
  <2> QED BY <2>2 DEF SlotOwned
<1>f. ASSUME NEW c, NEW pc, NEW j, NEW jobs, NEW threads, CreateWorker(c, pc, j, jobs, threads) PROVE \E f : Becomes(c, f)
  BY <1>f DEF CreateWorker
<1>g. ASSUME NEW c, NEW pc, NEW i, NEW a, FillToMin(c, pc, i, a) PROVE \E f : Becomes(c, f)
  BY <1>f, <1>g DEF FillToMin
<1>h. ASSUME NEW c, NEW j, NEW jobs, NEW threads, AddWorker(c, j, jobs, threads) PROVE \E f : Becomes(c, f)
  BY <1>f, <1>h DEF AddWorker, AddDone
<1>1. ASSUME NEW w \in Workers, WorkerStep(w) PROVE SlotOwned'
  <2>1. CASE WorkerStart(w) \/ WorkerTimeout(w)
    BY <1>b, <2>1 DEF WorkerStart, WorkerTimeout
  <2>2. CASE WorkerReturn(w) \/ WorkerWake(w)
    <3>1. UNCHANGED call /\ (UNCHANGED persistentJob \/ persistentJob' = NULL)
      BY <2>2 DEF WorkerReturn, WorkerWake, LookForWork, Exit
    <3> QED BY <1>b, <1>c, <3>1
  <2> QED BY <1>1, <2>1, <2>2 DEF WorkerStep
<1>2. ASSUME NEW c \in Callers, FillResume(c) PROVE SlotOwned'
  <2>1. call[c].pc # "persist" /\ UNCHANGED persistentJob /\ \E f : Becomes(c, f)
    BY <1>2, <1>g DEF FillResume, Created
  <2> QED BY <1>d, <2>1
<1>3. ASSUME NEW c \in Clients, NEW a \in Attrs, ThreadPoolSetAttr(c, a) PROVE SlotOwned'
  <2>1. c \in Callers /\ call[c].pc # "persist" /\ UNCHANGED persistentJob /\ \E f : Becomes(c, f)
    BY <1>3, <1>g DEF ThreadPoolSetAttr, MayCall, Callers
  <2> QED BY <1>d, <2>1
<1>4. ASSUME NEW c \in Clients, ThreadPoolInit(c) PROVE SlotOwned'
  <2>1. c \in Callers /\ call[c].pc # "persist" /\ UNCHANGED persistentJob /\ \E f : Becomes(c, f)
    BY <1>4, <1>g DEF ThreadPoolInit, LifeInv, Callers
  <2> QED BY <1>d, <2>1
<1>5. ASSUME NEW c \in Callers, AddResume(c) PROVE SlotOwned'
  <2>1. call[c].pc # "persist" /\ UNCHANGED persistentJob /\ \E f : Becomes(c, f)
    BY <1>5, <1>h DEF AddResume, Created
  <2> QED BY <1>d, <2>1
<1>6. ASSUME NEW c \in Callers, NEW j \in Jobs, NEW p \in Priorities, ThreadPoolAdd(c, j, p) PROVE SlotOwned'
  <2>1. call[c].pc # "persist" /\ UNCHANGED persistentJob /\ \E f : Becomes(c, f)
    BY <1>6, <1>h DEF ThreadPoolAdd, MayCall
  <2> QED BY <1>d, <2>1
<1>7. ASSUME NEW c \in Callers, AddPersistentResume(c) \/ AddPersistentDone(c) PROVE SlotOwned'
  <2>1. CASE AddPersistentResume(c)
    BY <1>e, <2>1 DEF AddPersistentResume
  <2>2. CASE AddPersistentDone(c)
    BY <1>c, <2>2 DEF AddPersistentDone
  <2> QED BY <1>7, <2>1, <2>2
<1>8. ASSUME NEW c \in Clients, NEW j \in Jobs, ThreadPoolAddPersistent(c, j) PROVE SlotOwned'
  <2>1. c \in Callers /\ call[c].pc # "persist"
    BY <1>8 DEF ThreadPoolAddPersistent, MayCall, Callers
  <2>2. CASE SchedulePersistent(c, j)
    BY <1>e, <2>1, <2>2
  <2>3. CASE CreateWorker(c, "addPersistent", j, 0, 0) /\ UNCHANGED persistentJob
    BY <1>d, <1>f, <2>1, <2>3
  <2> QED BY <1>8, <2>2, <2>3 DEF ThreadPoolAddPersistent
<1>9. ASSUME NEW c \in Callers, ShutdownDone(c) \/ WaitAgain(c) PROVE SlotOwned'
  <2>1. CASE ShutdownDone(c)
    BY <1>d, <2>1 DEF ShutdownDone
  <2>2. CASE WaitAgain(c)
    BY <1>b, <2>2 DEF WaitAgain
  <2> QED BY <1>9, <2>1, <2>2
<1>10. ASSUME NEW c \in Callers, ThreadPoolShutdown(c) PROVE SlotOwned'
  BY <1>c, <1>10 DEF ThreadPoolShutdown
<1>11. ASSUME NEW c \in Clients, NEW id, ThreadPoolRemove(c, id) PROVE SlotOwned'
  <2>1. UNCHANGED call /\ (UNCHANGED persistentJob \/ persistentJob' = NULL)
    BY <1>11 DEF ThreadPoolRemove, RemoveFrom, RemoveSlot
  <2> QED BY <1>b, <1>c, <2>1
<1>12. CASE Tick \/ UNCHANGED vars
  BY <1>12, <1>b DEF Tick, vars
<1> QED BY <1>1, <1>2, <1>3, <1>4, <1>5, <1>6, <1>7, <1>8, <1>9, <1>10, <1>11, <1>12 DEF Next, CallerStep

\* The slot is free when a persistent job is put into it.
LEMMA SlotIsFree ==
  ASSUME TypeOK, SlotOwned, OneSubmitter', NEW c \in Callers, NEW j, SchedulePersistent(c, j),
         call[c].pc # "persist"
  PROVE  persistentJob = NULL
<1>1. SUFFICES ASSUME NEW d \in Callers, call[d].pc = "persist" PROVE FALSE
  BY DEF SlotOwned
<1>2. call' = [call EXCEPT ![c] = At("persist", j)] /\ call \in [Callers -> Frame] /\ d # c
  BY <1>1 DEF SchedulePersistent, Becomes, TypeOK, StateOK
<1>3. call'[c].pc = "persist" /\ call'[d].pc = "persist"
  BY <1>1, <1>2 DEF At
<1> QED BY <1>2, <1>3 DEF OneSubmitter, Submitting

\* A step of a thread moves its next job and ends the one it has run.
LEMMA LookForWorkPlaced ==
  ASSUME StateOK, AllPlaced, NEW w \in Workers, NEW timedOut, NEW idle, NEW pt, NEW wt,
         LookForWork(w, timedOut, idle, pt, wt),
         fate' = [j \in Jobs |-> IF j = wjob[w] THEN "done" ELSE fate[j]]
  PROVE  AllPlaced'
<1>1. /\ queue \in [Priorities -> Seq(Jobs)] /\ persistentJob \in Jobs \cup {NULL}
      /\ wjob \in [Workers -> Jobs \cup {NULL}] /\ NULL \notin Jobs
  BY PoolAssumption DEF StateOK
<1>2. SUFFICES ASSUME NEW j \in Jobs, fate'[j] = "live" PROVE Placed(j)'
  BY DEF AllPlaced
<1>3. j # wjob[w] /\ (InLine(Line, j) \/ persistentJob = j \/ \E v \in Workers : v # w /\ wjob[v] = j)
  BY <1>2 DEF AllPlaced, Placed
<1>4. CASE \E x : wjob' = [wjob EXCEPT ![w] = x] /\ \E v \in Workers : v # w /\ wjob[v] = j
  BY <1>1, <1>4 DEF Placed
<1>5. CASE /\ wjob' = [wjob EXCEPT ![w] = NULL] /\ persistentJob' = persistentJob
           /\ queue' = queue \/ queue' = Bumped
  <2>1. Line' = Line
    BY <1>1, <1>5, BumpedLine DEF Line
  <2> QED BY <1>3, <1>4, <1>5, <2>1 DEF Placed
<1>6. CASE persistentJob # NULL /\ queue' = Bumped /\ Take(w, persistentJob, 1)
  <2>1. Line' = Line
    BY <1>1, <1>6, BumpedLine DEF Line
  <2>2. wjob' = [wjob EXCEPT ![w] = persistentJob] /\ wjob'[w] = persistentJob
    BY <1>1, <1>6 DEF Take
  <2> QED BY <1>3, <1>4, <2>1, <2>2 DEF Placed
<1>7. CASE /\ persistentJob = NULL /\ QueuedJobs > 0 /\ UNCHANGED persistentJob
           /\ queue' = [Bumped EXCEPT ![Highest(Bumped)] = Tail(@)]
           /\ Take(w, Head(Bumped[Highest(Bumped)]), 0)
  <2> DEFINE x == Head(Bumped[Highest(Bumped)])
  <2>1. x \in Jobs /\ Inserted(Line', Line, x)
    BY <1>1, <1>7, ServeLine DEF Line
  <2>2. wjob' = [wjob EXCEPT ![w] = x] /\ wjob'[w] = x
    BY <1>1, <1>7 DEF Take
  <2> HIDE DEF x
  <2>3. \A y : InLine(Line, y) => y = x \/ InLine(Line', y)
    BY <2>1, InsertedOrder
  <2> QED BY <1>1, <1>3, <1>4, <1>7, <2>2, <2>3 DEF Placed
<1> QED BY <1>5, <1>6, <1>7 DEF LookForWork, Exit

LEMMA StepPlaced ==
  ASSUME TypeOK, PlacesInv, SlotOwned, OneSubmitter', AllPlaced, [Next]_vars
  PROVE  AllPlaced'
<1>a. /\ StateOK /\ NULL \notin Jobs /\ queue \in [Priorities -> Seq(Jobs)]
      /\ fate \in [Jobs -> {"new", "live", "done", "removed", "discarded"}]
      /\ LinePlacesOK
  BY PoolAssumption DEF TypeOK, StateOK, PlacesInv
<1>b. ASSUME UNCHANGED <<queue, persistentJob, wjob, fate>> PROVE AllPlaced'
  BY <1>b DEF AllPlaced, Placed, Line
<1>1. ASSUME NEW w \in Workers, WorkerStep(w) PROVE AllPlaced'
  <2>1. CASE WorkerStart(w) \/ WorkerTimeout(w)
    BY <1>b, <2>1 DEF WorkerStart, WorkerTimeout, locals
  <2>2. CASE WorkerReturn(w)
    BY <1>a, <2>2, LookForWorkPlaced DEF WorkerReturn
  <2>3. CASE WorkerWake(w)
    <3>1. LookForWork(w, wpc[w] = "timedout", idleThreads, persistentThreads, workerThreads)
      BY <2>3 DEF WorkerWake
    <3>2. wjob[w] = NULL
      BY <2>3 DEF WorkerWake, PlacesInv, ThreadPlacesOK
    <3>3. fate' = [j \in Jobs |-> IF j = wjob[w] THEN "done" ELSE fate[j]]
      BY <1>a, <2>3, <3>2 DEF WorkerWake
    <3> QED BY <1>a, <3>1, <3>3, LookForWorkPlaced
  <2> QED BY <1>1, <2>1, <2>2, <2>3 DEF WorkerStep
<1>2. ASSUME NEW c \in Callers, FillResume(c) \/ AddResume(c) \/ AddPersistentDone(c) \/ ShutdownDone(c) \/ WaitAgain(c)
      PROVE  AllPlaced'
  BY <1>b, <1>2 DEF FillResume, AddResume, AddPersistentDone, ShutdownDone, WaitAgain, locals
<1>3. ASSUME NEW c \in Clients, ThreadPoolInit(c) \/ \E a \in Attrs : ThreadPoolSetAttr(c, a) PROVE AllPlaced'
  BY <1>b, <1>3 DEF ThreadPoolInit, ThreadPoolSetAttr, locals
<1>4. ASSUME NEW c \in Callers, NEW j \in Jobs, NEW p \in Priorities, ThreadPoolAdd(c, j, p) PROVE AllPlaced'
  <2>1. /\ queue' = [queue EXCEPT ![p] = Append(@, j)] /\ fate' = [fate EXCEPT ![j] = "live"]
        /\ UNCHANGED <<persistentJob, wjob>>
    BY <1>4 DEF ThreadPoolAdd, locals
  <2>2. Inserted(Line, Line', j)
    BY <1>a, <2>1, AddLine DEF Line
  <2>3. \A x : InLine(Line', x) <=> x = j \/ InLine(Line, x)
    BY <2>2, InsertedOrder
  <2> QED BY <1>a, <2>1, <2>3 DEF AllPlaced, Placed
<1>5. ASSUME NEW c \in Callers, NEW j \in Jobs, SchedulePersistent(c, j), call[c].pc # "persist", UNCHANGED <<queue, wjob>>
      PROVE  AllPlaced'
  <2>1. persistentJob = NULL
    BY <1>5, SlotIsFree
  <2>2. persistentJob' = j /\ fate' = [fate EXCEPT ![j] = "live"] /\ Line' = Line
    BY <1>5 DEF SchedulePersistent, Line
  <2> QED BY <1>a, <1>5, <2>1, <2>2 DEF AllPlaced, Placed
<1>6. ASSUME NEW c \in Callers, AddPersistentResume(c) PROVE AllPlaced'
  <2>1. call[c].pc = "addPersistent" /\ SchedulePersistent(c, call[c].job) /\ UNCHANGED <<queue, wjob>>
    BY <1>6 DEF AddPersistentResume, Created, locals
  <2>2. call[c].job \in Jobs
    BY <2>1 DEF PlacesInv, PromisedOK
  <2> QED BY <1>5, <2>1, <2>2
<1>7. ASSUME NEW c \in Clients, NEW j \in Jobs, ThreadPoolAddPersistent(c, j) PROVE AllPlaced'
  <2>1. c \in Callers /\ call[c].pc # "persist" /\ UNCHANGED <<queue, wjob>>
    BY <1>7 DEF ThreadPoolAddPersistent, MayCall, Callers, locals
  <2>2. CASE SchedulePersistent(c, j)
    BY <1>5, <2>1, <2>2
  <2>3. CASE UNCHANGED <<persistentJob, fate>>
    BY <1>b, <2>1, <2>3
  <2> QED BY <1>7, <2>2, <2>3 DEF ThreadPoolAddPersistent
<1>8. ASSUME NEW c \in Callers, ThreadPoolShutdown(c) PROVE AllPlaced'
  <2>1. /\ fate' = [j \in Jobs |-> IF Queued(j) \/ j = persistentJob THEN "discarded" ELSE fate[j]]
        /\ UNCHANGED wjob
    BY <1>8 DEF ThreadPoolShutdown, locals
  <2>2. \A j \in Jobs : Queued(j) <=> InLine(Line, j)
    BY <1>a, LineOrder DEF Queued, Line
  <2> QED BY <2>1, <2>2 DEF AllPlaced, Placed
<1>9. ASSUME NEW c \in Clients, NEW id, ThreadPoolRemove(c, id) PROVE AllPlaced'
  <2>1. UNCHANGED wjob
    BY <1>9 DEF ThreadPoolRemove, locals
  <2>2. CASE RemoveSlot /\ persistentJob # NULL
    <3>1. persistentJob \in Jobs /\ fate' = [fate EXCEPT ![persistentJob] = "removed"] /\ Line' = Line
      BY <1>a, <2>2 DEF RemoveSlot, Line, StateOK
    <3> QED BY <1>a, <2>1, <3>1 DEF AllPlaced, Placed
  <2>3. ASSUME NEW p \in Priorities, NEW i \in FirstIn(queue[p], id), RemoveFrom(p, i) PROVE AllPlaced'
    <3> DEFINE x == queue[p][i]
    <3>1. i \in 1..Len(queue[p])
      BY <1>a, <2>3 DEF FirstIn
    <3>2. x \in Jobs /\ Inserted(Line', Line, x)
      BY <1>a, <2>3, <3>1, RemoveLine DEF RemoveFrom, Line
    <3>3. fate' = [fate EXCEPT ![x] = "removed"] /\ persistentJob' = persistentJob
      BY <2>3 DEF RemoveFrom
    <3> HIDE DEF x
    <3>4. \A y : InLine(Line, y) => y = x \/ InLine(Line', y)
      BY <3>2, InsertedOrder
    <3> QED BY <1>a, <2>1, <3>2, <3>3, <3>4 DEF AllPlaced, Placed
  <2> QED BY <1>9, <2>2, <2>3 DEF ThreadPoolRemove, Priorities
<1>10. CASE Tick \/ UNCHANGED vars
  BY <1>b, <1>10 DEF Tick, vars, locals
<1> QED BY <1>1, <1>2, <1>3, <1>4, <1>6, <1>7, <1>8, <1>9, <1>10 DEF Next, CallerStep

QueuePlaces(j) ==
  {x \in Priorities \X (1..Cardinality(Jobs)) : x[2] <= Len(queue[x[1]]) /\ queue[x[1]][x[2]] = j}
Runners(j) == {w \in Workers : wjob[w] = j}

\* A queue without repetition is not longer than there are jobs.
LEMMA QueueBound ==
  ASSUME queue \in [Priorities -> Seq(Jobs)], NoneTwice(Line), NEW p \in Priorities
  PROVE  Len(queue[p]) \in Nat /\ Len(queue[p]) <= Cardinality(Jobs)
<1> DEFINE s == queue[p]   n == Len(s)   f == [i \in 1..n |-> s[i]]
<1>1. s \in Seq(Jobs) /\ n \in Nat
  OBVIOUS
<1>2. f \in [1..n -> Jobs]
  <2> HIDE DEF s
  <2> QED BY <1>1
<1>3. ASSUME NEW i \in 1..n, NEW k \in 1..n, s[i] = s[k] PROVE i = k
  <2>1. /\ Offset(queue, p) \in Nat
        /\ Offset(queue, p) + i \in 1..Len(Line) /\ Line[Offset(queue, p) + i] = s[i]
        /\ Offset(queue, p) + k \in 1..Len(Line) /\ Line[Offset(queue, p) + k] = s[k]
    BY LinePlaces DEF Line
  <2>2. Offset(queue, p) + i = Offset(queue, p) + k
    BY <1>3, <2>1 DEF NoneTwice
  <2>3. i \in Int /\ k \in Int
    BY <1>1
  <2> QED BY <2>1, <2>2, <2>3
<1>4. f \in Injection(1..n, Jobs)
  <2> HIDE DEF s, n
  <2>1. \A i, k \in 1..n : f[i] = f[k] => i = k
    BY <1>3
  <2> HIDE DEF f
  <2> QED BY <1>2, <2>1 DEF Injection, IsInjective
<1>5. Cardinality(1..n) <= Cardinality(Jobs)
  <2> HIDE DEF f, n
  <2> QED BY <1>4, PoolAssumption, FS_Injection
<1>6. Cardinality(1..n) = n
  <2> HIDE DEF n
  <2>1. 1 \in Int /\ n \in Int
    BY <1>1
  <2>2. Cardinality(1..n) = IF 1 > n THEN 0 ELSE n-1+1
    BY <2>1, FS_Interval
  <2> QED BY <1>1, <2>2
<1> QED BY <1>1, <1>5, <1>6

\* In the queues a job is nowhere or in one place,
LEMMA QueuePlacesCount ==
  ASSUME queue \in [Priorities -> Seq(Jobs)], NoneTwice(Line), NEW j \in Jobs
  PROVE  Cardinality(QueuePlaces(j)) = IF InLine(Line, j) THEN 1 ELSE 0
<1>1. InLine(Line, j) <=> \E p \in Priorities : \E i \in DOMAIN queue[p] : queue[p][i] = j
  BY LineOrder DEF Line
<1>2. \A p \in Priorities : DOMAIN queue[p] = 1..Len(queue[p]) /\ Len(queue[p]) \in Nat
  OBVIOUS
<1>3. Cardinality(Jobs) \in Nat
  BY PoolAssumption, FS_CardinalityType
<1>4. ASSUME ~InLine(Line, j) PROVE Cardinality(QueuePlaces(j)) = 0
  <2>1. QueuePlaces(j) = {}
    <3>1. SUFFICES ASSUME NEW p \in Priorities, NEW i \in 1..Cardinality(Jobs), i <= Len(queue[p]), queue[p][i] = j
                   PROVE  FALSE
      BY DEF QueuePlaces
    <3>2. i \in 1..Len(queue[p])
      BY <1>2, <1>3, <3>1
    <3> QED BY <1>1, <1>2, <1>4, <3>1, <3>2
  <2> QED BY <2>1, FS_EmptySet
<1>5. ASSUME InLine(Line, j) PROVE Cardinality(QueuePlaces(j)) = 1
  <2>1. PICK p \in Priorities : \E i \in 1..Len(queue[p]) : queue[p][i] = j
    BY <1>1, <1>2, <1>5
  <2>2. PICK i \in 1..Len(queue[p]) : queue[p][i] = j
    BY <2>1
  <2>3. i \in 1..Cardinality(Jobs) /\ i <= Len(queue[p])
    <3>1. Len(queue[p]) \in Nat /\ Len(queue[p]) <= Cardinality(Jobs)
      BY QueueBound
    <3> QED BY <1>3, <3>1
  <2>4. ASSUME NEW r \in Priorities, NEW k \in 1..Cardinality(Jobs), k <= Len(queue[r]), queue[r][k] = j
        PROVE  r = p /\ k = i
    <3>1. k \in 1..Len(queue[r])
      BY <1>2, <1>3, <2>4
    <3>2. /\ Offset(queue, p) + i \in 1..Len(Line) /\ Line[Offset(queue, p) + i] = j
          /\ Offset(queue, r) + k \in 1..Len(Line) /\ Line[Offset(queue, r) + k] = j
      BY <2>2, <2>4, <3>1, LinePlaces DEF Line
    <3>3. Offset(queue, p) + i = Offset(queue, r) + k
      BY <3>2 DEF NoneTwice
    <3>4. Offset(queue, p) \in Nat /\ Offset(queue, r) \in Nat /\ i \in Int /\ k \in Int
      BY LinePlaces, <1>2, <1>3
    <3>5. ~(Offset(queue, p) + i < Offset(queue, r) + k) /\ ~(Offset(queue, r) + k < Offset(queue, p) + i)
      BY <3>3, <3>4
    <3>6. /\ ~(p = r /\ i < k) /\ ~(r = p /\ k < i)
          /\ ~(<<p, r>> \in {<<"high", "med">>, <<"high", "low">>, <<"med", "low">>})
          /\ ~(<<r, p>> \in {<<"high", "med">>, <<"high", "low">>, <<"med", "low">>})
      BY <3>1, <3>5, OffsetsGrow
    <3>7. r = p
      BY <3>6 DEF Priorities
    <3> QED BY <3>4, <3>6, <3>7
  <2>5. QueuePlaces(j) = {<<p, i>>}
    <3>1. <<p, i>> \in QueuePlaces(j)
      BY <2>2, <2>3 DEF QueuePlaces
    <3>2. ASSUME NEW x \in QueuePlaces(j) PROVE x = <<p, i>>
      <4>1. /\ x \in Priorities \X (1..Cardinality(Jobs)) /\ x[2] <= Len(queue[x[1]]) /\ queue[x[1]][x[2]] = j
        BY DEF QueuePlaces
      <4>2. x[1] \in Priorities /\ x[2] \in 1..Cardinality(Jobs) /\ x = <<x[1], x[2]>>
        BY <4>1
      <4>3. x[1] = p /\ x[2] = i
        BY <2>4, <4>1, <4>2
      <4> QED BY <4>2, <4>3
    <3> QED BY <3>1, <3>2
  <2> QED BY <2>5, FS_Singleton
<1> QED BY <1>4, <1>5

\* and of the threads nobody or one holds it.
LEMMA RunnersCount ==
  ASSUME ThreadPlacesOK, NEW j \in Jobs
  PROVE  Cardinality(Runners(j)) = IF \E w \in Workers : wjob[w] = j THEN 1 ELSE 0
<1>1. ASSUME NEW w \in Workers, wjob[w] = j PROVE Cardinality(Runners(j)) = 1
  <2>1. Runners(j) = {w}
    BY <1>1, PoolAssumption DEF ThreadPlacesOK, Runners
  <2> QED BY <2>1, FS_Singleton
<1>2. ASSUME \A w \in Workers : wjob[w] # j PROVE Cardinality(Runners(j)) = 0
  <2>1. Runners(j) = {}
    BY <1>2 DEF Runners
  <2> QED BY <2>1, FS_EmptySet
<1> QED BY <1>1, <1>2

LEMMA PlacedOnce ==
  ASSUME TypeOK, PlacesInv, AllPlaced
  PROVE  OnePlacePerJob
<1> SUFFICES ASSUME NEW j \in Jobs PROVE Held(j) = (IF fate[j] = "live" THEN 1 ELSE 0)
  BY DEF OnePlacePerJob
<1>1. /\ LinePlacesOK /\ ThreadPlacesOK /\ SlotOK /\ NULL \notin Jobs /\ queue \in [Priorities -> Seq(Jobs)]
  BY PoolAssumption DEF PlacesInv, TypeOK, StateOK
<1> DEFINE q == Cardinality(QueuePlaces(j))
           r == Cardinality(Runners(j))
           s == IF persistentJob = j THEN 1 ELSE 0
<1>2. Held(j) = q + r + s
  BY DEF Held, QueuePlaces, Runners
<1>3. q = IF InLine(Line, j) THEN 1 ELSE 0
  BY <1>1, QueuePlacesCount DEF LinePlacesOK
<1>4. r = IF \E w \in Workers : wjob[w] = j THEN 1 ELSE 0
  BY <1>1, RunnersCount
<1>5. CASE fate[j] = "live"
  <2>1. \/ q = 1 /\ r = 0 /\ s = 0
        \/ q = 0 /\ r = 1 /\ s = 0
        \/ q = 0 /\ r = 0 /\ s = 1
    <3>1. InLine(Line, j) => persistentJob # j /\ \A w \in Workers : wjob[w] # j
      BY <1>1 DEF LinePlacesOK, ThreadPlacesOK
    <3>2. (\E w \in Workers : wjob[w] = j) => persistentJob # j
      BY <1>1 DEF ThreadPlacesOK
    <3> HIDE DEF q, r
    <3> QED BY <1>3, <1>4, <1>5, <3>1, <3>2 DEF AllPlaced, Placed
  <2> HIDE DEF q, r, s
  <2> QED BY <1>2, <1>5, <2>1
<1>6. CASE fate[j] # "live"
  <2>1. ~InLine(Line, j) /\ persistentJob # j /\ \A w \in Workers : wjob[w] # j
    BY <1>1, <1>6 DEF LinePlacesOK, ThreadPlacesOK, SlotOK
  <2> HIDE DEF q, r
  <2> QED BY <1>2, <1>3, <1>4, <1>6, <2>1
<1> QED BY <1>5, <1>6

\* No job is run twice, lost or freed while something still refers to it, if persistent
\* jobs are added one after the other: ThreadPoolAddPersistent overwrites the one slot
\* (ThreadPool.c:860).
THEOREM NoJobLost == Spec /\ []OneSubmitter => []OnePlacePerJob
<1>1. Init => SlotOwned /\ AllPlaced
  BY DEF Init, SlotOwned, AllPlaced
<1>2. TypeOK /\ LifeInv /\ SlotOwned /\ [Next]_vars => SlotOwned'
  BY StepSlotOwned
<1>3. TypeOK /\ PlacesInv /\ SlotOwned /\ OneSubmitter' /\ AllPlaced /\ [Next]_vars => AllPlaced'
  BY StepPlaced
<1>4. TypeOK /\ PlacesInv /\ AllPlaced => OnePlacePerJob
  BY PlacedOnce
<1> QED BY <1>1, <1>2, <1>3, <1>4, TypeCorrect, LifeInvariant, PlacesInvariant, PTL DEF Spec

-----------------------------------------------------------------------------
(* Nothing is left of a pool that has ended. *)

\* A caller starts threads, or is about to give up because it could not.
Creating(c) == call[c].pc \in CreatePcs \cup {"failed"}

\* At most one caller at a time: the threads of two callers that wait for one each cannot
\* be told apart by their number (ThreadPool.c:640-643).
OneCreator == \A c, d \in Callers : Creating(c) /\ Creating(d) => c = d

Starting == {w \in Workers : wpc[w] = "starting"}

(***************************************************************************)
(* A thread that has not begun to run is waited for by its creator, and is *)
(* the only one; so a pool that shuts down has no such thread, gets no new *)
(* work, and ends when the last of its threads has.                        *)
(***************************************************************************)
EndInv ==
  /\ \A w \in Workers : call[w].pc = "idle"
  /\ \A w \in Starting :
       /\ \E c \in Callers : call[c].pc \in CreatePcs /\ totalThreads < call[c].target
       /\ Starting = {w}
  /\ shutdown => ~HasWork /\ \A c \in Callers : ~Creating(c)
  /\ phase = "destroyed" => Existing = {}

LEMMA InitEnd == Init => EndInv
<1> SUFFICES ASSUME Init PROVE EndInv
  OBVIOUS
<1>1. Workers \subseteq Callers /\ \A c \in Callers : call[c] = Idle
  BY DEF Init, Callers
<1>2. Starting = {} /\ ~shutdown /\ phase = "unused"
  BY DEF Init, Starting, shutdown
<1> QED BY <1>1, <1>2 DEF EndInv, Idle, At

\* A thread goes on.
LEMMA ThreadEnd ==
  ASSUME TypeOK, EndInv, NEW w \in Workers, wpc[w] \notin {"none", "starting"},
         NEW timedOut, NEW idle, NEW pt, NEW wt, LookForWork(w, timedOut, idle, pt, wt), UNCHANGED <<phase, call>>
  PROVE  EndInv'
<1>a. /\ StateOK /\ totalThreads \in Nat /\ call \in [Callers -> Frame] /\ wpc \in [Workers -> WorkerPcs]
      /\ queue \in [Priorities -> Seq(Jobs)]
  BY DEF TypeOK, StateOK, CountersOK
<1>1. Starting' = Starting /\ (totalThreads' = totalThreads \/ totalThreads' = totalThreads - 1)
  BY <1>a DEF LookForWork, Exit, Take, Starting
<1>2. \A c \in Callers : totalThreads < call[c].target => totalThreads' < call'[c].target
  <2>1. \A c \in Callers : call[c].target \in Nat
    BY <1>a DEF Frame
  <2> QED BY <1>a, <1>1, <2>1
<1>3. phase # "destroyed"
  BY DEF EndInv, Existing
<1>4. shutdown => ~HasWork'
  <2>1. SUFFICES ASSUME shutdown PROVE ~HasWork'
    OBVIOUS
  <2>2. queue' = Bumped /\ persistentJob' = persistentJob
    BY <2>1 DEF LookForWork, Exit
  <2>3. QueuedJobs' = QueuedJobs
    <3>1. QueuedJobs' = Len(Bumped["high"]) + Len(Bumped["low"]) + Len(Bumped["med"])
      BY <2>2 DEF QueuedJobs
    <3> QED BY <1>a, <3>1, BumpedType
  <2> QED BY <2>1, <2>2, <2>3 DEF EndInv, HasWork
<1> QED BY <1>1, <1>2, <1>3, <1>4 DEF EndInv, shutdown, Creating

\* What leaves the threads and the phase alone, by a caller that waits for no thread,
\* or when none is about to run.
LEMMA CallEnd ==
  ASSUME TypeOK, EndInv, NEW c \in Clients, call[c].pc \notin CreatePcs \/ Starting = {}, ~shutdown,
         NEW f, Becomes(c, f), Starting' = Starting, UNCHANGED totalThreads,
         phase' = phase \/ phase' \in {"running", "starting"}
  PROVE  EndInv'
<1>1. /\ call' = [call EXCEPT ![c] = f] /\ call \in [Callers -> Frame] /\ c \in Callers /\ c \notin Workers
      /\ Workers \subseteq Callers
  BY PoolAssumption DEF Becomes, TypeOK, StateOK, Callers
<1>2. \A d \in Callers : d # c => call'[d] = call[d]
  BY <1>1
<1>3. ~shutdown' /\ phase' # "destroyed"
  BY DEF shutdown
<1>4. \A w \in Workers : call'[w].pc = "idle"
  BY <1>1, <1>2 DEF EndInv
<1>5. ASSUME NEW w \in Starting'
      PROVE  /\ \E d \in Callers : call'[d].pc \in CreatePcs /\ totalThreads' < call'[d].target
             /\ Starting' = {w}
  <2>1. PICK d \in Callers : call[d].pc \in CreatePcs /\ totalThreads < call[d].target
    BY <1>5 DEF EndInv
  <2>2. Starting = {w} /\ call'[d] = call[d]
    BY <1>2, <1>5, <2>1 DEF EndInv
  <2> QED BY <2>1, <2>2
<1> QED BY <1>3, <1>4, <1>5 DEF EndInv

\* A thread is created when no other one is about to start.
LEMMA CreateEnd ==
  ASSUME TypeOK, EndInv, NEW c \in Clients, ~shutdown, Starting = {},
         NEW pc \in CreatePcs, NEW j, NEW jobs, NEW threads, CreateWorker(c, pc, j, jobs, threads),
         UNCHANGED totalThreads, phase' = phase \/ phase' \in {"running", "starting"}
  PROVE  EndInv'
<1> DEFINE f == [pc |-> pc, job |-> j, jobs |-> jobs, threads |-> threads, target |-> totalThreads + 1]
<1>1. /\ call' = [call EXCEPT ![c] = f] /\ call \in [Callers -> Frame] /\ c \in Callers /\ c \notin Workers
      /\ Workers \subseteq Callers /\ totalThreads \in Nat /\ wpc \in [Workers -> WorkerPcs]
  BY PoolAssumption DEF CreateWorker, Becomes, TypeOK, StateOK, CountersOK, Callers
<1>2. call'[c] = f /\ \A d \in Callers : d # c => call'[d] = call[d]
  BY <1>1
<1>3. PICK w \in Workers : wpc' = [wpc EXCEPT ![w] = "starting"]
  BY DEF CreateWorker
<1>4. Starting' = {w}
  BY <1>1, <1>3 DEF Starting
<1>5. call'[c].pc \in CreatePcs /\ totalThreads' < call'[c].target
  <2>1. f.pc = pc /\ f.target = totalThreads + 1
    OBVIOUS
  <2> HIDE DEF f
  <2> QED BY <1>1, <1>2, <2>1
<1>6. ~shutdown' /\ phase' # "destroyed"
  BY DEF shutdown
<1>7. \A v \in Workers : call'[v].pc = "idle"
  BY <1>1, <1>2 DEF EndInv
<1> QED BY <1>1, <1>4, <1>5, <1>6, <1>7 DEF EndInv

\* A thread that its creator has seen start is not about to.
LEMMA CreatorAlone ==
  ASSUME TypeOK, EndInv, OneCreator, NEW c \in Callers, NEW pc \in CreatePcs, Created(c, pc)
  PROVE  c \in Clients /\ Starting = {} /\ ~shutdown
<1>1. Creating(c) /\ c \in Clients /\ ~shutdown
  BY DEF Created, Creating, EndInv, Callers, CreatePcs
<1>2. call[c].target \in Nat /\ totalThreads \in Nat /\ ~(totalThreads < call[c].target)
  <2>1. call[c] \in Frame
    BY DEF TypeOK, StateOK
  <2> QED BY <2>1 DEF Created, TypeOK, CountersOK, Frame
<1>3. ASSUME NEW w \in Starting PROVE FALSE
  <2>1. PICK d \in Callers : call[d].pc \in CreatePcs /\ totalThreads < call[d].target
    BY <1>3 DEF EndInv
  <2>2. d = c
    BY <1>1, <2>1 DEF OneCreator, Creating
  <2> QED BY <1>2, <2>1, <2>2
<1> QED BY <1>1, <1>3

\* Who begins to create a thread finds nobody else waiting for one.
LEMMA FirstAlone ==
  ASSUME TypeOK, EndInv, OneCreator', NEW c \in Clients, call[c].pc \notin CreatePcs,
         NEW pc \in CreatePcs, NEW j, NEW jobs, NEW threads, CreateWorker(c, pc, j, jobs, threads)
  PROVE  Starting = {}
<1> DEFINE f == [pc |-> pc, job |-> j, jobs |-> jobs, threads |-> threads, target |-> totalThreads + 1]
<1>1. /\ call' = [call EXCEPT ![c] = f] /\ call \in [Callers -> Frame] /\ c \in Callers /\ f.pc = pc
  BY DEF CreateWorker, Becomes, TypeOK, StateOK, Callers
<1> HIDE DEF f
<1>2. call'[c] = f /\ \A d \in Callers : d # c => call'[d] = call[d]
  BY <1>1
<1>3. ASSUME NEW w \in Starting PROVE FALSE
  <2>1. PICK d \in Callers : call[d].pc \in CreatePcs
    BY <1>3 DEF EndInv
  <2>2. d # c /\ call'[d].pc \in CreatePcs /\ call'[c].pc \in CreatePcs
    BY <1>1, <1>2, <2>1
  <2> QED BY <1>1, <2>2 DEF OneCreator, Creating
<1> QED BY <1>3

\* The pool is shut down.
LEMMA ShutdownEnd ==
  ASSUME ~JobsMayAdd, TypeOK, ThreadsCounted, EndInv, OneCreator, NEW c \in Callers, ThreadPoolShutdown(c)
  PROVE  EndInv'
<1> DEFINE f == IF totalThreads > 0 THEN At("join", NULL) ELSE Idle
<1>1. /\ call' = [call EXCEPT ![c] = f] /\ call \in [Callers -> Frame] /\ f.pc \in {"join", "idle"}
      /\ Workers \subseteq Callers /\ totalThreads \in Nat /\ wpc \in [Workers -> WorkerPcs]
      /\ wpc' = [w \in Workers |-> IF wpc[w] = "waiting" THEN "signaled" ELSE wpc[w]]
      /\ totalThreads' = totalThreads /\ queue' = EmptyQueues /\ persistentJob' = NULL
      /\ phase' = IF totalThreads > 0 THEN "shutdown" ELSE "destroyed"
  BY DEF ThreadPoolShutdown, Becomes, TypeOK, StateOK, CountersOK, Callers, At, Idle, counters
<1> HIDE DEF f
<1>2. call'[c] = f /\ \A d \in Callers : d # c => call'[d] = call[d]
  BY <1>1
<1>3. c \in Clients /\ \A d \in Callers : d # c => ~Creating(d)
  <2>1. CASE MayCall(c) /\ c \in Clients /\ \A d \in Clients : call[d].pc = "idle"
    BY <2>1 DEF EndInv, Callers, Creating, CreatePcs
  <2>2. CASE call[c].pc = "failed"
    <3>1. Creating(c)
      BY <2>2 DEF Creating
    <3> QED BY <2>2, <3>1 DEF OneCreator, EndInv, Callers
  <2> QED BY <2>1, <2>2 DEF ThreadPoolShutdown
<1>4. Starting = {}
  <2>1. ASSUME NEW w \in Starting PROVE FALSE
    <3>1. PICK d \in Callers : call[d].pc \in CreatePcs
      BY <2>1 DEF EndInv
    <3>2. d = c
      BY <1>3, <3>1 DEF Creating
    <3> QED BY <3>1, <3>2 DEF ThreadPoolShutdown, MayCall, CreatePcs
  <2> QED BY <2>1
<1>5. Starting' = {} /\ \A w \in Workers : wpc[w] = "none" => wpc'[w] = "none"
  BY <1>1, <1>4 DEF Starting
<1>6. \A d \in Callers : ~Creating(d)'
  BY <1>1, <1>2, <1>3 DEF Creating, CreatePcs
<1>7. ~HasWork'
  BY <1>1 DEF HasWork, QueuedJobs, EmptyQueues, Priorities
<1>8. phase' = "destroyed" => Existing' = {}
  <2>1. SUFFICES ASSUME totalThreads = 0 PROVE Existing' = {}
    BY <1>1
  <2>2. IsFiniteSet(AwakeThreads) /\ Cardinality(AwakeThreads) = 0
    BY <2>1, FiniteThreads DEF ThreadsCounted, AwakeThreads
  <2>3. AwakeThreads = {}
    BY <2>2, FS_EmptySet
  <2>4. \A w \in Workers : wpc[w] = "none"
    BY <1>1, <1>4, <2>3 DEF AwakeThreads, Awake, Starting, WorkerPcs
  <2> QED BY <1>5, <2>4 DEF Existing
<1>9. \A w \in Workers : call'[w].pc = "idle"
  BY <1>1, <1>2, <1>3, PoolAssumption DEF EndInv
<1> QED BY <1>5, <1>6, <1>7, <1>8, <1>9 DEF EndInv

LEMMA StepEnd ==
  ASSUME ~JobsMayAdd, TypeOK, ThreadsCounted, LifeInv, EndInv, OneCreator, OneCreator', [Next]_vars
  PROVE  EndInv'
<1>a. /\ StateOK /\ totalThreads \in Nat /\ call \in [Callers -> Frame] /\ wpc \in [Workers -> WorkerPcs]
      /\ Workers \subseteq Callers /\ Clients \subseteq Callers /\ Workers \cap Clients = {}
      /\ \A c \in Callers : call[c].target \in Nat
  BY PoolAssumption DEF TypeOK, StateOK, CountersOK, Callers, Frame
<1>b. ASSUME NEW c \in Callers, MayCall(c) PROVE c \in Clients /\ call[c].pc = "idle" /\ ~shutdown
  BY <1>b DEF MayCall, shutdown
<1>c. ASSUME Signal \/ UNCHANGED wpc PROVE Starting' = Starting
  BY <1>a, <1>c DEF Signal, Starting
<1>1. ASSUME NEW w \in Workers, WorkerStep(w) PROVE EndInv'
  <2>1. CASE WorkerStart(w)
    <3>1. Starting = {w} /\ phase # "destroyed"
      BY <2>1 DEF WorkerStart, Starting, EndInv, Existing
    <3>2. Starting' = {}
      BY <1>a, <2>1, <3>1 DEF WorkerStart, Starting
    <3>3. UNCHANGED <<phase, queue, persistentJob, call>>
      BY <2>1 DEF WorkerStart
    <3> QED BY <3>1, <3>2, <3>3 DEF EndInv, shutdown, HasWork, QueuedJobs, Creating
  <2>2. CASE WorkerTimeout(w)
    <3>1. Starting' = Starting /\ phase # "destroyed"
      BY <1>a, <2>2 DEF WorkerTimeout, Starting, EndInv, Existing
    <3>2. UNCHANGED <<phase, queue, persistentJob, call, totalThreads>>
      BY <2>2 DEF WorkerTimeout, counters
    <3> QED BY <3>1, <3>2 DEF EndInv, shutdown, HasWork, QueuedJobs, Creating
  <2>3. CASE WorkerReturn(w)
    BY <2>3, ThreadEnd DEF WorkerReturn
  <2>4. CASE WorkerWake(w)
    BY <2>4, ThreadEnd DEF WorkerWake
  <2> QED BY <1>1, <2>1, <2>2, <2>3, <2>4 DEF WorkerStep
<1>2. ASSUME NEW c \in Clients, NEW pc \in {"init", "setattr"}, NEW i, NEW a, FillToMin(c, pc, i, a), ~shutdown,
             call[c].pc \notin CreatePcs \/ Starting = {}, UNCHANGED totalThreads
      PROVE  EndInv'
  <2>1. phase' = phase \/ phase' \in {"running", "starting"}
    BY <1>2 DEF FillToMin
  <2>2. CASE CreateWorker(c, pc, NULL, 0, i)
    <3>1. Starting = {}
      BY <1>2, <2>2, FirstAlone DEF CreatePcs
    <3> QED BY <1>2, <2>1, <2>2, <3>1, CreateEnd DEF CreatePcs
  <2>3. CASE (Signal \/ UNCHANGED wpc) /\ \E s \in {"idle", "failed"} : Becomes(c, At(s, NULL))
    BY <1>2, <1>c, <2>1, <2>3, CallEnd
  <2> QED BY <1>2, <2>2, <2>3 DEF FillToMin
<1>3. ASSUME NEW c \in Callers, FillResume(c) PROVE EndInv'
  <2>1. PICK pc \in {"init", "setattr"} : Created(c, pc) /\ FillToMin(c, pc, call[c].threads + 1, attr)
    BY <1>3 DEF FillResume
  <2>2. c \in Clients /\ Starting = {} /\ ~shutdown
    BY <2>1, CreatorAlone DEF CreatePcs
  <2> QED BY <1>2, <1>3, <2>1, <2>2 DEF FillResume, counters
<1>4. ASSUME NEW c \in Clients, NEW j, NEW jobs, NEW threads, AddWorker(c, j, jobs, threads), ~shutdown,
             call[c].pc \notin CreatePcs \/ Starting = {}, UNCHANGED <<totalThreads, phase>>
      PROVE  EndInv'
  <2>1. CASE CreateWorker(c, "add", j, jobs, threads)
    <3>1. Starting = {}
      BY <1>4, <2>1, FirstAlone DEF CreatePcs
    <3> QED BY <1>4, <2>1, <3>1, CreateEnd DEF CreatePcs
  <2>2. CASE AddDone(c, j)
    BY <1>4, <1>c, <2>2, CallEnd DEF AddDone
  <2> QED BY <1>4, <2>1, <2>2 DEF AddWorker
<1>5. ASSUME NEW c \in Callers, AddResume(c) PROVE EndInv'
  <2>1. Created(c, "add") /\ AddWorker(c, call[c].job, call[c].jobs, call[c].threads + 1)
    BY <1>5 DEF AddResume
  <2>2. c \in Clients /\ Starting = {} /\ ~shutdown
    BY <2>1, CreatorAlone DEF CreatePcs
  <2> QED BY <1>4, <1>5, <2>1, <2>2 DEF AddResume, counters
<1>6. ASSUME NEW c \in Callers, NEW j \in Jobs, NEW p \in Priorities, ThreadPoolAdd(c, j, p) PROVE EndInv'
  <2>1. c \in Clients /\ call[c].pc = "idle" /\ ~shutdown
    BY <1>6, <1>b DEF ThreadPoolAdd
  <2> QED BY <1>4, <1>6, <2>1 DEF ThreadPoolAdd, counters, CreatePcs
<1>7. ASSUME NEW c \in Clients, NEW j, SchedulePersistent(c, j), ~shutdown,
             call[c].pc \notin CreatePcs \/ Starting = {}, UNCHANGED <<totalThreads, phase>>
      PROVE  EndInv'
  BY <1>7, <1>c, CallEnd DEF SchedulePersistent
<1>8. ASSUME NEW c \in Callers, AddPersistentResume(c) PROVE EndInv'
  <2>1. Created(c, "addPersistent") /\ SchedulePersistent(c, call[c].job)
    BY <1>8 DEF AddPersistentResume
  <2>2. c \in Clients /\ Starting = {} /\ ~shutdown
    BY <2>1, CreatorAlone DEF CreatePcs
  <2> QED BY <1>7, <1>8, <2>1, <2>2 DEF AddPersistentResume, counters
<1>9. ASSUME NEW c \in Clients, NEW j \in Jobs, ThreadPoolAddPersistent(c, j) PROVE EndInv'
  <2>1. call[c].pc \notin CreatePcs /\ ~shutdown /\ UNCHANGED <<totalThreads, phase>>
    BY <1>a, <1>b, <1>9 DEF ThreadPoolAddPersistent, CreatePcs, counters
  <2>2. CASE CreateWorker(c, "addPersistent", j, 0, 0)
    <3>1. Starting = {}
      BY <2>1, <2>2, FirstAlone DEF CreatePcs
    <3> QED BY <2>1, <2>2, <3>1, CreateEnd DEF CreatePcs
  <2>3. CASE SchedulePersistent(c, j)
    BY <1>7, <2>1, <2>3
  <2> QED BY <1>9, <2>2, <2>3 DEF ThreadPoolAddPersistent
<1>10. ASSUME NEW c \in Callers, AddPersistentDone(c) PROVE EndInv'
  <2>1. call[c].pc = "persist" /\ c \in Clients
    BY <1>10 DEF AddPersistentDone, EndInv, Callers
  <2>2. Becomes(c, Idle) /\ UNCHANGED <<phase, queue, persistentJob, wpc, totalThreads>> /\ Starting' = Starting
    BY <1>10 DEF AddPersistentDone, counters, Starting
  <2>3. CASE ~shutdown
    BY <2>1, <2>2, <2>3, CallEnd DEF CreatePcs
  <2>4. CASE shutdown
    <3>1. ~HasWork' /\ shutdown' /\ Existing' = Existing
      BY <2>2, <2>4 DEF EndInv, HasWork, QueuedJobs, shutdown, Existing
    <3>2. \A d \in Callers : ~Creating(d) /\ call'[d].pc \in {call[d].pc, "idle"}
      BY <1>a, <2>2, <2>4 DEF EndInv, Becomes, Idle, At
    <3>3. Starting' = {}
      BY <2>2, <3>2 DEF EndInv, Creating
    <3>4. \A d \in Callers : ~Creating(d)'
      BY <3>2 DEF Creating, CreatePcs
    <3> QED BY <1>a, <2>2, <3>1, <3>2, <3>3, <3>4 DEF EndInv
  <2> QED BY <2>3, <2>4
<1>11. ASSUME NEW c \in Callers, ShutdownDone(c) PROVE EndInv'
  <2>1. shutdown /\ totalThreads = 0 /\ call[c].pc = "join" /\ phase' = "destroyed" /\ Becomes(c, Idle)
        /\ UNCHANGED <<queue, persistentJob, wpc>>
    BY <1>11 DEF ShutdownDone, LifeInv
  <2>2. ~HasWork' /\ \A d \in Callers : ~Creating(d) /\ call'[d].pc \in {call[d].pc, "idle"}
    BY <1>a, <2>1 DEF EndInv, Becomes, Idle, At, HasWork, QueuedJobs
  <2>3. Starting = {}
    BY <2>2 DEF EndInv, Creating
  <2>4. IsFiniteSet(AwakeThreads) /\ Cardinality(AwakeThreads) = 0
    BY <2>1, FiniteThreads DEF ThreadsCounted, AwakeThreads
  <2>5. AwakeThreads = {}
    BY <2>4, FS_EmptySet
  <2>6. \A w \in Workers : wpc[w] = "none"
    BY <1>a, <2>3, <2>5 DEF AwakeThreads, Awake, Starting, WorkerPcs
  <2>7. Existing' = {} /\ Starting' = {}
    BY <2>1, <2>6 DEF Existing, Starting
  <2>8. \A d \in Callers : ~Creating(d)'
    BY <2>2 DEF Creating, CreatePcs
  <2>9. \A v \in Workers : call'[v].pc = "idle"
    BY <1>a, <2>2 DEF EndInv
  <2> QED BY <2>2, <2>7, <2>8, <2>9 DEF EndInv
<1>12. ASSUME UNCHANGED <<phase, wpc, call, totalThreads>>, HasWork' => HasWork \/ ~shutdown PROVE EndInv'
  BY <1>12 DEF EndInv, Starting, Existing, Creating, shutdown
<1>13. ASSUME NEW c \in Callers, WaitAgain(c) PROVE EndInv'
  BY <1>12, <1>13 DEF WaitAgain, counters, HasWork, QueuedJobs
<1>14. CASE Tick \/ UNCHANGED vars
  BY <1>12, <1>14 DEF Tick, vars, counters, HasWork, QueuedJobs
<1>15. ASSUME NEW c \in Clients, NEW id, ThreadPoolRemove(c, id) PROVE EndInv'
  BY <1>a, <1>b, <1>12, <1>15 DEF ThreadPoolRemove, counters
<1>16. ASSUME NEW c \in Clients, ThreadPoolInit(c) PROVE EndInv'
  <2>1. FillToMin(c, "init", 0, attr) /\ ~shutdown /\ call[c].pc = "idle" /\ UNCHANGED totalThreads
    BY <1>a, <1>16 DEF ThreadPoolInit, LifeInv, shutdown, counters
  <2> QED BY <1>2, <2>1 DEF CreatePcs
<1>17. ASSUME NEW c \in Clients, NEW a \in Attrs, ThreadPoolSetAttr(c, a) PROVE EndInv'
  <2>1. FillToMin(c, "setattr", totalThreads, a) /\ ~shutdown /\ call[c].pc = "idle" /\ UNCHANGED totalThreads
    BY <1>a, <1>b, <1>17 DEF ThreadPoolSetAttr, counters
  <2> QED BY <1>2, <2>1 DEF CreatePcs
<1> QED BY <1>1, <1>3, <1>5, <1>6, <1>8, <1>9, <1>10, <1>11, <1>13, <1>14, <1>15, <1>16, <1>17, ShutdownEnd
        DEF Next, CallerStep

\* When the mutex and the condition variables are destroyed no thread is left to use them,
\* new ones included, and no job is stranded, if the jobs add none to their own pool and
\* one caller at a time creates threads.  Both hypotheses are needed: a job may add to a
\* pool that is shut down, and of two creators one may leave before its thread has run.
THEOREM NothingLeft == ~JobsMayAdd => (Spec /\ []OneCreator => []NothingOutlivesPool)
<1> SUFFICES ASSUME ~JobsMayAdd PROVE Spec /\ []OneCreator => []NothingOutlivesPool
  OBVIOUS
<1>1. TypeOK /\ ThreadsCounted /\ LifeInv /\ EndInv /\ OneCreator /\ OneCreator' /\ [Next]_vars => EndInv'
  BY StepEnd
<1>2. EndInv => NothingOutlivesPool
  BY DEF EndInv, NothingOutlivesPool, shutdown
<1> QED BY <1>1, <1>2, InitEnd, TypeCorrect, CountersCorrect, LifeInvariant, PTL DEF Spec
-----------------------------------------------------------------------------
(* The pool implements what its header promises. *)

\* The maximum is that of ThreadPoolInit, or a smaller one set later.
MaxIsKept ==
  /\ InitAttr.maxThreads # INFINITE_THREADS
  /\ \A a \in Attrs : a.maxThreads # INFINITE_THREADS /\ a.maxThreads <= InitAttr.maxThreads

WithinMax(a) == a.maxThreads \in Nat /\ a.maxThreads <= InitAttr.maxThreads

\* There are never more threads than the maximum, those that have not begun to run included.
BoundOK == WithinMax(attr) /\ Cardinality(Existing) <= InitAttr.maxThreads

\* Before the pool runs no job has been given to it.
NewWhileEarly == Early => \A j \in Jobs : fate[j] = "new"

LEMMA MaxFacts ==
  ASSUME MaxIsKept
  PROVE  InitAttr.maxThreads \in Nat /\ WithinMax(InitAttr) /\ \A a \in Attrs : WithinMax(a)
BY PoolAssumption DEF MaxIsKept, WithinMax, Attr

LEMMA ExistingFacts ==
  ASSUME StateOK
  PROVE  /\ IsFiniteSet(Existing) /\ Cardinality(Existing) \in Nat
         /\ Existing = AwakeThreads \cup Starting
<1>1. IsFiniteSet(Existing)
  BY PoolAssumption, FS_Subset DEF Existing
<1>2. Cardinality(Existing) \in Nat
  BY <1>1, FS_CardinalityType
<1>3. Existing = AwakeThreads \cup Starting
  BY DEF Existing, AwakeThreads, Awake, Starting, StateOK, WorkerPcs
<1> QED BY <1>1, <1>2, <1>3

LEMMA InitBound == MaxIsKept /\ Init => BoundOK /\ NewWhileEarly
<1> SUFFICES ASSUME MaxIsKept, Init PROVE BoundOK /\ NewWhileEarly
  OBVIOUS
<1>1. Existing = {} /\ attr = InitAttr /\ \A j \in Jobs : fate[j] = "new"
  BY DEF Init, Existing
<1>2. Cardinality(Existing) = 0
  BY <1>1, FS_EmptySet
<1> QED BY <1>1, <1>2, MaxFacts DEF BoundOK, NewWhileEarly, WithinMax

\* No thread is created.
LEMMA NoMoreThreads ==
  ASSUME StateOK, BoundOK, WithinMax(attr'), \A w \in Workers : wpc'[w] # "none" => wpc[w] # "none"
  PROVE  BoundOK'
<1>1. Existing' \in SUBSET Existing
  BY DEF Existing
<1>2. IsFiniteSet(Existing') /\ Cardinality(Existing') <= Cardinality(Existing)
  BY <1>1, ExistingFacts, FS_Subset
<1>3. Cardinality(Existing') \in Nat /\ Cardinality(Existing) \in Nat
  BY <1>2, ExistingFacts, FS_CardinalityType
<1>4. InitAttr.maxThreads \in Int
  BY PoolAssumption DEF Attr, INFINITE_THREADS
<1> QED BY <1>2, <1>3, <1>4 DEF BoundOK, WithinMax

\* A thread is created when those that run are all there are, and fewer than the maximum.
LEMMA OneMoreThread ==
  ASSUME TypeOK, ThreadsCounted, BoundOK, WithinMax(attr'), Starting = {},
         NEW a, WithinMax(a), CanCreate(a), NEW c, NEW pc, NEW j, NEW jobs, NEW threads,
         CreateWorker(c, pc, j, jobs, threads)
  PROVE  BoundOK'
<1>1. PICK w \in Workers : wpc[w] = "none" /\ wpc' = [wpc EXCEPT ![w] = "starting"]
  BY DEF CreateWorker
<1>2. Existing' = Existing \cup {w}
  BY <1>1 DEF Existing, TypeOK, StateOK
<1>3. IsFiniteSet(Existing) /\ Cardinality(Existing) \in Nat /\ Existing = AwakeThreads
  BY ExistingFacts DEF TypeOK
<1>4. Cardinality(Existing) = totalThreads
  BY <1>3 DEF ThreadsCounted, AwakeThreads
<1>5. Cardinality(Existing') <= Cardinality(Existing) + 1 /\ Cardinality(Existing') \in Nat
  <2>1. /\ IsFiniteSet(Existing \cup {w})
        /\ Cardinality(Existing \cup {w}) = IF w \in Existing THEN Cardinality(Existing) ELSE Cardinality(Existing) + 1
    BY <1>3, FS_AddElement
  <2> QED BY <1>2, <1>3, <2>1
<1>6. totalThreads + 1 <= a.maxThreads
  BY DEF CanCreate, WithinMax, INFINITE_THREADS
<1>7. InitAttr.maxThreads \in Int
  BY PoolAssumption DEF Attr, INFINITE_THREADS
<1> QED BY <1>3, <1>4, <1>5, <1>6, <1>7 DEF BoundOK, WithinMax
LEMMA StepBound ==
  ASSUME ~JobsMayAdd, MaxIsKept, TypeOK, ThreadsCounted, LifeInv, EndInv, OneCreator, OneCreator', BoundOK, [Next]_vars
  PROVE  BoundOK'
<1>a. /\ StateOK /\ wpc \in [Workers -> WorkerPcs] /\ WithinMax(attr) /\ \A a \in Attrs : WithinMax(a)
      /\ Clients \subseteq Callers
  BY MaxFacts DEF TypeOK, StateOK, BoundOK, Callers
<1>b. ASSUME NEW c \in Callers, MayCall(c) PROVE c \in Clients /\ call[c].pc \notin CreatePcs
  BY <1>b DEF MayCall, CreatePcs
<1>c. ASSUME Signal \/ UNCHANGED wpc, UNCHANGED attr PROVE BoundOK'
  BY <1>a, <1>c, NoMoreThreads DEF Signal
<1>1. ASSUME NEW w \in Workers, WorkerStep(w) PROVE BoundOK'
  <2>1. UNCHANGED attr
    BY <1>1 DEF WorkerStep, WorkerStart, WorkerReturn, WorkerWake, WorkerTimeout
  <2>2. wpc[w] # "none" /\ \A v \in Workers : v # w => wpc'[v] = wpc[v]
    <3>1. wpc[w] # "none" /\ \E x : wpc' = [wpc EXCEPT ![w] = x]
      BY <1>1 DEF WorkerStep, WorkerStart, WorkerReturn, WorkerWake, WorkerTimeout, LookForWork, Exit, Take
    <3> QED BY <1>a, <3>1
  <2>3. \A v \in Workers : wpc'[v] # "none" => wpc[v] # "none"
    BY <2>2
  <2> QED BY <1>a, <2>1, <2>3, NoMoreThreads
<1>2. ASSUME NEW c \in Clients, NEW pc \in {"init", "setattr"}, NEW i, NEW a, WithinMax(a), FillToMin(c, pc, i, a),
             call[c].pc \notin CreatePcs \/ Starting = {}, attr' = a
      PROVE  BoundOK'
  <2>1. CASE CanCreate(a) /\ CreateWorker(c, pc, NULL, 0, i)
    <3>1. Starting = {}
      BY <1>2, <2>1, FirstAlone DEF CreatePcs
    <3> QED BY <1>2, <2>1, <3>1, OneMoreThread
  <2>2. CASE Signal \/ UNCHANGED wpc
    BY <1>a, <1>2, <2>2, NoMoreThreads DEF Signal
  <2> QED BY <1>2, <2>1, <2>2 DEF FillToMin
<1>3. ASSUME NEW c \in Callers, FillResume(c) PROVE BoundOK'
  <2>1. PICK pc \in {"init", "setattr"} : Created(c, pc) /\ FillToMin(c, pc, call[c].threads + 1, attr)
    BY <1>3 DEF FillResume
  <2>2. c \in Clients /\ Starting = {} /\ attr' = attr
    BY <1>3, <2>1, CreatorAlone DEF CreatePcs, FillResume
  <2> QED BY <1>a, <1>2, <2>1, <2>2
<1>4. ASSUME NEW c \in Clients, NEW j, NEW jobs, NEW threads, AddWorker(c, j, jobs, threads),
             call[c].pc \notin CreatePcs \/ Starting = {}, UNCHANGED attr
      PROVE  BoundOK'
  <2>1. CASE CanCreate(attr) /\ CreateWorker(c, "add", j, jobs, threads)
    <3>1. Starting = {}
      BY <1>4, <2>1, FirstAlone DEF CreatePcs
    <3> QED BY <1>a, <1>4, <2>1, <3>1, OneMoreThread
  <2>2. CASE AddDone(c, j)
    BY <1>4, <1>c, <2>2 DEF AddDone
  <2> QED BY <1>4, <2>1, <2>2 DEF AddWorker
<1>5. ASSUME NEW c \in Callers, AddResume(c) PROVE BoundOK'
  <2>1. Created(c, "add") /\ AddWorker(c, call[c].job, call[c].jobs, call[c].threads + 1) /\ UNCHANGED attr
    BY <1>5 DEF AddResume
  <2>2. c \in Clients /\ Starting = {}
    BY <2>1, CreatorAlone DEF CreatePcs
  <2> QED BY <1>4, <2>1, <2>2
<1>6. ASSUME NEW c \in Callers, NEW j \in Jobs, NEW p \in Priorities, ThreadPoolAdd(c, j, p) PROVE BoundOK'
  BY <1>4, <1>6, <1>b DEF ThreadPoolAdd
<1>7. ASSUME NEW c \in Callers, AddPersistentResume(c) PROVE BoundOK'
  BY <1>c, <1>7 DEF AddPersistentResume, SchedulePersistent
<1>8. ASSUME NEW c \in Clients, NEW j \in Jobs, ThreadPoolAddPersistent(c, j) PROVE BoundOK'
  <2>1. call[c].pc \notin CreatePcs /\ UNCHANGED attr
    BY <1>a, <1>b, <1>8 DEF ThreadPoolAddPersistent
  <2>2. CASE CanCreate(attr) /\ CreateWorker(c, "addPersistent", j, 0, 0)
    <3>1. Starting = {}
      BY <2>1, <2>2, FirstAlone DEF CreatePcs
    <3> QED BY <1>a, <2>1, <2>2, <3>1, OneMoreThread
  <2>3. CASE SchedulePersistent(c, j)
    BY <1>c, <2>1, <2>3 DEF SchedulePersistent
  <2> QED BY <1>8, <2>2, <2>3 DEF ThreadPoolAddPersistent
<1>9. ASSUME NEW c \in Callers, AddPersistentDone(c) \/ ShutdownDone(c) \/ WaitAgain(c) PROVE BoundOK'
  BY <1>c, <1>9 DEF AddPersistentDone, ShutdownDone, WaitAgain
<1>10. ASSUME NEW c \in Callers, ThreadPoolShutdown(c) PROVE BoundOK'
  <2>1. attr' = attr /\ \A w \in Workers : wpc'[w] # "none" => wpc[w] # "none"
    BY <1>10 DEF ThreadPoolShutdown
  <2> QED BY <1>a, <2>1, NoMoreThreads
<1>11. ASSUME NEW c \in Clients, ThreadPoolInit(c) PROVE BoundOK'
  <2>1. FillToMin(c, "init", 0, attr) /\ attr' = attr /\ call[c].pc = "idle"
    BY <1>a, <1>11 DEF ThreadPoolInit, LifeInv
  <2> QED BY <1>a, <1>2, <2>1 DEF CreatePcs
<1>12. ASSUME NEW c \in Clients, NEW a \in Attrs, ThreadPoolSetAttr(c, a) PROVE BoundOK'
  <2>1. FillToMin(c, "setattr", totalThreads, a) /\ attr' = a /\ call[c].pc \notin CreatePcs
    BY <1>a, <1>b, <1>12 DEF ThreadPoolSetAttr
  <2> QED BY <1>a, <1>2, <2>1
<1>13. ASSUME NEW c \in Clients, NEW id, ThreadPoolRemove(c, id) PROVE BoundOK'
  BY <1>c, <1>13 DEF ThreadPoolRemove
<1>14. CASE Tick \/ UNCHANGED vars
  BY <1>c, <1>14 DEF Tick, vars
<1> QED BY <1>1, <1>3, <1>5, <1>6, <1>7, <1>8, <1>9, <1>10, <1>11, <1>12, <1>13, <1>14 DEF Next, CallerStep
\* Nothing but a call changes what became of a job before the pool runs.
LEMMA StepNewEarly ==
  ASSUME ~JobsMayAdd, TypeOK, LifeInv, EndInv, NewWhileEarly, [Next]_vars
  PROVE  NewWhileEarly'
<1>a. StateOK /\ fate \in [Jobs -> {"new", "live", "done", "removed", "discarded"}] /\ NULL \notin Jobs
  BY PoolAssumption DEF TypeOK, StateOK
<1>1. SUFFICES ASSUME Early' PROVE \A j \in Jobs : fate'[j] = "new"
  BY DEF NewWhileEarly
<1>b. ASSUME Early, fate' = fate PROVE \A j \in Jobs : fate'[j] = "new"
  BY <1>b DEF NewWhileEarly
<1>2. ASSUME NEW w \in Workers, WorkerStep(w) PROVE \A j \in Jobs : fate'[j] = "new"
  <2>1. Early /\ wjob[w] = NULL
    BY <1>1, <1>2 DEF WorkerStep, WorkerStart, WorkerReturn, WorkerWake, WorkerTimeout, Early, LifeInv
  <2>2. \A j \in Jobs : fate'[j] = fate[j]
    BY <1>a, <1>2, <2>1 DEF WorkerStep, WorkerStart, WorkerReturn, WorkerWake, WorkerTimeout
  <2> QED BY <2>1, <2>2 DEF NewWhileEarly
<1>3. ASSUME NEW c \in Callers, FillResume(c) PROVE \A j \in Jobs : fate'[j] = "new"
  BY <1>1, <1>3, <1>b DEF FillResume, FillToMin, Early, Created, LifeInv
<1>4. ASSUME NEW c \in Callers, AddResume(c) \/ AddPersistentDone(c) \/ WaitAgain(c) PROVE \A j \in Jobs : fate'[j] = "new"
  BY <1>1, <1>4, <1>b DEF AddResume, AddPersistentDone, WaitAgain, Early
<1>5. ASSUME NEW c \in Callers, AddPersistentResume(c) PROVE FALSE
  <2>1. Early /\ call[c].pc = "addPersistent"
    BY <1>1, <1>5 DEF AddPersistentResume, Early, Created
  <2> QED BY <2>1 DEF LifeInv
<1>6. ASSUME NEW c \in Callers, ShutdownDone(c) \/ ThreadPoolShutdown(c) PROVE FALSE
  BY <1>1, <1>6 DEF ShutdownDone, ThreadPoolShutdown, Early
<1>7. ASSUME NEW c \in Callers, MayCall(c), phase' = phase PROVE FALSE
  BY <1>1, <1>7, CallsAreLate DEF Early
<1>8. ASSUME NEW c \in Callers, NEW j \in Jobs, NEW p \in Priorities, ThreadPoolAdd(c, j, p) PROVE FALSE
  BY <1>7, <1>8 DEF ThreadPoolAdd
<1>9. ASSUME NEW c \in Clients, NEW j \in Jobs, ThreadPoolAddPersistent(c, j) PROVE FALSE
  BY <1>7, <1>9 DEF ThreadPoolAddPersistent, Callers
<1>10. ASSUME NEW c \in Clients, NEW id, ThreadPoolRemove(c, id) PROVE FALSE
  BY <1>7, <1>10 DEF ThreadPoolRemove, Callers
<1>11. ASSUME NEW c \in Clients, NEW a \in Attrs, ThreadPoolSetAttr(c, a) PROVE FALSE
  BY <1>7, <1>11 DEF ThreadPoolSetAttr, FillToMin, Callers
<1>12. ASSUME NEW c \in Clients, ThreadPoolInit(c) PROVE \A j \in Jobs : fate'[j] = "new"
  BY <1>b, <1>12 DEF ThreadPoolInit, Early
<1>13. CASE Tick \/ UNCHANGED vars
  BY <1>1, <1>13, <1>b DEF Tick, vars, Early
<1> QED BY <1>2, <1>3, <1>4, <1>5, <1>6, <1>8, <1>9, <1>10, <1>11, <1>12, <1>13 DEF Next, CallerStep

-----------------------------------------------------------------------------
(* One step of the pool is one step of what it promises, or none. *)

Runs(j) == \E w \in Workers : wjob[w] = j
Up == phase = "running"

LEMMA StatusIs ==
  /\ Status = [j \in Jobs |-> IF fate[j] # "live" THEN fate[j] ELSE IF Runs(j) THEN "running" ELSE "queued"]
  /\ Status' = [j \in Jobs |-> IF fate'[j] # "live" THEN fate'[j] ELSE IF Runs(j)' THEN "running" ELSE "queued"]
BY DEF Status, Runs

\* Nothing that the users of the pool see.
LEMMA UnseenStep ==
  ASSUME UNCHANGED <<fate, wjob>>, Up' <=> Up
  PROVE  UNCHANGED AbstractPool!jobVars
<1>1. Status' = Status
  BY DEF Status
<1>2. (phase' = "running") = (phase = "running")
  BY DEF Up
<1> QED BY <1>1, <1>2 DEF AbstractPool!jobVars

LEMMA OpenStep ==
  ASSUME UNCHANGED <<fate, wjob>>, ~Up, Up', \A j \in Jobs : fate[j] = "new"
  PROVE  AbstractPool!Next
<1>1. Status' = Status
  BY DEF Status
<1>2. AbstractPool!In("new") = Jobs
  BY DEF AbstractPool!In, Status
<1>3. AbstractPool!Open
  BY <1>1, <1>2 DEF AbstractPool!Open, Up
<1> QED BY <1>3 DEF AbstractPool!Next

LEMMA AcceptStep ==
  ASSUME StateOK, ThreadPlacesOK, NEW j \in Jobs, fate[j] = "new", fate' = [fate EXCEPT ![j] = "live"],
         UNCHANGED wjob, Up, Up'
  PROVE  AbstractPool!Next
<1>1. ~Runs(j) /\ \A x : Runs(x)' <=> Runs(x)
  BY PoolAssumption DEF ThreadPlacesOK, Runs
<1>2. Status[j] = "new" /\ Status' = [Status EXCEPT ![j] = "queued"]
  BY <1>1, StatusIs DEF StateOK
<1>3. AbstractPool!Accept(j)
  BY <1>2 DEF AbstractPool!Accept, Up
<1> QED BY <1>3 DEF AbstractPool!Next

LEMMA RemoveStep ==
  ASSUME StateOK, PlacesInv, NEW j \in Jobs, InLine(Line, j) \/ persistentJob = j,
         fate' = [fate EXCEPT ![j] = "removed"], UNCHANGED wjob, Up, Up'
  PROVE  AbstractPool!Next
<1>1. fate[j] = "live" /\ ~Runs(j) /\ \A x : Runs(x)' <=> Runs(x)
  BY PoolAssumption DEF PlacesInv, LinePlacesOK, SlotOK, ThreadPlacesOK, Runs
<1>2. Status[j] = "queued" /\ Status' = [Status EXCEPT ![j] = "removed"]
  BY <1>1, StatusIs DEF StateOK
<1>3. AbstractPool!Remove(j)
  BY <1>2 DEF AbstractPool!Remove, Up
<1> QED BY <1>3 DEF AbstractPool!Next

LEMMA CloseStep ==
  ASSUME StateOK, PlacesInv, AllPlaced, UNCHANGED wjob, Up, ~Up',
         fate' = [j \in Jobs |-> IF Queued(j) \/ j = persistentJob THEN "discarded" ELSE fate[j]]
  PROVE  AbstractPool!Next
<1>1. \A j \in Jobs : Queued(j) <=> InLine(Line, j)
  BY LineOrder DEF Queued, Line, StateOK
<1>2. \A j \in Jobs : (Queued(j) \/ j = persistentJob) <=> Status[j] = "queued"
  <2>1. ASSUME NEW j \in Jobs, Queued(j) \/ j = persistentJob PROVE fate[j] = "live" /\ ~Runs(j)
    BY <1>1, <2>1, PoolAssumption DEF PlacesInv, LinePlacesOK, SlotOK, ThreadPlacesOK, Runs
  <2>2. ASSUME NEW j \in Jobs, fate[j] = "live", ~Runs(j) PROVE Queued(j) \/ j = persistentJob
    BY <1>1, <2>2 DEF AllPlaced, Placed, Runs
  <2>3. \A j \in Jobs : Status[j] = "queued" <=> fate[j] = "live" /\ ~Runs(j)
    BY StatusIs DEF StateOK
  <2> QED BY <2>1, <2>2, <2>3
<1>3. Status' = [j \in Jobs |-> IF Status[j] = "queued" THEN "discarded" ELSE Status[j]]
  <2>1. \A x : Runs(x)' <=> Runs(x)
    BY DEF Runs
  <2> QED BY <1>2, <2>1, StatusIs
<1>4. AbstractPool!Close
  BY <1>3 DEF AbstractPool!Close, Up
<1> QED BY <1>4 DEF AbstractPool!Next
\* No more jobs run than there are threads.
LEMMA RunningBound ==
  ASSUME StateOK, ThreadPlacesOK, BoundOK
  PROVE  Cardinality({j \in Jobs : Status[j] = "running"}) <= InitAttr.maxThreads
<1> DEFINE R == {j \in Jobs : Status[j] = "running"}
           f == [j \in R |-> CHOOSE w \in Workers : wjob[w] = j]
<1>1. \A j \in R : f[j] \in Workers /\ wjob[f[j]] = j
  <2>1. \A j \in R : Runs(j)
    BY StatusIs DEF StateOK
  <2> QED BY <2>1 DEF Runs
<1>2. \A j \in R : f[j] \in Existing
  BY <1>1, PoolAssumption DEF ThreadPlacesOK, Existing
<1>3. f \in Injection(R, Existing)
  <2>1. f \in [R -> Existing]
    BY <1>2
  <2>2. \A i, j \in R : f[i] = f[j] => i = j
    BY <1>1
  <2> HIDE DEF f
  <2> QED BY <2>1, <2>2 DEF Injection, IsInjective
<1>4. IsFiniteSet(Existing) /\ Cardinality(Existing) \in Nat
  BY ExistingFacts
<1> HIDE DEF f, R
<1>5. IsFiniteSet(R) /\ Cardinality(R) <= Cardinality(Existing)
  BY <1>3, <1>4, FS_Injection
<1>6. Cardinality(R) \in Nat
  BY <1>5, FS_CardinalityType
<1>7. InitAttr.maxThreads \in Int
  BY PoolAssumption DEF Attr, INFINITE_THREADS
<1>8. Cardinality(R) <= InitAttr.maxThreads
  BY <1>4, <1>5, <1>6, <1>7 DEF BoundOK
<1> QED BY <1>8 DEF R

\* JobPool counts as ThreadPool does.
LEMMA SameCardinality == \A S : AbstractPool!Cardinality(S) = Cardinality(S)
BY DEF AbstractPool!Cardinality, Cardinality

LEMMA RunningBoundNext ==
  (StateOK /\ ThreadPlacesOK /\ BoundOK => Cardinality({j \in Jobs : Status[j] = "running"}) <= InitAttr.maxThreads)'
BY RunningBound, PTL

\* A thread ends its job, starts another one, or both.
LEMMA WorkStep ==
  ASSUME StateOK, StateOK', PlacesInv, PlacesInv', BoundOK', NEW w \in Workers, NEW x,
         x = NULL \/ (x \in Jobs /\ (InLine(Line, x) \/ persistentJob = x)),
         wjob' = [wjob EXCEPT ![w] = x], Up' <=> Up,
         fate' = [j \in Jobs |-> IF j = wjob[w] THEN "done" ELSE fate[j]]
  PROVE  [AbstractPool!Next]_(AbstractPool!jobVars)
<1>a. /\ wjob \in [Workers -> Jobs \cup {NULL}] /\ NULL \notin Jobs
      /\ fate \in [Jobs -> {"new", "live", "done", "removed", "discarded"}]
  BY PoolAssumption DEF StateOK
<1> DEFINE ended == {wjob[w]} \cap Jobs
           started == {x} \cap Jobs
<1>1. CASE ended \cup started = {}
  <2>1. wjob[w] = NULL /\ x = NULL
    BY <1>a, <1>1
  <2>2. wjob' = wjob /\ fate' = fate
    BY <1>a, <2>1
  <2> QED BY <2>2, UnseenStep
<1>2. CASE ended \cup started # {}
  <2>1. ended \subseteq AbstractPool!In("running")
    <3>1. ASSUME wjob[w] \in Jobs PROVE fate[wjob[w]] = "live" /\ Runs(wjob[w])
      BY <1>a, <3>1 DEF PlacesInv, ThreadPlacesOK, Runs
    <3> QED BY <3>1, StatusIs DEF AbstractPool!In
  <2>2. x \in Jobs => fate[x] = "live" /\ ~Runs(x)
    BY <1>a DEF PlacesInv, LinePlacesOK, SlotOK, ThreadPlacesOK, Runs
  <2>3. started \subseteq AbstractPool!In("queued")
    BY <2>2, StatusIs DEF AbstractPool!In
  <2>4. Cardinality(ended) <= 1 /\ Cardinality(started) <= 1
    <3>1. \A y : Cardinality({y} \cap Jobs) <= 1
      <4>1. SUFFICES ASSUME NEW y PROVE Cardinality({y} \cap Jobs) <= 1
        OBVIOUS
      <4>2. CASE y \in Jobs
        <5>1. {y} \cap Jobs = {y} /\ Cardinality({y}) = 1
          BY <4>2, FS_Singleton
        <5> QED BY <5>1
      <4>3. CASE y \notin Jobs
        <5>1. {y} \cap Jobs = {}
          BY <4>3
        <5> QED BY <5>1, FS_EmptySet
      <4> QED BY <4>2, <4>3
    <3> QED BY <3>1
  <2>5. Status' = [j \in Jobs |-> IF j \in ended THEN "done"
                                  ELSE IF j \in started THEN "running" ELSE Status[j]]
    <3>1. ASSUME NEW j \in Jobs
          PROVE  (IF fate'[j] # "live" THEN fate'[j] ELSE IF Runs(j)' THEN "running" ELSE "queued")
                   = (IF j \in ended THEN "done" ELSE IF j \in started THEN "running" ELSE Status[j])
      <4>1. CASE j = wjob[w]
        BY <4>1
      <4>2. CASE j # wjob[w] /\ j = x
        <5>1. fate'[j] = "live" /\ wjob'[w] = j
          BY <1>a, <2>2, <4>2
        <5>2. Runs(j)'
          BY <5>1 DEF Runs
        <5> QED BY <4>2, <5>1, <5>2
      <4>3. CASE j # wjob[w] /\ j # x
        <5>1. fate'[j] = fate[j] /\ (Runs(j)' <=> Runs(j))
          BY <1>a, <4>3 DEF Runs
        <5> QED BY <4>3, <5>1, StatusIs
      <4> QED BY <4>1, <4>2, <4>3
    <3> HIDE DEF ended, started
    <3> QED BY <3>1, StatusIs
  <2>6. Cardinality({j \in Jobs : Status'[j] = "running"}) <= InitAttr.maxThreads
    <3>1. (StateOK /\ ThreadPlacesOK /\ BoundOK)'
      BY DEF PlacesInv
    <3> QED BY <3>1, RunningBoundNext
  <2>7. (phase' = "running") = (phase = "running")
    BY DEF Up
  <2>8. ended \in SUBSET Jobs /\ started \in SUBSET Jobs
    OBVIOUS
  <2> HIDE DEF ended, started
  <2>9. AbstractPool!Work(ended, started)
    BY <1>2, <2>1, <2>3, <2>4, <2>5, <2>6, <2>7, SameCardinality DEF AbstractPool!Work
  <2>10. AbstractPool!Next
    BY <2>8, <2>9 DEF AbstractPool!Next
  <2> QED BY <2>10
<1> QED BY <1>1, <1>2
LEMMA ThreadWorks ==
  ASSUME StateOK, StateOK', PlacesInv, PlacesInv', BoundOK', NEW w \in Workers,
         NEW timedOut, NEW idle, NEW pt, NEW wt, LookForWork(w, timedOut, idle, pt, wt), UNCHANGED phase,
         fate' = [j \in Jobs |-> IF j = wjob[w] THEN "done" ELSE fate[j]]
  PROVE  [AbstractPool!Next]_(AbstractPool!jobVars)
<1>1. /\ queue \in [Priorities -> Seq(Jobs)] /\ persistentJob \in Jobs \cup {NULL} /\ (Up' <=> Up)
  BY DEF StateOK, Up
<1>2. CASE wjob' = [wjob EXCEPT ![w] = NULL]
  BY <1>1, <1>2, WorkStep
<1>3. CASE persistentJob # NULL /\ Take(w, persistentJob, 1)
  <2>1. wjob' = [wjob EXCEPT ![w] = persistentJob] /\ persistentJob \in Jobs
    BY <1>1, <1>3 DEF Take
  <2> QED BY <1>1, <2>1, WorkStep
<1>4. CASE /\ QueuedJobs > 0 /\ queue' = [Bumped EXCEPT ![Highest(Bumped)] = Tail(@)]
           /\ Take(w, Head(Bumped[Highest(Bumped)]), 0)
  <2> DEFINE x == Head(Bumped[Highest(Bumped)])
  <2>1. x \in Jobs /\ Inserted(Line', Line, x)
    BY <1>1, <1>4, ServeLine DEF Line
  <2>2. wjob' = [wjob EXCEPT ![w] = x]
    BY <1>4 DEF Take
  <2> HIDE DEF x
  <2>3. InLine(Line, x)
    BY <2>1, InsertedOrder
  <2> QED BY <1>1, <2>1, <2>2, <2>3, WorkStep
<1> QED BY <1>2, <1>3, <1>4 DEF LookForWork, Exit

LEMMA StepPool ==
  ASSUME ~JobsMayAdd, TypeOK, TypeOK', LifeInv, EndInv, PlacesInv, PlacesInv', AllPlaced, NewWhileEarly, BoundOK',
         [Next]_vars
  PROVE  [AbstractPool!Next]_(AbstractPool!jobVars)
<1>a. /\ StateOK /\ StateOK' /\ NULL \notin Jobs /\ Clients \subseteq Callers
      /\ fate \in [Jobs -> {"new", "live", "done", "removed", "discarded"}]
      /\ queue \in [Priorities -> Seq(Jobs)] /\ persistentJob \in Jobs \cup {NULL} /\ ThreadPlacesOK
  BY PoolAssumption DEF TypeOK, StateOK, Callers, PlacesInv
<1> DEFINE Kept == [AbstractPool!Next]_(AbstractPool!jobVars)
<1>b. ASSUME UNCHANGED <<fate, wjob>>, Up' <=> Up PROVE Kept
  BY <1>b, UnseenStep
<1>c. ASSUME NEW c \in Callers, MayCall(c) PROVE c \in Clients /\ Up
  BY <1>c DEF MayCall, Up
<1>1. ASSUME NEW w \in Workers, WorkerStep(w) PROVE Kept
  <2>1. CASE WorkerStart(w) \/ WorkerTimeout(w)
    BY <1>b, <2>1 DEF WorkerStart, WorkerTimeout, locals, Up
  <2>2. CASE WorkerReturn(w)
    BY <1>a, <2>2, ThreadWorks DEF WorkerReturn
  <2>3. CASE WorkerWake(w)
    <3>1. LookForWork(w, wpc[w] = "timedout", idleThreads, persistentThreads, workerThreads) /\ UNCHANGED phase
      BY <2>3 DEF WorkerWake
    <3>2. wjob[w] = NULL
      BY <1>a, <2>3 DEF WorkerWake, ThreadPlacesOK
    <3>3. fate' = [j \in Jobs |-> IF j = wjob[w] THEN "done" ELSE fate[j]]
      BY <1>a, <2>3, <3>2 DEF WorkerWake
    <3> QED BY <1>a, <3>1, <3>3, ThreadWorks
  <2> QED BY <1>1, <2>1, <2>2, <2>3 DEF WorkerStep
<1>2. ASSUME NEW c, NEW pc \in {"init", "setattr"}, NEW i, NEW a, FillToMin(c, pc, i, a), UNCHANGED <<fate, wjob>>,
             pc = "init" => Early
      PROVE  Kept
  <2>1. CASE Up' <=> Up
    BY <1>2, <1>b, <2>1
  <2>2. CASE ~(Up' <=> Up)
    <3>1. Early /\ ~Up /\ Up'
      BY <1>2, <2>2 DEF FillToMin, Up, Early
    <3> QED BY <1>2, <3>1, OpenStep DEF NewWhileEarly
  <2> QED BY <2>1, <2>2
<1>3. ASSUME NEW c \in Callers, FillResume(c) PROVE Kept
  <2>1. PICK pc \in {"init", "setattr"} : Created(c, pc) /\ FillToMin(c, pc, call[c].threads + 1, attr)
    BY <1>3 DEF FillResume
  <2>2. UNCHANGED <<fate, wjob>> /\ (pc = "init" => Early)
    BY <1>3, <2>1 DEF FillResume, Created, LifeInv, Early, locals
  <2> QED BY <1>2, <2>1, <2>2
<1>4. ASSUME NEW c \in Callers, AddResume(c) \/ AddPersistentDone(c) \/ WaitAgain(c) PROVE Kept
  BY <1>b, <1>4 DEF AddResume, AddPersistentDone, WaitAgain, locals, Up
<1>5. ASSUME NEW c \in Callers, ShutdownDone(c) PROVE Kept
  BY <1>b, <1>5 DEF ShutdownDone, LifeInv, locals, Up, shutdown
<1>6. ASSUME NEW j \in Jobs, fate[j] = "new", fate' = [fate EXCEPT ![j] = "live"], UNCHANGED <<phase, wjob>>, Up
      PROVE  Kept
  BY <1>a, <1>6, AcceptStep DEF Up
<1>7. ASSUME NEW c \in Callers, NEW j \in Jobs, NEW p \in Priorities, ThreadPoolAdd(c, j, p) PROVE Kept
  BY <1>6, <1>7, <1>c DEF ThreadPoolAdd, Fresh, locals
<1>8. ASSUME NEW c \in Callers, AddPersistentResume(c) PROVE Kept
  <2>1. /\ call[c].pc = "addPersistent" /\ fate' = [fate EXCEPT ![call[c].job] = "live"]
        /\ UNCHANGED <<phase, wjob>>
    BY <1>8 DEF AddPersistentResume, SchedulePersistent, Created, locals
  <2>2. call[c].job \in Jobs /\ fate[call[c].job] = "new"
    BY <2>1 DEF PlacesInv, PromisedOK
  <2>3. Up
    <3>1. Creating(c) /\ call[c].pc \notin {"idle", "init", "failed"}
      BY <2>1 DEF Creating, CreatePcs
    <3>2. ~Early /\ ~shutdown
      BY <3>1 DEF LifeInv, EndInv
    <3> QED BY <1>a, <3>2 DEF Early, shutdown, Up, StateOK
  <2> QED BY <1>6, <2>1, <2>2, <2>3
<1>9. ASSUME NEW c \in Clients, NEW j \in Jobs, ThreadPoolAddPersistent(c, j) PROVE Kept
  <2>1. Up /\ fate[j] = "new" /\ UNCHANGED <<phase, wjob>>
    BY <1>9, <1>a, <1>c DEF ThreadPoolAddPersistent, Fresh, locals
  <2>2. CASE UNCHANGED fate
    BY <1>b, <2>1, <2>2 DEF Up
  <2>3. CASE SchedulePersistent(c, j)
    BY <1>6, <2>1, <2>3 DEF SchedulePersistent
  <2> QED BY <1>9, <2>2, <2>3 DEF ThreadPoolAddPersistent
<1>10. ASSUME NEW c \in Callers, ThreadPoolShutdown(c) PROVE Kept
  <2>1. /\ fate' = [j \in Jobs |-> IF Queued(j) \/ j = persistentJob THEN "discarded" ELSE fate[j]]
        /\ UNCHANGED wjob /\ ~Up'
    BY <1>10 DEF ThreadPoolShutdown, locals, Up
  <2>2. CASE Up
    BY <1>a, <2>1, <2>2, CloseStep
  <2>3. CASE ~Up
    <3>1. Early
      <4>1. call[c].pc = "failed"
        BY <1>10, <1>c, <2>3 DEF ThreadPoolShutdown
      <4>2. ~shutdown
        BY <4>1 DEF EndInv, Creating
      <4> QED BY <1>a, <2>3, <4>2 DEF Early, shutdown, Up, StateOK
    <3>2. persistentJob = NULL /\ \A j \in Jobs : ~Queued(j)
      <4>1. ~HasWork
        BY <3>1 DEF LifeInv
      <4>2. QueuedJobs = 0 \/ ~(QueuedJobs \in Nat)
        BY <4>1 DEF HasWork
      <4>3. \A p \in Priorities : Len(queue[p]) = 0
        BY <1>a, <4>2, QueuedJobsType DEF QueuedJobs, Priorities
      <4> QED BY <1>a, <4>1, <4>3 DEF HasWork, Queued
    <3>3. fate' = fate
      BY <1>a, <2>1, <3>2
    <3> QED BY <1>b, <2>1, <2>3, <3>3
  <2> QED BY <2>2, <2>3
<1>11. ASSUME NEW c \in Clients, ThreadPoolInit(c) PROVE Kept
  <2>1. FillToMin(c, "init", 0, attr) /\ UNCHANGED <<fate, wjob>> /\ Early
    BY <1>11 DEF ThreadPoolInit, Early, locals
  <2> QED BY <1>2, <2>1
<1>12. ASSUME NEW c \in Clients, NEW a \in Attrs, ThreadPoolSetAttr(c, a) PROVE Kept
  <2>1. FillToMin(c, "setattr", totalThreads, a) /\ UNCHANGED <<fate, wjob>>
    BY <1>12 DEF ThreadPoolSetAttr, locals
  <2> QED BY <1>2, <2>1
<1>13. ASSUME NEW c \in Clients, NEW id, ThreadPoolRemove(c, id) PROVE Kept
  <2>1. Up /\ UNCHANGED <<phase, wjob>> /\ Up'
    BY <1>13, <1>a, <1>c DEF ThreadPoolRemove, locals, Up
  <2>2. CASE RemoveSlot /\ persistentJob # NULL
    <3>1. persistentJob \in Jobs /\ fate' = [fate EXCEPT ![persistentJob] = "removed"]
      BY <1>a, <2>2 DEF RemoveSlot
    <3> QED BY <1>a, <2>1, <3>1, RemoveStep
  <2>3. ASSUME NEW p \in Priorities, NEW i \in FirstIn(queue[p], id), RemoveFrom(p, i) PROVE Kept
    <3> DEFINE x == queue[p][i]
    <3>1. i \in 1..Len(queue[p])
      BY <1>a, <2>3 DEF FirstIn
    <3>2. x \in Jobs /\ Inserted(Line', Line, x) /\ fate' = [fate EXCEPT ![x] = "removed"]
      BY <1>a, <2>3, <3>1, RemoveLine DEF RemoveFrom, Line
    <3> HIDE DEF x
    <3>3. InLine(Line, x)
      BY <3>2, InsertedOrder
    <3> QED BY <1>a, <2>1, <3>2, <3>3, RemoveStep
  <2> QED BY <1>13, <2>2, <2>3 DEF ThreadPoolRemove, Priorities
<1>14. CASE Tick \/ UNCHANGED vars
  BY <1>b, <1>14 DEF Tick, vars, locals, Up
<1> QED BY <1>1, <1>3, <1>4, <1>5, <1>7, <1>8, <1>9, <1>10, <1>11, <1>12, <1>13, <1>14 DEF Next, CallerStep

LEMMA InitPool == Init => AbstractPool!Init
<1> SUFFICES ASSUME Init PROVE AbstractPool!Init
  OBVIOUS
<1>1. Status = [j \in Jobs |-> "new"]
  BY DEF Init, Status
<1>2. (phase = "running") = FALSE
  BY DEF Init
<1> QED BY <1>1, <1>2 DEF AbstractPool!Init

\* The pool keeps its promise for every number of threads, callers and jobs: an accepted
\* job is run once, by at most as many threads as ThreadPoolInit allowed, unless it is
\* removed or the pool is shut down before it has started.  The maximum must not be raised,
\* jobs must add none to their own pool, and one caller at a time may create threads and
\* one at a time add a persistent job.
THEOREM PoolImplementsJobPool ==
  ~JobsMayAdd /\ MaxIsKept => (Spec /\ []OneCreator /\ []OneSubmitter => ImplementsJobPool)
<1> SUFFICES ASSUME ~JobsMayAdd, MaxIsKept
             PROVE  Spec /\ []OneCreator /\ []OneSubmitter => ImplementsJobPool
  OBVIOUS
<1>1. TypeOK /\ ThreadsCounted /\ LifeInv /\ EndInv /\ OneCreator /\ OneCreator' /\ [Next]_vars => EndInv'
  BY StepEnd
<1>2. TypeOK /\ ThreadsCounted /\ LifeInv /\ EndInv /\ OneCreator /\ OneCreator' /\ BoundOK /\ [Next]_vars => BoundOK'
  BY StepBound
<1>3. TypeOK /\ LifeInv /\ EndInv /\ NewWhileEarly /\ [Next]_vars => NewWhileEarly'
  BY StepNewEarly
<1>4. Init => SlotOwned /\ AllPlaced
  BY DEF Init, SlotOwned, AllPlaced
<1>5. TypeOK /\ LifeInv /\ SlotOwned /\ [Next]_vars => SlotOwned'
  BY StepSlotOwned
<1>6. TypeOK /\ PlacesInv /\ SlotOwned /\ OneSubmitter' /\ AllPlaced /\ [Next]_vars => AllPlaced'
  BY StepPlaced
<1>7. /\ TypeOK /\ TypeOK' /\ LifeInv /\ EndInv /\ PlacesInv /\ PlacesInv' /\ AllPlaced /\ NewWhileEarly /\ BoundOK'
      /\ [Next]_vars
      => [AbstractPool!Next]_(AbstractPool!jobVars)
  BY StepPool
<1>8. Init => BoundOK /\ NewWhileEarly
  BY InitBound
<1> QED BY <1>1, <1>2, <1>3, <1>4, <1>5, <1>6, <1>7, <1>8, InitEnd, InitPool, TypeCorrect, CountersCorrect,
           LifeInvariant, PlacesInvariant, PTL DEF Spec, ImplementsJobPool, AbstractPool!Spec
=============================================================================
