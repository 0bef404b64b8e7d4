-------------------------- MODULE ThreadPoolProofs --------------------------
(***************************************************************************)
(* Proofs about ThreadPool, for any number of threads, callers and jobs,   *)
(* any attributes and any times.                                           *)
(*                                                                         *)
(* The type invariant says that no counter drops below zero, which is not  *)
(* inductive: a thread subtracts what it added much earlier.  ThreadsInv   *)
(* makes it so: each counter equals the number of threads in the matching  *)
(* states, and a thread holds a "persistent" mark only while it is busy.   *)
(***************************************************************************)
EXTENDS ThreadPool, FiniteSetTheorems, TLAPS

\* Only a busy thread remembers whether its job was persistent.
MarksOnlyWhileBusy == \A w \in Workers : wpc[w] # "busy" => persistent[w] = -1

ThreadsInv == TypeOK /\ ThreadsCounted /\ MarksOnlyWhileBusy

AwakeThreads == {w \in Workers : Awake(w)}
Marked(m) == {w \in Workers : persistent[w] = m}

-----------------------------------------------------------------------------
(* Operators *)

\* A prefix is not longer than its sequence.
LEMMA AgedPrefixRange ==
  ASSUME NEW s \in Seq(Jobs), NEW t
  PROVE  AgedPrefix(s, t) \in 0..Len(s)
<1> DEFINE P == {n \in DOMAIN s : \A i \in 1..n : age[s[i]] >= t}
<1>1. Len(s) \in Nat /\ DOMAIN s = 1..Len(s)
  OBVIOUS
<1>2. IsFiniteSet(1..Len(s)) /\ Cardinality(1..Len(s)) = Len(s)
  BY <1>1, FS_Interval
<1>3. P \in SUBSET (1..Len(s))
  BY <1>1
<1>4. Cardinality(P) \in Nat /\ Cardinality(P) <= Len(s)
  <2> HIDE DEF P
  <2> QED BY <1>2, <1>3, FS_Subset, FS_CardinalityType
<1> QED BY <1>1, <1>4 DEF AgedPrefix

\* BumpPriority moves jobs between the queues and loses none.
LEMMA BumpedType ==
  ASSUME queue \in [Priorities -> Seq(Jobs)]
  PROVE  /\ Bumped \in [Priorities -> Seq(Jobs)]
         /\ Len(Bumped["high"]) + Len(Bumped["low"]) + Len(Bumped["med"]) = QueuedJobs
<1> DEFINE low == queue["low"]
           m == AgedPrefix(low, MaxIdleTime)
           med == queue["med"] \o SubSeq(low, 1, m)
           k == AgedPrefix(med, StarvationTime)
           high == queue["high"] \o SubSeq(med, 1, k)
<1>1. low \in Seq(Jobs) /\ queue["med"] \in Seq(Jobs) /\ queue["high"] \in Seq(Jobs)
  BY DEF Priorities
<1>2. m \in 0..Len(low)
  BY <1>1, AgedPrefixRange
<1>3. SubSeq(low, 1, m) \in Seq(Jobs) /\ Len(SubSeq(low, 1, m)) = m
  <2> HIDE DEF m, low
  <2> QED BY <1>1, <1>2
<1>4. med \in Seq(Jobs) /\ Len(med) = Len(queue["med"]) + m
  <2> HIDE DEF m, low
  <2> QED BY <1>1, <1>3
<1>5. k \in 0..Len(med)
  <2> HIDE DEF med
  <2> QED BY <1>4, AgedPrefixRange
<1>6. /\ SubSeq(med, 1, k) \in Seq(Jobs) /\ Len(SubSeq(med, 1, k)) = k
      /\ SubSeq(med, k+1, Len(med)) \in Seq(Jobs) /\ Len(SubSeq(med, k+1, Len(med))) = Len(med) - k
  <2> HIDE DEF k, med
  <2> QED BY <1>4, <1>5
<1>7. SubSeq(low, m+1, Len(low)) \in Seq(Jobs) /\ Len(SubSeq(low, m+1, Len(low))) = Len(low) - m
  <2> HIDE DEF m, low
  <2> QED BY <1>1, <1>2
<1>8. high \in Seq(Jobs) /\ Len(high) = Len(queue["high"]) + k
  <2> HIDE DEF k, med
  <2> QED BY <1>1, <1>6
<1>9. Bumped = [p \in Priorities |->
                  CASE p = "low"  -> SubSeq(low, m+1, Len(low))
                    [] p = "med"  -> SubSeq(med, k+1, Len(med))
                    [] p = "high" -> high]
  BY DEF Bumped
<1> HIDE DEF k, med, m, low, high
<1>10. Bumped["low"] = SubSeq(low, m+1, Len(low)) /\ Bumped["med"] = SubSeq(med, k+1, Len(med)) /\ Bumped["high"] = high
  BY <1>9 DEF Priorities
<1>11. Bumped \in [Priorities -> Seq(Jobs)]
  BY <1>6, <1>7, <1>8, <1>9 DEF Priorities
<1>12. QueuedJobs = Len(queue["high"]) + Len(low) + Len(queue["med"])
  BY DEF QueuedJobs, low
<1>13. /\ Len(queue["high"]) \in Nat /\ Len(queue["med"]) \in Nat /\ Len(low) \in Nat
       /\ m \in Nat /\ k \in Nat
  BY <1>1, <1>2, <1>4, <1>5
<1>14. /\ Len(Bumped["high"]) = Len(queue["high"]) + k
       /\ Len(Bumped["low"]) = Len(low) - m
       /\ Len(Bumped["med"]) = (Len(queue["med"]) + m) - k
  BY <1>4, <1>6, <1>7, <1>8, <1>10
<1>15. Len(Bumped["high"]) + Len(Bumped["low"]) + Len(Bumped["med"]) = QueuedJobs
  <2> DEFINE h == Len(queue["high"])  l == Len(low)  d == Len(queue["med"])
  <2>1. h \in Nat /\ l \in Nat /\ d \in Nat
    BY <1>13
  <2>2. Len(Bumped["high"]) + Len(Bumped["low"]) + Len(Bumped["med"]) = (h + k) + (l - m) + ((d + m) - k)
    BY <1>14
  <2>3. QueuedJobs = h + l + d
    BY <1>12
  <2> HIDE DEF h, l, d
  <2>4. (h + k) + (l - m) + ((d + m) - k) = h + l + d
    BY <2>1, <1>13
  <2> QED BY <2>2, <2>3, <2>4
<1> QED BY <1>11, <1>15

-----------------------------------------------------------------------------
(* Counting *)

\* The sets the counters stand for are finite.
LEMMA FiniteThreads ==
  /\ IsFiniteSet(AwakeThreads) /\ IsFiniteSet(Idling) /\ \A m : IsFiniteSet(Marked(m))
<1>1. AwakeThreads \in SUBSET Workers /\ Idling \in SUBSET Workers /\ \A m : Marked(m) \in SUBSET Workers
  BY DEF AwakeThreads, Idling, Marked
<1> QED BY <1>1, PoolAssumption, FS_Subset

\* Counters that count threads are natural numbers.
LEMMA CountsAreNat ==
  ASSUME ThreadsCounted PROVE CountersOK
<1> QED BY FiniteThreads, FS_CardinalityType DEF ThreadsCounted, CountersOK, AwakeThreads, Marked

\* The steps that only wake or create threads.
SameRoles ==
  \A w \in Workers :
    /\ wpc'[w] = "busy" <=> wpc[w] = "busy"
    /\ wpc'[w] \in {"waiting", "signaled", "timedout"} <=> wpc[w] \in {"waiting", "signaled", "timedout"}

LEMMA SameRolesCount ==
  ASSUME ThreadsCounted, MarksOnlyWhileBusy, SameRoles, UNCHANGED <<counters, persistent>>
  PROVE  ThreadsCounted' /\ MarksOnlyWhileBusy'
<1>1. AwakeThreads' = AwakeThreads /\ Idling' = Idling
  BY DEF SameRoles, AwakeThreads, Awake, Idling
<1>2. \A m : Marked(m)' = Marked(m)
  BY DEF Marked
<1> QED BY <1>1, <1>2 DEF ThreadsCounted, MarksOnlyWhileBusy, SameRoles, AwakeThreads, Marked, counters

\* A signal, and a new thread, change no role; nor does a step that leaves wpc alone.
LEMMA SignalRoles ==
  ASSUME wpc \in [Workers -> WorkerPcs], Signal
  PROVE  wpc' \in [Workers -> WorkerPcs] /\ SameRoles
<1> QED BY DEF Signal, SameRoles, WorkerPcs

LEMMA CreateWorkerRoles ==
  ASSUME wpc \in [Workers -> WorkerPcs], NEW c, NEW pc, NEW j, NEW jobs, NEW threads,
         CreateWorker(c, pc, j, jobs, threads)
  PROVE  wpc' \in [Workers -> WorkerPcs] /\ SameRoles
<1> QED BY DEF CreateWorker, SameRoles, WorkerPcs

LEMMA IdleRoles ==
  ASSUME wpc \in [Workers -> WorkerPcs], UNCHANGED wpc
  PROVE  wpc' \in [Workers -> WorkerPcs] /\ SameRoles
<1> QED BY DEF SameRoles

\* A thread that looks for work brings every counter up to date, given that it
\* enters with itself counted as idle and its mark taken back.
LEMMA LookForWorkCounts ==
  ASSUME StateOK, ThreadsCounted, MarksOnlyWhileBusy,
         NEW w \in Workers, Awake(w), NEW timedOut, NEW idle, NEW pt, NEW wt,
         idle = Cardinality(Idling \cup {w}),
         pt = Cardinality(Marked(1) \ {w}), wt = Cardinality(Marked(0) \ {w}),
         LookForWork(w, timedOut, idle, pt, wt)
  PROVE  ThreadsCounted' /\ MarksOnlyWhileBusy'
<1> DEFINE I == Idling \cup {w}
           P(m) == Marked(m) \ {w}
<1>1. /\ IsFiniteSet(AwakeThreads) /\ IsFiniteSet(I) /\ \A m : IsFiniteSet(P(m))
      /\ w \in AwakeThreads /\ totalThreads = Cardinality(AwakeThreads)
  BY FiniteThreads, FS_AddElement, FS_RemoveElement DEF AwakeThreads, ThreadsCounted
<1>2. wpc \in [Workers -> WorkerPcs] /\ persistent \in [Workers -> {-1, 0, 1}]
  BY DEF StateOK
<1>3. CASE \* it waits
           /\ wpc' = [wpc EXCEPT ![w] = "waiting"] /\ persistent' = [persistent EXCEPT ![w] = -1]
           /\ idleThreads' = idle /\ persistentThreads' = pt /\ workerThreads' = wt
           /\ UNCHANGED totalThreads
  <2>1. AwakeThreads' = AwakeThreads /\ Idling' = I /\ Marked(1)' = P(1) /\ Marked(0)' = P(0)
    BY <1>2, <1>3 DEF AwakeThreads, Awake, Idling, Marked, WorkerPcs
  <2>2. MarksOnlyWhileBusy'
    BY <1>2, <1>3 DEF MarksOnlyWhileBusy
  <2> QED BY <1>1, <1>3, <2>1, <2>2 DEF ThreadsCounted, AwakeThreads, Marked
<1>4. CASE \* it ends
           /\ Exit(w)
           /\ idleThreads' = idle - 1 /\ persistentThreads' = pt /\ workerThreads' = wt
  <2>1. AwakeThreads' = AwakeThreads \ {w} /\ Idling' = I \ {w} /\ Marked(1)' = P(1) /\ Marked(0)' = P(0)
    BY <1>2, <1>4 DEF Exit, AwakeThreads, Awake, Idling, Marked, WorkerPcs
  <2>2. Cardinality(AwakeThreads') = totalThreads - 1 /\ Cardinality(Idling') = idle - 1
    BY <1>1, <2>1, FS_RemoveElement
  <2>3. MarksOnlyWhileBusy'
    BY <1>2, <1>4 DEF MarksOnlyWhileBusy, Exit
  <2> QED BY <1>4, <2>1, <2>2, <2>3 DEF ThreadsCounted, AwakeThreads, Marked, Exit
<1>5. CASE \* it takes a job
           \E j, m : /\ Take(w, j, m) /\ m \in {0, 1}
                     /\ idleThreads' = idle - 1
                     /\ persistentThreads' = pt + m /\ workerThreads' = wt + 1 - m
  <2>1. PICK j, m : /\ Take(w, j, m) /\ m \in {0, 1}
                    /\ idleThreads' = idle - 1
                    /\ persistentThreads' = pt + m /\ workerThreads' = wt + 1 - m
    BY <1>5
  <2>2. AwakeThreads' = AwakeThreads /\ Idling' = I \ {w}
    BY <1>2, <2>1 DEF Take, AwakeThreads, Awake, Idling, WorkerPcs
  <2>3. Marked(m)' = P(m) \cup {w} /\ Marked(1 - m)' = P(1 - m)
    BY <1>2, <2>1 DEF Take, Marked
  <2>4. Cardinality(Idling') = idle - 1
    BY <1>1, <2>2, FS_RemoveElement
  <2>5. Cardinality(Marked(m)') = Cardinality(P(m)) + 1 /\ Cardinality(Marked(1-m)') = Cardinality(P(1-m))
    BY <1>1, <2>3, FS_AddElement
  <2>6. MarksOnlyWhileBusy'
    BY <1>2, <2>1 DEF MarksOnlyWhileBusy, Take
  <2>7. pt \in Nat /\ wt \in Nat
    BY <1>1, FS_CardinalityType
  <2>8. totalThreads' = Cardinality(AwakeThreads') /\ idleThreads' = Cardinality(Idling')
    BY <1>1, <2>1, <2>2, <2>4 DEF Take
  <2>9. persistentThreads' = Cardinality(Marked(1)') /\ workerThreads' = Cardinality(Marked(0)')
    <3>1. CASE m = 1
      BY <2>1, <2>5, <2>7, <3>1
    <3>2. CASE m = 0
      BY <2>1, <2>5, <2>7, <3>2
    <3> QED BY <2>1, <3>1, <3>2
  <2> QED BY <2>6, <2>8, <2>9 DEF ThreadsCounted, AwakeThreads, Marked
<1>6. (\E j : Take(w, j, 1) /\ idleThreads' = idle - 1 /\ persistentThreads' = pt + 1 /\ workerThreads' = wt)
        => ThreadsCounted' /\ MarksOnlyWhileBusy'
  <2> SUFFICES ASSUME NEW j, Take(w, j, 1), idleThreads' = idle - 1,
                      persistentThreads' = pt + 1, workerThreads' = wt
               PROVE  ThreadsCounted' /\ MarksOnlyWhileBusy'
    OBVIOUS
  <2>1. wt \in Nat
    BY <1>1, FS_CardinalityType
  <2>2. workerThreads' = wt + 1 - 1
    BY <2>1
  <2> QED BY <1>5, <2>2
<1>7. (\E j : Take(w, j, 0) /\ idleThreads' = idle - 1 /\ persistentThreads' = pt /\ workerThreads' = wt + 1)
        => ThreadsCounted' /\ MarksOnlyWhileBusy'
  <2> SUFFICES ASSUME NEW j, Take(w, j, 0), idleThreads' = idle - 1,
                      persistentThreads' = pt, workerThreads' = wt + 1
               PROVE  ThreadsCounted' /\ MarksOnlyWhileBusy'
    OBVIOUS
  <2>1. pt \in Nat /\ wt \in Nat
    BY <1>1, FS_CardinalityType
  <2>2. persistentThreads' = pt + 0 /\ workerThreads' = wt + 1 - 0
    BY <2>1
  <2> QED BY <1>5, <2>2
<1> QED BY <1>3, <1>4, <1>6, <1>7 DEF LookForWork
\* Every step keeps the counters equal to what they count.
LEMMA StepCounts ==
  ASSUME ThreadsInv, [Next]_vars
  PROVE  ThreadsCounted' /\ MarksOnlyWhileBusy'
<1> USE DEF ThreadsInv, TypeOK
<1>1. wpc \in [Workers -> WorkerPcs] /\ persistent \in [Workers -> {-1, 0, 1}]
  BY DEF StateOK
<1>2. ASSUME SameRoles, UNCHANGED <<counters, persistent>>
      PROVE  ThreadsCounted' /\ MarksOnlyWhileBusy'
  BY <1>2, SameRolesCount
<1>3. ASSUME NEW w \in Workers, WorkerStart(w)
      PROVE  ThreadsCounted' /\ MarksOnlyWhileBusy'
  <2>1. /\ AwakeThreads' = AwakeThreads \cup {w} /\ w \notin AwakeThreads
        /\ Idling' = Idling /\ \A m : Marked(m)' = Marked(m)
    BY <1>1, <1>3 DEF WorkerStart, AwakeThreads, Awake, Idling, Marked, locals
  <2>2. Cardinality(AwakeThreads') = Cardinality(AwakeThreads) + 1
    BY <2>1, FiniteThreads, FS_AddElement
  <2>3. MarksOnlyWhileBusy'
    BY <1>1, <1>3 DEF WorkerStart, MarksOnlyWhileBusy, locals
  <2> QED BY <1>3, <2>1, <2>2, <2>3 DEF WorkerStart, ThreadsCounted, AwakeThreads, Marked
<1>4. ASSUME NEW w \in Workers, WorkerReturn(w)
      PROVE  ThreadsCounted' /\ MarksOnlyWhileBusy'
  <2>1. wpc[w] = "busy" /\ w \notin Idling /\ Awake(w) /\ w \in Marked(persistent[w])
    BY <1>4 DEF WorkerReturn, Idling, Awake, Marked
  <2>2. idleThreads + 1 = Cardinality(Idling \cup {w})
    BY <2>1, FiniteThreads, FS_AddElement DEF ThreadsCounted
  <2>3. persistentThreads - (IF persistent[w] = 1 THEN 1 ELSE 0) = Cardinality(Marked(1) \ {w})
    <3>1. persistentThreads = Cardinality(Marked(1)) /\ persistentThreads \in Nat
      BY DEF ThreadsCounted, Marked, CountersOK
    <3>2. Cardinality(Marked(1) \ {w}) =
            IF w \in Marked(1) THEN Cardinality(Marked(1)) - 1 ELSE Cardinality(Marked(1))
      BY FiniteThreads, FS_RemoveElement
    <3>3. w \in Marked(1) <=> persistent[w] = 1
      BY DEF Marked
    <3> QED BY <3>1, <3>2, <3>3
  <2>4. workerThreads - (IF persistent[w] = 0 THEN 1 ELSE 0) = Cardinality(Marked(0) \ {w})
    <3>1. workerThreads = Cardinality(Marked(0)) /\ workerThreads \in Nat
      BY DEF ThreadsCounted, Marked, CountersOK
    <3>2. Cardinality(Marked(0) \ {w}) =
            IF w \in Marked(0) THEN Cardinality(Marked(0)) - 1 ELSE Cardinality(Marked(0))
      BY FiniteThreads, FS_RemoveElement
    <3>3. w \in Marked(0) <=> persistent[w] = 0
      BY DEF Marked
    <3> QED BY <3>1, <3>2, <3>3
  <2> QED BY <1>4, <2>1, <2>2, <2>3, <2>4, LookForWorkCounts DEF WorkerReturn
<1>5. ASSUME NEW w \in Workers, WorkerWake(w)
      PROVE  ThreadsCounted' /\ MarksOnlyWhileBusy'
  <2>1. w \in Idling /\ Awake(w) /\ persistent[w] = -1
    BY <1>5 DEF WorkerWake, Idling, Awake, MarksOnlyWhileBusy
  <2>2. Idling \cup {w} = Idling /\ Marked(1) \ {w} = Marked(1) /\ Marked(0) \ {w} = Marked(0)
    BY <2>1 DEF Marked
  <2>3. /\ idleThreads = Cardinality(Idling \cup {w})
        /\ persistentThreads = Cardinality(Marked(1) \ {w})
        /\ workerThreads = Cardinality(Marked(0) \ {w})
    BY <2>2 DEF ThreadsCounted, Marked
  <2> QED BY <1>5, <2>1, <2>3, LookForWorkCounts DEF WorkerWake
<1>6. ASSUME NEW w \in Workers, WorkerTimeout(w)
      PROVE  ThreadsCounted' /\ MarksOnlyWhileBusy'
  <2>1. SameRoles /\ UNCHANGED <<counters, persistent>>
    BY <1>1, <1>6 DEF WorkerTimeout, SameRoles, locals
  <2> QED BY <1>2, <2>1
<1>7. ASSUME NEW c \in Callers, NEW pc, NEW i, NEW a, FillToMin(c, pc, i, a)
      PROVE  SameRoles
  BY <1>1, <1>7, SignalRoles, IdleRoles, CreateWorkerRoles DEF FillToMin
<1>8. ASSUME NEW c \in Callers, NEW j, NEW jobs, NEW threads, AddWorker(c, j, jobs, threads)
      PROVE  SameRoles
  BY <1>1, <1>8, SignalRoles, CreateWorkerRoles DEF AddWorker, AddDone
<1>9. ASSUME NEW c \in Callers, CallerStep(c)
      PROVE  ThreadsCounted' /\ MarksOnlyWhileBusy'
  <2>1. CASE FillResume(c)
    BY <1>2, <1>7, <2>1 DEF FillResume, counters, locals
  <2>2. CASE AddResume(c)
    BY <1>2, <1>8, <2>2 DEF AddResume, counters, locals
  <2>3. CASE AddPersistentResume(c)
    BY <1>1, <1>2, <2>3, SignalRoles DEF AddPersistentResume, SchedulePersistent, counters, locals
  <2>4. CASE AddPersistentDone(c) \/ ShutdownDone(c) \/ WaitAgain(c)
    BY <1>1, <1>2, <2>4, IdleRoles DEF AddPersistentDone, ShutdownDone, WaitAgain, counters, locals
  <2> QED BY <1>9, <2>1, <2>2, <2>3, <2>4 DEF CallerStep
<1>10. ASSUME NEW c \in Callers, NEW j \in Jobs, NEW p \in Priorities, ThreadPoolAdd(c, j, p)
       PROVE  ThreadsCounted' /\ MarksOnlyWhileBusy'
  BY <1>2, <1>8, <1>10 DEF ThreadPoolAdd, counters, locals
<1>11. ASSUME NEW c \in Callers, ThreadPoolShutdown(c)
       PROVE  ThreadsCounted' /\ MarksOnlyWhileBusy'
  <2>1. SameRoles /\ UNCHANGED <<counters, persistent>>
    BY <1>1, <1>11 DEF ThreadPoolShutdown, SameRoles, counters, locals
  <2> QED BY <1>2, <2>1
<1>12. ASSUME NEW c \in Clients, ThreadPoolInit(c) \/ \E a \in Attrs : ThreadPoolSetAttr(c, a)
       PROVE  ThreadsCounted' /\ MarksOnlyWhileBusy'
  BY <1>2, <1>7, <1>12 DEF ThreadPoolInit, ThreadPoolSetAttr, counters, locals, Callers
<1>13. ASSUME NEW c \in Clients, NEW j \in Jobs, ThreadPoolAddPersistent(c, j)
       PROVE  ThreadsCounted' /\ MarksOnlyWhileBusy'
  <2>1. SameRoles
    BY <1>1, <1>13, SignalRoles, CreateWorkerRoles DEF ThreadPoolAddPersistent, SchedulePersistent
  <2> QED BY <1>2, <1>13, <2>1 DEF ThreadPoolAddPersistent, counters, locals
<1>14. ASSUME NEW c \in Clients, NEW id, ThreadPoolRemove(c, id)
       PROVE  ThreadsCounted' /\ MarksOnlyWhileBusy'
  BY <1>1, <1>2, <1>14, IdleRoles DEF ThreadPoolRemove, counters, locals
<1>15. CASE Tick \/ UNCHANGED vars
  BY <1>1, <1>2, <1>15, IdleRoles DEF Tick, vars, counters, locals
<1> QED BY <1>3, <1>4, <1>5, <1>6, <1>9, <1>10, <1>11, <1>12, <1>13, <1>14, <1>15
        DEF Next, WorkerStep
-----------------------------------------------------------------------------
(* Types *)

\* A caller that starts or stops to wait leaves well-formed frames.
LEMMA BecomesType ==
  ASSUME StateOK, NEW c \in Callers, NEW f \in Frame, Becomes(c, f)
  PROVE  call' \in [Callers -> Frame] /\ notified' \subseteq Callers
<1> QED BY DEF StateOK, Becomes

\* An update keeps the type of a function, inside its domain or not.
LEMMA UpdateType ==
  ASSUME NEW S, NEW T, NEW f \in [S -> T], NEW x, NEW v \in T
  PROVE  [f EXCEPT ![x] = v] \in [S -> T]
<1> QED OBVIOUS

LEMMA JobUpdates ==
  ASSUME StateOK, NEW j
  PROVE  /\ [returned EXCEPT ![j] = lastJobId] \in [Jobs -> Int]
         /\ [jobId EXCEPT ![j] = lastJobId] \in [Jobs -> Int]
         /\ [fate EXCEPT ![j] = "live"] \in [Jobs -> {"new", "live", "done", "removed", "discarded"}]
<1>1. /\ lastJobId \in Int /\ returned \in [Jobs -> Int] /\ jobId \in [Jobs -> Int]
      /\ fate \in [Jobs -> {"new", "live", "done", "removed", "discarded"}]
      /\ "live" \in {"new", "live", "done", "removed", "discarded"}
  BY DEF StateOK
<1> QED BY ONLY <1>1, UpdateType, Zenon

LEMMA FrameTypes ==
  Idle \in Frame /\ \A pc \in CallPcs, j \in Jobs \cup {NULL} : At(pc, j) \in Frame
<1> QED BY DEF Idle, At, Frame, CallPcs, CreatePcs

LEMMA BroadcastType ==
  ASSUME StateOK, Broadcast PROVE notified' \subseteq Callers
<1> QED BY DEF StateOK, Broadcast, Blocked

LEMMA QueuedJobsType ==
  ASSUME StateOK PROVE QueuedJobs \in Nat
<1>1. queue["high"] \in Seq(Jobs) /\ queue["low"] \in Seq(Jobs) /\ queue["med"] \in Seq(Jobs)
  BY DEF StateOK, Priorities
<1>2. Len(queue["high"]) \in Nat /\ Len(queue["low"]) \in Nat /\ Len(queue["med"]) \in Nat
  BY <1>1
<1>3. \A a, b, c \in Nat : a + b + c \in Nat
  OBVIOUS
<1> QED BY <1>2, <1>3, Zenon DEF QueuedJobs

LEMMA CreateWorkerType ==
  ASSUME StateOK, CountersOK, NEW c \in Callers, NEW pc \in CreatePcs, NEW j \in Jobs \cup {NULL},
         NEW jobs \in Nat, NEW threads \in Int, CreateWorker(c, pc, j, jobs, threads)
  PROVE  /\ wpc' \in [Workers -> WorkerPcs]
         /\ call' \in [Callers -> Frame] /\ notified' \subseteq Callers
<1>1. [pc |-> pc, job |-> j, jobs |-> jobs, threads |-> threads, target |-> totalThreads + 1] \in Frame
  BY DEF Frame, CallPcs, CountersOK
<1> QED BY <1>1, BecomesType, CreateWorkerRoles DEF CreateWorker, StateOK

LEMMA FillToMinType ==
  ASSUME StateOK, CountersOK, NEW c \in Callers, NEW pc \in {"init", "setattr"},
         NEW i \in Int, NEW a \in Attr, FillToMin(c, pc, i, a)
  PROVE  /\ phase' \in {"unused", "starting", "running", "shutdown", "destroyed"}
         /\ wpc' \in [Workers -> WorkerPcs]
         /\ call' \in [Callers -> Frame] /\ notified' \subseteq Callers
<1>1. phase' \in {"unused", "starting", "running", "shutdown", "destroyed"}
  BY DEF FillToMin, StateOK
<1>2. CASE \E f \in {"idle", "failed"} : Becomes(c, At(f, NULL)) /\ (Signal \/ UNCHANGED wpc)
  BY <1>1, <1>2, BecomesType, FrameTypes, SignalRoles, IdleRoles DEF StateOK, CallPcs
<1>3. CASE CreateWorker(c, pc, NULL, 0, i)
  BY <1>1, <1>3, CreateWorkerType DEF CreatePcs
<1> QED BY <1>2, <1>3 DEF FillToMin

LEMMA AddWorkerType ==
  ASSUME StateOK, CountersOK, NEW c \in Callers, NEW j \in Jobs \cup {NULL}, NEW jobs \in Nat, NEW threads \in Int,
         AddWorker(c, j, jobs, threads)
  PROVE  /\ wpc' \in [Workers -> WorkerPcs]
         /\ call' \in [Callers -> Frame] /\ notified' \subseteq Callers
         /\ returned' \in [Jobs -> Int] /\ lastJobId' \in Nat
<1>1. CASE CreateWorker(c, "add", j, jobs, threads) /\ UNCHANGED <<returned, lastJobId>>
  BY <1>1, CreateWorkerType DEF CreatePcs, StateOK
<1>2. CASE AddDone(c, j)
  <2>1. returned' \in [Jobs -> Int]
    BY <1>2, JobUpdates DEF AddDone
  <2>2. call' \in [Callers -> Frame] /\ notified' \subseteq Callers
    BY <1>2, BecomesType, FrameTypes DEF AddDone
  <2> QED BY <1>2, <2>1, <2>2, SignalRoles DEF AddDone, StateOK
<1> QED BY <1>1, <1>2 DEF AddWorker

LEMMA SchedulePersistentType ==
  ASSUME StateOK, NEW c \in Callers, NEW j \in Jobs \cup {NULL}, SchedulePersistent(c, j)
  PROVE  /\ wpc' \in [Workers -> WorkerPcs]
         /\ call' \in [Callers -> Frame] /\ notified' \subseteq Callers
         /\ persistentJob' \in Jobs \cup {NULL} /\ jobId' \in [Jobs -> Int]
         /\ fate' \in [Jobs -> {"new", "live", "done", "removed", "discarded"}]
<1>1. At("persist", j) \in Frame
  BY FrameTypes DEF CallPcs
<1>2. call' \in [Callers -> Frame] /\ notified' \subseteq Callers
  BY <1>1, BecomesType DEF SchedulePersistent
<1>3. wpc' \in [Workers -> WorkerPcs]
  BY SignalRoles DEF SchedulePersistent, StateOK
<1>4. /\ persistentJob' \in Jobs \cup {NULL} /\ jobId' \in [Jobs -> Int]
      /\ fate' \in [Jobs -> {"new", "live", "done", "removed", "discarded"}]
  BY JobUpdates DEF SchedulePersistent, StateOK
<1> QED BY <1>2, <1>3, <1>4

\* What a thread does next leaves the queues and its own state well formed.
LEMMA LookForWorkType ==
  ASSUME StateOK, NEW w \in Workers, NEW timedOut, NEW idle, NEW pt, NEW wt,
         LookForWork(w, timedOut, idle, pt, wt)
  PROVE  /\ queue' \in [Priorities -> Seq(Jobs)] /\ persistentJob' \in Jobs \cup {NULL}
         /\ wpc' \in [Workers -> WorkerPcs] /\ wjob' \in [Workers -> Jobs \cup {NULL}]
         /\ persistent' \in [Workers -> {-1, 0, 1}] /\ notified' \subseteq Callers
<1> DEFINE Typed ==
      /\ queue' \in [Priorities -> Seq(Jobs)] /\ persistentJob' \in Jobs \cup {NULL}
      /\ wpc' \in [Workers -> WorkerPcs] /\ wjob' \in [Workers -> Jobs \cup {NULL}]
      /\ persistent' \in [Workers -> {-1, 0, 1}] /\ notified' \subseteq Callers
<1>1. /\ queue \in [Priorities -> Seq(Jobs)] /\ persistentJob \in Jobs \cup {NULL}
      /\ wpc \in [Workers -> WorkerPcs] /\ wjob \in [Workers -> Jobs \cup {NULL}]
      /\ persistent \in [Workers -> {-1, 0, 1}] /\ notified \subseteq Callers
  BY DEF StateOK
<1>2. ASSUME wpc' = [wpc EXCEPT ![w] = "waiting"], wjob' = [wjob EXCEPT ![w] = NULL],
             persistent' = [persistent EXCEPT ![w] = -1],
             UNCHANGED <<queue, persistentJob, notified>>
      PROVE  Typed
  BY <1>1, <1>2 DEF WorkerPcs
<1>3. ASSUME Exit(w), queue' = queue \/ queue' = Bumped PROVE Typed
  BY <1>1, <1>3, BroadcastType, BumpedType DEF Exit, WorkerPcs
<1>4. ASSUME NEW j \in Jobs, NEW m \in {0, 1}, Take(w, j, m)
      PROVE  /\ wpc' \in [Workers -> WorkerPcs] /\ wjob' \in [Workers -> Jobs \cup {NULL}]
             /\ persistent' \in [Workers -> {-1, 0, 1}]
  BY <1>1, <1>4 DEF Take, WorkerPcs
<1>5. ASSUME persistentJob # NULL, queue' = Bumped, Take(w, persistentJob, 1),
             persistentJob' = NULL, Broadcast
      PROVE  Typed
  <2>1. persistentJob \in Jobs
    BY <1>1, <1>5
  <2>2. queue' \in [Priorities -> Seq(Jobs)]
    BY <1>1, <1>5, BumpedType
  <2> QED BY <1>4, <1>5, <2>1, <2>2, BroadcastType
<1>6. ASSUME QueuedJobs > 0, queue' = [Bumped EXCEPT ![Highest(Bumped)] = Tail(@)],
             Take(w, Head(Bumped[Highest(Bumped)]), 0), UNCHANGED <<persistentJob, notified>>
      PROVE  Typed
  <2> DEFINE p == Highest(Bumped)
  <2>1. /\ Bumped \in [Priorities -> Seq(Jobs)]
        /\ Len(Bumped["high"]) + Len(Bumped["low"]) + Len(Bumped["med"]) > 0
    BY <1>1, <1>6, BumpedType
  <2>2. p \in Priorities /\ Bumped[p] \in Seq(Jobs)
    BY <2>1 DEF Highest, Priorities
  <2>3. Bumped["high"] \in Seq(Jobs) /\ Bumped["low"] \in Seq(Jobs) /\ Bumped["med"] \in Seq(Jobs)
    BY <2>1 DEF Priorities
  <2>4. Bumped[p] # <<>>
    <3> DEFINE h == Bumped["high"]  d == Bumped["med"]  l == Bumped["low"]
    <3>1. h \in Seq(Jobs) /\ d \in Seq(Jobs) /\ l \in Seq(Jobs) /\ Len(h) + Len(l) + Len(d) > 0
      BY <2>1, <2>3
    <3>2. h # <<>> \/ d # <<>> \/ l # <<>>
      <4> HIDE DEF h, d, l
      <4> QED BY <3>1
    <3> QED BY <3>2 DEF Highest
  <2>5. Head(Bumped[p]) \in Jobs /\ Tail(Bumped[p]) \in Seq(Jobs)
    <3> HIDE DEF p
    <3> QED BY <2>2, <2>4
  <2>6. queue' \in [Priorities -> Seq(Jobs)]
    <3>1. queue' = [Bumped EXCEPT ![p] = Tail(Bumped[p])]
      BY <1>6
    <3> HIDE DEF p
    <3> QED BY <2>1, <2>5, <3>1
  <2>7. Take(w, Head(Bumped[p]), 0)
    BY <1>6
  <2> HIDE DEF p
  <2> QED BY <1>1, <1>4, <1>6, <2>5, <2>6, <2>7
<1> QED BY <1>2, <1>3, <1>5, <1>6 DEF LookForWork
\* Every step keeps the type of what it changes.
LEMMA StepTypes ==
  ASSUME ThreadsInv, [Next]_vars
  PROVE  StateOK'
<1> USE DEF ThreadsInv, TypeOK
<1>1. \A c \in Clients : c \in Callers
  BY DEF Callers
<1>2. \A c \in Callers : /\ call[c].job \in Jobs \cup {NULL} /\ call[c].jobs \in Nat
                         /\ call[c].threads \in Int
  BY DEF StateOK, Frame
<1>3. \A n \in Int : n + 1 \in Int
  OBVIOUS
<1>4. ASSUME NEW w \in Workers, WorkerStart(w) PROVE StateOK'
  BY <1>4, BroadcastType DEF WorkerStart, StateOK, WorkerPcs, locals, idVars
<1>5. ASSUME NEW w \in Workers, WorkerReturn(w) PROVE StateOK'
  <2>1. fate' \in [Jobs -> {"new", "live", "done", "removed", "discarded"}]
    BY <1>5 DEF WorkerReturn, StateOK
  <2> QED BY <1>5, <2>1, LookForWorkType DEF WorkerReturn, StateOK, idVars
<1>6. ASSUME NEW w \in Workers, WorkerWake(w) PROVE StateOK'
  BY <1>6, LookForWorkType DEF WorkerWake, StateOK, idVars
<1>7. ASSUME NEW w \in Workers, WorkerTimeout(w) PROVE StateOK'
  BY <1>7 DEF WorkerTimeout, StateOK, WorkerPcs, locals, idVars
<1>8. ASSUME NEW c \in Callers, FillResume(c) PROVE StateOK'
  <2>1. PICK pc \in {"init", "setattr"} : FillToMin(c, pc, call[c].threads + 1, attr)
    BY <1>8 DEF FillResume
  <2>2. call[c].threads + 1 \in Int /\ attr \in Attr
    BY <1>2, <1>3 DEF StateOK
  <2> QED BY <1>8, <2>1, <2>2, FillToMinType DEF FillResume, StateOK, locals, idVars
<1>9. ASSUME NEW c \in Callers, AddResume(c) PROVE StateOK'
  <2>1. call[c].threads + 1 \in Int
    BY <1>2, <1>3
  <2> QED BY <1>2, <1>9, <2>1, AddWorkerType DEF AddResume, StateOK, locals
<1>10. ASSUME NEW c \in Callers, AddPersistentResume(c) PROVE StateOK'
  BY <1>2, <1>10, SchedulePersistentType DEF AddPersistentResume, StateOK, locals
<1>11. ASSUME NEW c \in Callers, AddPersistentDone(c) PROVE StateOK'
  <2>1. call' \in [Callers -> Frame] /\ notified' \subseteq Callers
    BY <1>11, BecomesType, FrameTypes DEF AddPersistentDone
  <2>2. returned' \in [Jobs -> Int]
    BY <1>11, JobUpdates DEF AddPersistentDone
  <2> QED BY <1>11, <2>1, <2>2 DEF AddPersistentDone, StateOK, locals
<1>12. ASSUME NEW c \in Callers, ShutdownDone(c) PROVE StateOK'
  <2>1. call' \in [Callers -> Frame] /\ notified' \subseteq Callers
    BY <1>12, BecomesType, FrameTypes DEF ShutdownDone
  <2> QED BY <1>12, <2>1 DEF ShutdownDone, StateOK, locals, idVars
<1>13. ASSUME NEW c \in Callers, WaitAgain(c) PROVE StateOK'
  BY <1>13 DEF WaitAgain, StateOK, locals, idVars
<1>14. ASSUME NEW c \in Callers, NEW j \in Jobs, NEW p \in Priorities, ThreadPoolAdd(c, j, p)
       PROVE  StateOK'
  <2>1. QueuedJobs + 1 \in Nat /\ totalThreads - persistentThreads \in Int
    BY QueuedJobsType DEF CountersOK
  <2>2. queue' \in [Priorities -> Seq(Jobs)]
    BY <1>14 DEF ThreadPoolAdd, StateOK
  <2>3. /\ jobId' \in [Jobs -> Int]
        /\ fate' \in [Jobs -> {"new", "live", "done", "removed", "discarded"}]
    BY <1>14 DEF ThreadPoolAdd, StateOK
  <2> QED BY <1>14, <2>1, <2>2, <2>3, AddWorkerType DEF ThreadPoolAdd, StateOK, locals
<1>15. ASSUME NEW c \in Callers, ThreadPoolShutdown(c) PROVE StateOK'
  <2>1. call' \in [Callers -> Frame] /\ notified' \subseteq Callers
    BY <1>15, BecomesType, FrameTypes DEF ThreadPoolShutdown, CallPcs
  <2>2. queue' \in [Priorities -> Seq(Jobs)]
    BY <1>15 DEF ThreadPoolShutdown, EmptyQueues
  <2>3. wpc' \in [Workers -> WorkerPcs]
    BY <1>15 DEF ThreadPoolShutdown, StateOK, WorkerPcs
  <2>4. fate' \in [Jobs -> {"new", "live", "done", "removed", "discarded"}]
    BY <1>15 DEF ThreadPoolShutdown, StateOK
  <2> QED BY <1>15, <2>1, <2>2, <2>3, <2>4 DEF ThreadPoolShutdown, StateOK, locals, idVars
<1>16. ASSUME NEW c \in Clients, ThreadPoolInit(c) PROVE StateOK'
  BY <1>1, <1>16, FillToMinType DEF ThreadPoolInit, StateOK, locals, idVars
<1>17. ASSUME NEW c \in Clients, NEW a \in Attrs, ThreadPoolSetAttr(c, a) PROVE StateOK'
  <2>1. a \in Attr /\ totalThreads \in Int
    BY PoolAssumption DEF CountersOK
  <2> QED BY <1>1, <1>17, <2>1, FillToMinType DEF ThreadPoolSetAttr, StateOK, locals, idVars
<1>18. ASSUME NEW c \in Clients, NEW j \in Jobs, ThreadPoolAddPersistent(c, j) PROVE StateOK'
  <2>1. CASE SchedulePersistent(c, j)
    BY <1>1, <1>18, <2>1, SchedulePersistentType DEF ThreadPoolAddPersistent, StateOK, locals
  <2>2. CASE CreateWorker(c, "addPersistent", j, 0, 0) /\ UNCHANGED <<persistentJob, jobId, fate>>
    BY <1>1, <1>18, <2>2, CreateWorkerType DEF ThreadPoolAddPersistent, StateOK, locals, CreatePcs
  <2> QED BY <1>18, <2>1, <2>2 DEF ThreadPoolAddPersistent
<1>19. ASSUME NEW c \in Clients, NEW id, ThreadPoolRemove(c, id) PROVE StateOK'
  <2>1. ASSUME NEW p \in Priorities, NEW i \in FirstIn(queue[p], id), RemoveFrom(p, i)
        PROVE  queue' \in [Priorities -> Seq(Jobs)] /\ persistentJob' \in Jobs \cup {NULL}
    <3>1. queue[p] \in Seq(Jobs) /\ i \in 1..Len(queue[p])
      BY <2>1 DEF FirstIn, StateOK
    <3>2. SubSeq(queue[p], 1, i-1) \o SubSeq(queue[p], i+1, Len(queue[p])) \in Seq(Jobs)
      BY <3>1
    <3> QED BY <2>1, <3>2 DEF RemoveFrom, StateOK
  <2>2. queue' \in [Priorities -> Seq(Jobs)] /\ persistentJob' \in Jobs \cup {NULL}
    BY <1>19, <2>1 DEF ThreadPoolRemove, RemoveSlot, Priorities, StateOK
  <2>3. fate' \in [Jobs -> {"new", "live", "done", "removed", "discarded"}]
    BY <1>19 DEF ThreadPoolRemove, RemoveFrom, RemoveSlot, StateOK
  <2> QED BY <1>19, <2>2, <2>3 DEF ThreadPoolRemove, StateOK, locals, idVars
<1>20. CASE Tick
  <2>1. age' \in [Jobs -> Nat]
    BY <1>20 DEF Tick, StateOK
  <2> QED BY <1>20, <2>1 DEF Tick, StateOK, locals, idVars
<1>21. CASE UNCHANGED vars
  BY <1>21 DEF vars, StateOK, locals, idVars
<1> QED BY <1>4, <1>5, <1>6, <1>7, <1>8, <1>9, <1>10, <1>11, <1>12, <1>13, <1>14, <1>15,
           <1>16, <1>17, <1>18, <1>19, <1>20, <1>21 DEF Next, WorkerStep, CallerStep

-----------------------------------------------------------------------------
(* Theorems *)

\* The counters of a pool that has not been initialised count no thread.
LEMMA InitThreads == Init => ThreadsInv
<1> SUFFICES ASSUME Init PROVE ThreadsInv
  OBVIOUS
<1>1. StateOK /\ CountersOK
  BY PoolAssumption, FrameTypes
     DEF Init, StateOK, CountersOK, Priorities, WorkerPcs, Callers, INVALID_JOB_ID
<1>2. AwakeThreads = {} /\ Idling = {} /\ Marked(1) = {} /\ Marked(0) = {}
  BY DEF Init, AwakeThreads, Awake, Idling, Marked
<1>3. ThreadsCounted
  BY <1>2, FS_EmptySet DEF Init, ThreadsCounted, AwakeThreads, Marked
<1> QED BY <1>1, <1>3 DEF Init, ThreadsInv, TypeOK, MarksOnlyWhileBusy

\* The strengthened invariant: types, exact counters, and marks of busy threads.
THEOREM ThreadsInvariant == Spec => []ThreadsInv
<1>1. ThreadsInv /\ [Next]_vars => ThreadsInv'
  <2> SUFFICES ASSUME ThreadsInv, [Next]_vars PROVE ThreadsInv'
    OBVIOUS
  <2>1. StateOK' /\ ThreadsCounted' /\ MarksOnlyWhileBusy'
    BY StepTypes, StepCounts
  <2>2. CountersOK'
    BY <2>1, CountsAreNat, PTL
  <2> QED BY <2>1, <2>2 DEF ThreadsInv, TypeOK
<1> QED BY <1>1, InitThreads, PTL DEF Spec

\* Every variable keeps its type and no counter of the pool underflows, however
\* many threads and callers interleave.
THEOREM TypeCorrect == Spec => []TypeOK
<1>1. ThreadsInv => TypeOK
  BY DEF ThreadsInv
<1> QED BY <1>1, ThreadsInvariant, PTL

\* totalThreads, persistentThreads and the two statistics always equal the number
\* of threads in the matching states (ThreadPool.c:441-514).
THEOREM CountersCorrect == Spec => []ThreadsCounted
<1>1. ThreadsInv => ThreadsCounted
  BY DEF ThreadsInv
<1> QED BY <1>1, ThreadsInvariant, PTL
=============================================================================
