-------------------------- MODULE GenaDeviceProofs --------------------------
(***************************************************************************)
(* Proofs about eventing on the device side: types, the subscription list  *)
(* and its counter, the order of the events of a subscriber, and the data  *)
(* that notify jobs share.                                                 *)
(***************************************************************************)
EXTENDS GenaDevice, FiniteSetTheorems, SequenceTheorems, TLAPS

-----------------------------------------------------------------------------
(* Parts of the list *)

Distinct(list) == \A i, k \in DOMAIN list : list[i] = list[k] => i = k

LEMMA IntervalFacts ==
  ASSUME NEW n \in Nat
  PROVE  IsFiniteSet(1..n) /\ Cardinality(1..n) = n
<1>1. 1 \in Int /\ n \in Int
  OBVIOUS
<1>2. IsFiniteSet(1..n) /\ Cardinality(1..n) = IF 1 > n THEN 0 ELSE n - 1 + 1
  BY <1>1, FS_Interval
<1> QED BY <1>2

LEMMA PlacesFacts ==
  ASSUME subscriptionList \in Seq(Sids)
  PROVE  /\ Places = 1..Len(subscriptionList) /\ Len(subscriptionList) \in Nat
         /\ IsFiniteSet(Places) /\ Cardinality(Places) = Len(subscriptionList)
         /\ \A P \in SUBSET Places : IsFiniteSet(P) /\ Cardinality(P) \in Nat
<1>1. Places = 1..Len(subscriptionList) /\ Len(subscriptionList) \in Nat
  BY DEF Places
<1>2. IsFiniteSet(Places) /\ Cardinality(Places) = Len(subscriptionList)
  BY <1>1, IntervalFacts
<1>3. ASSUME NEW P \in SUBSET Places
      PROVE  IsFiniteSet(P) /\ Cardinality(P) \in Nat
  <2>1. IsFiniteSet(P)
    BY <1>2, FS_Subset
  <2> QED BY <2>1, FS_CardinalityType
<1> QED BY <1>1, <1>2, <1>3

\* The members at some places are as many as the places, if none is listed twice.
LEMMA MembersFacts ==
  ASSUME subscriptionList \in Seq(Sids), NEW P \in SUBSET Places
  PROVE  LET M == {subscriptionList[i] : i \in P}
         IN  /\ IsFiniteSet(M) /\ Cardinality(M) \in Nat
             /\ Distinct(subscriptionList) => Cardinality(M) = Cardinality(P)
<1> DEFINE M == {subscriptionList[i] : i \in P}
           f == [i \in P |-> subscriptionList[i]]
<1>1. IsFiniteSet(P) /\ Cardinality(P) \in Nat
  BY PlacesFacts
<1>2. f \in Surjection(P, M)
  BY DEF Surjection
<1>3. ASSUME Distinct(subscriptionList)
      PROVE  f \in Injection(P, M)
  BY <1>3 DEF Distinct, Injection, IsInjective, Places
<1> HIDE DEF f, M
<1>4. IsFiniteSet(M) /\ (Cardinality(M) = Cardinality(P) <=> f \in Injection(P, M))
  BY <1>1, <1>2, FS_Surjection
<1>5. Cardinality(M) \in Nat
  BY <1>4, FS_CardinalityType
<1>6. /\ IsFiniteSet(M) /\ Cardinality(M) \in Nat
      /\ Distinct(subscriptionList) => Cardinality(M) = Cardinality(P)
  BY <1>3, <1>4, <1>5
<1> QED BY <1>6 DEF M

\* A part has the members at its places, each once if the list has.
LEMMA PartFacts ==
  ASSUME subscriptionList \in Seq(Sids), NEW P \in SUBSET Places, NEW r \in Part(P)
  PROVE  /\ r \in Seq(Sids) /\ Len(r) = Cardinality(P)
         /\ \A i \in DOMAIN r : \E j \in P : r[i] = subscriptionList[j]
         /\ \A j \in P : \E i \in DOMAIN r : r[i] = subscriptionList[j]
         /\ Distinct(subscriptionList) => Distinct(r)
<1> DEFINE n == Cardinality(P)
<1>1. Places = 1..Len(subscriptionList) /\ Len(subscriptionList) \in Nat
  BY PlacesFacts
<1>2. IsFiniteSet(P) /\ n \in Nat
  BY PlacesFacts
<1>3. PICK f \in [1..n -> P] :
         /\ \A i, k \in 1..n : i < k => f[i] < f[k]
         /\ r = [i \in 1..n |-> subscriptionList[f[i]]]
  BY DEF Part
<1> HIDE DEF n
<1>4. \A i \in 1..n : f[i] \in P /\ f[i] \in Places /\ f[i] \in Nat
  <2>1. \A i \in 1..n : f[i] \in P
    BY <1>3
  <2>2. \A j \in Places : j \in Nat
    BY <1>1
  <2> QED BY <2>1, <2>2
<1>5. \A i, k \in 1..n : f[i] = f[k] => i = k
  <2> SUFFICES ASSUME NEW i \in 1..n, NEW k \in 1..n, f[i] = f[k], i # k
               PROVE  FALSE
    OBVIOUS
  <2>1. i < k \/ k < i
    BY <1>2
  <2> QED BY <2>1, <1>3, <1>4
<1>6. \A j \in P : \E i \in 1..n : f[i] = j
  <2>1. f \in Injection(1..n, P)
    BY <1>3, <1>5 DEF Injection, IsInjective
  <2>2. Cardinality(1..n) = n
    BY <1>2, IntervalFacts
  <2>3. f \in Surjection(1..n, P)
    BY <2>1, <2>2, <1>2, FS_Injection DEF n
  <2> QED BY <2>3 DEF Surjection
<1>7. r \in Seq(Sids) /\ Len(r) = n /\ DOMAIN r = 1..n
  <2>1. \A i \in 1..n : subscriptionList[f[i]] \in Sids
    BY <1>1, <1>4
  <2> QED BY <2>1, <1>2, <1>3
<1>8. \A i \in 1..n : r[i] = subscriptionList[f[i]]
  BY <1>3
<1>9. Distinct(subscriptionList) => Distinct(r)
  BY <1>4, <1>5, <1>7, <1>8 DEF Distinct, Places
<1>10. Len(r) = Cardinality(P)
  BY <1>7 DEF n
<1>11. \A i \in DOMAIN r : \E j \in P : r[i] = subscriptionList[j]
  <2> TAKE i \in DOMAIN r
  <2>1. i \in 1..n
    BY <1>7
  <2>2. f[i] \in P
    BY <2>1, <1>4
  <2> QED BY <2>1, <2>2, <1>8
<1>12. \A j \in P : \E i \in DOMAIN r : r[i] = subscriptionList[j]
  <2> TAKE j \in P
  <2>1. PICK i \in 1..n : f[i] = j
    BY <1>6
  <2>2. i \in DOMAIN r
    BY <1>7
  <2> QED BY <2>1, <2>2, <1>8
<1> QED BY <1>7, <1>9, <1>10, <1>11, <1>12

-----------------------------------------------------------------------------
(* Types *)

LifeTypes ==
  /\ writer \in Receivers \cup {NULL}
  /\ app \in {"idle", "registering", "unregistering"}
  /\ device \in {"none", "registered", "serviceless"}
  /\ devices \in 0..MaxDevices
  /\ limit \in [subs : Limits \cup {DLNA_INFINITE}, timeOut : Limits \cup {DLNA_INFINITE}]

ListTypes ==
  subscriptionList \in Seq(Sids) /\ TotalSubscriptions \in Int /\ expired \subseteq Sids

Keys == [eventKey : 0..MaxKey, ToSendEventKey : 0..MaxKey, active : BOOLEAN, expires : BOOLEAN]
SubTypes == sub \in [Sids -> Keys] /\ \A s \in Sids : ~sub[s].active => sub[s].eventKey = 0

CallTypes == used \subseteq Sids /\ callback \in [Receivers -> Sids \cup {NULL}]
QueueTypes == queue \in Seq(NotifyJob) /\ Len(queue) <= MaxJobs

WorkerTypes ==
  /\ wpc \in [Workers -> WorkerPcs]
  /\ wjob \in [Workers -> NotifyJob \cup {NoJob}]
  /\ \A w \in Workers : wpc[w] = "idle" => wjob[w] = NoJob
  /\ \A w \in Workers : wpc[w] # "idle" => wjob[w] \in NotifyJob
  /\ wcount \in [Workers -> Int]

DataTypes ==
  events \in 0..MaxEvents /\ reference_count \in [Events -> Int] /\ frees \in [Events -> Nat]

FeedTypes ==
  /\ initial \in [Sids -> 0..MaxEvents]
  /\ accepted \in [Sids -> Seq(Events)] /\ sent \in [Sids -> Seq(Events)]

\* TypeOK, with what makes it inductive: a subscription that has not been confirmed
\* has its first key yet, and who is idle has no job.
Types ==
  /\ LifeTypes /\ ListTypes /\ SubTypes /\ CallTypes /\ QueueTypes /\ WorkerTypes
  /\ DataTypes /\ FeedTypes

LEMMA TypesSuffice == Types => TypeOK
BY DEF Types, TypeOK, LifeTypes, ListTypes, SubTypes, Keys, CallTypes, QueueTypes, WorkerTypes,
       DataTypes, FeedTypes

LEMMA KeyFacts == MaxKey \in Nat /\ MaxKey >= 1 /\ MaxJobs \in Nat /\ MaxEvents \in Nat
<1>1. Cardinality(Workers) \in Nat
  BY GenaAssumption, FS_CardinalityType
<1> QED BY <1>1, GenaAssumption

LEMMA InitTypes == Init => Types
<1> SUFFICES ASSUME Init
             PROVE  Types
  OBVIOUS
<1> USE KeyFacts DEF Init
<1>1. LifeTypes
  BY GenaAssumption DEF LifeTypes
<1>2. ListTypes /\ SubTypes /\ CallTypes /\ QueueTypes
  BY DEF ListTypes, SubTypes, CallTypes, QueueTypes, Keys, NewSub
<1>3. WorkerTypes
  BY DEF WorkerTypes, WorkerPcs, ReadPcs
<1>4. DataTypes /\ FeedTypes
  BY DEF DataTypes, FeedTypes
<1> QED BY <1>1, <1>2, <1>3, <1>4 DEF Types

\* What unlinking does to the list.
LEMMA Unlinked ==
  ASSUME ListTypes, NEW s, Unlink(s)
  PROVE  /\ ListTypes'
         /\ \A x : In(x, subscriptionList') <=> Listed(x) /\ x # s
         /\ TotalSubscriptions' = TotalSubscriptions - 1
         /\ expired' = expired \ {s}
         /\ Distinct(subscriptionList) =>
              /\ Distinct(subscriptionList')
              /\ Len(subscriptionList') =
                   IF Listed(s) THEN Len(subscriptionList) - 1 ELSE Len(subscriptionList)
<1> DEFINE P == {i \in Places : subscriptionList[i] # s}
<1>1. subscriptionList \in Seq(Sids) /\ P \in SUBSET Places
  BY DEF ListTypes
<1>2. subscriptionList' \in Part(P)
  BY DEF Unlink
<1>3. /\ subscriptionList' \in Seq(Sids) /\ Len(subscriptionList') = Cardinality(P)
      /\ \A i \in DOMAIN subscriptionList' : \E j \in P : subscriptionList'[i] = subscriptionList[j]
      /\ \A j \in P : \E i \in DOMAIN subscriptionList' : subscriptionList'[i] = subscriptionList[j]
      /\ Distinct(subscriptionList) => Distinct(subscriptionList')
  BY <1>1, <1>2, PartFacts
<1>4. /\ TotalSubscriptions' = TotalSubscriptions - 1 /\ expired' = expired \ {s}
  BY DEF Unlink
<1>5. \A x : In(x, subscriptionList') <=> Listed(x) /\ x # s
  BY <1>3 DEF In, Listed, Places
<1>6. ListTypes'
  BY <1>3, <1>4 DEF ListTypes
<1>7. ASSUME Distinct(subscriptionList)
      PROVE  Cardinality(P) = IF Listed(s) THEN Len(subscriptionList) - 1 ELSE Len(subscriptionList)
  <2>1. /\ Places = 1..Len(subscriptionList) /\ Len(subscriptionList) \in Nat
        /\ IsFiniteSet(Places) /\ Cardinality(Places) = Len(subscriptionList)
    BY <1>1, PlacesFacts
  <2>2. CASE Listed(s)
    <3>1. PICK k \in Places : subscriptionList[k] = s
      BY <2>2 DEF Listed, In, Places
    <3>2. P = Places \ {k}
      BY <3>1, <1>7 DEF Distinct, Places
    <3> QED BY <2>1, <2>2, <3>1, <3>2, FS_RemoveElement
  <2>3. CASE ~Listed(s)
    <3>1. P = Places
      BY <2>3 DEF Listed, In, Places
    <3> QED BY <2>1, <2>3, <3>1
  <2> QED BY <2>2, <2>3
<1> QED BY <1>3, <1>4, <1>5, <1>6, <1>7
\* What a copy of the list without some of its members is.
LEMMA Swept ==
  ASSUME ListTypes, NEW gone, NEW rest \in Part({i \in Places : subscriptionList[i] \notin gone})
  PROVE  /\ rest \in Seq(Sids)
         /\ \A x : In(x, rest) <=> Listed(x) /\ x \notin gone
         /\ Distinct(subscriptionList) => Distinct(rest)
<1> DEFINE P == {i \in Places : subscriptionList[i] \notin gone}
<1>1. subscriptionList \in Seq(Sids) /\ P \in SUBSET Places
  BY DEF ListTypes
<1>2. /\ rest \in Seq(Sids)
      /\ \A i \in DOMAIN rest : \E j \in P : rest[i] = subscriptionList[j]
      /\ \A j \in P : \E i \in DOMAIN rest : rest[i] = subscriptionList[j]
      /\ Distinct(subscriptionList) => Distinct(rest)
  BY <1>1, PartFacts
<1>3. \A x : In(x, rest) <=> Listed(x) /\ x \notin gone
  BY <1>2 DEF In, Listed, Places
<1> QED BY <1>2, <1>3

\* The subscriptions an event is for.
LEMMA TargetFacts ==
  ASSUME ListTypes, NEW targets \in Targets
  PROVE  /\ targets \in Seq(Sids)
         /\ \A i \in DOMAIN targets :
              Listed(targets[i]) /\ targets[i] \notin expired /\ sub[targets[i]].active
         /\ Distinct(subscriptionList) => Distinct(targets)
<1> DEFINE P == {i \in Places : subscriptionList[i] \notin expired /\ sub[subscriptionList[i]].active}
<1>1. subscriptionList \in Seq(Sids) /\ P \in SUBSET Places
  BY DEF ListTypes
<1>2. targets \in Part(P)
  BY DEF Targets
<1>3. /\ targets \in Seq(Sids)
      /\ \A i \in DOMAIN targets : \E j \in P : targets[i] = subscriptionList[j]
      /\ Distinct(subscriptionList) => Distinct(targets)
  BY <1>1, <1>2, PartFacts
<1>4. \A j \in P : Listed(subscriptionList[j]) /\ subscriptionList[j] \notin expired
                     /\ sub[subscriptionList[j]].active
  BY DEF Listed, In, Places
<1> QED BY <1>3, <1>4

\* How many jobs are made for an event, and how many of them are taken.
LEMMA MadeFacts ==
  ASSUME QueueTypes, NEW targets \in Seq(Sids)
  PROVE  /\ Made(targets) \in Seq(Sids) /\ Taken(targets) \in Seq(Sids)
         /\ Room \in Nat
         /\ Len(Taken(targets)) <= Room /\ Len(Taken(targets)) <= Len(Made(targets))
         /\ Len(Made(targets)) <= Len(targets)
         /\ \A i \in DOMAIN Made(targets) : i \in DOMAIN targets /\ Made(targets)[i] = targets[i]
         /\ \A i \in DOMAIN Taken(targets) :
              i \in DOMAIN Made(targets) /\ Taken(targets)[i] = targets[i]
         /\ IF Len(targets) > Room
            THEN Len(Made(targets)) = Room + 1 /\ Len(Taken(targets)) = Room
            ELSE Made(targets) = targets /\ Taken(targets) = targets
<1>1. Room \in Nat /\ Len(targets) \in Nat
  BY KeyFacts DEF QueueTypes, Room
<1>2. CASE Len(targets) <= Room
  <2>1. Made(targets) = targets /\ Taken(targets) = targets
    BY <1>1, <1>2 DEF Made, Taken
  <2> QED BY <1>1, <1>2, <2>1
<1>3. CASE Len(targets) > Room
  <2>1. Made(targets) = SubSeq(targets, 1, Room + 1) /\ Taken(targets) = SubSeq(targets, 1, Room)
    BY <1>3 DEF Made, Taken
  <2>2. /\ Made(targets) \in Seq(Sids) /\ Len(Made(targets)) = Room + 1
        /\ \A i \in 1..Room + 1 : Made(targets)[i] = targets[i]
    BY <1>1, <1>3, <2>1
  <2>3. /\ Taken(targets) \in Seq(Sids) /\ Len(Taken(targets)) = Room
        /\ \A i \in 1..Room : Taken(targets)[i] = targets[i]
    BY <1>1, <1>3, <2>1
  <2>4. /\ DOMAIN Made(targets) = 1..Room + 1 /\ DOMAIN Taken(targets) = 1..Room
        /\ DOMAIN targets = 1..Len(targets)
    BY <2>2, <2>3
  <2>5. \A i \in 1..Room + 1 : i \in 1..Len(targets)
    BY <1>1, <1>3
  <2> QED BY <1>1, <1>3, <2>2, <2>3, <2>4, <2>5
<1> QED BY <1>1, <1>2, <1>3

\* The jobs an event adds to the pool.
JobsOf(queued, e) == [i \in DOMAIN queued |-> Job(queued[i], sub[queued[i]].eventKey, e)]

LEMMA JobsOfFacts ==
  ASSUME SubTypes, NEW queued \in Seq(Sids), NEW e \in Events
  PROVE  /\ JobsOf(queued, e) \in Seq(NotifyJob) /\ Len(JobsOf(queued, e)) = Len(queued)
         /\ \A i \in DOMAIN queued : JobsOf(queued, e)[i] = Job(queued[i], sub[queued[i]].eventKey, e)
<1>1. \A i \in DOMAIN queued : Job(queued[i], sub[queued[i]].eventKey, e) \in NotifyJob
  <2> TAKE i \in DOMAIN queued
  <2>1. queued[i] \in Sids
    OBVIOUS
  <2>2. sub[queued[i]].eventKey \in 0..MaxKey
    BY <2>1 DEF SubTypes, Keys
  <2> QED BY <2>1, <2>2 DEF Job, NotifyJob
<1>2. DOMAIN queued = 1..Len(queued) /\ Len(queued) \in Nat
  OBVIOUS
<1> QED BY <1>1, <1>2 DEF JobsOf

LEMMA NextKeyFacts ==
  /\ \A k \in 0..MaxKey : EventKeyAfter(k) \in 0..MaxKey /\ ToSendAfter(k) \in 0..MaxKey
  /\ MaxKey >= 1
BY KeyFacts DEF EventKeyAfter, ToSendAfter

\* Fields that change keep their types.
LEMMA KeysChange ==
  ASSUME NEW k \in Keys
  PROVE  /\ \A b \in BOOLEAN : /\ [k EXCEPT !.expires = b] \in Keys
                               /\ [k EXCEPT !.expires = b].eventKey = k.eventKey
                               /\ [k EXCEPT !.expires = b].ToSendEventKey = k.ToSendEventKey
                               /\ [k EXCEPT !.expires = b].active = k.active
         /\ \A n \in 0..MaxKey : /\ [k EXCEPT !.active = TRUE, !.eventKey = n] \in Keys
                                 /\ [k EXCEPT !.active = TRUE, !.eventKey = n].active = TRUE
BY DEF Keys

-----------------------------------------------------------------------------
(* Each action preserves the types *)

LEMMA LifeStepTypes ==
  ASSUME Types,
         \/ RegisterCall \/ dlnaRegisterRootDevice
         \/ genaUnregisterDevice \/ dlnaUnRegisterRootDevice
         \/ \E n \in Limits : dlnaSetMaxSubscriptions(n) \/ dlnaSetMaxSubscriptionTimeOut(n)
  PROVE  Types'
<1> USE KeyFacts
<1>1. UNCHANGED <<sub, used, callback, queue, workerVars, events, dataVars, feedVars, writer>>
  BY DEF RegisterCall, dlnaRegisterRootDevice, genaUnregisterDevice, dlnaUnRegisterRootDevice,
         dlnaSetMaxSubscriptions, dlnaSetMaxSubscriptionTimeOut, listVars
<1>2. (SubTypes /\ CallTypes /\ QueueTypes)'
  BY <1>1 DEF Types, SubTypes, CallTypes, QueueTypes
<1>3. (WorkerTypes /\ DataTypes /\ FeedTypes)'
  BY <1>1 DEF Types, WorkerTypes, DataTypes, FeedTypes, workerVars, dataVars, feedVars
<1>4. ListTypes'
  <2>1. CASE genaUnregisterDevice
    BY <2>1 DEF ListTypes, genaUnregisterDevice
  <2>2. ASSUME ~genaUnregisterDevice
        PROVE  UNCHANGED <<subscriptionList, TotalSubscriptions, expired>>
    BY <2>2 DEF listVars, RegisterCall, dlnaRegisterRootDevice, dlnaUnRegisterRootDevice,
           dlnaSetMaxSubscriptions, dlnaSetMaxSubscriptionTimeOut
  <2> QED BY <2>1, <2>2 DEF Types, ListTypes
<1>5. LifeTypes'
  <2>1. CASE RegisterCall
    BY <2>1, GenaAssumption DEF Types, LifeTypes, RegisterCall
  <2>2. CASE dlnaRegisterRootDevice
    BY <2>2 DEF Types, LifeTypes, dlnaRegisterRootDevice
  <2>3. CASE genaUnregisterDevice
    BY <2>3 DEF Types, LifeTypes, genaUnregisterDevice
  <2>4. CASE dlnaUnRegisterRootDevice
    BY <2>4 DEF Types, LifeTypes, dlnaUnRegisterRootDevice
  <2>5. ASSUME NEW n \in Limits, dlnaSetMaxSubscriptions(n)
        PROVE  LifeTypes'
    BY <2>5 DEF Types, LifeTypes, dlnaSetMaxSubscriptions
  <2>6. ASSUME NEW n \in Limits, dlnaSetMaxSubscriptionTimeOut(n)
        PROVE  LifeTypes'
    BY <2>6 DEF Types, LifeTypes, dlnaSetMaxSubscriptionTimeOut
  <2> QED BY <2>1, <2>2, <2>3, <2>4, <2>5, <2>6
<1> QED BY <1>2, <1>3, <1>4, <1>5 DEF Types
\* Counting the jobs of the next event.
LEMMA ShareTypes ==
  ASSUME Types, events < MaxEvents, NEW count \in Nat, Share(events + 1, count)
  PROVE  DataTypes' /\ events + 1 \in Events
<1>1. events \in Nat /\ events + 1 \in Events
  BY KeyFacts DEF Types, DataTypes, Events
<1>2. events' \in 0..MaxEvents
  BY <1>1 DEF Share, Events
<1>3. reference_count' \in [Events -> Int]
  BY <1>1 DEF Share, Types, DataTypes
<1>4. frees' \in [Events -> Nat]
  BY <1>1 DEF Share, Types, DataTypes
<1> QED BY <1>1, <1>2, <1>3, <1>4 DEF DataTypes

LEMMA NotifyAllTypes == Types /\ genaNotifyAll => Types'
<1> SUFFICES ASSUME Types, genaNotifyAll
             PROVE  Types'
  OBVIOUS
<1>1. PICK targets \in Targets :
         LET made   == Made(targets)
             queued == Taken(targets)
             gone   == Met(targets)
         IN  /\ Share(events + 1, Len(made))
             /\ queue' = queue \o JobsOf(queued, events + 1)
             /\ sub' = [s \in Sids |->
                          IF In(s, made) THEN [sub[s] EXCEPT !.eventKey = EventKeyAfter(@)] ELSE sub[s]]
             /\ accepted' = [s \in Sids |->
                               IF In(s, queued) THEN Append(accepted[s], events + 1) ELSE accepted[s]]
             /\ \E rest \in Part({i \in Places : subscriptionList[i] \notin gone}) :
                  subscriptionList' = rest
             /\ TotalSubscriptions' = TotalSubscriptions - Cardinality(gone)
             /\ expired' = expired \ gone
  BY DEF genaNotifyAll, JobsOf
<1>2. UNCHANGED <<writer, deviceVars, used, callback, workerVars, initial, sent>> /\ events < MaxEvents
  BY DEF genaNotifyAll
<1> DEFINE made == Made(targets)
           queued == Taken(targets)
           gone == Met(targets)
<1>3. /\ ListTypes /\ QueueTypes /\ SubTypes /\ FeedTypes /\ targets \in Seq(Sids)
      /\ \A i \in DOMAIN targets : sub[targets[i]].active
  BY TargetFacts DEF Types
<1>4. /\ made \in Seq(Sids) /\ queued \in Seq(Sids) /\ Room \in Nat
      /\ Len(queued) <= Room
      /\ \A i \in DOMAIN made : i \in DOMAIN targets /\ made[i] = targets[i]
      /\ \A i \in DOMAIN queued : i \in DOMAIN made /\ queued[i] = targets[i]
  BY <1>3, MadeFacts
<1> HIDE DEF made, queued, gone
<1>5. DataTypes' /\ events + 1 \in Events
  <2>1. Share(events + 1, Len(made)) /\ Len(made) \in Nat
    BY <1>1, <1>4 DEF made
  <2> QED BY <2>1, <1>2, ShareTypes
<1>6. QueueTypes'
  <2>1. queue' = queue \o JobsOf(queued, events + 1)
    BY <1>1 DEF queued
  <2>2. JobsOf(queued, events + 1) \in Seq(NotifyJob) /\ Len(JobsOf(queued, events + 1)) = Len(queued)
    BY <1>3, <1>4, <1>5, JobsOfFacts
  <2>3. queue \in Seq(NotifyJob) /\ Len(queue) + Len(queued) <= MaxJobs /\ Len(queued) \in Nat
    BY <1>3, <1>4, KeyFacts DEF QueueTypes, Room
  <2>4. ASSUME NEW jobs \in Seq(NotifyJob)
        PROVE  queue \o jobs \in Seq(NotifyJob) /\ Len(queue \o jobs) = Len(queue) + Len(jobs)
    BY <2>3, ConcatProperties
  <2>5. queue' \in Seq(NotifyJob) /\ Len(queue') = Len(queue) + Len(queued)
    BY <2>1, <2>2, <2>4
  <2> QED BY <2>3, <2>5 DEF QueueTypes
<1>7. SubTypes'
  <2>1. sub' = [s \in Sids |->
                  IF In(s, made) THEN [sub[s] EXCEPT !.eventKey = EventKeyAfter(@)] ELSE sub[s]]
    BY <1>1 DEF made
  <2>2. \A s \in Sids : In(s, made) => sub[s].active
    BY <1>3, <1>4 DEF In
  <2>3. \A s \in Sids : sub[s] \in Keys /\ (~sub[s].active => sub[s].eventKey = 0)
    BY <1>3 DEF SubTypes
  <2>4. \A s \in Sids : EventKeyAfter(sub[s].eventKey) \in 0..MaxKey
    BY <2>3, NextKeyFacts DEF Keys
  <2>5. ASSUME NEW s \in Sids
        PROVE  sub'[s] \in Keys /\ (~sub'[s].active => sub'[s].eventKey = 0)
    <3>1. CASE In(s, made)
      <4>1. sub'[s] = [sub[s] EXCEPT !.eventKey = EventKeyAfter(sub[s].eventKey)]
        BY <2>1, <3>1
      <4> QED BY <4>1, <2>2, <2>3, <2>4, <3>1 DEF Keys
    <3>2. CASE ~In(s, made)
      <4>1. sub'[s] = sub[s]
        BY <2>1, <3>2
      <4> QED BY <4>1, <2>3
    <3> QED BY <3>1, <3>2
  <2> QED BY <2>1, <2>5 DEF SubTypes
<1>8. ListTypes'
  <2>1. subscriptionList' \in Part({i \in Places : subscriptionList[i] \notin gone})
    BY <1>1 DEF gone
  <2>2. subscriptionList' \in Seq(Sids)
    BY <2>1, <1>3, Swept
  <2>3. expired' \subseteq Sids
    BY <1>1, <1>3 DEF ListTypes
  <2>4. TotalSubscriptions' = TotalSubscriptions - Cardinality(gone) /\ TotalSubscriptions \in Int
    BY <1>1, <1>3 DEF gone, ListTypes
  <2>5. Cardinality(gone) \in Nat
    <3>1. gone \subseteq {subscriptionList[i] : i \in Places}
      BY DEF gone, Met
    <3>2. subscriptionList \in Seq(Sids) /\ Places \in SUBSET Places
      BY <1>3 DEF ListTypes
    <3>3. IsFiniteSet({subscriptionList[i] : i \in Places})
      BY <3>2, MembersFacts
    <3> QED BY <3>1, <3>3, FS_Subset, FS_CardinalityType
  <2> QED BY <2>2, <2>3, <2>4, <2>5 DEF ListTypes
<1>9. FeedTypes'
  <2>1. accepted' = [s \in Sids |->
                       IF In(s, queued) THEN Append(accepted[s], events + 1) ELSE accepted[s]]
    BY <1>1 DEF queued
  <2>2. accepted' \in [Sids -> Seq(Events)]
    BY <2>1, <1>3, <1>5 DEF FeedTypes
  <2> QED BY <2>2, <1>2, <1>3 DEF FeedTypes
<1>10. (LifeTypes /\ CallTypes /\ WorkerTypes)'
  BY <1>2 DEF Types, LifeTypes, CallTypes, WorkerTypes, deviceVars, workerVars
<1> QED BY <1>5, <1>6, <1>7, <1>8, <1>9, <1>10 DEF Types
\* What looking up a subscription does to the list: it unlinks an expired one.
LEMMA LookUpTypes ==
  ASSUME Types, NEW s, Unlink(s) \/ GetSubscriptionSID(s)
  PROVE  ListTypes'
<1>1. CASE Unlink(s)
  BY <1>1, Unlinked DEF Types
<1>2. CASE UNCHANGED <<subscriptionList, TotalSubscriptions, expired>>
  BY <1>2 DEF Types, ListTypes
<1> QED BY <1>1, <1>2 DEF GetSubscriptionSID

LEMMA AcceptTypes ==
  ASSUME Types, NEW r \in Receivers, AcceptSubscription(r)
  PROVE  Types'
<1> DEFINE s == callback[r]
<1>1. /\ s \in Sids /\ callback' = [callback EXCEPT ![r] = NULL] /\ Unlock
      /\ UNCHANGED <<deviceVars, used, workerVars>>
  BY DEF AcceptSubscription, Types, CallTypes
<1>2. (LifeTypes /\ CallTypes /\ WorkerTypes)'
  BY <1>1 DEF Types, LifeTypes, CallTypes, WorkerTypes, deviceVars, workerVars, Unlock
<1>3. \/ /\ GetSubscriptionSID(s) /\ UNCHANGED <<sub, queue, events, dataVars, feedVars>>
      \/ /\ ~sub[s].active /\ events < MaxEvents
         /\ sub' = [sub EXCEPT ![s].active = TRUE, ![s].eventKey = @ + 1]
         /\ IF Room > 0
            THEN /\ Share(events + 1, 1)
                 /\ queue' = Append(queue, Job(s, sub[s].eventKey, events + 1))
                 /\ initial' = [initial EXCEPT ![s] = events + 1]
                 /\ accepted' = [accepted EXCEPT ![s] = Append(@, events + 1)]
            ELSE /\ Share(events + 1, 0)
                 /\ UNCHANGED <<queue, initial, accepted>>
         /\ UNCHANGED <<subscriptionList, TotalSubscriptions, expired, sent>>
  BY DEF AcceptSubscription
<1> HIDE DEF s
<1>4. CASE GetSubscriptionSID(s) /\ UNCHANGED <<sub, queue, events, dataVars, feedVars>>
  <2>1. ListTypes'
    BY <1>4, LookUpTypes
  <2>2. (SubTypes /\ QueueTypes /\ DataTypes /\ FeedTypes)'
    BY <1>4 DEF Types, SubTypes, QueueTypes, DataTypes, FeedTypes, dataVars, feedVars
  <2> QED BY <1>2, <2>1, <2>2 DEF Types
<1>5. ASSUME /\ ~sub[s].active /\ events < MaxEvents
             /\ sub' = [sub EXCEPT ![s].active = TRUE, ![s].eventKey = @ + 1]
             /\ IF Room > 0
                THEN /\ Share(events + 1, 1)
                     /\ queue' = Append(queue, Job(s, sub[s].eventKey, events + 1))
                     /\ initial' = [initial EXCEPT ![s] = events + 1]
                     /\ accepted' = [accepted EXCEPT ![s] = Append(@, events + 1)]
                ELSE /\ Share(events + 1, 0)
                     /\ UNCHANGED <<queue, initial, accepted>>
             /\ UNCHANGED <<subscriptionList, TotalSubscriptions, expired, sent>>
      PROVE  Types'
  <2>1. DataTypes' /\ events + 1 \in Events
    BY <1>5, ShareTypes
  <2>2. sub \in [Sids -> Keys] /\ sub[s].eventKey = 0
    BY <1>1, <1>5 DEF Types, SubTypes
  <2>3. SubTypes'
    <3>1. sub'[s] = [sub[s] EXCEPT !.active = TRUE, !.eventKey = @ + 1] /\ sub[s] \in Keys
      BY <1>1, <1>5, <2>2
    <3>2. sub'[s] \in Keys /\ sub'[s].active = TRUE
      <4>1. PICK n \in 0..MaxKey : n = sub[s].eventKey + 1
        BY <2>2, KeyFacts
      <4>2. sub'[s] = [sub[s] EXCEPT !.active = TRUE, !.eventKey = n]
        BY <3>1, <4>1
      <4>3. sub[s] \in Keys
        BY <3>1
      <4>4. sub'[s] \in Keys
        BY <4>2, <4>3, KeysChange
      <4>5. sub'[s].active = TRUE
        BY <4>2, <4>3, KeysChange
      <4> QED BY <4>4, <4>5
    <3>3. \A x \in Sids : x # s => sub'[x] = sub[x]
      BY <1>5, <2>2
    <3>4. \A x \in Sids : sub[x] \in Keys /\ (~sub[x].active => sub[x].eventKey = 0)
      BY DEF Types, SubTypes
    <3>5. sub' = [x \in Sids |-> sub'[x]]
      BY <1>5, <2>2
    <3> QED BY <3>2, <3>3, <3>4, <3>5 DEF SubTypes
  <2>4. ListTypes'
    BY <1>5 DEF Types, ListTypes
  <2>5. CASE Room > 0
    <3>1. Job(s, sub[s].eventKey, events + 1) \in NotifyJob
      BY <1>1, <2>1, <2>2, KeyFacts DEF Job, NotifyJob
    <3>2. queue' = Append(queue, Job(s, sub[s].eventKey, events + 1)) /\ queue \in Seq(NotifyJob)
      BY <1>5, <2>5 DEF Types, QueueTypes
    <3>3. queue' \in Seq(NotifyJob) /\ Len(queue') = Len(queue) + 1
      BY <3>1, <3>2, AppendProperties
    <3>4. QueueTypes'
      BY <2>5, <3>2, <3>3, KeyFacts DEF Room, QueueTypes
    <3>5. events + 1 \in 0..MaxEvents
      BY <2>1 DEF Events
    <3>6. FeedTypes'
      <4>1. /\ initial \in [Sids -> 0..MaxEvents] /\ accepted \in [Sids -> Seq(Events)]
            /\ sent \in [Sids -> Seq(Events)]
        BY DEF Types, FeedTypes
      <4>2. /\ initial' = [initial EXCEPT ![s] = events + 1]
            /\ accepted' = [accepted EXCEPT ![s] = Append(accepted[s], events + 1)] /\ sent' = sent
        BY <1>5, <2>5
      <4>3. Append(accepted[s], events + 1) \in Seq(Events)
        BY <1>1, <2>1, <4>1, AppendProperties
      <4>4. initial' \in [Sids -> 0..MaxEvents]
        BY <1>1, <3>5, <4>1, <4>2
      <4>5. accepted' \in [Sids -> Seq(Events)]
        BY <1>1, <4>1, <4>2, <4>3
      <4> QED BY <4>1, <4>2, <4>4, <4>5 DEF FeedTypes
    <3> QED BY <1>2, <2>1, <2>3, <2>4, <3>4, <3>6 DEF Types
  <2>6. CASE ~(Room > 0)
    <3>1. (QueueTypes /\ FeedTypes)'
      BY <1>5, <2>6 DEF Types, QueueTypes, FeedTypes
    <3> QED BY <1>2, <2>1, <2>3, <2>4, <3>1 DEF Types
  <2> QED BY <2>5, <2>6
<1> QED BY <1>3, <1>4, <1>5

LEMMA SubscribeTypes ==
  ASSUME Types, NEW r \in Receivers, NEW s \in Sids, NEW t \in Limits, Subscribe(r, s, t)
  PROVE  Types'
<1>1. /\ Unlock /\ UNCHANGED <<deviceVars, queue, workerVars, events, dataVars, feedVars>>
  BY DEF Subscribe
<1>2. (LifeTypes /\ QueueTypes /\ WorkerTypes /\ DataTypes /\ FeedTypes)'
  BY <1>1 DEF Types, LifeTypes, QueueTypes, WorkerTypes, DataTypes, FeedTypes, deviceVars,
              workerVars, dataVars, feedVars, Unlock
<1>3. CASE UNCHANGED <<listVars, used, callback>>
  BY <1>2, <1>3 DEF Types, ListTypes, SubTypes, CallTypes, listVars
<1>4. ASSUME /\ used' = used \cup {s}
             /\ sub' = [sub EXCEPT ![s] = [NewSub EXCEPT !.expires = Expires(t)]]
             /\ subscriptionList' = <<s>> \o subscriptionList
             /\ TotalSubscriptions' = TotalSubscriptions + 1
             /\ callback' = [callback EXCEPT ![r] = s]
             /\ UNCHANGED expired
      PROVE  Types'
  <2>1. ListTypes'
    <3>1. <<s>> \in Seq(Sids) /\ subscriptionList \in Seq(Sids)
      BY DEF Types, ListTypes
    <3>2. subscriptionList' \in Seq(Sids)
      BY <1>4, <3>1, ConcatProperties
    <3> QED BY <1>4, <3>2 DEF Types, ListTypes
  <2>2. SubTypes'
    <3>1. [NewSub EXCEPT !.expires = Expires(t)] \in Keys
      <4>1. Expires(t) \in BOOLEAN
        BY DEF Expires
      <4>2. 0 \in 0..MaxKey
        BY KeyFacts
      <4>3. NewSub \in Keys
        BY <4>2 DEF NewSub, Keys
      <4> QED BY <4>1, <4>3, KeysChange
    <3>2. [NewSub EXCEPT !.expires = Expires(t)].eventKey = 0
      BY DEF NewSub
    <3> QED BY <1>4, <3>1, <3>2 DEF Types, SubTypes
  <2>3. CallTypes'
    BY <1>4 DEF Types, CallTypes
  <2> QED BY <1>2, <2>1, <2>2, <2>3 DEF Types
<1> QED BY <1>3, <1>4 DEF Subscribe

LEMMA RequestTypes ==
  ASSUME Types, NEW r \in Receivers, NEW s \in Sids, NEW t,
         Renew(r, s, t) \/ Unsubscribe(r, s)
  PROVE  Types'
<1>1. UNCHANGED <<deviceVars, used, callback, queue, workerVars, events, dataVars, feedVars>>
  BY DEF Renew, Unsubscribe
<1>2. (CallTypes /\ QueueTypes /\ WorkerTypes /\ DataTypes /\ FeedTypes)'
  BY <1>1 DEF Types, CallTypes, QueueTypes, WorkerTypes, DataTypes, FeedTypes, workerVars,
              dataVars, feedVars
<1>3. LifeTypes'
  BY <1>1 DEF Types, LifeTypes, deviceVars, Renew, Unsubscribe, Unlock
<1>4. SubTypes'
  <2>1. CASE UNCHANGED sub
    BY <2>1 DEF Types, SubTypes
  <2>2. ASSUME sub' = [sub EXCEPT ![s].expires = Expires(t)]
        PROVE  SubTypes'
    <3>1. Expires(t) \in BOOLEAN
      BY DEF Expires
    <3> QED BY <2>2, <3>1 DEF Types, SubTypes, Keys
  <2>3. \/ UNCHANGED sub \/ sub' = [sub EXCEPT ![s].expires = Expires(t)]
    BY DEF Renew, Unsubscribe, listVars
  <2> QED BY <2>1, <2>2, <2>3
<1>5. ListTypes'
  <2>1. CASE Unlink(s) \/ GetSubscriptionSID(s)
    BY <2>1, LookUpTypes
  <2>2. CASE UNCHANGED <<subscriptionList, TotalSubscriptions, expired>>
    BY <2>2 DEF Types, ListTypes
  <2>3. \/ Unlink(s) \/ GetSubscriptionSID(s)
        \/ UNCHANGED <<subscriptionList, TotalSubscriptions, expired>>
    BY DEF Renew, Unsubscribe, listVars
  <2> QED BY <2>1, <2>2, <2>3
<1> QED BY <1>2, <1>3, <1>4, <1>5 DEF Types

LEMMA ExpireTypes ==
  ASSUME Types, NEW s \in Sids, Expire(s)
  PROVE  Types'
<1>1. (LifeTypes /\ SubTypes /\ CallTypes /\ QueueTypes)'
  BY DEF Expire, Types, LifeTypes, SubTypes, CallTypes, QueueTypes, deviceVars
<1>2. (WorkerTypes /\ DataTypes /\ FeedTypes)'
  BY DEF Expire, Types, WorkerTypes, DataTypes, FeedTypes, workerVars, dataVars, feedVars
<1>3. ListTypes'
  BY DEF Expire, Types, ListTypes
<1> QED BY <1>1, <1>2, <1>3 DEF Types

\* What a thread takes on or gives up.
LEMMA EndsTypes ==
  ASSUME Types, NEW w \in Workers, Ends(w), wcount' \in [Workers -> Int]
  PROVE  WorkerTypes'
<1>1. /\ wpc' = [wpc EXCEPT ![w] = "idle"] /\ wjob' = [wjob EXCEPT ![w] = NoJob]
      /\ wpc \in [Workers -> WorkerPcs] /\ wjob \in [Workers -> NotifyJob \cup {NoJob}]
  BY DEF Ends, Goes, Types, WorkerTypes
<1>2. "idle" \in WorkerPcs
  BY DEF WorkerPcs
<1>3. wpc' \in [Workers -> WorkerPcs] /\ wjob' \in [Workers -> NotifyJob \cup {NoJob}]
  BY <1>1, <1>2
<1>4. \A v \in Workers : IF v = w THEN wpc'[v] = "idle" /\ wjob'[v] = NoJob
                         ELSE wpc'[v] = wpc[v] /\ wjob'[v] = wjob[v]
  BY <1>1
<1> QED BY <1>3, <1>4 DEF Types, WorkerTypes

LEMMA GoesTypes ==
  ASSUME Types, NEW w \in Workers, NEW pc \in WorkerPcs, Goes(w, pc), pc # "idle",
         wpc[w] # "idle", UNCHANGED wjob, wcount' \in [Workers -> Int]
  PROVE  WorkerTypes'
<1>1. /\ wpc' = [wpc EXCEPT ![w] = pc] /\ wjob' = wjob /\ wpc \in [Workers -> WorkerPcs]
  BY DEF Goes, Types, WorkerTypes
<1>2. wpc' \in [Workers -> WorkerPcs]
  BY <1>1
<1>3. \A v \in Workers : IF v = w THEN wpc'[v] = pc ELSE wpc'[v] = wpc[v]
  BY <1>1
<1> QED BY <1>1, <1>2, <1>3 DEF Types, WorkerTypes

LEMMA StartTypes ==
  ASSUME Types, NEW w \in Workers, NotifyStart(w)
  PROVE  Types'
<1>1. /\ wpc[w] = "idle" /\ queue # <<>>
      /\ wpc' = [wpc EXCEPT ![w] = "started"] /\ wjob' = [wjob EXCEPT ![w] = Head(queue)]
      /\ queue' = Tail(queue)
      /\ UNCHANGED <<writer, deviceVars, listVars, used, callback, wcount, events, dataVars, feedVars>>
  BY DEF NotifyStart, Goes
<1>2. (LifeTypes /\ ListTypes /\ SubTypes /\ CallTypes /\ DataTypes /\ FeedTypes)'
  BY <1>1 DEF Types, LifeTypes, ListTypes, SubTypes, CallTypes, DataTypes, FeedTypes, deviceVars,
              listVars, dataVars, feedVars
<1>3. /\ queue \in Seq(NotifyJob) /\ Len(queue) \in Nat /\ Len(queue) <= MaxJobs
      /\ Head(queue) \in NotifyJob /\ Tail(queue) \in Seq(NotifyJob)
      /\ Len(Tail(queue)) = Len(queue) - 1
  BY <1>1, HeadTailProperties DEF Types, QueueTypes
<1>4. QueueTypes'
  BY <1>1, <1>3, KeyFacts DEF QueueTypes
<1>5. WorkerTypes'
  <2>1. wpc \in [Workers -> WorkerPcs] /\ wjob \in [Workers -> NotifyJob \cup {NoJob}]
    BY DEF Types, WorkerTypes
  <2>2. "started" \in WorkerPcs
    BY DEF WorkerPcs
  <2>3. wpc' \in [Workers -> WorkerPcs] /\ wjob' \in [Workers -> NotifyJob \cup {NoJob}]
    BY <1>1, <1>3, <2>1, <2>2
  <2>4. \A v \in Workers : IF v = w THEN wpc'[v] = "started" /\ wjob'[v] = Head(queue)
                           ELSE wpc'[v] = wpc[v] /\ wjob'[v] = wjob[v]
    BY <1>1, <2>1
  <2> QED BY <1>1, <1>3, <2>3, <2>4 DEF Types, WorkerTypes
<1> QED BY <1>2, <1>4, <1>5 DEF Types

\* The job of a busy thread.
LEMMA BusyFacts ==
  ASSUME Types, NEW w \in Workers, wpc[w] # "idle"
  PROVE  wjob[w] \in NotifyJob /\ wjob[w].sid \in Sids /\ wjob[w].event \in Events
           /\ wjob[w].eventKey \in 0..MaxKey
BY DEF Types, WorkerTypes, NotifyJob

LEMMA ReadTypes ==
  ASSUME Types, NEW w \in Workers, ReadSection(w)
  PROVE  Types'
<1>1. wpc[w] # "idle" /\ wcount \in [Workers -> Int] /\ reference_count \in [Events -> Int]
  BY DEF ReadSection, NotifyLook, NotifyExpire, NotifyCopy, UnrefLoad, UnrefStore, UnrefTest,
         Types, WorkerTypes, DataTypes
<1>2. wjob[w] \in NotifyJob /\ wjob[w].sid \in Sids /\ wjob[w].event \in Events
  BY <1>1, BusyFacts
<1>3. UNCHANGED <<writer, deviceVars, sub, used, callback, events, initial, accepted>>
  BY DEF ReadSection, NotifyLook, NotifyExpire, NotifyCopy, UnrefLoad, UnrefStore, UnrefTest,
         listVars, feedVars
<1>4. (LifeTypes /\ SubTypes /\ CallTypes)'
  BY <1>3 DEF Types, LifeTypes, SubTypes, CallTypes, deviceVars
<1>5. CASE NotifyLook(w)
  <2>1. UNCHANGED <<listVars, queue, wjob, wcount, events, dataVars, feedVars>>
    BY <1>5 DEF NotifyLook
  <2>2. (ListTypes /\ QueueTypes /\ DataTypes /\ FeedTypes)'
    BY <2>1 DEF Types, ListTypes, QueueTypes, DataTypes, FeedTypes, listVars, dataVars, feedVars
  <2>3. PICK pc \in {"drop", "expired", "found"} : Goes(w, pc)
    BY <1>5 DEF NotifyLook
  <2>4. pc \in WorkerPcs /\ pc # "idle"
    BY DEF WorkerPcs, ReadPcs
  <2>5. WorkerTypes'
    BY <1>1, <2>1, <2>3, <2>4, GoesTypes
  <2> QED BY <1>4, <2>2, <2>5 DEF Types
<1>6. CASE NotifyExpire(w)
  <2>1. UNCHANGED <<queue, wjob, wcount, events, dataVars, feedVars>> /\ Goes(w, "drop")
    BY <1>6 DEF NotifyExpire
  <2>2. (QueueTypes /\ DataTypes /\ FeedTypes)'
    BY <2>1 DEF Types, QueueTypes, DataTypes, FeedTypes, dataVars, feedVars
  <2>3. "drop" \in WorkerPcs
    BY DEF WorkerPcs, ReadPcs
  <2>4. WorkerTypes'
    BY <1>1, <2>1, <2>3, GoesTypes
  <2>5. ListTypes'
    <3>1. CASE Unlink(wjob[w].sid)
      BY <3>1, LookUpTypes
    <3>2. CASE TotalSubscriptions' = TotalSubscriptions - 1 /\ UNCHANGED <<subscriptionList, expired>>
      BY <3>2 DEF Types, ListTypes
    <3> QED BY <1>6, <3>1, <3>2 DEF NotifyExpire
  <2> QED BY <1>4, <2>2, <2>4, <2>5 DEF Types
<1>7. CASE NotifyCopy(w)
  <2>1. UNCHANGED <<listVars, wcount, events, dataVars, initial, accepted>>
    BY <1>7 DEF NotifyCopy
  <2>2. (ListTypes /\ DataTypes)'
    BY <2>1 DEF Types, ListTypes, DataTypes, listVars, dataVars
  <2>3. CASE /\ Ends(w)
             /\ queue' = IF Room > 0 THEN Append(queue, wjob[w]) ELSE queue
             /\ UNCHANGED sent
    <3>1. WorkerTypes'
      BY <1>1, <2>1, <2>3, EndsTypes
    <3>2. QueueTypes'
      <4>1. CASE Room > 0
        <5>1. queue' = Append(queue, wjob[w]) /\ queue \in Seq(NotifyJob) /\ Len(queue) <= MaxJobs
          BY <2>3, <4>1 DEF Types, QueueTypes
        <5>2. queue' \in Seq(NotifyJob) /\ Len(queue') = Len(queue) + 1 /\ Len(queue) \in Nat
          BY <1>2, <5>1, AppendProperties
        <5> QED BY <4>1, <5>2, KeyFacts DEF Room, QueueTypes
      <4>2. CASE ~(Room > 0)
        BY <2>3, <4>2 DEF Types, QueueTypes
      <4> QED BY <4>1, <4>2
    <3>3. FeedTypes'
      BY <2>1, <2>3 DEF Types, FeedTypes
    <3> QED BY <1>4, <2>2, <3>1, <3>2, <3>3 DEF Types
  <2>4. CASE /\ Goes(w, "sending") /\ UNCHANGED wjob
             /\ sent' = [sent EXCEPT ![wjob[w].sid] = Append(@, wjob[w].event)]
             /\ UNCHANGED queue
    <3>1. "sending" \in WorkerPcs
      BY DEF WorkerPcs
    <3>2. WorkerTypes'
      BY <1>1, <2>1, <2>4, <3>1, GoesTypes
    <3>3. sent \in [Sids -> Seq(Events)]
      BY DEF Types, FeedTypes
    <3>4. Append(sent[wjob[w].sid], wjob[w].event) \in Seq(Events)
      BY <1>2, <3>3, AppendProperties
    <3>5. sent' \in [Sids -> Seq(Events)]
      BY <1>2, <2>4, <3>3, <3>4
    <3>6. (FeedTypes /\ QueueTypes)'
      BY <2>1, <2>4, <3>5 DEF Types, FeedTypes, QueueTypes
    <3> QED BY <1>4, <2>2, <3>2, <3>6 DEF Types
  <2> QED BY <1>7, <2>3, <2>4 DEF NotifyCopy
<1>8. CASE UnrefLoad(w)
  <2>1. /\ wcount' = [wcount EXCEPT ![w] = reference_count[wjob[w].event] - 1]
        /\ Goes(w, "store")
        /\ UNCHANGED <<listVars, queue, wjob, events, dataVars, feedVars>>
    BY <1>8 DEF UnrefLoad
  <2>2. (ListTypes /\ QueueTypes /\ DataTypes /\ FeedTypes)'
    BY <2>1 DEF Types, ListTypes, QueueTypes, DataTypes, FeedTypes, listVars, dataVars, feedVars
  <2>3. reference_count[wjob[w].event] - 1 \in Int /\ "store" \in WorkerPcs
    BY <1>1, <1>2 DEF WorkerPcs, ReadPcs
  <2>4. wcount' \in [Workers -> Int]
    BY <1>1, <2>1, <2>3
  <2>5. WorkerTypes'
    BY <1>1, <2>1, <2>3, <2>4, GoesTypes
  <2> QED BY <1>4, <2>2, <2>5 DEF Types
<1>9. CASE UnrefStore(w)
  <2>1. /\ reference_count' = [reference_count EXCEPT ![wjob[w].event] = wcount[w]]
        /\ Goes(w, "test")
        /\ UNCHANGED <<listVars, queue, wjob, wcount, events, frees, feedVars>>
    BY <1>9 DEF UnrefStore
  <2>2. (ListTypes /\ QueueTypes /\ FeedTypes)'
    BY <2>1 DEF Types, ListTypes, QueueTypes, FeedTypes, listVars, feedVars
  <2>3. wcount[w] \in Int /\ "test" \in WorkerPcs
    BY <1>1 DEF WorkerPcs, ReadPcs
  <2>4. DataTypes'
    BY <1>1, <1>2, <2>1, <2>3 DEF Types, DataTypes
  <2>5. WorkerTypes'
    BY <1>1, <2>1, <2>3, GoesTypes
  <2> QED BY <1>4, <2>2, <2>4, <2>5 DEF Types
<1>10. CASE UnrefTest(w)
  <2>1. /\ Ends(w) /\ wcount' = [wcount EXCEPT ![w] = 0]
        /\ UNCHANGED <<listVars, queue, events, reference_count, feedVars>>
    BY <1>10 DEF UnrefTest
  <2>2. (ListTypes /\ QueueTypes /\ FeedTypes)'
    BY <2>1 DEF Types, ListTypes, QueueTypes, FeedTypes, listVars, feedVars
  <2>3. PICK count \in {wcount[w], reference_count[wjob[w].event]} :
          frees' = [frees EXCEPT ![wjob[w].event] = IF count = 0 THEN @ + 1 ELSE @]
    BY <1>10 DEF UnrefTest
  <2>4. DataTypes'
    BY <1>2, <2>1, <2>3 DEF Types, DataTypes
  <2>5. wcount' \in [Workers -> Int]
    BY <1>1, <2>1
  <2>6. WorkerTypes'
    BY <2>1, <2>5, EndsTypes
  <2> QED BY <1>4, <2>2, <2>4, <2>6 DEF Types
<1> QED BY <1>5, <1>6, <1>7, <1>8, <1>9, <1>10 DEF ReadSection

LEMMA SentTypes ==
  ASSUME Types, NEW w \in Workers, NEW gone \in BOOLEAN, NotifySent(w, gone)
  PROVE  Types'
<1> DEFINE s == wjob[w].sid
           e == wjob[w].event
<1>1. /\ wpc[w] = "sending" /\ Ends(w)
      /\ UNCHANGED <<writer, deviceVars, used, callback, queue, wcount, events, feedVars>>
  BY DEF NotifySent
<1>2. s \in Sids /\ e \in Events
  BY <1>1, BusyFacts
<1>3. (LifeTypes /\ CallTypes /\ QueueTypes /\ FeedTypes)'
  BY <1>1 DEF Types, LifeTypes, CallTypes, QueueTypes, FeedTypes, deviceVars, feedVars
<1>4. WorkerTypes'
  <2>1. wcount' \in [Workers -> Int]
    BY <1>1 DEF Types, WorkerTypes
  <2> QED BY <1>1, <2>1, EndsTypes
<1>5. ListTypes'
  <2>1. \/ GetSubscriptionSID(s) \/ Unlink(s)
        \/ UNCHANGED <<subscriptionList, TotalSubscriptions, expired>>
    BY DEF NotifySent
  <2>2. CASE UNCHANGED <<subscriptionList, TotalSubscriptions, expired>>
    BY <2>2 DEF Types, ListTypes
  <2> QED BY <2>1, <2>2, LookUpTypes
<1>6. SubTypes'
  <2>1. \/ UNCHANGED sub
        \/ sub' = [sub EXCEPT ![s].ToSendEventKey = ToSendAfter(@)]
    BY DEF NotifySent
  <2>2. CASE UNCHANGED sub
    BY <2>2 DEF Types, SubTypes
  <2>3. ASSUME sub' = [sub EXCEPT ![s].ToSendEventKey = ToSendAfter(@)]
        PROVE  SubTypes'
    <3>1. /\ sub \in [Sids -> Keys] /\ \A x \in Sids : ~sub[x].active => sub[x].eventKey = 0
      BY DEF Types, SubTypes
    <3>2. PICK n \in 0..MaxKey : n = ToSendAfter(sub[s].ToSendEventKey)
      BY <1>2, <3>1, NextKeyFacts DEF Keys
    <3>3. sub' = [sub EXCEPT ![s] = [sub[s] EXCEPT !.ToSendEventKey = n]]
      BY <2>3, <3>2
    <3>4. /\ [sub[s] EXCEPT !.ToSendEventKey = n] \in Keys
          /\ [sub[s] EXCEPT !.ToSendEventKey = n].eventKey = sub[s].eventKey
          /\ [sub[s] EXCEPT !.ToSendEventKey = n].active = sub[s].active
      BY <1>2, <3>1, <3>2 DEF Keys
    <3> QED BY <1>2, <3>1, <3>3, <3>4 DEF SubTypes
  <2> QED BY <2>1, <2>2, <2>3
<1>7. DataTypes'
  <2>1. /\ reference_count' = [reference_count EXCEPT ![e] = @ - 1]
        /\ frees' = [frees EXCEPT ![e] = IF reference_count[e] = 1 THEN @ + 1 ELSE @]
    BY DEF NotifySent
  <2> QED BY <1>1, <1>2, <2>1 DEF Types, DataTypes
<1> QED BY <1>3, <1>4, <1>5, <1>6, <1>7 DEF Types

LEMMA StepTypes == Types /\ [Next]_vars => Types'
<1> SUFFICES ASSUME Types, [Next]_vars
             PROVE  Types'
  OBVIOUS
<1>1. CASE UNCHANGED vars
  BY <1>1 DEF Types, LifeTypes, ListTypes, SubTypes, CallTypes, QueueTypes, WorkerTypes, DataTypes,
              FeedTypes, vars, deviceVars, listVars, workerVars, dataVars, feedVars
<1>2. CASE Next
  <2>1. CASE \/ RegisterCall \/ dlnaRegisterRootDevice
             \/ genaUnregisterDevice \/ dlnaUnRegisterRootDevice
             \/ \E n \in Limits : dlnaSetMaxSubscriptions(n) \/ dlnaSetMaxSubscriptionTimeOut(n)
    BY <2>1, LifeStepTypes
  <2>2. CASE genaNotifyAll
    BY <2>2, NotifyAllTypes
  <2>3. ASSUME NEW r \in Receivers, AcceptSubscription(r)
        PROVE  Types'
    BY <2>3, AcceptTypes
  <2>4. ASSUME NEW r \in Receivers, NEW s \in Sids, NEW t \in Limits, Subscribe(r, s, t) \/ Renew(r, s, t)
        PROVE  Types'
    BY <2>4, SubscribeTypes, RequestTypes
  <2>5. ASSUME NEW r \in Receivers, NEW s \in Sids, Unsubscribe(r, s)
        PROVE  Types'
    BY <2>5, RequestTypes
  <2>6. ASSUME NEW s \in Sids, Expire(s)
        PROVE  Types'
    BY <2>6, ExpireTypes
  <2>7. ASSUME NEW w \in Workers, NotifyStart(w) \/ ReadSection(w)
        PROVE  Types'
    BY <2>7, StartTypes, ReadTypes
  <2>8. ASSUME NEW w \in Workers, NEW gone \in BOOLEAN, NotifySent(w, gone)
        PROVE  Types'
    BY <2>8, SentTypes
  <2> QED BY <1>2, <2>1, <2>2, <2>3, <2>4, <2>5, <2>6, <2>7, <2>8 DEF Next
<1> QED BY <1>1, <1>2

LEMMA TypesInvariant == Spec => []Types
<1> QED BY InitTypes, StepTypes, PTL DEF Spec

\* Every variable keeps its type whatever is requested, published and sent, and however
\* often: the keys never pass INT_MAX, and the pool never holds more than its jobs.
THEOREM TypesHold == Spec => []TypeOK
<1> QED BY TypesInvariant, TypesSuffice, PTL
-----------------------------------------------------------------------------
(* The subscription list *)

\* No notify thread removes an expired subscription, which it does under the read
\* lock (GetSubscriptionSID, service_table.c:79), while another reader holds its node.
RemovesAlone ==
  \A v, w \in Workers :
    wpc[v] = "expired" /\ wpc[w] \in {"found", "expired"} /\ wjob[v].sid = wjob[w].sid => v = w

ListOK ==
  /\ Distinct(subscriptionList)
  /\ TotalSubscriptions = Len(subscriptionList)
  /\ subscriptionList # <<>> => device = "registered"
  /\ \A s \in expired : Listed(s)
  /\ \A s : Listed(s) => s \in used

AppOK ==
  /\ app = "unregistering" => device = "serviceless"
  /\ app = "registering" => device = "none"

ReadersOK ==
  \A w \in Workers :
    /\ wpc[w] = "found" => Listed(wjob[w].sid)
    /\ wpc[w] = "expired" => wjob[w].sid \in expired

\* Who is listed is counted, once; and what a reader has found stays in the list until
\* it is done, since writers wait for readers.
ListInv == ListOK /\ AppOK /\ ReadersOK

LEMMA ListInvSuffices == ListInv => SubscriptionsCounted /\ NodeStaysValid
BY DEF ListInv, ListOK, ReadersOK, SubscriptionsCounted, NodeStaysValid, Distinct

LEMMA InitList == Init => ListInv
<1> SUFFICES ASSUME Init
             PROVE  ListInv
  OBVIOUS
<1>1. subscriptionList = <<>> /\ DOMAIN subscriptionList = {} /\ Len(subscriptionList) = 0
  BY DEF Init
<1>2. ListOK
  BY <1>1 DEF Init, ListOK, Distinct, Listed, In
<1>3. AppOK /\ ReadersOK
  BY DEF Init, AppOK, ReadersOK
<1> QED BY <1>2, <1>3 DEF ListInv

\* Whoever writes has waited for the readers.
LEMMA WritersAlone ==
  ASSUME NEW t, CanWrite(t), NEW w \in Workers,
         wpc'[w] \in {"found", "expired"} => wpc'[w] = wpc[w]
  PROVE  wpc'[w] \notin {"found", "expired"}
BY DEF CanWrite, Readers, ReadPcs

\* A listed subscription taken out of the list leaves it in order.
LEMMA UnlinkKeepsList ==
  ASSUME Types, ListOK, NEW s, Listed(s), Unlink(s), UNCHANGED device,
         used \subseteq used'
  PROVE  ListOK'
<1>1. /\ ListTypes'
      /\ \A x : In(x, subscriptionList') <=> Listed(x) /\ x # s
      /\ TotalSubscriptions' = TotalSubscriptions - 1
      /\ expired' = expired \ {s}
      /\ Distinct(subscriptionList) =>
           /\ Distinct(subscriptionList')
           /\ Len(subscriptionList') =
                IF Listed(s) THEN Len(subscriptionList) - 1 ELSE Len(subscriptionList)
  BY Unlinked DEF Types
<1>2. Distinct(subscriptionList') /\ TotalSubscriptions' = Len(subscriptionList')
  BY <1>1 DEF ListOK
<1>3. subscriptionList # <<>>
  BY DEF Listed, In
<1>4. device' = "registered"
  BY <1>3 DEF ListOK
<1>5. \A x \in expired' : In(x, subscriptionList')
  BY <1>1 DEF ListOK
<1>6. \A x : In(x, subscriptionList') => x \in used'
  BY <1>1 DEF ListOK
<1> QED BY <1>2, <1>4, <1>5, <1>6 DEF ListOK, Listed

LEMMA LookUpKeepsList ==
  ASSUME Types, ListOK, NEW s, GetSubscriptionSID(s), UNCHANGED device, used \subseteq used'
  PROVE  ListOK'
<1>1. CASE s \in expired
  <2>1. Listed(s) /\ Unlink(s)
    BY <1>1 DEF ListOK, GetSubscriptionSID
  <2> QED BY <2>1, UnlinkKeepsList
<1>2. CASE s \notin expired
  BY <1>2 DEF GetSubscriptionSID, ListOK, Listed
<1> QED BY <1>1, <1>2

LEMMA SameList ==
  ASSUME ListOK, UNCHANGED <<subscriptionList, TotalSubscriptions, expired, device>>,
         used \subseteq used'
  PROVE  ListOK'
BY DEF ListOK, Listed

LEMMA AllKeepsList ==
  ASSUME Types, ListInv, genaNotifyAll
  PROVE  ListInv'
<1>1. /\ CanWrite(NULL) /\ device = "registered"
      /\ UNCHANGED <<writer, deviceVars, used, callback, workerVars, initial, sent>>
  BY DEF genaNotifyAll
<1>2. PICK targets \in Targets :
         /\ \E rest \in Part({i \in Places : subscriptionList[i] \notin Met(targets)}) :
              subscriptionList' = rest
         /\ TotalSubscriptions' = TotalSubscriptions - Cardinality(Met(targets))
         /\ expired' = expired \ Met(targets)
  BY DEF genaNotifyAll
<1> DEFINE gone == Met(targets)
           P == {i \in Places : subscriptionList[i] \notin gone}
           Q == {i \in Places : subscriptionList[i] \in gone}
<1>3. gone \subseteq expired /\ \A s \in gone : \E i \in Places : subscriptionList[i] = s
  BY DEF Met
<1>4. subscriptionList' \in Part(P)
  BY <1>2
<1>5. ListTypes /\ subscriptionList \in Seq(Sids)
  BY DEF Types, ListTypes
<1> HIDE DEF gone
<1>6. /\ \A x : In(x, subscriptionList') <=> Listed(x) /\ x \notin gone
      /\ Distinct(subscriptionList')
  BY <1>4, <1>5, Swept DEF ListInv, ListOK
<1>7. Len(subscriptionList') = Len(subscriptionList) - Cardinality(gone)
  <2>1. Len(subscriptionList') = Cardinality(P)
    BY <1>4, <1>5, PartFacts
  <2>2. gone = {subscriptionList[i] : i \in Q}
    BY <1>3
  <2>3. Distinct(subscriptionList)
    BY DEF ListInv, ListOK
  <2>4. Cardinality(gone) = Cardinality(Q)
    BY <1>5, <2>2, <2>3, MembersFacts
  <2>5. IsFiniteSet(Places) /\ Cardinality(Places) = Len(subscriptionList)
    BY <1>5, PlacesFacts
  <2>6. P = Places \ Q /\ Places \cap Q = Q
    OBVIOUS
  <2>7. Cardinality(P) = Cardinality(Places) - Cardinality(Q)
    <3> HIDE DEF P, Q
    <3>1. Cardinality(Places \ Q) = Cardinality(Places) - Cardinality(Places \cap Q)
      BY <2>5, FS_Difference, Zenon
    <3>2. Cardinality(P) = Cardinality(Places \ Q) /\ Cardinality(Places \cap Q) = Cardinality(Q)
      BY <2>6, Zenon
    <3> QED BY <3>1, <3>2
  <2> QED BY <2>1, <2>4, <2>5, <2>7
<1>8. TotalSubscriptions' = Len(subscriptionList')
  BY <1>2, <1>7 DEF ListInv, ListOK, gone
<1>9. \A s \in expired' : In(s, subscriptionList')
  BY <1>2, <1>6 DEF ListInv, ListOK, gone
<1>10. \A s : In(s, subscriptionList') => s \in used'
  BY <1>1, <1>6 DEF ListInv, ListOK
<1>11. ListOK'
  BY <1>1, <1>6, <1>8, <1>9, <1>10 DEF ListOK, Listed, deviceVars
<1>12. AppOK'
  BY <1>1 DEF ListInv, AppOK, deviceVars
<1>13. ReadersOK'
  BY <1>1, WritersAlone DEF ReadersOK, workerVars
<1> QED BY <1>11, <1>12, <1>13 DEF ListInv

LEMMA StepList == Types /\ ListInv /\ RemovesAlone /\ [Next]_vars => ListInv'
<1> SUFFICES ASSUME Types, ListInv, RemovesAlone, [Next]_vars
             PROVE  ListInv'
  OBVIOUS
<1> USE DEF ListInv
<1>1. CASE UNCHANGED vars
  <2>1. UNCHANGED <<app, device, subscriptionList, TotalSubscriptions, expired, used, wpc, wjob>>
    BY <1>1 DEF vars, deviceVars, listVars, workerVars
  <2> QED BY <2>1, SameList DEF AppOK, ReadersOK, Listed
<1>2. CASE \/ RegisterCall \/ dlnaRegisterRootDevice \/ dlnaUnRegisterRootDevice
           \/ \E n \in Limits : dlnaSetMaxSubscriptions(n) \/ dlnaSetMaxSubscriptionTimeOut(n)
  <2>1. UNCHANGED <<subscriptionList, TotalSubscriptions, expired, used, wpc, wjob>>
    BY <1>2 DEF RegisterCall, dlnaRegisterRootDevice, dlnaUnRegisterRootDevice,
           dlnaSetMaxSubscriptions, dlnaSetMaxSubscriptionTimeOut, listVars, workerVars
  <2>2. AppOK' /\ (subscriptionList # <<>> => device' = "registered")
    BY <1>2 DEF AppOK, ListOK, RegisterCall, dlnaRegisterRootDevice, dlnaUnRegisterRootDevice,
           dlnaSetMaxSubscriptions, dlnaSetMaxSubscriptionTimeOut
  <2>3. ListOK'
    BY <2>1, <2>2 DEF ListOK, Listed
  <2>4. ReadersOK'
    BY <2>1 DEF ReadersOK, Listed
  <2> QED BY <2>2, <2>3, <2>4
<1>3. CASE genaUnregisterDevice
  <2>1. /\ subscriptionList' = <<>> /\ TotalSubscriptions' = 0 /\ expired' = {}
        /\ app' = "unregistering" /\ device' = "serviceless" /\ CanWrite(NULL)
        /\ UNCHANGED <<used, wpc, wjob>>
    BY <1>3 DEF genaUnregisterDevice, workerVars
  <2>2. DOMAIN subscriptionList' = {} /\ Len(subscriptionList') = 0
    BY <2>1
  <2>3. ListOK'
    BY <2>1, <2>2 DEF ListOK, Distinct, Listed, In
  <2>4. AppOK' /\ ReadersOK'
    BY <2>1, WritersAlone DEF AppOK, ReadersOK
  <2> QED BY <2>3, <2>4
<1>4. CASE genaNotifyAll
  BY <1>4, AllKeepsList
<1>5. ASSUME NEW r \in Receivers, AcceptSubscription(r)
      PROVE  ListInv'
  <2>1. CanWrite(r) /\ UNCHANGED <<app, device, used, wpc, wjob>>
    BY <1>5 DEF AcceptSubscription, deviceVars, workerVars
  <2>2. \/ GetSubscriptionSID(callback[r])
        \/ UNCHANGED <<subscriptionList, TotalSubscriptions, expired>>
    BY <1>5 DEF AcceptSubscription
  <2>3. ListOK'
    BY <2>1, <2>2, LookUpKeepsList, SameList
  <2>4. AppOK' /\ ReadersOK'
    BY <2>1, WritersAlone DEF AppOK, ReadersOK
  <2> QED BY <2>3, <2>4
<1>6. ASSUME NEW r \in Receivers, NEW s \in Sids, NEW t \in Limits, Subscribe(r, s, t)
      PROVE  ListInv'
  <2>1. CanWrite(r) /\ s \notin used /\ UNCHANGED <<app, device, wpc, wjob>>
    BY <1>6 DEF Subscribe, deviceVars, workerVars
  <2>2. CASE UNCHANGED <<listVars, used>>
    BY <2>1, <2>2, SameList, WritersAlone DEF AppOK, ReadersOK, listVars
  <2>3. ASSUME /\ device = "registered" /\ used' = used \cup {s}
               /\ subscriptionList' = <<s>> \o subscriptionList
               /\ TotalSubscriptions' = TotalSubscriptions + 1 /\ UNCHANGED expired
        PROVE  ListInv'
    <3>1. /\ subscriptionList \in Seq(Sids) /\ subscriptionList' \in Seq(Sids)
          /\ Len(subscriptionList) \in Nat
          /\ Len(subscriptionList') = Len(subscriptionList) + 1
          /\ subscriptionList'[1] = s
          /\ \A i \in 1..Len(subscriptionList) : subscriptionList'[i + 1] = subscriptionList[i]
      BY <2>3 DEF Types, ListTypes
    <3>2. \A i \in DOMAIN subscriptionList' :
            i = 1 \/ (i - 1 \in DOMAIN subscriptionList /\ subscriptionList'[i] = subscriptionList[i - 1])
      BY <3>1
    <3>3. \A x : In(x, subscriptionList') <=> Listed(x) \/ x = s
      <4>1. ASSUME NEW x, Listed(x)
            PROVE  In(x, subscriptionList')
        <5>1. PICK i \in 1..Len(subscriptionList) : subscriptionList[i] = x
          BY <4>1, <3>1 DEF Listed, In
        <5>2. i + 1 \in DOMAIN subscriptionList' /\ subscriptionList'[i + 1] = x
          BY <5>1, <3>1
        <5> QED BY <5>2 DEF In
      <4>2. In(s, subscriptionList')
        BY <3>1 DEF In
      <4>3. ASSUME NEW x, In(x, subscriptionList')
            PROVE  Listed(x) \/ x = s
        BY <4>3, <3>1, <3>2 DEF Listed, In
      <4> QED BY <4>1, <4>2, <4>3
    <3>4. ~Listed(s)
      BY <2>1 DEF ListOK
    <3>5. Distinct(subscriptionList')
      <4> SUFFICES ASSUME NEW i \in DOMAIN subscriptionList', NEW k \in DOMAIN subscriptionList',
                          subscriptionList'[i] = subscriptionList'[k]
                   PROVE  i = k
        BY DEF Distinct
      <4>1. i \in Nat /\ k \in Nat
        BY <3>1
      <4>2. CASE i = 1 \/ k = 1
        BY <3>1, <3>2, <3>4, <4>2 DEF Listed, In
      <4>3. CASE i # 1 /\ k # 1
        <5>1. /\ i - 1 \in DOMAIN subscriptionList /\ k - 1 \in DOMAIN subscriptionList
              /\ subscriptionList[i - 1] = subscriptionList[k - 1]
          BY <3>2, <4>3
        <5>2. i - 1 = k - 1
          BY <5>1 DEF ListOK, Distinct
        <5> QED BY <4>1, <5>2
      <4> QED BY <4>2, <4>3
    <3>6. TotalSubscriptions' = Len(subscriptionList')
      BY <2>3, <3>1 DEF ListOK
    <3>7. ListOK'
      BY <2>1, <2>3, <3>3, <3>5, <3>6 DEF ListOK, Listed
    <3>8. AppOK' /\ ReadersOK'
      BY <2>1, WritersAlone DEF AppOK, ReadersOK
    <3> QED BY <3>7, <3>8
  <2> QED BY <1>6, <2>2, <2>3 DEF Subscribe
<1>7. ASSUME NEW r \in Receivers, NEW s \in Sids, NEW t \in Limits, Renew(r, s, t)
      PROVE  ListInv'
  <2>1. CanWrite(r) /\ UNCHANGED <<app, device, used, wpc, wjob>>
    BY <1>7 DEF Renew, deviceVars, workerVars
  <2>2. \/ GetSubscriptionSID(s)
        \/ Found(s) /\ Unlink(s)
        \/ UNCHANGED <<subscriptionList, TotalSubscriptions, expired>>
    BY <1>7 DEF Renew, listVars
  <2>3. ListOK'
    BY <2>1, <2>2, LookUpKeepsList, UnlinkKeepsList, SameList DEF Found
  <2>4. AppOK' /\ ReadersOK'
    BY <2>1, WritersAlone DEF AppOK, ReadersOK
  <2> QED BY <2>3, <2>4
<1>8. ASSUME NEW r \in Receivers, NEW s \in Sids, Unsubscribe(r, s)
      PROVE  ListInv'
  <2>1. CanWrite(r) /\ UNCHANGED <<app, device, used, wpc, wjob>>
    BY <1>8 DEF Unsubscribe, deviceVars, workerVars
  <2>2. GetSubscriptionSID(s) \/ (Found(s) /\ Unlink(s))
    BY <1>8 DEF Unsubscribe
  <2>3. ListOK'
    BY <2>1, <2>2, LookUpKeepsList, UnlinkKeepsList DEF Found
  <2>4. AppOK' /\ ReadersOK'
    BY <2>1, WritersAlone DEF AppOK, ReadersOK
  <2> QED BY <2>3, <2>4
<1>9. ASSUME NEW s \in Sids, Expire(s)
      PROVE  ListInv'
  BY <1>9 DEF Expire, Found, ListOK, AppOK, ReadersOK, Listed, deviceVars, workerVars
<1>10. ASSUME NEW w \in Workers, NotifyStart(w)
       PROVE  ListInv'
  <2>1. /\ wpc' = [wpc EXCEPT ![w] = "started"] /\ wjob' = [wjob EXCEPT ![w] = Head(queue)]
        /\ UNCHANGED <<app, device, subscriptionList, TotalSubscriptions, expired, used>>
    BY <1>10 DEF NotifyStart, Goes, deviceVars, listVars
  <2>2. \A v \in Workers : wpc'[v] \in {"found", "expired"} =>
                             v # w /\ wpc'[v] = wpc[v] /\ wjob'[v] = wjob[v]
    BY <2>1 DEF Types, WorkerTypes
  <2> QED BY <2>1, <2>2, SameList DEF AppOK, ReadersOK, Listed
<1>11. ASSUME NEW w \in Workers, NotifyLook(w)
       PROVE  ListInv'
  <2>1. /\ wpc' = [wpc EXCEPT ![w] = IF device # "registered" \/ ~Listed(wjob[w].sid) THEN "drop"
                                     ELSE IF wjob[w].sid \in expired THEN "expired" ELSE "found"]
        /\ UNCHANGED <<app, device, subscriptionList, TotalSubscriptions, expired, used, wjob>>
    BY <1>11 DEF NotifyLook, Goes, deviceVars, listVars
  <2>2. \A v \in Workers : v # w => wpc'[v] = wpc[v]
    BY <2>1 DEF Types, WorkerTypes
  <2>3. /\ wpc'[w] = "found" => Listed(wjob[w].sid)
        /\ wpc'[w] = "expired" => wjob[w].sid \in expired
    BY <2>1 DEF Types, WorkerTypes
  <2> QED BY <2>1, <2>2, <2>3, SameList DEF AppOK, ReadersOK, Listed
<1>12. ASSUME NEW w \in Workers, NotifyExpire(w)
       PROVE  ListInv'
  <2> DEFINE s == wjob[w].sid
  <2>1. /\ wpc[w] = "expired" /\ wpc' = [wpc EXCEPT ![w] = "drop"]
        /\ UNCHANGED <<app, device, used, wjob>>
    BY <1>12 DEF NotifyExpire, Goes, deviceVars
  <2>2. s \in expired /\ Listed(s)
    BY <2>1 DEF ReadersOK, ListOK
  <2>3. Unlink(s)
    BY <1>12, <2>2 DEF NotifyExpire
  <2>4. /\ \A x : In(x, subscriptionList') <=> Listed(x) /\ x # s
        /\ expired' = expired \ {s}
    BY <2>3, Unlinked DEF Types
  <2>5. ListOK'
    BY <2>1, <2>2, <2>3, UnlinkKeepsList
  <2>6. \A v \in Workers : wpc'[v] \in {"found", "expired"} =>
                             wpc'[v] = wpc[v] /\ v # w /\ wjob[v].sid # s
    <3>1. \A v \in Workers : wpc'[v] = IF v = w THEN "drop" ELSE wpc[v]
      BY <2>1 DEF Types, WorkerTypes
    <3> QED BY <2>1, <3>1 DEF RemovesAlone
  <2>7. ReadersOK'
    BY <2>1, <2>4, <2>6 DEF ReadersOK, Listed
  <2> QED BY <2>1, <2>5, <2>7 DEF AppOK
<1>13. ASSUME NEW w \in Workers, NotifyCopy(w) \/ UnrefLoad(w) \/ UnrefStore(w) \/ UnrefTest(w)
       PROVE  ListInv'
  <2>1. UNCHANGED <<app, device, subscriptionList, TotalSubscriptions, expired, used>>
    BY <1>13 DEF NotifyCopy, UnrefLoad, UnrefStore, UnrefTest, deviceVars, listVars
  <2>2. PICK pc \in {"idle", "sending", "store", "test"} :
          /\ wpc' = [wpc EXCEPT ![w] = pc]
          /\ UNCHANGED wjob \/ wjob' = [wjob EXCEPT ![w] = NoJob]
    BY <1>13 DEF NotifyCopy, UnrefLoad, UnrefStore, UnrefTest, Ends, Goes
  <2>3. \A v \in Workers : wpc'[v] \in {"found", "expired"} =>
                             wpc'[v] = wpc[v] /\ wjob'[v] = wjob[v]
    BY <2>2 DEF Types, WorkerTypes
  <2> QED BY <2>1, <2>3, SameList DEF AppOK, ReadersOK, Listed
<1>14. ASSUME NEW w \in Workers, NEW gone \in BOOLEAN, NotifySent(w, gone)
       PROVE  ListInv'
  <2> DEFINE s == wjob[w].sid
  <2>1. CanWrite(NULL) /\ Ends(w) /\ UNCHANGED <<app, device, used>>
    BY <1>14 DEF NotifySent, deviceVars
  <2>2. \/ GetSubscriptionSID(s) \/ (Found(s) /\ Unlink(s))
        \/ UNCHANGED <<subscriptionList, TotalSubscriptions, expired>>
    BY <1>14 DEF NotifySent
  <2>3. ListOK'
    BY <2>1, <2>2, LookUpKeepsList, UnlinkKeepsList, SameList DEF Found
  <2>4. \A v \in Workers : wpc'[v] \in {"found", "expired"} => wpc'[v] = wpc[v]
    BY <2>1 DEF Ends, Goes, Types, WorkerTypes
  <2>5. ReadersOK'
    BY <2>1, <2>4, WritersAlone DEF ReadersOK
  <2> QED BY <2>1, <2>3, <2>5 DEF AppOK
<1>15. CASE Next
  BY <1>15, <1>2, <1>3, <1>4, <1>5, <1>6, <1>7, <1>8, <1>9, <1>10, <1>11, <1>12, <1>13, <1>14
     DEF Next, ReadSection
<1> QED BY <1>1, <1>15

LEMMA ListInvariant == Spec /\ []RemovesAlone => []ListInv
<1> QED BY InitList, TypesInvariant, StepList, PTL DEF Spec

\* TotalSubscriptions, which the limit is checked against, is the length of the list,
\* however subscriptions come, expire, are removed and are swept away while the list
\* is walked, as long as notify threads do not free one node twice.
THEOREM SubscriptionsAreCounted == Spec /\ []RemovesAlone => []SubscriptionsCounted
<1> QED BY ListInvariant, ListInvSuffices, PTL

\* What a notify thread has looked up under the read lock is there when it copies or
\* removes it, whoever wants to write, as long as the other readers let it be.
THEOREM LookedUpNodeIsThere == Spec /\ []RemovesAlone => []NodeStaysValid
<1> QED BY ListInvariant, ListInvSuffices, PTL
-----------------------------------------------------------------------------
(* Event keys *)

\* A notify job that has yet to be dealt with.
Waits(j) ==
  \/ \E i \in DOMAIN queue : queue[i] = j
  \/ \E w \in Workers : wpc[w] # "idle" /\ wjob[w] = j

SameTurn(j, k) == j.sid = k.sid /\ j.eventKey = k.eventKey

\* No two jobs have the same turn.
Apart ==
  /\ \A i, k \in DOMAIN queue : SameTurn(queue[i], queue[k]) => i = k
  /\ \A i \in DOMAIN queue, w \in Workers : wpc[w] # "idle" => ~SameTurn(queue[i], wjob[w])
  /\ \A v, w \in Workers : wpc[v] # "idle" /\ wpc[w] # "idle" /\ SameTurn(wjob[v], wjob[w]) => v = w

KeysOK ==
  \A s \in Sids :
    /\ sub[s].eventKey <= events /\ sub[s].ToSendEventKey <= sub[s].eventKey
    /\ sub[s].active => sub[s].eventKey >= 1

JobsOK == \A j \in NotifyJob : Waits(j) => j.sid \in used /\ j.eventKey < sub[j.sid].eventKey

FreshOK == \A s \in Sids : s \notin used => accepted[s] = <<>> /\ sent[s] = <<>>

PastOK == \A s \in Sids : \A i \in DOMAIN accepted[s] : accepted[s][i] <= events

Sends(w, s) == wpc[w] = "sending" /\ wjob[w].sid = s
IsSent(s) == \E w \in Workers : Sends(w, s)

SendersOK ==
  \A w \in Workers, s \in Sids :
    Sends(w, s) /\ Listed(s) => wjob[w].eventKey = sub[s].ToSendEventKey

SentOK ==
  \A s \in Sids : Listed(s) =>
    Len(sent[s]) = sub[s].ToSendEventKey + (IF IsSent(s) THEN 1 ELSE 0)

\* The jobs of s with a key below m carry the events accepted for s, in order, and m is
\* either the next key or one that the pool refused, so that no job ever has it.
InStep(s, m) ==
  /\ m <= Len(accepted[s]) /\ Len(accepted[s]) <= sub[s].eventKey
  /\ m = sub[s].eventKey => Len(accepted[s]) = m
  /\ \A j \in NotifyJob : Waits(j) /\ j.sid = s =>
       /\ j.eventKey # m
       /\ j.eventKey < m => accepted[s][j.eventKey + 1] = j.event
  /\ m > 0 => accepted[s][1] = initial[s]

FeedOK ==
  \A s \in Sids : Listed(s) =>
    \E m \in Nat : /\ sub[s].ToSendEventKey <= m /\ m <= sub[s].eventKey
                   /\ InStep(s, m)

\* Each key of a subscription is the turn of one job, and what has been sent is what
\* has had its turn.
TurnsInv ==
  /\ KeysOK /\ JobsOK /\ FreshOK /\ PastOK /\ SendersOK /\ OneNotifyAtATime /\ SentOK /\ FeedOK
LEMMA InitTurns == Init => Apart /\ TurnsInv
<1> SUFFICES ASSUME Init
             PROVE  Apart /\ TurnsInv
  OBVIOUS
<1>1. /\ queue = <<>> /\ DOMAIN queue = {} /\ subscriptionList = <<>> /\ DOMAIN subscriptionList = {}
      /\ \A w \in Workers : wpc[w] = "idle"
  BY DEF Init
<1>2. Apart /\ \A j : ~Waits(j)
  BY <1>1 DEF Apart, Waits
<1>3. KeysOK
  BY DEF Init, KeysOK, NewSub
<1>4. JobsOK /\ FreshOK /\ PastOK
  BY <1>2 DEF Init, JobsOK, FreshOK, PastOK
<1>5. \A s : ~Listed(s)
  BY <1>1 DEF Listed, In
<1>6. SendersOK /\ OneNotifyAtATime /\ SentOK /\ FeedOK
  BY <1>1, <1>5 DEF SendersOK, OneNotifyAtATime, SentOK, FeedOK
<1> QED BY <1>2, <1>3, <1>4, <1>6 DEF TurnsInv

\* A step that takes no turn: jobs may end or move, subscriptions may end, and nothing
\* is accepted or sent.
Quiet ==
  /\ \A j \in NotifyJob : Waits(j)' => Waits(j)
  /\ \A s \in Sids : Listed(s)' => Listed(s)
  /\ \A s \in Sids : /\ sub'[s].eventKey = sub[s].eventKey
                     /\ sub'[s].ToSendEventKey = sub[s].ToSendEventKey
                     /\ sub'[s].active = sub[s].active
  /\ UNCHANGED <<events, used, accepted, sent, initial>>
  /\ \A w \in Workers : /\ wpc'[w] = "sending" <=> wpc[w] = "sending"
                        /\ wpc[w] = "sending" => wjob'[w] = wjob[w]

LEMMA QuietKeepsTurns ==
  ASSUME Types, TurnsInv, Quiet
  PROVE  TurnsInv'
<1> USE DEF Quiet
<1>1. KeysOK' /\ FreshOK' /\ PastOK'
  BY DEF TurnsInv, KeysOK, FreshOK, PastOK
<1>2. JobsOK'
  <2> SUFFICES ASSUME NEW j \in NotifyJob, Waits(j)'
               PROVE  j.sid \in used' /\ j.eventKey < sub'[j.sid].eventKey
    BY DEF JobsOK
  <2>1. j.sid \in Sids
    BY DEF NotifyJob
  <2> QED BY <2>1 DEF TurnsInv, JobsOK
<1>3. \A s : \A w \in Workers : Sends(w, s)' <=> Sends(w, s)
  BY DEF Sends
<1>4. SendersOK'
  <2> SUFFICES ASSUME NEW w \in Workers, NEW s \in Sids, Sends(w, s)', Listed(s)'
               PROVE  wjob'[w].eventKey = sub'[s].ToSendEventKey
    BY DEF SendersOK
  <2>1. Sends(w, s) /\ Listed(s) /\ wjob'[w] = wjob[w]
    BY <1>3 DEF Sends
  <2> QED BY <2>1 DEF TurnsInv, SendersOK
<1>5. OneNotifyAtATime'
  BY DEF TurnsInv, OneNotifyAtATime
<1>6. SentOK'
  <2>1. \A s : IsSent(s)' <=> IsSent(s)
    BY <1>3 DEF IsSent
  <2> QED BY <2>1 DEF TurnsInv, SentOK
<1>7. FeedOK'
  <2> SUFFICES ASSUME NEW s \in Sids, Listed(s)'
               PROVE  \E m \in Nat : /\ sub'[s].ToSendEventKey <= m /\ m <= sub'[s].eventKey
                                     /\ InStep(s, m)'
    BY DEF FeedOK
  <2>1. PICK m \in Nat : /\ sub[s].ToSendEventKey <= m /\ m <= sub[s].eventKey
                         /\ InStep(s, m)
    BY DEF TurnsInv, FeedOK
  <2>2. InStep(s, m)'
    BY <2>1 DEF InStep
  <2> QED BY <2>1, <2>2
<1> QED BY <1>1, <1>2, <1>4, <1>5, <1>6, <1>7 DEF TurnsInv

\* Threads that keep their jobs or give them up leave turns apart.
LEMMA FewerStayApart ==
  ASSUME Apart, UNCHANGED queue,
         \A w \in Workers : wpc'[w] # "idle" => wpc[w] # "idle" /\ wjob'[w] = wjob[w]
  PROVE  Apart' /\ \A j : Waits(j)' => Waits(j)
BY DEF Apart, Waits

\* Jobs that are added to the pool.
LEMMA MoreStayApart ==
  ASSUME Types, Apart, NEW jobs \in Seq(NotifyJob), queue' = queue \o jobs,
         \A w \in Workers : wpc'[w] # "idle" => wpc[w] # "idle" /\ wjob'[w] = wjob[w],
         \A i, k \in DOMAIN jobs : SameTurn(jobs[i], jobs[k]) => i = k,
         \A i \in DOMAIN jobs, k \in DOMAIN queue : ~SameTurn(queue[k], jobs[i]),
         \A i \in DOMAIN jobs, w \in Workers : wpc'[w] # "idle" => ~SameTurn(wjob[w], jobs[i])
  PROVE  /\ Apart'
         /\ \A j : Waits(j)' => Waits(j) \/ \E i \in DOMAIN jobs : jobs[i] = j
<1>1. queue \in Seq(NotifyJob)
  BY DEF Types, QueueTypes
<1>2. /\ queue' \in Seq(NotifyJob) /\ Len(queue') = Len(queue) + Len(jobs)
      /\ \A i \in 1..Len(queue) + Len(jobs) :
           queue'[i] = IF i <= Len(queue) THEN queue[i] ELSE jobs[i - Len(queue)]
  BY <1>1, ConcatProperties
<1>3. /\ Len(queue) \in Nat /\ Len(jobs) \in Nat
      /\ DOMAIN queue = 1..Len(queue) /\ DOMAIN jobs = 1..Len(jobs)
      /\ DOMAIN queue' = 1..Len(queue) + Len(jobs)
  BY <1>1, <1>2
<1> DEFINE At(i) == i - Len(queue)
<1>4. ASSUME NEW i \in DOMAIN queue'
      PROVE  \/ i \in DOMAIN queue /\ queue'[i] = queue[i]
             \/ i \notin DOMAIN queue /\ At(i) \in DOMAIN jobs /\ queue'[i] = jobs[At(i)]
  BY <1>2, <1>3
<1>5. \A i, k \in DOMAIN queue' : At(i) = At(k) => i = k
  BY <1>3
<1> HIDE DEF At
<1>6. \A x, y : SameTurn(x, y) <=> SameTurn(y, x)
  BY DEF SameTurn
<1>7. \A i, k \in DOMAIN queue' : SameTurn(queue'[i], queue'[k]) => i = k
  <2> SUFFICES ASSUME NEW i \in DOMAIN queue', NEW k \in DOMAIN queue', SameTurn(queue'[i], queue'[k])
               PROVE  i = k
    OBVIOUS
  <2>1. CASE i \in DOMAIN queue /\ k \in DOMAIN queue
    BY <1>4, <2>1 DEF Apart
  <2>2. CASE i \in DOMAIN queue /\ k \notin DOMAIN queue
    BY <1>4, <2>2
  <2>3. CASE i \notin DOMAIN queue /\ k \in DOMAIN queue
    BY <1>4, <1>6, <2>3
  <2>4. CASE i \notin DOMAIN queue /\ k \notin DOMAIN queue
    BY <1>4, <1>5, <2>4
  <2> QED BY <2>1, <2>2, <2>3, <2>4
<1>8. \A i \in DOMAIN queue', w \in Workers : wpc'[w] # "idle" => ~SameTurn(queue'[i], wjob'[w])
  <2> TAKE i \in DOMAIN queue', w \in Workers
  <2>1. CASE i \in DOMAIN queue
    BY <1>4, <2>1 DEF Apart
  <2>2. CASE i \notin DOMAIN queue
    BY <1>4, <1>6, <2>2
  <2> QED BY <2>1, <2>2
<1>9. Apart'
  BY <1>7, <1>8 DEF Apart
<1>10. \A j : Waits(j)' => Waits(j) \/ \E i \in DOMAIN jobs : jobs[i] = j
  BY <1>4 DEF Waits
<1> QED BY <1>9, <1>10

\* An event that is published or accepted as initial state: the subscriptions in to have
\* their keys advanced, and those in taken have a job with the key they had.
Publishes(to, taken) ==
  /\ taken \subseteq to /\ to \subseteq Sids /\ events' = events + 1
  /\ \A s \in to : Listed(s)
  /\ \A s \in Sids :
       /\ sub'[s].eventKey = IF s \in to THEN sub[s].eventKey + 1 ELSE sub[s].eventKey
       /\ sub'[s].ToSendEventKey = sub[s].ToSendEventKey
       /\ s \notin to => sub'[s].active = sub[s].active
       /\ accepted'[s] = IF s \in taken THEN Append(accepted[s], events') ELSE accepted[s]
       /\ IF s \in taken /\ sub[s].eventKey = 0 THEN initial'[s] = events' ELSE initial'[s] = initial[s]
       /\ Listed(s)' => Listed(s)
  /\ \A j \in NotifyJob : Waits(j)' =>
       Waits(j) \/ (j.sid \in taken /\ j.eventKey = sub[j.sid].eventKey /\ j.event = events')
  /\ UNCHANGED <<used, sent, wpc, wjob>>

LEMMA PublishKeepsTurns ==
  ASSUME Types, Types', ListInv, TurnsInv, NEW to, NEW taken, Publishes(to, taken)
  PROVE  TurnsInv'
<1>1. /\ taken \subseteq to /\ to \subseteq Sids /\ events' = events + 1
      /\ \A s \in to : Listed(s)
      /\ UNCHANGED <<used, sent, wpc, wjob>>
  BY DEF Publishes
<1>2. ASSUME NEW s \in Sids
      PROVE  /\ sub'[s].eventKey = IF s \in to THEN sub[s].eventKey + 1 ELSE sub[s].eventKey
             /\ sub'[s].ToSendEventKey = sub[s].ToSendEventKey
             /\ s \notin to => sub'[s].active = sub[s].active
             /\ accepted'[s] = IF s \in taken THEN Append(accepted[s], events') ELSE accepted[s]
             /\ IF s \in taken /\ sub[s].eventKey = 0
                THEN initial'[s] = events' ELSE initial'[s] = initial[s]
             /\ Listed(s)' => Listed(s)
  BY DEF Publishes
<1>3. ASSUME NEW j \in NotifyJob, Waits(j)'
      PROVE  /\ j.sid \in Sids /\ j.eventKey \in Nat
             /\ Waits(j) \/ (j.sid \in taken /\ j.eventKey = sub[j.sid].eventKey /\ j.event = events')
  BY <1>3, KeyFacts DEF Publishes, NotifyJob
<1>4. ASSUME NEW s \in Sids
      PROVE  /\ sub[s].eventKey \in Nat /\ sub[s].ToSendEventKey \in Nat /\ events \in Nat
             /\ sub[s].eventKey <= events /\ sub[s].ToSendEventKey <= sub[s].eventKey
             /\ sub[s].active => sub[s].eventKey >= 1
             /\ accepted[s] \in Seq(Events) /\ Len(accepted[s]) \in Nat
  <2>1. sub[s] \in Keys /\ accepted[s] \in Seq(Events) /\ events \in Nat
    BY KeyFacts DEF Types, SubTypes, FeedTypes, DataTypes
  <2>2. sub[s].eventKey \in Nat /\ sub[s].ToSendEventKey \in Nat
    BY <2>1, KeyFacts DEF Keys
  <2> QED BY <2>1, <2>2 DEF TurnsInv, KeysOK
<1>5. events' \in Events
  BY <1>1, KeyFacts DEF Types, DataTypes, Events
<1>6. ASSUME NEW s \in Sids, s \in taken
      PROVE  /\ accepted'[s] \in Seq(Events) /\ Len(accepted'[s]) = Len(accepted[s]) + 1
             /\ \A i \in 1..Len(accepted[s]) : accepted'[s][i] = accepted[s][i]
             /\ accepted'[s][Len(accepted[s]) + 1] = events'
  <2>1. accepted'[s] = Append(accepted[s], events') /\ accepted[s] \in Seq(Events)
    BY <1>2, <1>4, <1>6
  <2>2. ASSUME NEW q \in Seq(Events), NEW e \in Events
        PROVE  /\ Append(q, e) \in Seq(Events) /\ Len(Append(q, e)) = Len(q) + 1
               /\ \A i \in 1..Len(q) : Append(q, e)[i] = q[i]
               /\ Append(q, e)[Len(q) + 1] = e
    BY AppendProperties
  <2> QED BY <1>5, <2>1, <2>2
<1>7. KeysOK'
  BY <1>1, <1>2, <1>4 DEF KeysOK
<1>8. JobsOK'
  <2> SUFFICES ASSUME NEW j \in NotifyJob, Waits(j)'
               PROVE  j.sid \in used' /\ j.eventKey < sub'[j.sid].eventKey
    BY DEF JobsOK
  <2>1. CASE Waits(j)
    <3>1. j.sid \in used /\ j.eventKey < sub[j.sid].eventKey
      BY <2>1 DEF TurnsInv, JobsOK
    <3> QED BY <1>1, <1>2, <1>3, <1>4, <3>1
  <2>2. CASE j.sid \in taken /\ j.eventKey = sub[j.sid].eventKey
    <3>1. Listed(j.sid) /\ j.sid \in to
      BY <1>1, <2>2
    <3>2. j.sid \in used
      BY <3>1 DEF ListInv, ListOK
    <3> QED BY <1>1, <1>2, <1>3, <1>4, <2>2, <3>1, <3>2
  <2> QED BY <1>3, <2>1, <2>2
<1>9. FreshOK'
  <2> SUFFICES ASSUME NEW s \in Sids, s \notin used'
               PROVE  accepted'[s] = <<>> /\ sent'[s] = <<>>
    BY DEF FreshOK
  <2>1. s \notin taken
    BY <1>1 DEF ListInv, ListOK
  <2> QED BY <1>1, <1>2, <2>1 DEF TurnsInv, FreshOK
<1>10. PastOK'
  <2> SUFFICES ASSUME NEW s \in Sids, NEW i \in DOMAIN accepted'[s]
               PROVE  accepted'[s][i] <= events'
    BY DEF PastOK
  <2>1. \A k \in DOMAIN accepted[s] : accepted[s][k] <= events /\ accepted[s][k] \in Nat
    BY <1>4, KeyFacts DEF TurnsInv, PastOK, Events
  <2>2. CASE s \in taken
    <3>1. i \in 1..Len(accepted[s]) \/ i = Len(accepted[s]) + 1
      BY <1>4, <1>6, <2>2
    <3>2. DOMAIN accepted[s] = 1..Len(accepted[s])
      BY <1>4
    <3> QED BY <1>1, <1>4, <1>5, <1>6, <2>1, <2>2, <3>1, <3>2 DEF Events
  <2>3. CASE s \notin taken
    BY <1>1, <1>2, <1>4, <2>1, <2>3
  <2> QED BY <2>2, <2>3
<1>11. SendersOK'
  <2> SUFFICES ASSUME NEW w \in Workers, NEW s \in Sids, Sends(w, s)', Listed(s)'
               PROVE  wjob'[w].eventKey = sub'[s].ToSendEventKey
    BY DEF SendersOK
  <2>1. Sends(w, s) /\ Listed(s)
    BY <1>1, <1>2 DEF Sends
  <2> QED BY <1>1, <1>2, <2>1 DEF TurnsInv, SendersOK
<1>12. OneNotifyAtATime'
  BY <1>1 DEF TurnsInv, OneNotifyAtATime
<1>13. SentOK'
  <2> SUFFICES ASSUME NEW s \in Sids, Listed(s)'
               PROVE  Len(sent'[s]) = sub'[s].ToSendEventKey + (IF IsSent(s)' THEN 1 ELSE 0)
    BY DEF SentOK
  <2>1. IsSent(s)' <=> IsSent(s)
    BY <1>1 DEF IsSent, Sends
  <2>2. Listed(s) /\ sub'[s].ToSendEventKey = sub[s].ToSendEventKey
    BY <1>2
  <2> QED BY <1>1, <2>1, <2>2 DEF TurnsInv, SentOK
<1>14. FeedOK'
  <2> SUFFICES ASSUME NEW s \in Sids, Listed(s)'
               PROVE  \E m \in Nat : /\ sub'[s].ToSendEventKey <= m /\ m <= sub'[s].eventKey
                                     /\ InStep(s, m)'
    BY DEF FeedOK
  <2>1. Listed(s)
    BY <1>2
  <2>2. PICK m \in Nat : /\ sub[s].ToSendEventKey <= m /\ m <= sub[s].eventKey
                         /\ InStep(s, m)
    BY <2>1 DEF TurnsInv, FeedOK
  <2>3. /\ m <= Len(accepted[s]) /\ Len(accepted[s]) <= sub[s].eventKey
        /\ m = sub[s].eventKey => Len(accepted[s]) = m
        /\ m > 0 => accepted[s][1] = initial[s]
    BY <2>2 DEF InStep
  <2>4. ASSUME NEW j \in NotifyJob, Waits(j), j.sid = s
        PROVE  /\ j.eventKey < sub[s].eventKey /\ j.eventKey # m /\ j.eventKey \in Nat
               /\ j.eventKey < m => accepted[s][j.eventKey + 1] = j.event
    BY <2>2, <2>4, KeyFacts DEF InStep, TurnsInv, JobsOK, NotifyJob
  <2>5. CASE s \notin taken
    <3>1. accepted'[s] = accepted[s] /\ initial'[s] = initial[s]
      BY <1>2, <2>5
    <3>2. \A j \in NotifyJob : Waits(j)' /\ j.sid = s => Waits(j)
      BY <1>3, <2>5
    <3>3. sub'[s].eventKey \in {sub[s].eventKey, sub[s].eventKey + 1}
      BY <1>2
    <3>4. InStep(s, m)'
      BY <1>4, <2>3, <2>4, <3>1, <3>2, <3>3 DEF InStep
    <3> QED BY <1>2, <1>4, <2>2, <3>3, <3>4
  <2>6. CASE s \in taken /\ m < sub[s].eventKey
    <3>1. /\ sub'[s].eventKey = sub[s].eventKey + 1 /\ initial'[s] = initial[s]
          /\ Len(accepted'[s]) = Len(accepted[s]) + 1
          /\ \A i \in 1..Len(accepted[s]) : accepted'[s][i] = accepted[s][i]
      BY <1>1, <1>2, <1>4, <1>6, <2>6
    <3>2. ASSUME NEW j \in NotifyJob, Waits(j)', j.sid = s
          PROVE  /\ j.eventKey # m
                 /\ j.eventKey < m => accepted'[s][j.eventKey + 1] = j.event
      <4>1. CASE Waits(j)
        <5>1. /\ j.eventKey # m /\ j.eventKey \in Nat
              /\ j.eventKey < m => accepted[s][j.eventKey + 1] = j.event
          BY <2>4, <3>2, <4>1
        <5>2. ASSUME j.eventKey < m
              PROVE  accepted'[s][j.eventKey + 1] = accepted[s][j.eventKey + 1]
          <6>1. j.eventKey + 1 \in 1..Len(accepted[s])
            BY <1>4, <2>2, <2>3, <5>1, <5>2
          <6> QED BY <3>1, <6>1
        <5> QED BY <5>1, <5>2
      <4>2. CASE j.eventKey = sub[j.sid].eventKey
        BY <1>4, <2>6, <3>2, <4>2
      <4> QED BY <1>3, <3>2, <4>1, <4>2
    <3>3. m > 0 => accepted'[s][1] = initial'[s]
      BY <1>4, <2>3, <3>1
    <3>4. InStep(s, m)'
      BY <1>4, <2>3, <2>6, <3>1, <3>2, <3>3 DEF InStep
    <3>5. sub'[s].ToSendEventKey <= m /\ m <= sub'[s].eventKey
      BY <1>2, <1>4, <2>2, <3>1
    <3> QED BY <3>4, <3>5
  <2>7. CASE s \in taken /\ m = sub[s].eventKey
    <3>1. /\ sub'[s].eventKey = m + 1 /\ Len(accepted[s]) = m
          /\ Len(accepted'[s]) = m + 1 /\ accepted'[s][m + 1] = events'
          /\ \A i \in 1..m : accepted'[s][i] = accepted[s][i]
      BY <1>1, <1>2, <1>4, <1>6, <2>3, <2>7
    <3>2. ASSUME NEW j \in NotifyJob, Waits(j)', j.sid = s
          PROVE  /\ j.eventKey # m + 1
                 /\ j.eventKey < m + 1 => accepted'[s][j.eventKey + 1] = j.event
      <4>1. CASE Waits(j)
        <5>1. j.eventKey < m /\ j.eventKey \in Nat /\ accepted[s][j.eventKey + 1] = j.event
          BY <2>4, <2>7, <3>2, <4>1
        <5>2. j.eventKey + 1 \in 1..m
          BY <5>1, <2>2
        <5>3. accepted'[s][j.eventKey + 1] = accepted[s][j.eventKey + 1]
          BY <3>1, <5>2
        <5>4. j.eventKey # m + 1
          BY <5>1, <2>2
        <5> QED BY <5>1, <5>3, <5>4
      <4>2. CASE j.eventKey = m /\ j.event = events'
        BY <3>1, <4>2
      <4> QED BY <1>3, <2>7, <3>2, <4>1, <4>2
    <3>3. accepted'[s][1] = initial'[s]
      <4>1. CASE m = 0
        <5>1. initial'[s] = events'
          BY <1>2, <2>7, <4>1
        <5> QED BY <3>1, <4>1, <5>1
      <4>2. CASE m # 0
        <5>1. initial'[s] = initial[s]
          BY <1>2, <2>7, <4>2
        <5>2. 1 \in 1..m
          BY <4>2
        <5> QED BY <2>3, <3>1, <4>2, <5>1, <5>2
      <4> QED BY <4>1, <4>2
    <3>4. InStep(s, m + 1)'
      BY <3>1, <3>2, <3>3 DEF InStep
    <3>5. sub'[s].ToSendEventKey <= m + 1 /\ m + 1 <= sub'[s].eventKey
      BY <1>2, <1>4, <2>2, <3>1
    <3> QED BY <3>4, <3>5
  <2> QED BY <1>4, <2>2, <2>5, <2>6, <2>7
<1> QED BY <1>7, <1>8, <1>9, <1>10, <1>11, <1>12, <1>13, <1>14 DEF TurnsInv
\* A job that waits has had its turn given out: the next key is nobody's.
LEMMA NextKeyIsNew ==
  ASSUME Types, TurnsInv, NEW j \in NotifyJob, Waits(j), NEW k,
         k.eventKey = sub[k.sid].eventKey
  PROVE  ~SameTurn(j, k)
<1>1. j.eventKey < sub[j.sid].eventKey /\ j.eventKey \in Nat /\ j.sid \in Sids
  BY KeyFacts DEF TurnsInv, JobsOK, NotifyJob
<1>2. sub[j.sid].eventKey \in Nat
  BY <1>1, KeyFacts DEF Types, SubTypes, Keys
<1> QED BY <1>1, <1>2 DEF SameTurn

LEMMA JobsWait ==
  ASSUME Types
  PROVE  /\ \A i \in DOMAIN queue : queue[i] \in NotifyJob /\ Waits(queue[i])
         /\ \A w \in Workers : wpc[w] # "idle" => wjob[w] \in NotifyJob /\ Waits(wjob[w])
BY DEF Types, QueueTypes, WorkerTypes, Waits

LEMMA AllKeepsTurns ==
  ASSUME Types, ListInv, Apart, TurnsInv, MaxEvents < MaxKey, genaNotifyAll
  PROVE  Apart' /\ TurnsInv'
<1>1. PICK targets \in Targets :
         LET made   == Made(targets)
             queued == Taken(targets)
         IN  /\ Share(events + 1, Len(made))
             /\ queue' = queue \o JobsOf(queued, events + 1)
             /\ sub' = [s \in Sids |->
                          IF In(s, made) THEN [sub[s] EXCEPT !.eventKey = EventKeyAfter(@)] ELSE sub[s]]
             /\ accepted' = [s \in Sids |->
                               IF In(s, queued) THEN Append(accepted[s], events + 1) ELSE accepted[s]]
             /\ \E rest \in Part({i \in Places : subscriptionList[i] \notin Met(targets)}) :
                  subscriptionList' = rest
  BY DEF genaNotifyAll, JobsOf
<1>2. UNCHANGED <<used, initial, sent, wpc, wjob>> /\ events < MaxEvents
  BY DEF genaNotifyAll, workerVars
<1> DEFINE made == Made(targets)
           queued == Taken(targets)
           to == {s \in Sids : In(s, made)}
           taken == {s \in Sids : In(s, queued)}
           jobs == JobsOf(queued, events + 1)
<1>3. /\ ListTypes /\ QueueTypes /\ SubTypes /\ targets \in Seq(Sids) /\ Distinct(targets)
      /\ \A i \in DOMAIN targets : Listed(targets[i]) /\ sub[targets[i]].active
  BY TargetFacts DEF Types, ListInv, ListOK
<1>4. /\ queued \in Seq(Sids)
      /\ \A i \in DOMAIN made : i \in DOMAIN targets /\ made[i] = targets[i]
      /\ \A i \in DOMAIN queued : i \in DOMAIN made /\ queued[i] = targets[i]
  BY <1>3, MadeFacts
<1>5. /\ events' = events + 1 /\ events + 1 \in Events
      /\ queue' = queue \o jobs
      /\ \A s \in Sids : sub'[s] = IF s \in to THEN [sub[s] EXCEPT !.eventKey = EventKeyAfter(@)] ELSE sub[s]
      /\ \A s \in Sids : accepted'[s] = IF s \in taken THEN Append(accepted[s], events + 1) ELSE accepted[s]
  <2>1. events \in Nat
    BY KeyFacts DEF Types, DataTypes
  <2> QED BY <1>1, <1>2, <2>1, KeyFacts DEF Share, Events
<1> HIDE DEF made, queued
<1>6. /\ jobs \in Seq(NotifyJob) /\ DOMAIN jobs = DOMAIN queued
      /\ \A i \in DOMAIN queued : jobs[i] = Job(queued[i], sub[queued[i]].eventKey, events + 1)
  <2>1. jobs \in Seq(NotifyJob) /\ Len(jobs) = Len(queued)
    BY <1>3, <1>4, <1>5, JobsOfFacts
  <2>2. \A i \in DOMAIN queued : jobs[i] = Job(queued[i], sub[queued[i]].eventKey, events + 1)
    BY <1>3, <1>4, <1>5, JobsOfFacts
  <2> HIDE DEF jobs
  <2>3. DOMAIN jobs = 1..Len(jobs) /\ DOMAIN queued = 1..Len(queued)
    BY <1>4, <2>1
  <2> QED BY <2>1, <2>2, <2>3
<1> HIDE DEF jobs
<1>7. \A i \in DOMAIN jobs : /\ jobs[i].sid = queued[i] /\ jobs[i].eventKey = sub[queued[i]].eventKey
                             /\ jobs[i].event = events + 1
  BY <1>6 DEF Job
<1>8. \A i, k \in DOMAIN jobs : SameTurn(jobs[i], jobs[k]) => i = k
  BY <1>3, <1>4, <1>6, <1>7 DEF SameTurn, Distinct
<1>9. \A i \in DOMAIN jobs : jobs[i].eventKey = sub[jobs[i].sid].eventKey
  BY <1>7
<1>10. /\ \A i \in DOMAIN jobs, k \in DOMAIN queue : ~SameTurn(queue[k], jobs[i])
       /\ \A i \in DOMAIN jobs, w \in Workers : wpc'[w] # "idle" => ~SameTurn(wjob[w], jobs[i])
  BY <1>2, <1>9, JobsWait, NextKeyIsNew
<1>11. /\ Apart'
       /\ \A j : Waits(j)' => Waits(j) \/ \E i \in DOMAIN jobs : jobs[i] = j
  BY <1>2, <1>5, <1>6, <1>8, <1>10, MoreStayApart
<1>12. \A s \in Sids : /\ Listed(s)' => Listed(s)
                       /\ s \in to => Listed(s) /\ sub[s].active
                       /\ s \in taken => s \in to
  <2>1. \A s \in Sids : s \in to => Listed(s) /\ sub[s].active
    BY <1>3, <1>4 DEF In
  <2>2. \A s \in Sids : s \in taken => s \in to
    BY <1>4 DEF In
  <2>3. subscriptionList' \in Part({i \in Places : subscriptionList[i] \notin Met(targets)})
    BY <1>1
  <2>4. \A s \in Sids : Listed(s)' => Listed(s)
    BY <1>3, <2>3, Swept DEF Listed
  <2> QED BY <2>1, <2>2, <2>4
<1>13. ASSUME NEW s \in Sids
       PROVE  /\ sub'[s].eventKey = IF s \in to THEN sub[s].eventKey + 1 ELSE sub[s].eventKey
              /\ sub'[s].ToSendEventKey = sub[s].ToSendEventKey
              /\ sub'[s].active = sub[s].active
              /\ s \in taken => sub[s].eventKey # 0
  <2>1. sub[s] \in Keys /\ sub[s].eventKey \in Nat /\ sub[s].eventKey <= events /\ events \in Nat
    BY KeyFacts DEF Types, SubTypes, Keys, DataTypes, TurnsInv, KeysOK
  <2>2. EventKeyAfter(sub[s].eventKey) = sub[s].eventKey + 1
    BY <1>2, <2>1, KeyFacts DEF EventKeyAfter
  <2>3. CASE s \in to
    <3>1. sub'[s] = [sub[s] EXCEPT !.eventKey = sub[s].eventKey + 1]
      BY <1>5, <2>2, <2>3
    <3>2. sub[s].eventKey >= 1
      BY <1>12, <2>3 DEF TurnsInv, KeysOK
    <3> QED BY <2>1, <2>3, <3>1, <3>2 DEF Keys
  <2>4. CASE s \notin to
    BY <1>5, <1>12, <2>4
  <2> QED BY <2>3, <2>4
<1>14. \A j \in NotifyJob : Waits(j)' =>
         Waits(j) \/ (j.sid \in taken /\ j.eventKey = sub[j.sid].eventKey /\ j.event = events')
  <2>1. \A i \in DOMAIN jobs : jobs[i].sid \in taken
    BY <1>4, <1>6, <1>7 DEF In
  <2> QED BY <1>5, <1>7, <1>9, <1>11, <2>1
<1>15. Publishes(to, taken)
  BY <1>2, <1>5, <1>12, <1>13, <1>14 DEF Publishes
<1>16. Types'
  BY NotifyAllTypes
<1> QED BY <1>11, <1>15, <1>16, PublishKeepsTurns

LEMMA AcceptKeepsTurns ==
  ASSUME Types, ListInv, Apart, TurnsInv, MaxEvents < MaxKey,
         NEW r \in Receivers, AcceptSubscription(r)
  PROVE  Apart' /\ TurnsInv'
<1> DEFINE s == callback[r]
<1>1. /\ s \in Sids /\ UNCHANGED <<used, wpc, wjob>>
  BY DEF AcceptSubscription, Types, CallTypes, workerVars
<1>2. \/ /\ GetSubscriptionSID(s) /\ UNCHANGED <<sub, queue, events, dataVars, feedVars>>
      \/ /\ Found(s) /\ ~sub[s].active /\ events < MaxEvents
         /\ sub' = [sub EXCEPT ![s].active = TRUE, ![s].eventKey = @ + 1]
         /\ IF Room > 0
            THEN /\ Share(events + 1, 1)
                 /\ queue' = Append(queue, Job(s, sub[s].eventKey, events + 1))
                 /\ initial' = [initial EXCEPT ![s] = events + 1]
                 /\ accepted' = [accepted EXCEPT ![s] = Append(@, events + 1)]
            ELSE /\ Share(events + 1, 0)
                 /\ UNCHANGED <<queue, initial, accepted>>
         /\ UNCHANGED <<subscriptionList, sent>>
  BY DEF AcceptSubscription
<1>3. Types'
  BY AcceptTypes
<1> HIDE DEF s
<1>4. CASE GetSubscriptionSID(s) /\ UNCHANGED <<sub, queue, events, dataVars, feedVars>>
  <2>1. UNCHANGED <<queue, wpc, wjob, sub, events, used, accepted, sent, initial>>
    BY <1>1, <1>4 DEF feedVars
  <2>2. Apart' /\ \A j : Waits(j)' => Waits(j)
    BY <2>1, FewerStayApart
  <2>3. \A x : Listed(x)' => Listed(x)
    BY <1>4, Unlinked DEF GetSubscriptionSID, Types, Listed
  <2>4. Quiet
    BY <2>1, <2>2, <2>3 DEF Quiet
  <2> QED BY <2>2, <2>4, QuietKeepsTurns
<1>5. ASSUME /\ Found(s) /\ ~sub[s].active /\ events < MaxEvents
             /\ sub' = [sub EXCEPT ![s].active = TRUE, ![s].eventKey = @ + 1]
             /\ IF Room > 0
                THEN /\ Share(events + 1, 1)
                     /\ queue' = Append(queue, Job(s, sub[s].eventKey, events + 1))
                     /\ initial' = [initial EXCEPT ![s] = events + 1]
                     /\ accepted' = [accepted EXCEPT ![s] = Append(@, events + 1)]
                ELSE /\ Share(events + 1, 0)
                     /\ UNCHANGED <<queue, initial, accepted>>
             /\ UNCHANGED <<subscriptionList, sent>>
      PROVE  Apart' /\ TurnsInv'
  <2>1. events' = events + 1 /\ events \in Nat /\ events + 1 \in Events
    BY <1>5, KeyFacts DEF Share, Types, DataTypes, Events
  <2>2. sub \in [Sids -> Keys] /\ sub[s].eventKey = 0
    BY <1>1, <1>5 DEF Types, SubTypes
  <2>3. \A x \in Sids : /\ sub'[x].eventKey = IF x \in {s} THEN sub[x].eventKey + 1 ELSE sub[x].eventKey
                        /\ sub'[x].ToSendEventKey = sub[x].ToSendEventKey
                        /\ x \notin {s} => sub'[x].active = sub[x].active
    <3>1. \A x \in Sids : x # s => sub'[x] = sub[x]
      BY <1>5, <2>2
    <3>2. sub'[s] = [sub[s] EXCEPT !.active = TRUE, !.eventKey = @ + 1]
      BY <1>1, <1>5, <2>2
    <3>3. sub'[s].eventKey = sub[s].eventKey + 1 /\ sub'[s].ToSendEventKey = sub[s].ToSendEventKey
      BY <1>1, <2>2, <3>2 DEF Keys
    <3> QED BY <3>1, <3>3
  <2>4. Listed(s) /\ \A x : Listed(x)' <=> Listed(x)
    BY <1>5 DEF Found, Listed
  <2>5. accepted \in [Sids -> Seq(Events)] /\ initial \in [Sids -> 0..MaxEvents]
    BY DEF Types, FeedTypes
  <2>6. CASE Room > 0
    <3> DEFINE job == Job(s, sub[s].eventKey, events + 1)
               jobs == <<job>>
    <3>1. job \in NotifyJob
      BY <1>1, <2>1, <2>2, KeyFacts DEF Job, NotifyJob
    <3>2. job.sid = s /\ job.eventKey = sub[s].eventKey /\ job.event = events'
      BY <2>1 DEF Job
    <3>3. queue' = Append(queue, job) /\ queue \in Seq(NotifyJob)
      BY <1>5, <2>6 DEF Types, QueueTypes
    <3> HIDE DEF job
    <3>4. jobs \in Seq(NotifyJob) /\ DOMAIN jobs = {1} /\ jobs[1] = job
      BY <3>1
    <3>5. queue' = queue \o jobs
      BY <3>1, <3>3, AppendIsConcat
    <3>6. /\ \A k \in DOMAIN queue : ~SameTurn(queue[k], job)
          /\ \A w \in Workers : wpc[w] # "idle" => ~SameTurn(wjob[w], job)
      BY <3>2, JobsWait, NextKeyIsNew
    <3> HIDE DEF jobs
    <3>7. /\ Apart'
          /\ \A j : Waits(j)' => Waits(j) \/ \E i \in DOMAIN jobs : jobs[i] = j
      BY <1>1, <3>4, <3>5, <3>6, MoreStayApart
    <3>8. \A x \in Sids : /\ accepted'[x] = IF x \in {s} THEN Append(accepted[x], events') ELSE accepted[x]
                          /\ IF x \in {s} /\ sub[x].eventKey = 0
                             THEN initial'[x] = events' ELSE initial'[x] = initial[x]
      BY <1>1, <1>5, <2>1, <2>2, <2>5, <2>6
    <3>9. \A j \in NotifyJob : Waits(j)' =>
            Waits(j) \/ (j.sid \in {s} /\ j.eventKey = sub[j.sid].eventKey /\ j.event = events')
      BY <3>2, <3>4, <3>7
    <3>10. Publishes({s}, {s})
      BY <1>1, <1>5, <2>1, <2>3, <2>4, <3>8, <3>9 DEF Publishes
    <3> QED BY <1>3, <3>7, <3>10, PublishKeepsTurns
  <2>7. CASE ~(Room > 0)
    <3>1. UNCHANGED <<queue, initial, accepted, wpc, wjob>>
      BY <1>1, <1>5, <2>7
    <3>2. Apart' /\ \A j : Waits(j)' => Waits(j)
      BY <3>1, FewerStayApart
    <3>3. Publishes({s}, {})
      BY <1>1, <1>5, <2>1, <2>3, <2>4, <3>1, <3>2 DEF Publishes
    <3> QED BY <1>3, <3>2, <3>3, PublishKeepsTurns
  <2> QED BY <2>6, <2>7
<1> QED BY <1>2, <1>4, <1>5
LEMMA SubscribeKeepsTurns ==
  ASSUME Types, ListInv, Apart, TurnsInv,
         NEW r \in Receivers, NEW s \in Sids, NEW t \in Limits, Subscribe(r, s, t)
  PROVE  Apart' /\ TurnsInv'
<1>1. /\ s \notin used /\ UNCHANGED <<queue, wpc, wjob, events, accepted, sent, initial>>
  BY DEF Subscribe, workerVars, feedVars
<1>2. Apart' /\ \A j : Waits(j)' <=> Waits(j)
  BY <1>1 DEF Apart, Waits
<1>3. CASE UNCHANGED <<listVars, used, callback>>
  <2>1. UNCHANGED <<sub, subscriptionList, used>>
    BY <1>3 DEF listVars
  <2>2. Quiet
    BY <1>1, <1>2, <2>1 DEF Quiet, Listed
  <2> QED BY <1>2, <2>2, QuietKeepsTurns
<1>4. ASSUME /\ used' = used \cup {s}
             /\ sub' = [sub EXCEPT ![s] = [NewSub EXCEPT !.expires = Expires(t)]]
             /\ subscriptionList' = <<s>> \o subscriptionList
      PROVE  TurnsInv'
  <2>1. /\ sub'[s].eventKey = 0 /\ sub'[s].ToSendEventKey = 0 /\ sub'[s].active = FALSE
        /\ \A x \in Sids : x # s => sub'[x] = sub[x]
    <3>1. sub'[s] = [NewSub EXCEPT !.expires = Expires(t)] /\ \A x \in Sids : x # s => sub'[x] = sub[x]
      BY <1>4 DEF Types, SubTypes
    <3> QED BY <3>1 DEF NewSub
  <2>2. \A x \in Sids : x # s /\ Listed(x)' => Listed(x)
    <3>1. /\ subscriptionList \in Seq(Sids) /\ Len(subscriptionList) \in Nat
          /\ \A i \in DOMAIN subscriptionList' : i = 1 \/ i - 1 \in DOMAIN subscriptionList
          /\ subscriptionList'[1] = s
          /\ \A i \in DOMAIN subscriptionList' :
               i # 1 => subscriptionList'[i] = subscriptionList[i - 1]
      BY <1>4 DEF Types, ListTypes
    <3> QED BY <3>1 DEF Listed, In
  <2>3. accepted[s] = <<>> /\ sent[s] = <<>>
    BY <1>1 DEF TurnsInv, FreshOK
  <2>4. \A j \in NotifyJob : Waits(j) => j.sid \in Sids /\ j.sid # s
    BY <1>1 DEF TurnsInv, JobsOK, NotifyJob
  <2>5. \A w \in Workers : ~Sends(w, s)
    BY <2>4, JobsWait DEF Sends
  <2>6. \A w \in Workers, x \in Sids : Sends(w, x)' <=> Sends(w, x)
    BY <1>1 DEF Sends
  <2>7. KeysOK'
    <3>1. events \in Nat
      BY KeyFacts DEF Types, DataTypes
    <3> QED BY <1>1, <2>1, <3>1 DEF TurnsInv, KeysOK
  <2>8. JobsOK'
    BY <1>2, <1>4, <2>1, <2>4 DEF TurnsInv, JobsOK
  <2>9. FreshOK' /\ PastOK' /\ OneNotifyAtATime'
    BY <1>1, <1>4 DEF TurnsInv, FreshOK, PastOK, OneNotifyAtATime
  <2>10. SendersOK'
    BY <1>1, <2>1, <2>2, <2>5, <2>6 DEF TurnsInv, SendersOK
  <2>11. SentOK'
    <3> SUFFICES ASSUME NEW x \in Sids, Listed(x)'
                 PROVE  Len(sent'[x]) = sub'[x].ToSendEventKey + (IF IsSent(x)' THEN 1 ELSE 0)
      BY DEF SentOK
    <3>1. IsSent(x)' <=> IsSent(x)
      BY <2>6 DEF IsSent
    <3>2. CASE x = s
      <4>1. ~IsSent(x)'
        BY <2>5, <3>1, <3>2 DEF IsSent
      <4>2. Len(sent'[x]) = 0
        BY <1>1, <2>3, <3>2
      <4> QED BY <2>1, <3>2, <4>1, <4>2
    <3>3. CASE x # s
      BY <1>1, <2>1, <2>2, <3>1, <3>3 DEF TurnsInv, SentOK
    <3> QED BY <3>2, <3>3
  <2>12. FeedOK'
    <3> SUFFICES ASSUME NEW x \in Sids, Listed(x)'
                 PROVE  \E m \in Nat : /\ sub'[x].ToSendEventKey <= m /\ m <= sub'[x].eventKey
                                       /\ InStep(x, m)'
      BY DEF FeedOK
    <3>1. CASE x = s
      <4>1. Len(accepted'[s]) = 0 /\ sub'[s].eventKey = 0 /\ sub'[s].ToSendEventKey = 0
        BY <1>1, <2>1, <2>3
      <4>2. \A j \in NotifyJob : Waits(j)' => j.sid # s
        BY <1>2, <2>4
      <4>3. InStep(s, 0)'
        BY <4>1, <4>2 DEF InStep
      <4> QED BY <3>1, <4>1, <4>3
    <3>2. CASE x # s
      <4>1. PICK m \in Nat : /\ sub[x].ToSendEventKey <= m /\ m <= sub[x].eventKey
                             /\ InStep(x, m)
        BY <2>2, <3>2 DEF TurnsInv, FeedOK
      <4>2. sub'[x] = sub[x] /\ accepted'[x] = accepted[x] /\ initial'[x] = initial[x]
        BY <1>1, <2>1, <3>2
      <4>3. InStep(x, m)'
        BY <1>2, <4>1, <4>2 DEF InStep
      <4> QED BY <4>1, <4>2, <4>3
    <3> QED BY <3>1, <3>2
  <2> QED BY <2>7, <2>8, <2>9, <2>10, <2>11, <2>12 DEF TurnsInv
<1> QED BY <1>2, <1>3, <1>4 DEF Subscribe

\* A thread that sends the job whose turn it is has the subscriber to itself, and sends
\* the next event accepted for it.
LEMMA TurnFacts ==
  ASSUME Types, ListInv, Apart, TurnsInv, NEW w \in Workers, NEW s \in Sids,
         wpc[w] = "found", wjob[w].sid = s, NextInOrder(w)
  PROVE  /\ Listed(s) /\ ~IsSent(s)
         /\ Len(sent[s]) = sub[s].ToSendEventKey
         /\ Len(sent[s]) < Len(accepted[s])
         /\ accepted[s][1] = initial[s]
         /\ wjob[w].event = accepted[s][Len(sent[s]) + 1]
<1>1. Listed(s)
  BY DEF ListInv, ReadersOK
<1>2. wjob[w] \in NotifyJob /\ Waits(wjob[w]) /\ wjob[w].eventKey \in Nat
  BY JobsWait, KeyFacts DEF NotifyJob
<1>3. wjob[w].eventKey = sub[s].ToSendEventKey
  BY DEF NextInOrder
<1>4. ~IsSent(s)
  <2> SUFFICES ASSUME NEW v \in Workers, Sends(v, s)
               PROVE  FALSE
    BY DEF IsSent
  <2>1. wjob[v].eventKey = sub[s].ToSendEventKey
    BY <1>1 DEF TurnsInv, SendersOK
  <2>2. SameTurn(wjob[v], wjob[w])
    BY <1>3, <2>1 DEF SameTurn, Sends
  <2>3. v = w
    BY <2>2 DEF Apart, Sends
  <2> QED BY <2>3 DEF Sends
<1>5. Len(sent[s]) = sub[s].ToSendEventKey
  BY <1>1, <1>2, <1>3, <1>4 DEF TurnsInv, SentOK
<1>6. PICK m \in Nat : /\ sub[s].ToSendEventKey <= m /\ m <= sub[s].eventKey
                       /\ InStep(s, m)
  BY <1>1 DEF TurnsInv, FeedOK
<1>7. wjob[w].eventKey < m
  BY <1>2, <1>3, <1>6 DEF InStep
<1>8. accepted[s][wjob[w].eventKey + 1] = wjob[w].event
  BY <1>2, <1>6, <1>7 DEF InStep
<1>9. accepted[s][1] = initial[s] /\ m <= Len(accepted[s]) /\ Len(accepted[s]) \in Nat
  BY <1>2, <1>6, <1>7 DEF InStep, Types, FeedTypes
<1> QED BY <1>1, <1>2, <1>3, <1>4, <1>5, <1>7, <1>8, <1>9

LEMMA CopyKeepsTurns ==
  ASSUME Types, ListInv, Apart, TurnsInv, NEW w \in Workers, NotifyCopy(w)
  PROVE  Apart' /\ TurnsInv'
<1> DEFINE s == wjob[w].sid
<1>1. /\ wpc[w] = "found" /\ s \in Sids /\ wjob[w] \in NotifyJob /\ Waits(wjob[w])
      /\ UNCHANGED <<sub, subscriptionList, used, events, accepted, initial>>
  BY BusyFacts, JobsWait DEF NotifyCopy, listVars
<1>2. CASE /\ Ends(w)
           /\ queue' = IF Room > 0 THEN Append(queue, wjob[w]) ELSE queue
           /\ UNCHANGED sent
  <2>1. \A v \in Workers : /\ v = w => wpc'[v] = "idle"
                           /\ v # w => wpc'[v] = wpc[v] /\ wjob'[v] = wjob[v]
    BY <1>2 DEF Ends, Goes, Types, WorkerTypes
  <2>2. \A v \in Workers : wpc'[v] # "idle" => v # w /\ wpc[v] # "idle" /\ wjob'[v] = wjob[v]
    BY <2>1
  <2>3. Apart' /\ \A j : Waits(j)' => Waits(j)
    <3>1. CASE Room > 0
      <4> DEFINE jobs == <<wjob[w]>>
      <4>1. queue' = Append(queue, wjob[w]) /\ queue \in Seq(NotifyJob)
        BY <1>2, <3>1 DEF Types, QueueTypes
      <4>2. queue' = queue \o jobs
        BY <1>1, <4>1, AppendIsConcat
      <4>3. jobs \in Seq(NotifyJob) /\ DOMAIN jobs = {1} /\ jobs[1] = wjob[w]
        BY <1>1
      <4>4. /\ \A k \in DOMAIN queue : ~SameTurn(queue[k], wjob[w])
            /\ \A v \in Workers : wpc'[v] # "idle" => ~SameTurn(wjob[v], wjob[w])
        BY <1>1, <2>2 DEF Apart
      <4> HIDE DEF jobs
      <4>5. Apart' /\ \A j : Waits(j)' => Waits(j) \/ \E i \in DOMAIN jobs : jobs[i] = j
        BY <2>2, <4>2, <4>3, <4>4, MoreStayApart
      <4> QED BY <1>1, <4>3, <4>5
    <3>2. CASE ~(Room > 0)
      BY <1>2, <2>2, <3>2, FewerStayApart
    <3> QED BY <3>1, <3>2
  <2>4. Quiet
    BY <1>1, <1>2, <2>1, <2>3 DEF Quiet, Listed
  <2> QED BY <2>3, <2>4, QuietKeepsTurns
<1>3. CASE /\ NextInOrder(w) \/ ~Listed(s)
           /\ Goes(w, "sending") /\ UNCHANGED wjob
           /\ sent' = [sent EXCEPT ![s] = Append(@, wjob[w].event)]
           /\ UNCHANGED queue
  <2>1. NextInOrder(w)
    BY <1>1, <1>3 DEF ListInv, ReadersOK
  <2>2. /\ Listed(s) /\ ~IsSent(s)
        /\ Len(sent[s]) = sub[s].ToSendEventKey
    BY <1>1, <2>1, TurnFacts
  <2>3. \A v \in Workers : wpc'[v] = IF v = w THEN "sending" ELSE wpc[v]
    BY <1>3 DEF Goes, Types, WorkerTypes
  <2>4. \A v \in Workers : wpc'[v] # "idle" <=> wpc[v] # "idle"
    BY <1>1, <2>3
  <2>5. Apart' /\ \A j : Waits(j)' <=> Waits(j)
    BY <1>3, <2>4 DEF Apart, Waits
  <2>6. \A v \in Workers, x \in Sids : Sends(v, x)' <=> Sends(v, x) \/ (v = w /\ x = s)
    BY <1>1, <1>3, <2>3 DEF Sends
  <2>7. KeysOK' /\ JobsOK' /\ PastOK'
    BY <1>1, <2>5 DEF TurnsInv, KeysOK, JobsOK, PastOK
  <2>8. FreshOK'
    <3>1. s \in used
      BY <2>2 DEF ListInv, ListOK
    <3>2. \A x \in Sids : x # s => sent'[x] = sent[x]
      BY <1>3 DEF Types, FeedTypes
    <3> QED BY <1>1, <3>1, <3>2 DEF TurnsInv, FreshOK
  <2>9. SendersOK'
    <3> SUFFICES ASSUME NEW v \in Workers, NEW x \in Sids, Sends(v, x)', Listed(x)'
                 PROVE  wjob'[v].eventKey = sub'[x].ToSendEventKey
      BY DEF SendersOK
    <3>1. Listed(x)
      BY <1>1 DEF Listed
    <3>2. CASE Sends(v, x)
      BY <1>1, <1>3, <3>1, <3>2 DEF TurnsInv, SendersOK
    <3>3. CASE v = w /\ x = s
      BY <1>1, <1>3, <2>1, <3>3 DEF NextInOrder
    <3> QED BY <2>6, <3>2, <3>3
  <2>10. OneNotifyAtATime'
    <3> SUFFICES ASSUME NEW u \in Workers, NEW v \in Workers, wpc'[u] = "sending", wpc'[v] = "sending",
                        wjob'[u].sid = wjob'[v].sid
                 PROVE  u = v
      BY DEF OneNotifyAtATime
    <3>1. CASE u # w /\ v # w
      BY <1>3, <2>3, <3>1 DEF TurnsInv, OneNotifyAtATime
    <3>2. CASE u # w /\ v = w
      <4>1. Sends(u, s)
        BY <1>3, <2>3, <3>2 DEF Sends
      <4> QED BY <2>2, <4>1 DEF IsSent
    <3>3. CASE u = w /\ v # w
      <4>1. Sends(v, s)
        BY <1>3, <2>3, <3>3 DEF Sends
      <4> QED BY <2>2, <4>1 DEF IsSent
    <3> QED BY <3>1, <3>2, <3>3
  <2>11. SentOK'
    <3> SUFFICES ASSUME NEW x \in Sids, Listed(x)'
                 PROVE  Len(sent'[x]) = sub'[x].ToSendEventKey + (IF IsSent(x)' THEN 1 ELSE 0)
      BY DEF SentOK
    <3>1. Listed(x) /\ sub'[x] = sub[x]
      BY <1>1 DEF Listed
    <3>2. CASE x = s
      <4>1. IsSent(x)'
        BY <2>6, <3>2 DEF IsSent
      <4>2. sent[s] \in Seq(Events) /\ sent'[s] = Append(sent[s], wjob[w].event)
        BY <1>1, <1>3 DEF Types, FeedTypes
      <4>3. Len(sent'[s]) = Len(sent[s]) + 1
        BY <4>2
      <4> QED BY <2>2, <3>1, <3>2, <4>1, <4>3
    <3>3. CASE x # s
      <4>1. sent'[x] = sent[x] /\ (IsSent(x)' <=> IsSent(x))
        BY <1>3, <2>6, <3>3 DEF IsSent, Types, FeedTypes
      <4> QED BY <3>1, <4>1 DEF TurnsInv, SentOK
    <3> QED BY <3>2, <3>3
  <2>12. FeedOK'
    <3> SUFFICES ASSUME NEW x \in Sids, Listed(x)'
                 PROVE  \E m \in Nat : /\ sub'[x].ToSendEventKey <= m /\ m <= sub'[x].eventKey
                                       /\ InStep(x, m)'
      BY DEF FeedOK
    <3>1. Listed(x)
      BY <1>1 DEF Listed
    <3>2. PICK m \in Nat : /\ sub[x].ToSendEventKey <= m /\ m <= sub[x].eventKey
                           /\ InStep(x, m)
      BY <3>1 DEF TurnsInv, FeedOK
    <3>3. InStep(x, m)'
      BY <1>1, <2>5, <3>2 DEF InStep
    <3> QED BY <1>1, <3>2, <3>3
  <2> QED BY <2>5, <2>7, <2>8, <2>9, <2>10, <2>11, <2>12 DEF TurnsInv
<1> QED BY <1>2, <1>3 DEF NotifyCopy

LEMMA SentKeepsTurns ==
  ASSUME Types, ListInv, Apart, TurnsInv, MaxEvents < MaxKey,
         NEW w \in Workers, NEW gone \in BOOLEAN, NotifySent(w, gone)
  PROVE  Apart' /\ TurnsInv'
<1>0. PICK s \in Sids : s = wjob[w].sid
  BY BusyFacts DEF NotifySent
<1>1. /\ wpc[w] = "sending" /\ Ends(w)
      /\ wjob[w].sid = s /\ wjob[w] \in NotifyJob /\ Waits(wjob[w])
      /\ UNCHANGED <<used, queue, events, accepted, sent, initial>>
  BY <1>0, JobsWait DEF NotifySent, feedVars
<1>2. \A v \in Workers : /\ v = w => wpc'[v] = "idle"
                         /\ v # w => wpc'[v] = wpc[v] /\ wjob'[v] = wjob[v]
  BY <1>1 DEF Ends, Goes, Types, WorkerTypes
<1>3. Apart' /\ \A j : Waits(j)' => Waits(j)
  BY <1>1, <1>2, FewerStayApart
<1>4. \A x : Listed(x)' => Listed(x)
  <2>1. \/ Unlink(s) \/ UNCHANGED subscriptionList
    BY <1>1 DEF NotifySent, GetSubscriptionSID
  <2> QED BY <2>1, Unlinked DEF Types, Listed
<1>5. ASSUME Listed(s)'
      PROVE  sub' = [sub EXCEPT ![s].ToSendEventKey = ToSendAfter(@)]
  <2>1. CASE ~Found(s) /\ GetSubscriptionSID(s)
    <3>1. Unlink(s)
      BY <1>4, <1>5, <2>1 DEF Found, GetSubscriptionSID
    <3> QED BY <1>5, <3>1, Unlinked DEF Types, Listed
  <2> QED BY <1>1, <2>1 DEF NotifySent
<1>6. \A v \in Workers, x \in Sids : Sends(v, x)' <=> Sends(v, x) /\ v # w
  BY <1>2 DEF Sends
<1>7. \A v \in Workers : Sends(v, s) => v = w
  BY <1>1 DEF Sends, TurnsInv, OneNotifyAtATime
<1>8. /\ sub[s] \in Keys /\ sub[s].eventKey \in Nat /\ sub[s].ToSendEventKey \in Nat
      /\ sub[s].eventKey <= events /\ sub[s].ToSendEventKey <= sub[s].eventKey
      /\ events \in Nat /\ events <= MaxEvents
  BY <1>1, KeyFacts DEF Types, SubTypes, Keys, DataTypes, TurnsInv, KeysOK
<1>9. /\ \A x \in Sids : x # s => sub'[x] = sub[x]
      /\ \/ sub'[s] = sub[s]
         \/ /\ Listed(s) /\ sub'[s] = [sub[s] EXCEPT !.ToSendEventKey = ToSendAfter(sub[s].ToSendEventKey)]
  <2>1. \/ UNCHANGED sub
        \/ Listed(s) /\ sub' = [sub EXCEPT ![s].ToSendEventKey = ToSendAfter(@)]
    BY <1>1 DEF NotifySent, Found
  <2>2. sub \in [Sids -> Keys]
    BY DEF Types, SubTypes
  <2> QED BY <1>1, <2>1, <2>2
<1>10. ASSUME Listed(s)
       PROVE  /\ wjob[w].eventKey = sub[s].ToSendEventKey
              /\ sub[s].ToSendEventKey < sub[s].eventKey
              /\ ToSendAfter(sub[s].ToSendEventKey) = sub[s].ToSendEventKey + 1
  <2>1. wjob[w].eventKey = sub[s].ToSendEventKey
    BY <1>1, <1>10 DEF TurnsInv, SendersOK, Sends
  <2>2. wjob[w].eventKey < sub[s].eventKey
    BY <1>1 DEF TurnsInv, JobsOK
  <2> QED BY <1>8, <2>1, <2>2, KeyFacts DEF ToSendAfter
<1>11. /\ sub'[s].eventKey = sub[s].eventKey /\ sub'[s].active = sub[s].active
       /\ \/ sub'[s].ToSendEventKey = sub[s].ToSendEventKey
          \/ /\ Listed(s) /\ sub'[s].ToSendEventKey = sub[s].ToSendEventKey + 1
  BY <1>8, <1>9, <1>10 DEF Keys
<1>12. ASSUME Listed(s)'
       PROVE  sub'[s].ToSendEventKey = sub[s].ToSendEventKey + 1
  <2>1. sub'[s] = [sub[s] EXCEPT !.ToSendEventKey = ToSendAfter(sub[s].ToSendEventKey)]
    BY <1>1, <1>5, <1>12 DEF Types, SubTypes
  <2> QED BY <1>4, <1>8, <1>10, <1>12, <2>1 DEF Keys
<1>13. KeysOK'
  <2> SUFFICES ASSUME NEW x \in Sids
               PROVE  /\ sub'[x].eventKey <= events' /\ sub'[x].ToSendEventKey <= sub'[x].eventKey
                      /\ sub'[x].active => sub'[x].eventKey >= 1
    BY DEF KeysOK
  <2>1. CASE x # s
    BY <1>1, <1>9, <2>1 DEF TurnsInv, KeysOK
  <2>2. sub[s].active => sub[s].eventKey >= 1
    BY <1>1 DEF TurnsInv, KeysOK
  <2>3. CASE x = s
    BY <1>1, <1>8, <1>10, <1>11, <2>2, <2>3
  <2> QED BY <2>1, <2>3
<1>14. JobsOK'
  <2>1. \A x \in Sids : sub'[x].eventKey = sub[x].eventKey
    BY <1>9, <1>11
  <2>2. \A j \in NotifyJob : j.sid \in Sids
    BY DEF NotifyJob
  <2> QED BY <1>1, <1>3, <2>1, <2>2 DEF TurnsInv, JobsOK
<1>15. FreshOK' /\ PastOK'
  BY <1>1 DEF TurnsInv, FreshOK, PastOK
<1>16. SendersOK'
  <2> SUFFICES ASSUME NEW v \in Workers, NEW x \in Sids, Sends(v, x)', Listed(x)'
               PROVE  wjob'[v].eventKey = sub'[x].ToSendEventKey
    BY DEF SendersOK
  <2>1. Sends(v, x) /\ v # w /\ Listed(x)
    BY <1>4, <1>6
  <2>2. x # s
    BY <1>7, <2>1
  <2> QED BY <1>2, <1>9, <2>1, <2>2 DEF TurnsInv, SendersOK
<1>17. OneNotifyAtATime'
  <2> SUFFICES ASSUME NEW u \in Workers, NEW v \in Workers, wpc'[u] = "sending", wpc'[v] = "sending",
                      wjob'[u].sid = wjob'[v].sid
               PROVE  u = v
    BY DEF OneNotifyAtATime
  <2> QED BY <1>2 DEF TurnsInv, OneNotifyAtATime
<1>18. SentOK'
  <2> SUFFICES ASSUME NEW x \in Sids, Listed(x)'
               PROVE  Len(sent'[x]) = sub'[x].ToSendEventKey + (IF IsSent(x)' THEN 1 ELSE 0)
    BY DEF SentOK
  <2>1. Listed(x)
    BY <1>4
  <2>2. CASE x = s
    <3>1. ~IsSent(x)'
      BY <1>6, <1>7, <2>2 DEF IsSent
    <3>2. IsSent(s)
      BY <1>1 DEF IsSent, Sends
    <3>3. Len(sent[s]) = sub[s].ToSendEventKey + 1
      BY <1>1, <2>1, <2>2, <3>2 DEF TurnsInv, SentOK
    <3> QED BY <1>1, <1>8, <1>12, <2>2, <3>1, <3>3
  <2>3. CASE x # s
    <3>1. IsSent(x)' <=> IsSent(x)
      BY <1>1, <1>6, <2>3 DEF IsSent, Sends
    <3> QED BY <1>1, <1>9, <2>1, <2>3, <3>1 DEF TurnsInv, SentOK
  <2> QED BY <2>2, <2>3
<1>19. FeedOK'
  <2> SUFFICES ASSUME NEW x \in Sids, Listed(x)'
               PROVE  \E m \in Nat : /\ sub'[x].ToSendEventKey <= m /\ m <= sub'[x].eventKey
                                     /\ InStep(x, m)'
    BY DEF FeedOK
  <2>1. Listed(x)
    BY <1>4
  <2>2. PICK m \in Nat : /\ sub[x].ToSendEventKey <= m /\ m <= sub[x].eventKey
                         /\ InStep(x, m)
    BY <2>1 DEF TurnsInv, FeedOK
  <2>3. sub'[x].eventKey = sub[x].eventKey
    BY <1>9, <1>11
  <2>4. InStep(x, m)'
    BY <1>1, <1>3, <2>2, <2>3 DEF InStep
  <2>5. CASE x = s
    <3>1. wjob[w].eventKey = sub[s].ToSendEventKey
      BY <1>10, <2>1, <2>5
    <3>2. wjob[w].eventKey # m
      BY <1>1, <2>2, <2>5 DEF InStep
    <3>3. sub'[s].ToSendEventKey <= m
      BY <1>8, <1>12, <2>2, <2>5, <3>1, <3>2
    <3> QED BY <2>2, <2>3, <2>4, <2>5, <3>3
  <2>6. CASE x # s
    BY <1>9, <2>2, <2>4, <2>6
  <2> QED BY <2>5, <2>6
<1> QED BY <1>3, <1>13, <1>14, <1>15, <1>16, <1>17, <1>18, <1>19 DEF TurnsInv
LEMMA StartKeepsTurns ==
  ASSUME Types, Apart, TurnsInv, NEW w \in Workers, NotifyStart(w)
  PROVE  Apart' /\ TurnsInv'
<1>1. /\ wpc[w] = "idle" /\ queue # <<>>
      /\ queue' = Tail(queue)
      /\ UNCHANGED <<sub, subscriptionList, used, events, accepted, sent, initial>>
  BY DEF NotifyStart, listVars, feedVars
<1>2. \A v \in Workers : /\ v = w => wpc'[v] = "started" /\ wjob'[v] = Head(queue)
                         /\ v # w => wpc'[v] = wpc[v] /\ wjob'[v] = wjob[v]
  BY DEF NotifyStart, Goes, Types, WorkerTypes
<1>3. /\ queue \in Seq(NotifyJob) /\ Len(queue) \in Nat /\ DOMAIN queue = 1..Len(queue)
      /\ 1 \in DOMAIN queue /\ Head(queue) = queue[1]
      /\ DOMAIN queue' = 1..Len(queue) - 1
      /\ \A i \in DOMAIN queue' : i + 1 \in DOMAIN queue /\ queue'[i] = queue[i + 1] /\ i + 1 # 1
  <2>1. queue \in Seq(NotifyJob) /\ Len(queue) \in Nat /\ DOMAIN queue = 1..Len(queue) /\ Len(queue) # 0
    BY <1>1 DEF Types, QueueTypes
  <2>2. Tail(queue) \in Seq(NotifyJob) /\ Len(Tail(queue)) = Len(queue) - 1
        /\ \A i \in 1..Len(Tail(queue)) : Tail(queue)[i] = queue[i + 1]
    BY <1>1, <2>1, HeadTailProperties
  <2> QED BY <1>1, <2>1, <2>2
<1>4. \A i, k \in DOMAIN queue' : i + 1 = k + 1 => i = k
  BY <1>3
<1>5. \A x, y : SameTurn(x, y) <=> SameTurn(y, x)
  BY DEF SameTurn
<1>6. \A i, k \in DOMAIN queue' : SameTurn(queue'[i], queue'[k]) => i = k
  BY <1>3, <1>4 DEF Apart
<1>7. \A i \in DOMAIN queue', v \in Workers : wpc'[v] # "idle" => ~SameTurn(queue'[i], wjob'[v])
  <2> TAKE i \in DOMAIN queue', v \in Workers
  <2>1. CASE v = w
    BY <1>2, <1>3, <2>1 DEF Apart
  <2>2. CASE v # w
    BY <1>2, <1>3, <2>2 DEF Apart
  <2> QED BY <2>1, <2>2
<1>8. \A u, v \in Workers : wpc'[u] # "idle" /\ wpc'[v] # "idle" /\ SameTurn(wjob'[u], wjob'[v]) => u = v
  BY <1>2, <1>3, <1>5 DEF Apart
<1>9. Apart'
  BY <1>6, <1>7, <1>8 DEF Apart
<1>10. \A j : Waits(j)' => Waits(j)
  BY <1>2, <1>3 DEF Waits
<1>11. Quiet
  BY <1>1, <1>2, <1>10 DEF Quiet, Listed
<1> QED BY <1>9, <1>11, QuietKeepsTurns

LEMMA ReadKeepsTurns ==
  ASSUME Types, Apart, TurnsInv, NEW w \in Workers,
         NotifyLook(w) \/ NotifyExpire(w) \/ UnrefLoad(w) \/ UnrefStore(w) \/ UnrefTest(w)
  PROVE  Apart' /\ TurnsInv'
<1>1. /\ wpc[w] \notin {"idle", "sending"}
      /\ UNCHANGED <<sub, queue, used, events, accepted, sent, initial>>
  BY DEF NotifyLook, NotifyExpire, UnrefLoad, UnrefStore, UnrefTest, listVars, feedVars
<1>2. \/ UNCHANGED subscriptionList \/ Unlink(wjob[w].sid)
  BY DEF NotifyLook, NotifyExpire, UnrefLoad, UnrefStore, UnrefTest, listVars
<1>3. \A x : Listed(x)' => Listed(x)
  BY <1>2, Unlinked DEF Types, Listed
<1>4. PICK pc \in {"drop", "expired", "found", "store", "test", "idle"} :
        /\ wpc' = [wpc EXCEPT ![w] = pc]
        /\ pc # "idle" => wjob' = wjob
        /\ wjob' = wjob \/ wjob' = [wjob EXCEPT ![w] = NoJob]
  BY DEF NotifyLook, NotifyExpire, UnrefLoad, UnrefStore, UnrefTest, Goes, Ends
<1>5. \A v \in Workers : /\ v = w => wpc'[v] = pc /\ (pc # "idle" => wjob'[v] = wjob[v])
                         /\ v # w => wpc'[v] = wpc[v] /\ wjob'[v] = wjob[v]
  BY <1>4 DEF Types, WorkerTypes
<1>6. Apart' /\ \A j : Waits(j)' => Waits(j)
  BY <1>1, <1>5, FewerStayApart
<1>7. Quiet
  BY <1>1, <1>3, <1>5, <1>6 DEF Quiet
<1> QED BY <1>6, <1>7, QuietKeepsTurns

LEMMA OthersKeepTurns ==
  ASSUME Types, Apart, TurnsInv,
         \/ RegisterCall \/ dlnaRegisterRootDevice \/ genaUnregisterDevice \/ dlnaUnRegisterRootDevice
         \/ \E n \in Limits : dlnaSetMaxSubscriptions(n) \/ dlnaSetMaxSubscriptionTimeOut(n)
         \/ \E r \in Receivers, s \in Sids, t \in Limits : Renew(r, s, t)
         \/ \E r \in Receivers, s \in Sids : Unsubscribe(r, s)
         \/ \E s \in Sids : Expire(s)
  PROVE  Apart' /\ TurnsInv'
<1>1. UNCHANGED <<queue, wpc, wjob, used, events, accepted, sent, initial>>
  BY DEF RegisterCall, dlnaRegisterRootDevice, genaUnregisterDevice, dlnaUnRegisterRootDevice,
         dlnaSetMaxSubscriptions, dlnaSetMaxSubscriptionTimeOut, Renew, Unsubscribe, Expire,
         workerVars, feedVars
<1>2. \/ UNCHANGED subscriptionList \/ subscriptionList' = <<>> \/ \E s \in Sids : Unlink(s)
  BY DEF RegisterCall, dlnaRegisterRootDevice, genaUnregisterDevice, dlnaUnRegisterRootDevice,
         dlnaSetMaxSubscriptions, dlnaSetMaxSubscriptionTimeOut, Renew, Unsubscribe, Expire,
         GetSubscriptionSID, listVars
<1>3. \A x : Listed(x)' => Listed(x)
  <2>1. CASE UNCHANGED subscriptionList
    BY <2>1 DEF Listed
  <2>2. CASE subscriptionList' = <<>>
    <3>1. DOMAIN subscriptionList' = {}
      BY <2>2
    <3> QED BY <3>1 DEF Listed, In
  <2>3. ASSUME NEW s \in Sids, Unlink(s)
        PROVE  \A x : Listed(x)' => Listed(x)
    BY <2>3, Unlinked DEF Types, Listed
  <2> QED BY <1>2, <2>1, <2>2, <2>3
<1>4. Apart' /\ \A j : Waits(j)' => Waits(j)
  BY <1>1, FewerStayApart
<1>5. \/ UNCHANGED sub
      \/ \E s \in Sids, t \in Limits : sub' = [sub EXCEPT ![s].expires = Expires(t)]
  BY DEF RegisterCall, dlnaRegisterRootDevice, genaUnregisterDevice, dlnaUnRegisterRootDevice,
         dlnaSetMaxSubscriptions, dlnaSetMaxSubscriptionTimeOut, Renew, Unsubscribe, Expire, listVars
<1>6. \A x \in Sids : /\ sub'[x].eventKey = sub[x].eventKey
                      /\ sub'[x].ToSendEventKey = sub[x].ToSendEventKey
                      /\ sub'[x].active = sub[x].active
  <2>1. ASSUME NEW s \in Sids, NEW t, sub' = [sub EXCEPT ![s].expires = Expires(t)], NEW x \in Sids
        PROVE  /\ sub'[x].eventKey = sub[x].eventKey
               /\ sub'[x].ToSendEventKey = sub[x].ToSendEventKey
               /\ sub'[x].active = sub[x].active
    <3>1. PICK b \in BOOLEAN : b = Expires(t)
      BY DEF Expires
    <3>2. sub'[x] = IF x = s THEN [sub[x] EXCEPT !.expires = b] ELSE sub[x]
      BY <2>1, <3>1 DEF Types, SubTypes
    <3>3. sub[x] \in Keys
      BY DEF Types, SubTypes
    <3>4. CASE x = s
      <4>1. sub'[x] = [sub[x] EXCEPT !.expires = b]
        BY <3>2, <3>4
      <4>2. sub'[x].eventKey = sub[x].eventKey
        BY <3>3, <4>1 DEF Keys
      <4>3. sub'[x].ToSendEventKey = sub[x].ToSendEventKey
        BY <3>3, <4>1 DEF Keys
      <4>4. sub'[x].active = sub[x].active
        BY <3>3, <4>1 DEF Keys
      <4> QED BY <4>2, <4>3, <4>4
    <3>5. CASE x # s
      BY <3>2, <3>5
    <3> QED BY <3>4, <3>5
  <2> QED BY <1>5, <2>1
<1>7. Quiet
  BY <1>1, <1>3, <1>4, <1>6 DEF Quiet
<1> QED BY <1>4, <1>7, QuietKeepsTurns

LEMMA StepTurns ==
  ASSUME MaxEvents < MaxKey, Types, ListInv, Apart, TurnsInv, [Next]_vars
  PROVE  Apart' /\ TurnsInv'
<1>1. CASE UNCHANGED vars
  <2>1. UNCHANGED <<queue, wpc, wjob, sub, subscriptionList, used, events, accepted, sent, initial>>
    BY <1>1 DEF vars, listVars, workerVars, feedVars
  <2>2. Apart' /\ \A j : Waits(j)' => Waits(j)
    BY <2>1, FewerStayApart
  <2>3. Quiet
    BY <2>1, <2>2 DEF Quiet, Listed
  <2> QED BY <2>2, <2>3, QuietKeepsTurns
<1>2. CASE genaNotifyAll
  BY <1>2, AllKeepsTurns
<1>3. ASSUME NEW r \in Receivers, AcceptSubscription(r)
      PROVE  Apart' /\ TurnsInv'
  BY <1>3, AcceptKeepsTurns
<1>4. ASSUME NEW r \in Receivers, NEW s \in Sids, NEW t \in Limits, Subscribe(r, s, t)
      PROVE  Apart' /\ TurnsInv'
  BY <1>4, SubscribeKeepsTurns
<1>5. ASSUME NEW w \in Workers, NotifyStart(w)
      PROVE  Apart' /\ TurnsInv'
  BY <1>5, StartKeepsTurns
<1>6. ASSUME NEW w \in Workers, ReadSection(w)
      PROVE  Apart' /\ TurnsInv'
  BY <1>6, CopyKeepsTurns, ReadKeepsTurns DEF ReadSection
<1>7. ASSUME NEW w \in Workers, NEW gone \in BOOLEAN, NotifySent(w, gone)
      PROVE  Apart' /\ TurnsInv'
  BY <1>7, SentKeepsTurns
<1>8. CASE \/ RegisterCall \/ dlnaRegisterRootDevice \/ genaUnregisterDevice \/ dlnaUnRegisterRootDevice
           \/ \E n \in Limits : dlnaSetMaxSubscriptions(n) \/ dlnaSetMaxSubscriptionTimeOut(n)
           \/ \E r \in Receivers, s \in Sids, t \in Limits : Renew(r, s, t)
           \/ \E r \in Receivers, s \in Sids : Unsubscribe(r, s)
           \/ \E s \in Sids : Expire(s)
  BY <1>8, OthersKeepTurns
<1> QED BY <1>1, <1>2, <1>3, <1>4, <1>5, <1>6, <1>7, <1>8 DEF Next

LEMMA TurnsInvariant ==
  ASSUME MaxEvents < MaxKey
  PROVE  Spec /\ []RemovesAlone => [](Types /\ ListInv /\ Apart /\ TurnsInv)
<1>1. Types /\ ListInv /\ Apart /\ TurnsInv /\ [Next]_vars => (Apart /\ TurnsInv)'
  BY StepTurns
<1> QED BY InitTurns, TypesInvariant, ListInvariant, <1>1, PTL DEF Spec

\* A subscriber never has two NOTIFYs under way, whatever threads run its jobs, put
\* them back and give them up: fewer than INT_MAX events are published, and notify
\* threads remove no subscription that another one holds.
THEOREM NotifiedOneAtATime ==
  ASSUME MaxEvents < MaxKey
  PROVE  Spec /\ []RemovesAlone => []OneNotifyAtATime
<1>1. TurnsInv => OneNotifyAtATime
  BY DEF TurnsInv
<1> QED BY TurnsInvariant, <1>1, PTL

-----------------------------------------------------------------------------
(* Refinement *)

LEMMA InitFeed == Init => Feed!Init
BY DEF Init, Feed!Init

\* A step accepts an event for the subscriptions it has a job for, begins the NOTIFY of
\* the next event of one subscriber, or means nothing to the subscribers.
LEMMA StepFeed ==
  ASSUME Types, ListInv, Apart, TurnsInv, [Next]_vars
  PROVE  [Feed!Next]_(Feed!feed)
<1>1. CASE UNCHANGED feedVars
  BY <1>1 DEF feedVars, Feed!feed
<1>2. CASE genaNotifyAll
  <2>1. PICK targets \in Targets :
          accepted' = [s \in Sids |->
                         IF In(s, Taken(targets)) THEN Append(accepted[s], events + 1) ELSE accepted[s]]
    BY <1>2 DEF genaNotifyAll
  <2>2. UNCHANGED <<initial, sent>> /\ events + 1 \in Events
    BY <1>2, KeyFacts DEF genaNotifyAll, Types, DataTypes, Events
  <2> DEFINE to == {s \in Sids : In(s, Taken(targets))}
  <2>3. accepted' = [s \in Sids |->
                       IF s \in to THEN Append(accepted[s], events + 1) ELSE accepted[s]]
    BY <2>1
  <2>4. to \in SUBSET Sids
    OBVIOUS
  <2> HIDE DEF to
  <2>5. \A s \in to : Feed!IsNew(s, events + 1)
    <3> SUFFICES ASSUME NEW s \in to, NEW i \in DOMAIN accepted[s]
                 PROVE  accepted[s][i] < events + 1
      BY DEF Feed!IsNew
    <3>1. accepted[s][i] <= events /\ accepted[s] \in Seq(Events) /\ events \in Nat
      BY <2>4, KeyFacts DEF TurnsInv, PastOK, Types, FeedTypes, DataTypes
    <3>2. accepted[s][i] \in Nat
      BY <3>1, KeyFacts DEF Events
    <3> QED BY <3>1, <3>2
  <2>6. Feed!Publish(to, events + 1)
    BY <2>2, <2>3, <2>5 DEF Feed!Publish
  <2> QED BY <2>2, <2>4, <2>6 DEF Feed!Next
<1>3. ASSUME NEW r \in Receivers, AcceptSubscription(r)
      PROVE  [Feed!Next]_(Feed!feed)
  <2>1. PICK s \in Sids : s = callback[r]
    BY <1>3 DEF AcceptSubscription, Types, CallTypes
  <2>2. \/ UNCHANGED feedVars
        \/ /\ Found(s) /\ ~sub[s].active /\ events < MaxEvents
           /\ initial' = [initial EXCEPT ![s] = events + 1]
           /\ accepted' = [accepted EXCEPT ![s] = Append(accepted[s], events + 1)]
           /\ UNCHANGED sent
    BY <1>3, <2>1 DEF AcceptSubscription, feedVars
  <2>3. ASSUME /\ Found(s) /\ ~sub[s].active /\ events < MaxEvents
               /\ initial' = [initial EXCEPT ![s] = events + 1]
               /\ accepted' = [accepted EXCEPT ![s] = Append(accepted[s], events + 1)]
               /\ UNCHANGED sent
        PROVE  Feed!Next
    <3>1. sub[s].eventKey = 0 /\ accepted[s] \in Seq(Events)
      BY <2>3 DEF Types, SubTypes, FeedTypes
    <3>2. Len(accepted[s]) <= 0
      BY <2>3, <3>1 DEF Found, TurnsInv, FeedOK, InStep
    <3>3. accepted[s] = <<>>
      BY <3>1, <3>2
    <3>4. events + 1 \in Events
      BY <2>3, KeyFacts DEF Types, DataTypes, Events
    <3>5. Append(accepted[s], events + 1) = <<events + 1>>
      BY <3>3
    <3>6. Feed!Welcome(s, events + 1)
      BY <2>3, <3>3, <3>5 DEF Feed!Welcome
    <3> QED BY <3>4, <3>6 DEF Feed!Next
  <2> QED BY <2>2, <2>3, <1>1
<1>4. ASSUME NEW w \in Workers, NotifyCopy(w)
      PROVE  [Feed!Next]_(Feed!feed)
  <2>1. PICK s \in Sids : s = wjob[w].sid /\ wpc[w] = "found"
    BY <1>4, BusyFacts DEF NotifyCopy
  <2>2. \/ UNCHANGED feedVars
        \/ /\ NextInOrder(w) \/ ~Listed(s)
           /\ sent' = [sent EXCEPT ![s] = Append(@, wjob[w].event)]
           /\ UNCHANGED <<initial, accepted>>
    BY <1>4, <2>1 DEF NotifyCopy, feedVars
  <2>3. ASSUME /\ NextInOrder(w) \/ ~Listed(s)
               /\ sent' = [sent EXCEPT ![s] = Append(@, wjob[w].event)]
               /\ UNCHANGED <<initial, accepted>>
        PROVE  Feed!Next
    <3>1. NextInOrder(w)
      BY <2>1, <2>3 DEF ListInv, ReadersOK
    <3>2. /\ Len(sent[s]) < Len(accepted[s])
          /\ accepted[s][1] = initial[s]
          /\ wjob[w].event = accepted[s][Len(sent[s]) + 1]
      BY <2>1, <3>1, TurnFacts
    <3>3. sent' = [sent EXCEPT ![s] = Append(@, accepted[s][Len(@) + 1])]
      BY <2>3, <3>2
    <3>4. Feed!Notify(s)
      BY <2>3, <3>2, <3>3 DEF Feed!Notify
    <3> QED BY <3>4 DEF Feed!Next
  <2> QED BY <2>2, <2>3, <1>1
<1>5. ASSUME ~genaNotifyAll, \A r \in Receivers : ~AcceptSubscription(r),
             \A w \in Workers : ~NotifyCopy(w)
      PROVE  UNCHANGED feedVars
  <2>1. CASE UNCHANGED vars
    BY <2>1 DEF vars
  <2>2. CASE \/ RegisterCall \/ dlnaRegisterRootDevice \/ genaUnregisterDevice \/ dlnaUnRegisterRootDevice
             \/ \E n \in Limits : dlnaSetMaxSubscriptions(n) \/ dlnaSetMaxSubscriptionTimeOut(n)
             \/ \E r \in Receivers, s \in Sids, t \in Limits : Subscribe(r, s, t) \/ Renew(r, s, t)
             \/ \E r \in Receivers, s \in Sids : Unsubscribe(r, s)
             \/ \E s \in Sids : Expire(s)
    BY <2>2 DEF RegisterCall, dlnaRegisterRootDevice, genaUnregisterDevice, dlnaUnRegisterRootDevice,
           dlnaSetMaxSubscriptions, dlnaSetMaxSubscriptionTimeOut, Subscribe, Renew, Unsubscribe, Expire
  <2>3. ASSUME NEW w \in Workers,
               NotifyStart(w) \/ ReadSection(w) \/ \E gone \in BOOLEAN : NotifySent(w, gone)
        PROVE  UNCHANGED feedVars
    BY <1>5, <2>3 DEF NotifyStart, ReadSection, NotifyLook, NotifyExpire, UnrefLoad, UnrefStore,
           UnrefTest, NotifySent
  <2> QED BY <1>5, <2>1, <2>2, <2>3 DEF Next
<1> QED BY <1>1, <1>2, <1>3, <1>4, <1>5

\* The device side is an event feed: each subscriber is sent the events accepted for it,
\* in that order, none twice and none left out between two others, and the first of
\* them is its initial state table.
THEOREM DeviceImplementsEventFeed ==
  ASSUME MaxEvents < MaxKey
  PROVE  Spec /\ []RemovesAlone => ImplementsEventFeed
<1>1. Types /\ ListInv /\ Apart /\ TurnsInv /\ [Next]_vars => [Feed!Next]_(Feed!feed)
  BY StepFeed
<1> QED BY InitFeed, TurnsInvariant, <1>1, PTL DEF Spec, ImplementsEventFeed, Feed!Spec
-----------------------------------------------------------------------------
(* The data that the notify jobs of an event share *)

\* The pool takes whatever job the next step may have for it.
PoolTakesJobs == Room > 0 /\ \A targets \in Targets : Len(targets) <= Room

\* Of the threads that give up jobs of one event under the read lock, no two have both
\* loaded its count, and no two have both stored it and not tested it yet
\* (free_notify_struct, gena_device.c:157).
DropsApart ==
  \A v, w \in Workers :
    wpc[v] = wpc[w] /\ wpc[v] \in {"store", "test"} /\ wjob[v].event = wjob[w].event => v = w

\* No two threads have both stored the count of an event and not tested it yet.
TestsApart ==
  \A v, w \in Workers : wpc[v] = "test" /\ wpc[w] = "test" /\ wjob[v].event = wjob[w].event => v = w

\* The jobs of event e in q, and the threads that have one and have not uncounted it.
Of(q, e) == {i \in DOMAIN q : q[i].event = e}
Uses(e) == {w \in Workers : wpc[w] \notin {"idle", "test"} /\ wjob[w].event = e}
Shares(e) == Cardinality(Of(queue, e)) + Cardinality(Uses(e))

Testing(e) == \E w \in Workers : wpc[w] = "test" /\ wjob[w].event = e

PublishedOK ==
  /\ \A i \in DOMAIN queue : queue[i].event <= events
  /\ \A w \in Workers : wpc[w] # "idle" => wjob[w].event <= events

CountOK(exact) ==
  \A e \in 1..events : reference_count[e] >= Shares(e) /\ (exact => reference_count[e] = Shares(e))

DropsOK(exact) ==
  \A w \in Workers, e \in 1..events : wjob[w].event = e =>
    /\ wpc[w] = "store" => wcount[w] + 1 >= Shares(e) /\ (exact => wcount[w] = reference_count[e] - 1)
    /\ wpc[w] = "test" => wcount[w] = reference_count[e]

FreedOK ==
  \A e \in 1..events : frees[e] = IF reference_count[e] = 0 /\ ~Testing(e) THEN 1 ELSE 0

\* The count of an event is never below the number of its jobs that have not been uncounted, and the register of a
\* thread that is giving up a job is not too low either: what the pool refuses and what is lost between two readers leaves
\* the count too high.  As long as neither happens both are exact.
DataInv(exact) == PublishedOK /\ CountOK(exact) /\ DropsOK(exact) /\ FreedOK

\* The data of an event is not freed while a job of it is left, and not twice.
DataOutlivesJobs == \A e \in 1..events : frees[e] <= 1 /\ (frees[e] # 0 => Pending(e) = {})

-----------------------------------------------------------------------------
(* Counting the jobs of an event *)

LEMMA OfFinite ==
  ASSUME NEW q \in Seq(NotifyJob), NEW e
  PROVE  IsFiniteSet(Of(q, e)) /\ Cardinality(Of(q, e)) \in Nat
<1>1. DOMAIN q = 1..Len(q) /\ Len(q) \in Nat
  OBVIOUS
<1>2. IsFiniteSet(DOMAIN q)
  BY <1>1, IntervalFacts
<1>3. IsFiniteSet(Of(q, e))
  BY <1>2, FS_Subset DEF Of
<1> QED BY <1>3, FS_CardinalityType

LEMMA UsesFinite ==
  ASSUME NEW e
  PROVE  IsFiniteSet(Uses(e)) /\ Cardinality(Uses(e)) \in Nat
<1>1. IsFiniteSet(Uses(e))
  BY GenaAssumption, FS_Subset DEF Uses
<1> QED BY <1>1, FS_CardinalityType

AllFor(r, x) == \A i \in DOMAIN r : r[i].event = x

\* More jobs, all of event x.
LEMMA OfConcat ==
  ASSUME NEW q \in Seq(NotifyJob), NEW r \in Seq(NotifyJob), NEW x, NEW e,
         AllFor(r, x)
  PROVE  /\ e = x => Cardinality(Of(q \o r, e)) = Cardinality(Of(q, e)) + Len(r)
         /\ e # x => Cardinality(Of(q \o r, e)) = Cardinality(Of(q, e))
<1> DEFINE more == (Len(q) + 1)..(Len(q) + Len(r))
<1>1. /\ Len(q) \in Nat /\ Len(r) \in Nat /\ DOMAIN q = 1..Len(q) /\ DOMAIN r = 1..Len(r)
      /\ DOMAIN (q \o r) = 1..(Len(q) + Len(r))
      /\ \A i \in 1..Len(q) : (q \o r)[i] = q[i]
  OBVIOUS
<1>2. \A i \in more : (q \o r)[i] = r[i - Len(q)] /\ i - Len(q) \in DOMAIN r
  BY <1>1
<1>3. \A i \in more : (q \o r)[i].event = x
  BY <1>2 DEF AllFor
<1>4. \A i \in DOMAIN (q \o r) : i \in DOMAIN q \/ i \in more
  BY <1>1
<1>5. \A i : ~(i \in DOMAIN q /\ i \in more)
  BY <1>1
<1>6. \A i \in DOMAIN q \cup more : i \in DOMAIN (q \o r)
  BY <1>1
<1>7. CASE e # x
  <2>1. Of(q \o r, e) = Of(q, e)
    BY <1>1, <1>3, <1>4, <1>6, <1>7 DEF Of
  <2> QED BY <1>7, <2>1, OfFinite
<1>8. CASE e = x
  <2>1. Of(q \o r, e) = Of(q, e) \cup more
    BY <1>1, <1>3, <1>4, <1>6, <1>8 DEF Of
  <2>2. IsFiniteSet(more) /\ Cardinality(more) = Len(r)
    <3>1. Len(q) + 1 \in Int /\ Len(q) + Len(r) \in Int
      BY <1>1
    <3>2. /\ IsFiniteSet(more)
          /\ Cardinality(more) = IF Len(q) + 1 > Len(q) + Len(r) THEN 0
                                 ELSE (Len(q) + Len(r)) - (Len(q) + 1) + 1
      BY <3>1, FS_Interval
    <3> QED BY <1>1, <3>2
  <2> HIDE DEF more
  <2>3. Of(q, e) \cap more = {}
    BY <1>5 DEF Of
  <2>4. IsFiniteSet(Of(q, e)) /\ Cardinality(Of(q, e)) \in Nat
    BY OfFinite
  <2>5. Cardinality(Of(q, e) \cup more)
          = Cardinality(Of(q, e)) + Cardinality(more) - Cardinality(Of(q, e) \cap more)
    BY <2>2, <2>4, FS_Union
  <2>6. Cardinality(Of(q, e) \cap more) = 0
    BY <2>3, FS_EmptySet
  <2>7. Cardinality(Of(q, e) \cup more) = Cardinality(Of(q, e)) + Len(r)
    BY <1>1, <2>2, <2>4, <2>5, <2>6
  <2> QED BY <1>8, <2>1, <2>7
<1> QED BY <1>7, <1>8

LEMMA OfAppend ==
  ASSUME NEW q \in Seq(NotifyJob), NEW j \in NotifyJob, NEW e
  PROVE  Cardinality(Of(Append(q, j), e)) = Cardinality(Of(q, e)) + (IF e = j.event THEN 1 ELSE 0)
<1>1. <<j>> \in Seq(NotifyJob) /\ Len(<<j>>) = 1 /\ Append(q, j) = q \o <<j>>
  OBVIOUS
<1>2. PICK r : r = <<j>>
  OBVIOUS
<1>3. PICK x : x = j.event
  OBVIOUS
<1>4. r \in Seq(NotifyJob) /\ Len(r) = 1 /\ Append(q, j) = q \o r
  BY <1>1, <1>2
<1>5. AllFor(r, x)
  BY <1>2, <1>3 DEF AllFor
<1>6. /\ e = x => Cardinality(Of(q \o r, e)) = Cardinality(Of(q, e)) + Len(r)
      /\ e # x => Cardinality(Of(q \o r, e)) = Cardinality(Of(q, e))
  BY <1>4, <1>5, OfConcat
<1>7. Cardinality(Of(q, e)) \in Nat
  BY OfFinite
<1> QED BY <1>3, <1>4, <1>6, <1>7

\* A job is taken.
LEMMA OfTail ==
  ASSUME NEW q \in Seq(NotifyJob), q # <<>>, NEW e
  PROVE  Cardinality(Of(q, e)) = Cardinality(Of(Tail(q), e)) + (IF e = Head(q).event THEN 1 ELSE 0)
<1> DEFINE f == [i \in Of(Tail(q), e) |-> i + 1]
<1>1. /\ Len(q) \in Nat /\ Len(q) >= 1 /\ DOMAIN q = 1..Len(q) /\ Head(q) = q[1]
      /\ Tail(q) \in Seq(NotifyJob) /\ DOMAIN Tail(q) = 1..(Len(q) - 1)
      /\ \A i \in 1..(Len(q) - 1) : Tail(q)[i] = q[i + 1]
  OBVIOUS
<1>2. \A i \in Of(Tail(q), e) : i \in Nat /\ i >= 1 /\ i + 1 \in Of(q, e)
  BY <1>1 DEF Of
<1>3. \A k \in Of(q, e) \ {1} : k \in Nat /\ k - 1 \in Of(Tail(q), e) /\ (k - 1) + 1 = k
  <2> TAKE k \in Of(q, e) \ {1}
  <2>1. k \in Nat /\ k - 1 \in 1..(Len(q) - 1) /\ (k - 1) + 1 = k /\ q[k].event = e
    BY <1>1 DEF Of
  <2>2. Tail(q)[k - 1] = q[k]
    BY <1>1, <2>1
  <2> QED BY <1>1, <2>1, <2>2 DEF Of
<1>4. f \in Bijection(Of(Tail(q), e), Of(q, e) \ {1})
  <2>1. f \in [Of(Tail(q), e) -> Of(q, e) \ {1}]
    BY <1>2
  <2>2. \A i, k \in Of(Tail(q), e) : f[i] = f[k] => i = k
    BY <1>2
  <2>3. \A k \in Of(q, e) \ {1} : \E i \in Of(Tail(q), e) : f[i] = k
    BY <1>3
  <2> HIDE DEF f
  <2> QED BY <2>1, <2>2, <2>3 DEF Bijection, Injection, Surjection, IsInjective
<1>5. IsFiniteSet(Of(Tail(q), e)) /\ Cardinality(Of(Tail(q), e)) \in Nat
  BY <1>1, OfFinite
<1>6. Cardinality(Of(q, e) \ {1}) = Cardinality(Of(Tail(q), e))
  <2>1. ExistsBijection(Of(Tail(q), e), Of(q, e) \ {1})
    BY <1>4 DEF ExistsBijection
  <2> QED BY <1>5, <2>1, FS_Bijection
<1>7. IsFiniteSet(Of(q, e)) /\ Cardinality(Of(q, e)) \in Nat
  BY OfFinite
<1>8. Cardinality(Of(q, e) \ {1}) = IF 1 \in Of(q, e) THEN Cardinality(Of(q, e)) - 1 ELSE Cardinality(Of(q, e))
  BY <1>7, FS_RemoveElement
<1>9. 1 \in Of(q, e) <=> Head(q).event = e
  BY <1>1 DEF Of
<1> QED BY <1>5, <1>6, <1>7, <1>8, <1>9
-----------------------------------------------------------------------------
(* Each action preserves the count *)

LEMMA EventFacts ==
  ASSUME Types
  PROVE  /\ events \in Nat /\ \A e \in 1..events : e \in Events /\ frees[e] \in Nat /\ reference_count[e] \in Int
         /\ queue \in Seq(NotifyJob) /\ \A i \in DOMAIN queue : queue[i].event \in Events
         /\ \A w \in Workers : wpc[w] # "idle" => wjob[w] \in NotifyJob /\ wjob[w].event \in Events
<1>1. events \in 0..MaxEvents /\ reference_count \in [Events -> Int] /\ frees \in [Events -> Nat]
      /\ MaxEvents \in Nat
  BY KeyFacts DEF Types, DataTypes
<1>2. events \in Nat /\ \A e \in 1..events : e \in Events
  BY <1>1 DEF Events
<1>3. \A e \in 1..events : frees[e] \in Nat /\ reference_count[e] \in Int
  BY <1>1, <1>2
<1>4. queue \in Seq(NotifyJob)
  BY DEF Types, QueueTypes
<1>5. \A i \in DOMAIN queue : queue[i] \in NotifyJob
  BY <1>4
<1>6. \A w \in Workers : wpc[w] # "idle" => wjob[w] \in NotifyJob
  BY DEF Types, WorkerTypes
<1>7. \A j \in NotifyJob : j.event \in Events
  BY DEF NotifyJob
<1> QED BY <1>2, <1>3, <1>4, <1>5, <1>6, <1>7

LEMMA PublishedFacts ==
  ASSUME Types, PublishedOK
  PROVE  /\ \A i \in DOMAIN queue : queue[i].event \in 1..events
         /\ \A w \in Workers : wpc[w] # "idle" => wjob[w].event \in 1..events
<1>1. /\ events \in Nat /\ \A i \in DOMAIN queue : queue[i].event \in Events
      /\ \A w \in Workers : wpc[w] # "idle" => wjob[w].event \in Events
  BY EventFacts
<1>2. \A e \in Events : e <= events => e \in 1..events
  BY <1>1, KeyFacts DEF Events
<1> QED BY <1>1, <1>2 DEF PublishedOK

\* Nothing is shared exactly when no job is left that has not been uncounted.
LEMMA SharesFacts ==
  ASSUME queue \in Seq(NotifyJob), NEW e
  PROVE  Shares(e) \in Nat /\ (Shares(e) = 0 /\ ~Testing(e) <=> Pending(e) = {})
<1>1. Cardinality(Of(queue, e)) \in Nat /\ (Cardinality(Of(queue, e)) = 0 <=> Of(queue, e) = {})
  BY OfFinite, FS_EmptySet
<1>2. Cardinality(Uses(e)) \in Nat /\ (Cardinality(Uses(e)) = 0 <=> Uses(e) = {})
  BY UsesFinite, FS_EmptySet
<1>3. Shares(e) \in Nat /\ (Shares(e) = 0 <=> Of(queue, e) = {} /\ Uses(e) = {})
  BY <1>1, <1>2 DEF Shares
<1>4. Pending(e) = {} <=> Of(queue, e) = {} /\ Uses(e) = {} /\ ~Testing(e)
  BY DEF Pending, Of, Uses, Testing
<1> QED BY <1>3, <1>4

LEMMA SharesNext ==
  ASSUME queue' \in Seq(NotifyJob), NEW e
  PROVE  /\ Cardinality(Of(queue', e)) \in Nat /\ Cardinality(Uses(e)') \in Nat
         /\ Shares(e)' = Cardinality(Of(queue', e)) + Cardinality(Uses(e)') /\ Shares(e)' \in Nat
<1>1. Cardinality(Of(queue', e)) \in Nat
  BY OfFinite
<1>2. IsFiniteSet(Uses(e)')
  BY GenaAssumption, FS_Subset DEF Uses
<1>3. Cardinality(Uses(e)') \in Nat
  BY <1>2, FS_CardinalityType
<1> QED BY <1>1, <1>3 DEF Shares

LEMMA InitData ==
  ASSUME NEW exact, Init
  PROVE  DataInv(exact)
<1>1. queue = <<>> /\ DOMAIN queue = {} /\ events = 0 /\ \A w \in Workers : wpc[w] = "idle"
  BY DEF Init
<1>2. 1..events = {}
  BY <1>1
<1> QED BY <1>1, <1>2 DEF DataInv, PublishedOK, CountOK, DropsOK, FreedOK

LEMMA OthersKeepData ==
  ASSUME NEW exact, DataInv(exact), UNCHANGED <<queue, workerVars, events, dataVars>>
  PROVE  DataInv(exact)'
<1>1. queue' = queue /\ events' = events /\ UNCHANGED <<wpc, wjob, wcount, reference_count, frees>>
  BY DEF workerVars, dataVars
<1>2. \A e : Shares(e)' = Shares(e) /\ (Testing(e)' <=> Testing(e))
  BY <1>1 DEF Shares, Testing, Of, Uses
<1>3. PublishedOK' /\ CountOK(exact)' /\ FreedOK'
  BY <1>1, <1>2 DEF DataInv, PublishedOK, CountOK, FreedOK
<1>4. DropsOK(exact)'
  BY <1>1, <1>2 DEF DataInv, DropsOK
<1> QED BY <1>3, <1>4 DEF DataInv

\* Jobs change places, or the pool refuses one that is put back.
LEMMA QuietKeepsData ==
  ASSUME Types, NEW exact, DataInv(exact), UNCHANGED <<events, wcount, dataVars>>, PublishedOK',
         \A e \in 1..events : /\ Shares(e) \in Nat /\ Shares(e)' \in Nat
                              /\ Shares(e)' <= Shares(e) /\ (exact => Shares(e)' = Shares(e)),
         \A v \in Workers : /\ wpc'[v] = "store" <=> wpc[v] = "store"
                            /\ wpc'[v] = "test" <=> wpc[v] = "test"
                            /\ wpc[v] \in {"store", "test"} => wjob'[v] = wjob[v]
  PROVE  DataInv(exact)'
<1>1. /\ events' = events /\ wcount' = wcount /\ reference_count' = reference_count /\ frees' = frees
      /\ \A e \in 1..events : reference_count[e] \in Int
      /\ \A v \in Workers : wpc[v] # "idle" => wjob[v].event \in 1..events
      /\ \A v \in Workers : wcount[v] \in Int
  BY EventFacts, PublishedFacts DEF dataVars, DataInv, Types, WorkerTypes
<1>2. CountOK(exact)'
  <2> SUFFICES ASSUME NEW e \in 1..events
               PROVE  reference_count[e] >= Shares(e)' /\ (exact => reference_count[e] = Shares(e)')
    BY <1>1 DEF CountOK
  <2>1. reference_count[e] >= Shares(e) /\ (exact => reference_count[e] = Shares(e))
    BY DEF DataInv, CountOK
  <2> QED BY <1>1, <2>1
<1>3. DropsOK(exact)'
  <2> SUFFICES ASSUME NEW v \in Workers, NEW e \in 1..events, wjob'[v].event = e
               PROVE  /\ wpc'[v] = "store" => /\ wcount[v] + 1 >= Shares(e)'
                                              /\ exact => wcount[v] = reference_count[e] - 1
                      /\ wpc'[v] = "test" => wcount[v] = reference_count[e]
    BY <1>1 DEF DropsOK
  <2>1. CASE wpc[v] = "store"
    <3>1. wjob[v].event = e /\ wpc'[v] # "test"
      BY <2>1
    <3>2. wcount[v] + 1 >= Shares(e) /\ (exact => wcount[v] = reference_count[e] - 1)
      BY <2>1, <3>1 DEF DataInv, DropsOK
    <3>3. wcount[v] + 1 >= Shares(e)'
      BY <1>1, <3>2
    <3> QED BY <3>1, <3>2, <3>3
  <2>2. CASE wpc[v] = "test"
    BY <1>1, <2>2 DEF DataInv, DropsOK
  <2> QED BY <2>1, <2>2
<1>4. FreedOK'
  <2>1. \A e : Testing(e)' <=> Testing(e)
    BY DEF Testing
  <2> QED BY <1>1, <2>1 DEF DataInv, FreedOK
<1> QED BY <1>2, <1>3, <1>4 DEF DataInv

\* A new event: its jobs are counted, those the pool refuses included.
LEMMA ShareKeepsData ==
  ASSUME Types, NEW exact, DataInv(exact), events < MaxEvents, NEW r \in Seq(NotifyJob), AllFor(r, events + 1),
         NEW count \in Nat, count >= Len(r), exact => count = Len(r),
         queue' = queue \o r, Share(events + 1, count), UNCHANGED workerVars
  PROVE  DataInv(exact)'
<1>18. PICK new : new = events + 1
  OBVIOUS
<1>1. /\ events \in Nat /\ queue \in Seq(NotifyJob) /\ Len(r) \in Nat
      /\ \A e \in 1..events : e \in Events /\ frees[e] \in Nat /\ reference_count[e] \in Int
  BY EventFacts
<1>2. new \in Events /\ reference_count \in [Events -> Int] /\ frees \in [Events -> Nat]
  BY <1>1, <1>18, KeyFacts DEF Events, Types, DataTypes
<1>3. /\ events' = new
      /\ reference_count' = [reference_count EXCEPT ![new] = count]
      /\ frees' = [frees EXCEPT ![new] = IF count = 0 THEN 1 ELSE 0]
      /\ wpc' = wpc /\ wjob' = wjob /\ wcount' = wcount
  BY <1>18 DEF Share, workerVars
<1>4. queue' \in Seq(NotifyJob)
  BY <1>1
<1>5. /\ \A i \in DOMAIN queue : queue[i].event \in 1..events
      /\ \A w \in Workers : wpc[w] # "idle" => wjob[w].event \in 1..events
  BY PublishedFacts DEF DataInv
<1>6. new \notin 1..events /\ \A e \in 1..new : e \in 1..events \/ e = new
  BY <1>1, <1>18
<1>7. /\ \A e \in 1..events : reference_count'[e] = reference_count[e] /\ frees'[e] = frees[e]
      /\ reference_count'[new] = count /\ frees'[new] = IF count = 0 THEN 1 ELSE 0
  BY <1>1, <1>2, <1>3, <1>6
<1>8. Of(queue, new) = {} /\ Uses(new) = {} /\ ~Testing(new)
  BY <1>5, <1>6 DEF Of, Uses, Testing
<1>9. \A e : Uses(e)' = Uses(e) /\ (Testing(e)' <=> Testing(e))
  BY <1>3 DEF Uses, Testing
<1>10. AllFor(r, new)
  BY <1>18
<1>11. \A e : /\ e = new => Cardinality(Of(queue', e)) = Cardinality(Of(queue, e)) + Len(r)
              /\ e # new => Cardinality(Of(queue', e)) = Cardinality(Of(queue, e))
  BY <1>1, <1>10, OfConcat
<1>12. Shares(new)' = Len(r)
  <2>1. Cardinality(Of(queue, new)) = 0 /\ Cardinality(Uses(new)) = 0
    BY <1>8, FS_EmptySet
  <2>2. Shares(new)' = Cardinality(Of(queue', new)) + Cardinality(Uses(new)')
    BY <1>4, SharesNext
  <2>3. Cardinality(Uses(new)') = 0 /\ Cardinality(Of(queue', new)) = 0 + Len(r)
    BY <1>9, <1>11, <2>1
  <2> QED BY <1>1, <2>2, <2>3
<1>13. \A e \in 1..events : Shares(e)' = Shares(e)
  <2> TAKE e \in 1..events
  <2>1. Shares(e)' = Cardinality(Of(queue', e)) + Cardinality(Uses(e)')
    BY <1>4, SharesNext
  <2> QED BY <1>6, <1>9, <1>11, <2>1 DEF Shares
<1>14. CountOK(exact)'
  <2> SUFFICES ASSUME NEW e \in 1..new
               PROVE  reference_count'[e] >= Shares(e)' /\ (exact => reference_count'[e] = Shares(e)')
    BY <1>3 DEF CountOK
  <2>1. CASE e = new
    BY <1>7, <1>12, <2>1
  <2>2. CASE e \in 1..events
    BY <1>7, <1>13, <2>2 DEF DataInv, CountOK
  <2> QED BY <1>6, <2>1, <2>2
<1>15. FreedOK'
  <2> SUFFICES ASSUME NEW e \in 1..new
               PROVE  frees'[e] = IF reference_count'[e] = 0 /\ ~Testing(e)' THEN 1 ELSE 0
    BY <1>3 DEF FreedOK
  <2>1. CASE e = new
    BY <1>7, <1>8, <1>9, <2>1
  <2>2. CASE e \in 1..events
    BY <1>7, <1>9, <2>2 DEF DataInv, FreedOK
  <2> QED BY <1>6, <2>1, <2>2
<1>16. PublishedOK'
  <2>1. \A i \in DOMAIN queue' : queue'[i].event <= new
    <3> TAKE i \in DOMAIN queue'
    <3>1. \/ i \in DOMAIN queue /\ queue'[i] = queue[i]
          \/ i - Len(queue) \in DOMAIN r /\ queue'[i] = r[i - Len(queue)]
      BY <1>1
    <3>2. \A e \in 1..events : e <= new
      BY <1>1, <1>18
    <3>3. \A k \in DOMAIN r : r[k].event <= new
      BY <1>1, <1>10, <1>18 DEF AllFor
    <3> QED BY <1>5, <3>1, <3>2, <3>3
  <2>2. \A w \in Workers : wpc'[w] # "idle" => wjob'[w].event <= new
    BY <1>1, <1>3, <1>5, <1>18
  <2> QED BY <1>3, <2>1, <2>2 DEF PublishedOK
<1>17. DropsOK(exact)'
  <2> SUFFICES ASSUME NEW w \in Workers, NEW e \in 1..new, wjob[w].event = e, wpc[w] # "idle"
               PROVE  /\ wpc[w] = "store" => /\ wcount[w] + 1 >= Shares(e)'
                                             /\ exact => wcount[w] = reference_count'[e] - 1
                      /\ wpc[w] = "test" => wcount[w] = reference_count'[e]
    BY <1>3 DEF DropsOK
  <2>1. e \in 1..events
    BY <1>5
  <2>2. reference_count'[e] = reference_count[e] /\ Shares(e)' = Shares(e)
    BY <1>7, <1>13, <2>1
  <2> QED BY <2>1, <2>2 DEF DataInv, DropsOK
<1> QED BY <1>14, <1>15, <1>16, <1>17 DEF DataInv

LEMMA PublishKeepsData ==
  ASSUME Types, NEW exact, DataInv(exact), exact => PoolTakesJobs, genaNotifyAll
  PROVE  DataInv(exact)'
<1>1. PICK targets \in Targets :
        /\ Share(events + 1, Len(Made(targets)))
        /\ queue' = queue \o JobsOf(Taken(targets), events + 1)
  BY DEF genaNotifyAll, JobsOf
<1>2. targets \in Seq(Sids)
  BY TargetFacts DEF Types
<1>3. /\ Taken(targets) \in Seq(Sids) /\ Len(Made(targets)) \in Nat /\ Len(Taken(targets)) \in Nat
      /\ Len(Made(targets)) >= Len(Taken(targets))
  <2>1. /\ Made(targets) \in Seq(Sids) /\ Taken(targets) \in Seq(Sids)
        /\ Len(Taken(targets)) <= Len(Made(targets))
    BY <1>2, MadeFacts DEF Types
  <2>2. Len(Made(targets)) \in Nat /\ Len(Taken(targets)) \in Nat
    BY <2>1
  <2> QED BY <2>1, <2>2
<1>4. exact => Len(Made(targets)) = Len(Taken(targets))
  <2>1. exact => Len(targets) <= Room
    BY DEF PoolTakesJobs
  <2>2. Room \in Nat /\ Len(targets) \in Nat
    BY <1>2, MadeFacts DEF Types
  <2> QED BY <1>2, <2>1, <2>2, MadeFacts DEF Types
<1>5. events < MaxEvents /\ events + 1 \in Events /\ UNCHANGED workerVars
  BY EventFacts, KeyFacts DEF genaNotifyAll, Events
<1>6. PICK queued \in Seq(Sids) : queued = Taken(targets)
  BY <1>3
<1>7. PICK r : r = JobsOf(queued, events + 1)
  OBVIOUS
<1>8. /\ r \in Seq(NotifyJob) /\ Len(r) = Len(queued)
      /\ \A i \in DOMAIN queued : r[i] = Job(queued[i], sub[queued[i]].eventKey, events + 1)
  BY <1>5, <1>7, JobsOfFacts DEF Types
<1>9. AllFor(r, events + 1)
  <2>1. DOMAIN r = DOMAIN queued
    BY <1>6, <1>8
  <2> QED BY <1>8, <2>1 DEF AllFor, Job
<1>10. PICK count \in Nat : count = Len(Made(targets))
  BY <1>3
<1>11. count >= Len(r) /\ (exact => count = Len(r))
  BY <1>3, <1>4, <1>6, <1>8, <1>10
<1>12. queue' = queue \o r /\ Share(events + 1, count)
  BY <1>1, <1>6, <1>7, <1>10
<1> QED BY <1>5, <1>8, <1>9, <1>11, <1>12, ShareKeepsData

LEMMA AcceptKeepsData ==
  ASSUME Types, NEW exact, DataInv(exact), NEW a \in Receivers, AcceptSubscription(a)
  PROVE  DataInv(exact)'
<1> DEFINE s == callback[a]
<1>1. s \in Sids /\ UNCHANGED workerVars
  BY DEF AcceptSubscription, Types, CallTypes
<1>2. CASE UNCHANGED <<sub, queue, events, dataVars, feedVars>>
  BY <1>1, <1>2, OthersKeepData
<1>3. CASE /\ events < MaxEvents /\ Share(events + 1, 1)
           /\ queue' = Append(queue, Job(s, sub[s].eventKey, events + 1))
  <2>1. events + 1 \in Events /\ queue \in Seq(NotifyJob)
    BY <1>3, EventFacts, KeyFacts DEF Events
  <2>2. sub[s].eventKey \in 0..MaxKey
    BY <1>1 DEF Types, SubTypes, Keys
  <2>3. PICK j \in NotifyJob : j = Job(s, sub[s].eventKey, events + 1)
    BY <1>1, <2>1, <2>2 DEF Job, NotifyJob
  <2>4. <<j>> \in Seq(NotifyJob) /\ Len(<<j>>) = 1 /\ Append(queue, j) = queue \o <<j>>
    BY <2>1
  <2>5. PICK r : r = <<j>>
    OBVIOUS
  <2>6. AllFor(r, events + 1)
    BY <2>3, <2>5 DEF AllFor, Job
  <2>7. r \in Seq(NotifyJob) /\ Len(r) = 1 /\ queue' = queue \o r
    BY <1>3, <2>3, <2>4, <2>5
  <2> QED BY <1>1, <1>3, <2>6, <2>7, ShareKeepsData
<1>4. CASE events < MaxEvents /\ Share(events + 1, 0) /\ queue' = queue
  <2>1. queue \in Seq(NotifyJob)
    BY EventFacts
  <2>2. PICK r : r = <<>>
    OBVIOUS
  <2>3. r \in Seq(NotifyJob) /\ Len(r) = 0 /\ queue' = queue \o r
    BY <1>4, <2>1, <2>2
  <2>4. AllFor(r, events + 1)
    BY <2>2 DEF AllFor
  <2>5. PICK count \in Nat : count = 0
    OBVIOUS
  <2>6. count >= Len(r) /\ count = Len(r) /\ Share(events + 1, count)
    BY <1>4, <2>3, <2>5
  <2> QED BY <1>1, <1>4, <2>3, <2>4, <2>6, ShareKeepsData
<1> QED BY <1>2, <1>3, <1>4 DEF AcceptSubscription

\* A thread that keeps its job, and counts for it as before.
LEMMA MoveKeepsData ==
  ASSUME Types, NEW exact, DataInv(exact), NEW w \in Workers, NEW pc, Goes(w, pc),
         wpc[w] \notin {"idle", "store", "test"}, pc \notin {"idle", "store", "test"},
         UNCHANGED <<queue, wjob, wcount, events, dataVars>>
  PROVE  DataInv(exact)'
<1>1. /\ \A v \in Workers : wpc'[v] = IF v = w THEN pc ELSE wpc[v]
      /\ queue' = queue /\ wjob' = wjob /\ events' = events
  BY DEF Goes, Types, WorkerTypes
<1>2. \A v \in Workers : /\ wpc'[v] \in {"idle", "test"} <=> wpc[v] \in {"idle", "test"}
                         /\ wpc'[v] = "idle" <=> wpc[v] = "idle"
                         /\ wpc'[v] = "store" <=> wpc[v] = "store"
                         /\ wpc'[v] = "test" <=> wpc[v] = "test"
  BY <1>1
<1>3. \A e : Uses(e)' = Uses(e)
  BY <1>1, <1>2 DEF Uses
<1>4. \A e : Shares(e)' = Shares(e) /\ Shares(e) \in Nat
  BY <1>1, <1>3, EventFacts, SharesFacts DEF Shares
<1>5. PublishedOK'
  BY <1>1, <1>2 DEF DataInv, PublishedOK
<1> QED BY <1>1, <1>2, <1>4, <1>5, QuietKeepsData

LEMMA StartKeepsData ==
  ASSUME Types, NEW exact, DataInv(exact), NEW w \in Workers, NotifyStart(w)
  PROVE  DataInv(exact)'
<1> DEFINE j == Head(queue)
<1>1. /\ queue \in Seq(NotifyJob) /\ queue # <<>> /\ queue' = Tail(queue) /\ queue' \in Seq(NotifyJob)
      /\ j \in NotifyJob /\ j = queue[1] /\ 1 \in DOMAIN queue
      /\ \A i \in DOMAIN queue' : i + 1 \in DOMAIN queue /\ queue'[i] = queue[i + 1]
  BY EventFacts DEF NotifyStart
<1>2. /\ wpc[w] = "idle"
      /\ \A v \in Workers : /\ wpc'[v] = IF v = w THEN "started" ELSE wpc[v]
                            /\ wjob'[v] = IF v = w THEN j ELSE wjob[v]
      /\ UNCHANGED <<events, wcount, dataVars>>
  BY DEF NotifyStart, Goes, Types, WorkerTypes
<1>3. PICK x : x = j.event
  OBVIOUS
<1> HIDE DEF j
<1>4. \A e : Cardinality(Of(queue, e)) = Cardinality(Of(queue', e)) + (IF e = x THEN 1 ELSE 0)
  BY <1>1, <1>3, OfTail DEF j
<1>5. \A e : IsFiniteSet(Uses(e)) /\ Cardinality(Uses(e)) \in Nat
  BY UsesFinite
<1>6. \A e : Cardinality(Uses(e)') = Cardinality(Uses(e)) + (IF e = x THEN 1 ELSE 0)
  <2> TAKE e
  <2>1. w \notin Uses(e)
    BY <1>2 DEF Uses
  <2>2. CASE e = x
    <3>1. Uses(e)' = Uses(e) \cup {w}
      BY <1>2, <1>3, <2>2 DEF Uses
    <3> QED BY <1>5, <2>1, <2>2, <3>1, FS_AddElement
  <2>3. CASE e # x
    <3>1. Uses(e)' = Uses(e)
      BY <1>2, <1>3, <2>3 DEF Uses
    <3> QED BY <1>5, <2>3, <3>1
  <2> QED BY <2>2, <2>3
<1>7. \A e : Shares(e)' = Shares(e) /\ Shares(e) \in Nat
  <2> TAKE e
  <2>1. /\ Cardinality(Of(queue', e)) \in Nat
        /\ Shares(e)' = Cardinality(Of(queue', e)) + Cardinality(Uses(e)')
    BY <1>1, SharesNext
  <2>2. Shares(e) = Cardinality(Of(queue, e)) + Cardinality(Uses(e)) /\ Shares(e) \in Nat
    BY <1>1, SharesFacts DEF Shares
  <2> QED BY <1>4, <1>5, <1>6, <2>1, <2>2
<1>8. PublishedOK'
  <2>1. x <= events
    BY <1>1, <1>3 DEF DataInv, PublishedOK
  <2> QED BY <1>1, <1>2, <1>3, <2>1 DEF DataInv, PublishedOK
<1> QED BY <1>2, <1>7, <1>8, QuietKeepsData

\* Who has a job counts for its event, unless it has been uncounted.
LEMMA GiveUpFacts ==
  ASSUME Types, NEW w \in Workers, wpc[w] \notin {"idle", "test"}, NEW x, x = wjob[w].event,
         NEW e, Uses(e)' = Uses(e) \ {w}
  PROVE  /\ Cardinality(Uses(e)) \in Nat
         /\ Cardinality(Uses(e)') = Cardinality(Uses(e)) - (IF e = x THEN 1 ELSE 0)
<1>1. IsFiniteSet(Uses(e)) /\ Cardinality(Uses(e)) \in Nat
  BY UsesFinite
<1>2. w \in Uses(e) <=> e = x
  BY DEF Uses
<1>3. Cardinality(Uses(e) \ {w}) = IF w \in Uses(e) THEN Cardinality(Uses(e)) - 1 ELSE Cardinality(Uses(e))
  BY <1>1, FS_RemoveElement
<1>4. CASE e = x
  BY <1>1, <1>2, <1>3, <1>4
<1>5. CASE e # x
  BY <1>1, <1>2, <1>3, <1>5
<1> QED BY <1>4, <1>5

\* An early job goes back, if the pool takes it.
LEMMA PutBackKeepsData ==
  ASSUME Types, NEW exact, DataInv(exact), NEW w \in Workers, wpc[w] = "found", Ends(w),
         queue' = Append(queue, wjob[w]) \/ (~exact /\ queue' = queue), UNCHANGED <<wcount, events, dataVars>>
  PROVE  DataInv(exact)'
<1>1. PICK j \in NotifyJob : j = wjob[w]
  BY DEF Types, WorkerTypes
<1>2. PICK x : x = j.event
  OBVIOUS
<1>3. /\ queue \in Seq(NotifyJob) /\ queue' \in Seq(NotifyJob)
      /\ queue' = Append(queue, j) \/ (~exact /\ queue' = queue)
  BY <1>1, EventFacts
<1>4. /\ \A v \in Workers : /\ wpc'[v] = IF v = w THEN "idle" ELSE wpc[v]
                            /\ v # w => wjob'[v] = wjob[v]
      /\ events' = events
  BY DEF Ends, Goes, Types, WorkerTypes
<1>5. \A e : /\ Cardinality(Of(queue, e)) \in Nat
             /\ \/ Cardinality(Of(queue', e)) = Cardinality(Of(queue, e)) + (IF e = x THEN 1 ELSE 0)
                \/ ~exact /\ Cardinality(Of(queue', e)) = Cardinality(Of(queue, e))
  BY <1>2, <1>3, OfFinite, OfAppend
<1>6. \A e : /\ Cardinality(Uses(e)) \in Nat
             /\ Cardinality(Uses(e)') = Cardinality(Uses(e)) - (IF e = x THEN 1 ELSE 0)
  <2> TAKE e
  <2>1. Uses(e)' = Uses(e) \ {w}
    BY <1>4 DEF Uses
  <2> QED BY <1>1, <1>2, <2>1, GiveUpFacts
<1>7. \A e : /\ Shares(e) \in Nat /\ Shares(e)' \in Nat
             /\ Shares(e)' <= Shares(e) /\ (exact => Shares(e)' = Shares(e))
  <2> TAKE e
  <2>1. Shares(e)' = Cardinality(Of(queue', e)) + Cardinality(Uses(e)') /\ Shares(e)' \in Nat
    BY <1>3, SharesNext
  <2>2. Shares(e) = Cardinality(Of(queue, e)) + Cardinality(Uses(e)) /\ Shares(e) \in Nat
    BY <1>3, SharesFacts DEF Shares
  <2> QED BY <1>5, <1>6, <2>1, <2>2
<1>8. PublishedOK'
  <2>1. x <= events
    BY <1>1, <1>2 DEF DataInv, PublishedOK
  <2>2. \A i \in DOMAIN queue' : queue'[i] = j \/ (i \in DOMAIN queue /\ queue'[i] = queue[i])
    BY <1>3
  <2> QED BY <1>2, <1>4, <2>1, <2>2 DEF DataInv, PublishedOK
<1>9. \A v \in Workers : /\ wpc'[v] = "store" <=> wpc[v] = "store"
                         /\ wpc'[v] = "test" <=> wpc[v] = "test"
                         /\ wpc[v] \in {"store", "test"} => wjob'[v] = wjob[v]
  BY <1>4
<1> QED BY <1>7, <1>8, <1>9, QuietKeepsData

LEMMA CopyKeepsData ==
  ASSUME Types, NEW exact, DataInv(exact), exact => PoolTakesJobs, NEW w \in Workers, NotifyCopy(w)
  PROVE  DataInv(exact)'
<1>1. CASE Goes(w, "sending") /\ UNCHANGED <<wjob, queue>>
  BY <1>1, MoveKeepsData DEF NotifyCopy
<1>2. CASE Ends(w) /\ queue' = (IF Room > 0 THEN Append(queue, wjob[w]) ELSE queue)
  <2>1. queue' = Append(queue, wjob[w]) \/ (~exact /\ queue' = queue)
    BY <1>2 DEF PoolTakesJobs
  <2>2. wpc[w] = "found" /\ UNCHANGED <<wcount, events, dataVars>>
    BY DEF NotifyCopy
  <2> QED BY <1>2, <2>1, <2>2, PutBackKeepsData
<1> QED BY <1>1, <1>2 DEF NotifyCopy

LEMMA LoadKeepsData ==
  ASSUME Types, NEW exact, DataInv(exact), NEW w \in Workers, UnrefLoad(w)
  PROVE  DataInv(exact)'
<1>1. /\ wpc[w] = "drop"
      /\ \A v \in Workers :
           /\ wpc'[v] = IF v = w THEN "store" ELSE wpc[v]
           /\ wcount'[v] = IF v = w THEN reference_count[wjob[w].event] - 1 ELSE wcount[v]
      /\ queue' = queue /\ wjob' = wjob /\ events' = events
      /\ reference_count' = reference_count /\ frees' = frees
  BY DEF UnrefLoad, Goes, Types, WorkerTypes, dataVars
<1>2. \A v \in Workers : /\ wpc'[v] \in {"idle", "test"} <=> wpc[v] \in {"idle", "test"}
                         /\ wpc'[v] = "idle" <=> wpc[v] = "idle"
                         /\ wpc'[v] = "store" <=> v = w \/ wpc[v] = "store"
                         /\ wpc'[v] = "test" <=> wpc[v] = "test"
  BY <1>1
<1>3. \A e : Uses(e)' = Uses(e) /\ (Testing(e)' <=> Testing(e))
  BY <1>1, <1>2 DEF Uses, Testing
<1>4. \A e : Shares(e)' = Shares(e)
  BY <1>1, <1>3 DEF Shares
<1>5. PublishedOK' /\ CountOK(exact)' /\ FreedOK'
  BY <1>1, <1>2, <1>3, <1>4 DEF DataInv, PublishedOK, CountOK, FreedOK
<1>6. DropsOK(exact)'
  <2> SUFFICES ASSUME NEW v \in Workers, NEW x \in 1..events, wjob[v].event = x
               PROVE  /\ wpc'[v] = "store" => /\ wcount'[v] + 1 >= Shares(x)
                                              /\ exact => wcount'[v] = reference_count[x] - 1
                      /\ wpc'[v] = "test" => wcount'[v] = reference_count[x]
    BY <1>1, <1>4 DEF DropsOK
  <2>1. CASE v = w
    <3>1. reference_count[x] >= Shares(x) /\ reference_count[x] \in Int /\ Shares(x) \in Nat
      BY EventFacts, SharesFacts DEF DataInv, CountOK
    <3>2. wcount'[v] = reference_count[x] - 1 /\ wpc'[v] = "store"
      BY <1>1, <2>1
    <3>3. wcount'[v] + 1 >= Shares(x)
      BY <3>1, <3>2
    <3> QED BY <3>2, <3>3
  <2>2. CASE v # w
    BY <1>1, <2>2 DEF DataInv, DropsOK
  <2> QED BY <2>1, <2>2
<1> QED BY <1>5, <1>6 DEF DataInv

LEMMA StoreKeepsData ==
  ASSUME Types, NEW exact, DataInv(exact), TestsApart', exact => DropsApart, NEW w \in Workers, UnrefStore(w)
  PROVE  DataInv(exact)'
<1>1. PICK x \in 1..events : x = wjob[w].event
  BY PublishedFacts DEF UnrefStore, DataInv
<1>2. /\ wpc[w] = "store" /\ x \in Events
      /\ \A v \in Workers : wpc'[v] = IF v = w THEN "test" ELSE wpc[v]
      /\ queue' = queue /\ wjob' = wjob /\ events' = events /\ wcount' = wcount /\ frees' = frees
      /\ \A e \in Events : reference_count'[e] = IF e = x THEN wcount[w] ELSE reference_count[e]
  BY <1>1, EventFacts DEF UnrefStore, Goes, Types, WorkerTypes, DataTypes
<1>3. /\ wcount[w] + 1 >= Shares(x) /\ (exact => wcount[w] = reference_count[x] - 1)
      /\ reference_count[x] \in Int /\ wcount[w] \in Int
  BY <1>1, <1>2 DEF DataInv, DropsOK, Types, DataTypes, WorkerTypes
<1>4. \A e : /\ Shares(e) \in Nat /\ Shares(e)' \in Nat
             /\ Shares(e)' = Shares(e) - (IF e = x THEN 1 ELSE 0)
  <2> TAKE e
  <2>1. Uses(e)' = Uses(e) \ {w}
    BY <1>2 DEF Uses
  <2>2. /\ Cardinality(Uses(e)) \in Nat
        /\ Cardinality(Uses(e)') = Cardinality(Uses(e)) - (IF e = x THEN 1 ELSE 0)
    <3>1. wpc[w] \notin {"idle", "test"}
      BY <1>2
    <3> QED BY <1>1, <2>1, <3>1, GiveUpFacts
  <2>3. queue \in Seq(NotifyJob) /\ queue' \in Seq(NotifyJob)
    BY <1>2, EventFacts
  <2>4. Cardinality(Of(queue', e)) \in Nat /\ Shares(e)' = Cardinality(Of(queue', e)) + Cardinality(Uses(e)')
        /\ Shares(e)' \in Nat
    BY <2>3, SharesNext
  <2>5. Shares(e) = Cardinality(Of(queue, e)) + Cardinality(Uses(e)) /\ Shares(e) \in Nat
    BY <2>3, SharesFacts DEF Shares
  <2> QED BY <1>2, <2>2, <2>4, <2>5
<1>5. \A e \in 1..events : /\ e \in Events /\ reference_count[e] >= Shares(e) /\ reference_count[e] \in Int
                           /\ exact => reference_count[e] = Shares(e)
  BY EventFacts DEF DataInv, CountOK
<1>6. CountOK(exact)'
  <2> SUFFICES ASSUME NEW e \in 1..events
               PROVE  reference_count'[e] >= Shares(e)' /\ (exact => reference_count'[e] = Shares(e)')
    BY <1>2 DEF CountOK
  <2>1. CASE e = x
    BY <1>2, <1>3, <1>4, <1>5, <2>1
  <2>2. CASE e # x
    BY <1>2, <1>4, <1>5, <2>2
  <2> QED BY <2>1, <2>2
<1>7. PublishedOK'
  BY <1>2 DEF DataInv, PublishedOK
<1>8. Shares(x) >= 1 /\ reference_count[x] >= 1
  <2>1. Shares(x)' = Shares(x) - 1 /\ Shares(x)' \in Nat /\ Shares(x) \in Nat
    BY <1>4
  <2> QED BY <1>3, <1>5, <2>1
<1>9. DropsOK(exact)'
  <2> SUFFICES ASSUME NEW v \in Workers, NEW e \in 1..events, wjob[v].event = e
               PROVE  /\ wpc'[v] = "store" => /\ wcount[v] + 1 >= Shares(e)'
                                              /\ exact => wcount[v] = reference_count'[e] - 1
                      /\ wpc'[v] = "test" => wcount[v] = reference_count'[e]
    BY <1>2 DEF DropsOK
  <2>1. CASE v = w
    BY <1>1, <1>2, <1>5, <2>1
  <2>2. CASE v # w /\ wpc[v] = "store"
    <3>1. /\ wcount[v] + 1 >= Shares(e) /\ (exact => wcount[v] = reference_count[e] - 1) /\ wcount[v] \in Int
      BY <2>2 DEF DataInv, DropsOK, Types, WorkerTypes
    <3>2. Shares(e) \in Nat /\ Shares(e)' \in Nat /\ Shares(e)' <= Shares(e)
      BY <1>4
    <3>3. wcount[v] + 1 >= Shares(e)'
      BY <3>1, <3>2
    <3>4. exact => e # x
      BY <1>1, <1>2, <2>2 DEF DropsApart
    <3> QED BY <1>2, <1>5, <2>2, <3>1, <3>3, <3>4
  <2>3. CASE v # w /\ wpc[v] = "test"
    <3>1. e # x
      BY <1>1, <1>2, <2>3 DEF TestsApart
    <3> QED BY <1>2, <1>5, <2>3, <3>1 DEF DataInv, DropsOK
  <2> QED BY <1>2, <2>1, <2>2, <2>3
<1>10. FreedOK'
  <2> SUFFICES ASSUME NEW e \in 1..events
               PROVE  frees[e] = IF reference_count'[e] = 0 /\ ~Testing(e)' THEN 1 ELSE 0
    BY <1>2 DEF FreedOK
  <2>1. frees[e] = IF reference_count[e] = 0 /\ ~Testing(e) THEN 1 ELSE 0
    BY DEF DataInv, FreedOK
  <2>2. CASE e = x
    <3>1. Testing(e)'
      BY <1>1, <1>2, <2>2 DEF Testing
    <3> QED BY <1>8, <2>1, <2>2, <3>1
  <2>3. CASE e # x
    <3>1. Testing(e)' <=> Testing(e)
      BY <1>1, <1>2, <2>3 DEF Testing
    <3> QED BY <1>2, <1>5, <2>1, <2>3, <3>1
  <2> QED BY <2>2, <2>3
<1> QED BY <1>6, <1>7, <1>9, <1>10 DEF DataInv

LEMMA EndsFacts ==
  ASSUME Types, PublishedOK, NEW w \in Workers, wpc[w] # "idle", Ends(w), UNCHANGED <<queue, events>>
  PROVE  /\ \A v \in Workers : /\ wpc'[v] = IF v = w THEN "idle" ELSE wpc[v]
                               /\ v # w => wjob'[v] = wjob[v]
         /\ PublishedOK'
<1>1. /\ \A v \in Workers : /\ wpc'[v] = IF v = w THEN "idle" ELSE wpc[v]
                            /\ v # w => wjob'[v] = wjob[v]
      /\ queue' = queue /\ events' = events
  BY DEF Ends, Goes, Types, WorkerTypes
<1> QED BY <1>1 DEF PublishedOK

LEMMA TestKeepsData ==
  ASSUME Types, NEW exact, DataInv(exact), TestsApart, NEW w \in Workers, UnrefTest(w)
  PROVE  DataInv(exact)'
<1>1. PICK x \in 1..events : x = wjob[w].event
  BY PublishedFacts DEF UnrefTest, DataInv
<1>2. /\ wpc[w] = "test" /\ Ends(w) /\ x \in Events
      /\ wcount \in [Workers -> Int] /\ wcount' = [wcount EXCEPT ![w] = 0]
      /\ queue' = queue /\ events' = events /\ reference_count' = reference_count
  BY EventFacts DEF UnrefTest, Types, WorkerTypes
<1>3. wcount[w] = reference_count[x]
  BY <1>1, <1>2 DEF DataInv, DropsOK
<1>4. \A e \in Events : frees'[e] = IF e = x /\ reference_count[x] = 0 THEN frees[e] + 1 ELSE frees[e]
  <2>1. frees' = [frees EXCEPT ![x] = IF reference_count[x] = 0 THEN @ + 1 ELSE @]
    BY <1>1, <1>3 DEF UnrefTest
  <2> QED BY <1>2, <2>1 DEF Types, DataTypes
<1>5. /\ \A v \in Workers : /\ wpc'[v] = IF v = w THEN "idle" ELSE wpc[v]
                            /\ v # w => wjob'[v] = wjob[v]
      /\ PublishedOK'
  BY <1>2, EndsFacts DEF DataInv
<1>6. \A e : Shares(e)' = Shares(e)
  BY <1>2, <1>5 DEF Uses, Shares
<1>7. CountOK(exact)'
  BY <1>2, <1>6 DEF DataInv, CountOK
<1>8. DropsOK(exact)'
  BY <1>2, <1>5, <1>6 DEF DataInv, DropsOK
<1>9. FreedOK'
  <2> SUFFICES ASSUME NEW e \in 1..events
               PROVE  frees'[e] = IF reference_count[e] = 0 /\ ~Testing(e)' THEN 1 ELSE 0
    BY <1>2 DEF FreedOK
  <2>1. frees[e] = (IF reference_count[e] = 0 /\ ~Testing(e) THEN 1 ELSE 0) /\ e \in Events
    BY EventFacts DEF DataInv, FreedOK
  <2>2. CASE e = x
    <3>1. Testing(e) /\ ~Testing(e)'
      BY <1>1, <1>2, <1>5, <2>2 DEF Testing, TestsApart
    <3> QED BY <1>4, <2>1, <2>2, <3>1
  <2>3. CASE e # x
    <3>1. Testing(e)' <=> Testing(e)
      BY <1>1, <1>2, <1>5, <2>3 DEF Testing
    <3> QED BY <1>4, <2>1, <2>3, <3>1
  <2> QED BY <2>2, <2>3
<1> QED BY <1>5, <1>7, <1>8, <1>9 DEF DataInv

LEMMA SentKeepsData ==
  ASSUME Types, NEW exact, DataInv(exact), NEW w \in Workers, NEW gone \in BOOLEAN, NotifySent(w, gone)
  PROVE  DataInv(exact)'
<1>1. PICK x \in 1..events : x = wjob[w].event
  BY PublishedFacts DEF NotifySent, DataInv
<1>2. /\ wpc[w] = "sending" /\ Ends(w) /\ x \in Events
      /\ queue' = queue /\ events' = events /\ wcount' = wcount
  BY EventFacts DEF NotifySent
<1>3. \A v \in Workers : wpc[v] \notin {"store", "test"}
  BY DEF NotifySent, CanWrite, Readers, ReadPcs
<1>4. \A e \in Events :
        /\ reference_count'[e] = IF e = x THEN reference_count[e] - 1 ELSE reference_count[e]
        /\ frees'[e] = IF e = x /\ reference_count[x] = 1 THEN frees[e] + 1 ELSE frees[e]
  <2>1. /\ reference_count' = [reference_count EXCEPT ![x] = @ - 1]
        /\ frees' = [frees EXCEPT ![x] = IF reference_count[x] = 1 THEN @ + 1 ELSE @]
    BY <1>1 DEF NotifySent
  <2> QED BY <1>2, <2>1 DEF Types, DataTypes
<1>5. /\ \A v \in Workers : /\ wpc'[v] = IF v = w THEN "idle" ELSE wpc[v]
                            /\ v # w => wjob'[v] = wjob[v]
      /\ PublishedOK'
  BY <1>2, EndsFacts DEF DataInv
<1>6. \A e : /\ Shares(e) \in Nat /\ Shares(e)' \in Nat
             /\ Shares(e)' = Shares(e) - (IF e = x THEN 1 ELSE 0)
  <2> TAKE e
  <2>1. Uses(e)' = Uses(e) \ {w}
    BY <1>2, <1>5 DEF Uses
  <2>2. /\ Cardinality(Uses(e)) \in Nat
        /\ Cardinality(Uses(e)') = Cardinality(Uses(e)) - (IF e = x THEN 1 ELSE 0)
    BY <1>1, <1>2, <2>1, GiveUpFacts
  <2>3. queue \in Seq(NotifyJob) /\ queue' \in Seq(NotifyJob)
    BY <1>2, EventFacts
  <2>4. Cardinality(Of(queue', e)) \in Nat /\ Shares(e)' = Cardinality(Of(queue', e)) + Cardinality(Uses(e)')
        /\ Shares(e)' \in Nat
    BY <2>3, SharesNext
  <2>5. Shares(e) = Cardinality(Of(queue, e)) + Cardinality(Uses(e)) /\ Shares(e) \in Nat
    BY <2>3, SharesFacts DEF Shares
  <2> QED BY <1>2, <2>2, <2>4, <2>5
<1>7. \A e \in 1..events : /\ e \in Events /\ reference_count[e] >= Shares(e) /\ reference_count[e] \in Int
                           /\ exact => reference_count[e] = Shares(e)
  BY EventFacts DEF DataInv, CountOK
<1>8. CountOK(exact)'
  <2> SUFFICES ASSUME NEW e \in 1..events
               PROVE  reference_count'[e] >= Shares(e)' /\ (exact => reference_count'[e] = Shares(e)')
    BY <1>2 DEF CountOK
  <2>1. CASE e = x
    BY <1>4, <1>6, <1>7, <2>1
  <2>2. CASE e # x
    BY <1>4, <1>6, <1>7, <2>2
  <2> QED BY <2>1, <2>2
<1>9. DropsOK(exact)'
  BY <1>3, <1>5 DEF DropsOK
<1>10. reference_count[x] >= 1
  <2>1. Shares(x)' = Shares(x) - 1 /\ Shares(x)' \in Nat /\ Shares(x) \in Nat
    BY <1>6
  <2> QED BY <1>7, <2>1
<1>11. FreedOK'
  <2> SUFFICES ASSUME NEW e \in 1..events
               PROVE  frees'[e] = IF reference_count'[e] = 0 /\ ~Testing(e)' THEN 1 ELSE 0
    BY <1>2 DEF FreedOK
  <2>1. frees[e] = (IF reference_count[e] = 0 /\ ~Testing(e) THEN 1 ELSE 0)
    BY DEF DataInv, FreedOK
  <2>2. ~Testing(e) /\ ~Testing(e)'
    BY <1>3, <1>5 DEF Testing
  <2>3. CASE e = x
    BY <1>4, <1>7, <1>10, <2>1, <2>2, <2>3
  <2>4. CASE e # x
    BY <1>4, <1>7, <2>1, <2>2, <2>4
  <2> QED BY <2>3, <2>4
<1> QED BY <1>5, <1>8, <1>9, <1>11 DEF DataInv

LEMMA StepData ==
  ASSUME Types, NEW exact, DataInv(exact), TestsApart, TestsApart', exact => PoolTakesJobs /\ DropsApart, [Next]_vars
  PROVE  DataInv(exact)'
<1>1. CASE UNCHANGED vars
  BY <1>1, OthersKeepData DEF vars
<1>2. CASE \/ RegisterCall \/ dlnaRegisterRootDevice
           \/ genaUnregisterDevice \/ dlnaUnRegisterRootDevice
           \/ \E n \in Limits : dlnaSetMaxSubscriptions(n) \/ dlnaSetMaxSubscriptionTimeOut(n)
           \/ \E r \in Receivers, s \in Sids, t \in Limits : Subscribe(r, s, t) \/ Renew(r, s, t)
           \/ \E r \in Receivers, s \in Sids : Unsubscribe(r, s)
           \/ \E s \in Sids : Expire(s)
  <2>1. UNCHANGED <<queue, workerVars, events, dataVars>>
    BY <1>2 DEF RegisterCall, dlnaRegisterRootDevice, genaUnregisterDevice, dlnaUnRegisterRootDevice,
           dlnaSetMaxSubscriptions, dlnaSetMaxSubscriptionTimeOut, Subscribe, Renew, Unsubscribe, Expire
  <2> QED BY <2>1, OthersKeepData
<1>3. CASE genaNotifyAll
  BY <1>3, PublishKeepsData
<1>4. ASSUME NEW r \in Receivers, AcceptSubscription(r)
      PROVE  DataInv(exact)'
  BY <1>4, AcceptKeepsData
<1>5. ASSUME NEW w \in Workers, NotifyStart(w) \/ ReadSection(w)
      PROVE  DataInv(exact)'
  <2>1. CASE NotifyStart(w)
    BY <2>1, StartKeepsData
  <2>2. CASE NotifyLook(w)
    <3>1. PICK pc \in {"drop", "expired", "found"} : Goes(w, pc)
      BY <2>2 DEF NotifyLook
    <3> QED BY <2>2, <3>1, MoveKeepsData DEF NotifyLook
  <2>3. CASE NotifyExpire(w)
    BY <2>3, MoveKeepsData DEF NotifyExpire
  <2>4. CASE NotifyCopy(w)
    BY <2>4, CopyKeepsData
  <2>5. CASE UnrefLoad(w)
    BY <2>5, LoadKeepsData
  <2>6. CASE UnrefStore(w)
    BY <2>6, StoreKeepsData
  <2>7. CASE UnrefTest(w)
    BY <2>7, TestKeepsData
  <2> QED BY <1>5, <2>1, <2>2, <2>3, <2>4, <2>5, <2>6, <2>7 DEF ReadSection
<1>6. ASSUME NEW w \in Workers, NEW gone \in BOOLEAN, NotifySent(w, gone)
      PROVE  DataInv(exact)'
  BY <1>6, SentKeepsData
<1> QED BY <1>1, <1>2, <1>3, <1>4, <1>5, <1>6 DEF Next

\* With a count of 0 no job of the event is left.
LEMMA FreedFacts ==
  ASSUME Types, NEW exact, DataInv(exact), NEW e \in 1..events
  PROVE  /\ frees[e] \in {0, 1} /\ (frees[e] = 1 => Pending(e) = {})
         /\ exact => frees[e] = IF Pending(e) = {} THEN 1 ELSE 0
<1>1. frees[e] = IF reference_count[e] = 0 /\ ~Testing(e) THEN 1 ELSE 0
  BY DEF DataInv, FreedOK
<1>2. reference_count[e] >= Shares(e) /\ (exact => reference_count[e] = Shares(e)) /\ reference_count[e] \in Int
  BY EventFacts DEF DataInv, CountOK
<1>3. Shares(e) \in Nat /\ (Shares(e) = 0 /\ ~Testing(e) <=> Pending(e) = {})
  BY EventFacts, SharesFacts
<1>4. reference_count[e] = 0 => Shares(e) = 0
  BY <1>2, <1>3
<1> QED BY <1>1, <1>2, <1>3, <1>4

\* The data of an event is freed with the last of its jobs, in whatever order they are
\* sent, given up and put back, as long as the pool takes every job and threads that
\* give up jobs of one event do not overlap at the count.
THEOREM DataFreedOnce == Spec /\ []PoolTakesJobs /\ []DropsApart => []DataFreedWithLastJob
<1>1. Init => DataInv(TRUE)
  BY InitData
<1>2. Types /\ DataInv(TRUE) /\ PoolTakesJobs /\ DropsApart /\ DropsApart' /\ [Next]_vars => DataInv(TRUE)'
  <2>1. (DropsApart => TestsApart) /\ (DropsApart' => TestsApart')
    BY DEF DropsApart, TestsApart
  <2> QED BY <2>1, StepData
<1>3. Types /\ DataInv(TRUE) => DataFreedWithLastJob
  BY FreedFacts DEF DataFreedWithLastJob
<1> QED BY TypesInvariant, <1>1, <1>2, <1>3, PTL DEF Spec

\* Also when the pool refuses jobs (gena_device.c:1100) and when decrements of the count are lost (162), the data of an
\* event is not freed before its last job and not twice: it may then never be freed.  Only two threads between
\* the store and the test of one count are excluded.
THEOREM DataNotFreedEarly == Spec /\ []TestsApart => []DataOutlivesJobs
<1>1. Init => DataInv(FALSE)
  BY InitData
<1>2. Types /\ DataInv(FALSE) /\ TestsApart /\ TestsApart' /\ [Next]_vars => DataInv(FALSE)'
  BY StepData
<1>3. Types /\ DataInv(FALSE) => DataOutlivesJobs
  <2> SUFFICES ASSUME Types, DataInv(FALSE), NEW e \in 1..events
               PROVE  frees[e] <= 1 /\ (frees[e] # 0 => Pending(e) = {})
    BY DEF DataOutlivesJobs
  <2>1. frees[e] \in {0, 1} /\ (frees[e] = 1 => Pending(e) = {})
    BY FreedFacts
  <2> QED BY <2>1
<1> QED BY TypesInvariant, <1>1, <1>2, <1>3, PTL DEF Spec
=============================================================================
