----------------------- MODULE GenaControlPointProofs -----------------------
(***************************************************************************)
(* Proofs about eventing on the control point side: the list of the timer, *)
(* the renewals in it and who owns their memory, the first event of a      *)
(* subscription, and the quiet after dlnaFinish.                           *)
(***************************************************************************)
EXTENDS GenaControlPoint, SequenceTheorems, FiniteSetTheorems, WellFoundedInduction, TLAPS

-----------------------------------------------------------------------------
(* The invariants *)

TimerEvent == [id : Nat, eventTime : Nat, job : [event : Nat, sid : Nat]]
Subscription ==
  [sid : Nat, RenewEventId : Nat \cup {NoEvent}, finite : BOOLEAN, since : Nat]
Locals ==
  [sid : Nat, since : Nat, grant : Nat \cup {Infinite}, ok : BOOLEAN, event : Nat \cup {NoEvent}]

Stages ==
  {"idle", "unregister", "unregisterSent", "unregistered", "subscribe", "subscribeSent",
   "subscribeReplied", "renewSent", "renewReplied", "renewFailed", "callback",
   "unsubscribeSent", "notify", "event", "finTimer", "finWait", "finHandlers",
   "finThreads", "finished"}

TimerTypes ==
  /\ eventQ \in Seq(TimerEvent)
  /\ lastEventId \in Nat
  /\ now \in Nat /\ wakeAt \in Nat

CallTypes ==
  /\ client \in BOOLEAN /\ clients \in Nat
  /\ subs \subseteq Subscription
  /\ pc \in [Threads -> Stages]
  /\ local \in [Threads -> Locals]

DeviceTypes ==
  /\ granted \in Nat
  /\ notifies \subseteq Nat /\ rejected \subseteq Nat

EventTypes ==
  /\ jobs \subseteq [event : Nat, sid : Nat]
  /\ freed \in [Events -> Nat]

Types == TimerTypes /\ CallTypes /\ DeviceTypes /\ EventTypes

\* The list is in the order of time.
InOrder ==
  \A i, k \in DOMAIN eventQ : i < k => eventQ[i].eventTime <= eventQ[k].eventTime

\* Subscriptions belong to a client, have different SIDs, and all of those have
\* been granted.
SubsOK ==
  /\ ~client => subs = {}
  /\ \A s, r \in subs : s.sid = r.sid => s = r
  /\ \A s \in subs : s.sid <= granted

Down == {"finWait", "finHandlers", "finThreads", "finished"}

\* A thread that winds the library down is the caller of dlnaFinish, and has
\* unregistered the client.
FinishingOK ==
  /\ \A t \in Threads : pc[t] \in Down \cup {"finTimer"} => finishing = t /\ ~client
  /\ TimerDown => eventQ = <<>>

\* One SUBSCRIBE is under way at a time.  The SID it is granted is new, and was
\* not refused to a client that is still the one that called.
SubscribeOK ==
  /\ \A t \in Threads : pc[t] \in {"subscribe", "subscribeSent"} => ~local[t].ok
  /\ \A t \in Threads :
       pc[t] \in {"subscribeSent", "subscribeReplied"} => subscriber = t
  /\ \A t \in Threads :
       local[t].since <= clients /\ local[t].sid <= granted
  /\ \A t \in Threads :
       pc[t] = "subscribeReplied" /\ local[t].ok =>
         /\ ~Linked(local[t].sid)
         /\ client /\ local[t].since = clients => local[t].sid \notin rejected

RejectedOK ==
  /\ \A sid \in notifies \cup rejected : sid <= granted
  /\ \A s \in subs : s.since <= clients
  /\ FirstEventNotLost

\* The events of the timer: where they are and who frees them.
Entries == {eventQ[i] : i \in DOMAIN eventQ}
Waiting == {e.id : e \in Entries}
Handed == {j.event : j \in jobs}
Running == {local[t].event : t \in Threads} \ {NoEvent}

IdsDiffer == \A i, k \in DOMAIN eventQ : eventQ[i].id = eventQ[k].id => i = k

OneEach ==
  /\ IdsDiffer
  /\ \A e \in Entries : e.job.event = e.id
  /\ \A j, k \in jobs : j.event = k.event => j = k
  /\ \A t, u \in Threads : local[t].event = local[u].event => t = u \/ local[t].event = NoEvent

Apart ==
  /\ Waiting \cap Handed = {}
  /\ Waiting \cap Running = {}
  /\ Handed \cap Running = {}
  /\ \A e \in Waiting \cup Handed \cup Running : e \in Nat /\ e < lastEventId

FreedOnce ==
  \A e \in Events :
    freed[e] = IF e \in Waiting \cup Handed \cup Running \/ lastEventId <= e THEN 0 ELSE 1

\* An event runs only while its renewal does.
RunsInRenewal ==
  \A t \in Threads :
    local[t].event # NoEvent => pc[t] \in {"renewSent", "renewReplied", "renewFailed", "callback"}

OwnedOK == OneEach /\ Apart /\ FreedOnce /\ RunsInRenewal

\* The event a subscription names renews no other one.
RenewsItself ==
  \A s \in subs :
    /\ s.RenewEventId < lastEventId
    /\ \A e \in Entries : e.id = s.RenewEventId => e.job.sid = s.sid

\* The pool has room when the timer hands it a job.
PoolHasRoom == timer = "run" /\ shutdown = 0 /\ Due => Cardinality(jobs) < MaxJobs

CPInv == Types /\ InOrder /\ SubsOK /\ FinishingOK /\ SubscribeOK /\ RejectedOK

-----------------------------------------------------------------------------
(* The list of the timer *)

\* What InsertAt makes of a sequence.
LEMMA InsertFacts ==
  ASSUME NEW S, NEW s \in Seq(S), NEW x \in S, NEW k \in 1..Len(s) + 1
  PROVE  /\ InsertAt(s, k, x) \in Seq(S)
         /\ Len(InsertAt(s, k, x)) = Len(s) + 1
         /\ \A i \in 1..k - 1 : InsertAt(s, k, x)[i] = s[i]
         /\ InsertAt(s, k, x)[k] = x
         /\ \A i \in k + 1..Len(s) + 1 : InsertAt(s, k, x)[i] = s[i - 1]
<1> DEFINE a == SubSeq(s, 1, k - 1)
           b == SubSeq(s, k, Len(s))
<1>1. /\ a \in Seq(S) /\ Len(a) = k - 1
      /\ \A i \in 1..k - 1 : a[i] = s[i]
  OBVIOUS
<1>2. /\ b \in Seq(S) /\ Len(b) = Len(s) - k + 1
      /\ \A i \in 1..Len(s) - k + 1 : b[i] = s[k + i - 1]
  OBVIOUS
<1>3. InsertAt(s, k, x) = a \o <<x>> \o b
  BY DEF InsertAt
<1> HIDE DEF a, b
<1>4. /\ a \o <<x>> \in Seq(S) /\ Len(a \o <<x>>) = k
      /\ \A i \in 1..k - 1 : (a \o <<x>>)[i] = s[i]
      /\ (a \o <<x>>)[k] = x
  BY <1>1
<1> QED BY <1>2, <1>3, <1>4

\* What RemoveAt makes of a sequence.
LEMMA RemoveFacts ==
  ASSUME NEW S, NEW s \in Seq(S), NEW k \in 1..Len(s)
  PROVE  /\ RemoveAt(s, k) \in Seq(S)
         /\ Len(RemoveAt(s, k)) = Len(s) - 1
         /\ \A i \in 1..k - 1 : RemoveAt(s, k)[i] = s[i]
         /\ \A i \in k..Len(s) - 1 : RemoveAt(s, k)[i] = s[i + 1]
<1> DEFINE a == SubSeq(s, 1, k - 1)
           b == SubSeq(s, k + 1, Len(s))
<1>1. /\ a \in Seq(S) /\ Len(a) = k - 1
      /\ \A i \in 1..k - 1 : a[i] = s[i]
  OBVIOUS
<1>2. /\ b \in Seq(S) /\ Len(b) = Len(s) - k
      /\ \A i \in 1..Len(s) - k : b[i] = s[k + i]
  OBVIOUS
<1>3. RemoveAt(s, k) = a \o b
  BY DEF RemoveAt
<1> HIDE DEF a, b
<1>4. /\ a \o b \in Seq(S) /\ Len(a \o b) = Len(s) - 1
      /\ \A i \in 1..k - 1 : (a \o b)[i] = a[i]
      /\ \A i \in k..Len(s) - 1 : (a \o b)[i] = b[i - (k - 1)]
  <2>1. a \in Seq(S) /\ b \in Seq(S) /\ Len(a) = k - 1 /\ Len(b) = Len(s) - k
    BY <1>1, <1>2
  <2>2. a \o b \in Seq(S) /\ Len(a \o b) = Len(a) + Len(b)
    BY <2>1
  <2>3. \A i \in 1..Len(a) + Len(b) :
          (a \o b)[i] = IF i <= Len(a) THEN a[i] ELSE b[i - Len(a)]
    BY <2>1
  <2>4. k \in Nat /\ Len(s) \in Nat /\ 1 <= k /\ k <= Len(s)
    OBVIOUS
  <2> QED BY <2>1, <2>2, <2>3, <2>4
<1>5. \A i \in k..Len(s) - 1 : b[i - (k - 1)] = s[i + 1]
  <2> SUFFICES ASSUME NEW i \in k..Len(s) - 1
               PROVE  b[i - (k - 1)] = s[i + 1]
    OBVIOUS
  <2>1. i - (k - 1) \in 1..Len(s) - k /\ k + (i - (k - 1)) = i + 1
    OBVIOUS
  <2> QED BY <2>1, <1>2
<1> QED BY <1>1, <1>3, <1>4, <1>5

\* An event that is scheduled joins the others, in the order of time.
LEMMA Scheduled ==
  ASSUME TimerTypes, InOrder,
         NEW job \in [event : Nat, sid : Nat], NEW time \in Nat,
         \E k \in Places(time) : eventQ' = InsertAt(eventQ, k, EventFor(job, time))
  PROVE  /\ eventQ' \in Seq(TimerEvent)
         /\ InOrder'
         /\ Entries' = Entries \cup {EventFor(job, time)}
         /\ (\A e \in Entries : e.id < lastEventId) /\ IdsDiffer => IdsDiffer'
<1> DEFINE x == EventFor(job, time)
<1>x. x \in TimerEvent /\ x.eventTime = time /\ x.id = lastEventId
  BY DEF EventFor, TimerEvent, TimerTypes
<1>k. PICK k \in Places(time) : eventQ' = InsertAt(eventQ, k, x)
  OBVIOUS
<1>q. eventQ \in Seq(TimerEvent) /\ lastEventId \in Nat
  BY DEF TimerTypes
<1>1. /\ k \in 1..Len(eventQ) + 1
      /\ \A i \in 1..k - 1 : eventQ[i].eventTime < time
      /\ k <= Len(eventQ) => time <= eventQ[k].eventTime
  BY <1>k DEF Places
<1> HIDE DEF x
<1>2. /\ eventQ' \in Seq(TimerEvent)
      /\ Len(eventQ') = Len(eventQ) + 1
      /\ \A i \in 1..k - 1 : eventQ'[i] = eventQ[i]
      /\ eventQ'[k] = x
      /\ \A i \in k + 1..Len(eventQ) + 1 : eventQ'[i] = eventQ[i - 1]
  <2>1. k \in 1..Len(eventQ) + 1 /\ x \in TimerEvent /\ eventQ \in Seq(TimerEvent)
    BY <1>q, <1>1, <1>x
  <2> DEFINE r == InsertAt(eventQ, k, x)
  <2>2. /\ r \in Seq(TimerEvent)
        /\ Len(r) = Len(eventQ) + 1
        /\ \A i \in 1..k - 1 : r[i] = eventQ[i]
        /\ r[k] = x
        /\ \A i \in k + 1..Len(eventQ) + 1 : r[i] = eventQ[i - 1]
    BY <2>1, InsertFacts
  <2>3. eventQ' = r
    BY <1>k
  <2> HIDE DEF r
  <2> QED BY <2>2, <2>3
<1>d. DOMAIN eventQ = 1..Len(eventQ) /\ DOMAIN eventQ' = 1..Len(eventQ) + 1
  BY <1>q, <1>2
<1>t. \A i \in 1..Len(eventQ) : eventQ[i].eventTime \in Nat /\ eventQ[i].id \in Nat
  <2>1. \A i \in 1..Len(eventQ) : eventQ[i] \in TimerEvent
    BY <1>q
  <2> QED BY <2>1 DEF TimerEvent
<1>3. InOrder'
  <2> SUFFICES ASSUME NEW i \in 1..Len(eventQ) + 1, NEW j \in 1..Len(eventQ) + 1, i < j
               PROVE  eventQ'[i].eventTime <= eventQ'[j].eventTime
    BY <1>d DEF InOrder
  <2>1. \A m, n \in 1..Len(eventQ) : m < n => eventQ[m].eventTime <= eventQ[n].eventTime
    BY <1>d DEF InOrder
  <2>2. CASE j < k
    BY <2>1, <2>2, <1>2, <1>1, <1>q
  <2>3. CASE j = k
    <3>1. i \in 1..k - 1
      BY <2>3
    <3> QED BY <3>1, <2>3, <1>2, <1>1, <1>x, <1>q, <1>t
  <2>4. CASE i = k
    <3>1. j \in k + 1..Len(eventQ) + 1 /\ k \in 1..Len(eventQ) /\ j - 1 \in 1..Len(eventQ)
      BY <2>4, <1>1, <1>q
    <3>2. eventQ'[j] = eventQ[j - 1] /\ eventQ'[i] = x
      BY <3>1, <2>4, <1>2
    <3>3. eventQ[k].eventTime <= eventQ[j - 1].eventTime
      <4>1. k = j - 1 \/ k < j - 1
        BY <3>1, <1>q
      <4>2. CASE k = j - 1
        <5>1. eventQ[k].eventTime \in Nat
          BY <3>1, <1>t
        <5> QED BY <5>1, <4>2
      <4>3. CASE k < j - 1
        BY <4>3, <3>1, <2>1
      <4> QED BY <4>1, <4>2, <4>3
    <3>4. time <= eventQ[k].eventTime
      BY <3>1, <1>1, <1>q
    <3>5. eventQ[k].eventTime \in Nat /\ eventQ[j - 1].eventTime \in Nat
      BY <3>1, <1>t
    <3> QED BY <3>2, <3>3, <3>4, <3>5, <1>x
  <2>5. CASE i < k /\ k < j
    <3>1. i < j - 1 \/ i = j - 1
      BY <2>5, <1>1, <1>q
    <3>2. eventQ'[i] = eventQ[i] /\ eventQ'[j] = eventQ[j - 1]
      BY <2>5, <1>1, <1>2, <1>q
    <3>3. i \in 1..Len(eventQ) /\ j - 1 \in 1..Len(eventQ)
      BY <2>5, <1>1, <1>q
    <3> QED BY <3>1, <3>2, <3>3, <2>1, <1>t
  <2>6. CASE k < i
    <3>1. i - 1 \in 1..Len(eventQ) /\ j - 1 \in 1..Len(eventQ) /\ i - 1 < j - 1
      BY <2>6, <1>1, <1>q
    <3>2. eventQ'[i] = eventQ[i - 1] /\ eventQ'[j] = eventQ[j - 1]
      BY <2>6, <1>1, <1>2, <1>q
    <3> QED BY <3>1, <3>2, <2>1
  <2> QED BY <2>2, <2>3, <2>4, <2>5, <2>6, <1>1, <1>q
<1>4. Entries' = Entries \cup {x}
  <2>1. \A i \in DOMAIN eventQ' : eventQ'[i] = x \/ \E m \in DOMAIN eventQ : eventQ'[i] = eventQ[m]
    <3> SUFFICES ASSUME NEW i \in 1..Len(eventQ) + 1
                 PROVE  eventQ'[i] = x \/ \E m \in 1..Len(eventQ) : eventQ'[i] = eventQ[m]
      BY <1>d
    <3>1. CASE i < k
      BY <3>1, <1>1, <1>2, <1>q
    <3>2. CASE k < i
      <4>1. i - 1 \in 1..Len(eventQ) /\ i \in k + 1..Len(eventQ) + 1
        BY <3>2, <1>1, <1>q
      <4> QED BY <4>1, <1>2
    <3> QED BY <3>1, <3>2, <1>1, <1>2, <1>q
  <2>2. \A m \in DOMAIN eventQ : \E i \in DOMAIN eventQ' : eventQ'[i] = eventQ[m]
    <3> SUFFICES ASSUME NEW m \in 1..Len(eventQ)
                 PROVE  \E i \in 1..Len(eventQ) + 1 : eventQ'[i] = eventQ[m]
      BY <1>d
    <3>1. CASE m < k
      BY <3>1, <1>1, <1>2, <1>q
    <3>2. CASE k <= m
      <4>1. m + 1 \in k + 1..Len(eventQ) + 1 /\ m + 1 \in 1..Len(eventQ) + 1
        BY <3>2, <1>1, <1>q
      <4>2. eventQ'[m + 1] = eventQ[m]
        BY <4>1, <1>2
      <4> QED BY <4>1, <4>2
    <3> QED BY <3>1, <3>2, <1>1, <1>q
  <2>3. k \in DOMAIN eventQ' /\ eventQ'[k] = x
    BY <1>d, <1>1, <1>2
  <2> QED BY <2>1, <2>2, <2>3 DEF Entries
<1>5. ASSUME \A e \in Entries : e.id < lastEventId, IdsDiffer
      PROVE  IdsDiffer'
  <2> SUFFICES ASSUME NEW i \in 1..Len(eventQ) + 1, NEW j \in 1..Len(eventQ) + 1,
                      i < j, eventQ'[i].id = eventQ'[j].id
               PROVE  FALSE
    <3>1. \A i, j \in 1..Len(eventQ) + 1 :
            eventQ'[i].id = eventQ'[j].id => ~(i < j) /\ ~(j < i)
      OBVIOUS
    <3> QED BY <3>1, <1>d, <1>q DEF IdsDiffer
  <2>1. \A m \in 1..Len(eventQ) : eventQ[m].id < lastEventId
    BY <1>5, <1>d DEF Entries
  <2>2. \A m, n \in 1..Len(eventQ) : eventQ[m].id = eventQ[n].id => m = n
    BY <1>5, <1>d DEF IdsDiffer
  <2>3. CASE i < k /\ j < k
    BY <2>2, <2>3, <1>1, <1>2, <1>q
  <2>4. CASE i < k /\ j = k
    <3>1. i \in 1..k - 1 /\ i \in 1..Len(eventQ)
      BY <2>4, <1>1, <1>q
    <3> QED BY <3>1, <2>4, <2>1, <1>2, <1>x, <1>q, <1>t
  <2>5. CASE i = k /\ k < j
    <3>1. j \in k + 1..Len(eventQ) + 1 /\ j - 1 \in 1..Len(eventQ)
      BY <2>5, <1>1, <1>q
    <3> QED BY <3>1, <2>5, <2>1, <1>2, <1>x, <1>q, <1>t
  <2>6. CASE i < k /\ k < j
    <3>1. i \in 1..k - 1 /\ i \in 1..Len(eventQ) /\ j \in k + 1..Len(eventQ) + 1
          /\ j - 1 \in 1..Len(eventQ) /\ i # j - 1
      BY <2>6, <1>1, <1>q
    <3> QED BY <3>1, <2>2, <1>2
  <2>7. CASE k < i
    <3>1. i \in k + 1..Len(eventQ) + 1 /\ j \in k + 1..Len(eventQ) + 1
          /\ i - 1 \in 1..Len(eventQ) /\ j - 1 \in 1..Len(eventQ) /\ i - 1 # j - 1
      BY <2>7, <1>1, <1>q
    <3> QED BY <3>1, <2>2, <1>2
  <2> QED BY <2>3, <2>4, <2>5, <2>6, <2>7, <1>1, <1>q
<1> QED BY <1>2, <1>3, <1>4, <1>5 DEF x
\* The list without the event at one place.
LEMMA Dropped ==
  ASSUME TimerTypes, InOrder, NEW k \in DOMAIN eventQ,
         eventQ' \in Seq(TimerEvent), Len(eventQ') = Len(eventQ) - 1,
         \A i \in 1..k - 1 : eventQ'[i] = eventQ[i],
         \A i \in k..Len(eventQ) - 1 : eventQ'[i] = eventQ[i + 1]
  PROVE  /\ InOrder'
         /\ Entries' \subseteq Entries
         /\ eventQ' # <<>> => Head(eventQ).eventTime <= Head(eventQ').eventTime
         /\ IdsDiffer => IdsDiffer' /\ Entries' = {e \in Entries : e.id # eventQ[k].id}
<1>q. eventQ \in Seq(TimerEvent) /\ Len(eventQ) \in Nat
  BY DEF TimerTypes
<1>d. DOMAIN eventQ = 1..Len(eventQ) /\ DOMAIN eventQ' = 1..Len(eventQ) - 1
  BY <1>q
<1>k. k \in 1..Len(eventQ)
  BY <1>d
<1> DEFINE from(i) == IF i < k THEN i ELSE i + 1
<1>f. \A i \in 1..Len(eventQ) - 1 :
        from(i) \in 1..Len(eventQ) /\ eventQ'[i] = eventQ[from(i)] /\ from(i) # k
  BY <1>k, <1>q
<1>m. \A i, j \in 1..Len(eventQ) - 1 : (i < j <=> from(i) < from(j)) /\ (from(i) = from(j) => i = j)
  BY <1>k, <1>q
<1>b. \A m \in 1..Len(eventQ) : m # k => \E i \in 1..Len(eventQ) - 1 : from(i) = m
  <2> SUFFICES ASSUME NEW m \in 1..Len(eventQ), m # k
               PROVE  \E i \in 1..Len(eventQ) - 1 : from(i) = m
    OBVIOUS
  <2>1. CASE m < k
    BY <2>1, <1>k, <1>q
  <2>2. CASE k < m
    <3>1. m - 1 \in 1..Len(eventQ) - 1 /\ from(m - 1) = m
      BY <2>2, <1>k, <1>q
    <3> QED BY <3>1
  <2> QED BY <2>1, <2>2, <1>k, <1>q
<1> HIDE DEF from
<1>t. \A i \in 1..Len(eventQ) : eventQ[i].eventTime \in Nat /\ eventQ[i].id \in Nat
  <2>1. \A i \in 1..Len(eventQ) : eventQ[i] \in TimerEvent
    BY <1>q
  <2> QED BY <2>1 DEF TimerEvent
<1>o. \A i, j \in 1..Len(eventQ) : i < j => eventQ[i].eventTime <= eventQ[j].eventTime
  BY <1>d DEF InOrder
<1>1. InOrder'
  <2> SUFFICES ASSUME NEW i \in 1..Len(eventQ) - 1, NEW j \in 1..Len(eventQ) - 1, i < j
               PROVE  eventQ'[i].eventTime <= eventQ'[j].eventTime
    BY <1>d DEF InOrder
  <2> QED BY <1>f, <1>m, <1>o
<1>2. Entries' \subseteq Entries
  BY <1>d, <1>f DEF Entries
<1>3. ASSUME eventQ' # <<>>
      PROVE  Head(eventQ).eventTime <= Head(eventQ').eventTime
  <2>1. Len(eventQ') # 0
    BY <1>3
  <2>2. 1 \in 1..Len(eventQ) - 1 /\ 1 \in 1..Len(eventQ)
    BY <2>1, <1>q
  <2>3. Head(eventQ) = eventQ[1] /\ Head(eventQ') = eventQ'[1]
    BY <1>q, <1>3, <2>2
  <2>4. from(1) = 1 \/ 1 < from(1)
    BY <2>2, <1>f
  <2> QED BY <2>2, <2>3, <2>4, <1>f, <1>t, <1>o
<1>4. ASSUME IdsDiffer
      PROVE  IdsDiffer' /\ Entries' = {e \in Entries : e.id # eventQ[k].id}
  <2>1. \A i, j \in 1..Len(eventQ) : eventQ[i].id = eventQ[j].id => i = j
    BY <1>4, <1>d DEF IdsDiffer
  <2>2. IdsDiffer'
    <3> SUFFICES ASSUME NEW i \in 1..Len(eventQ) - 1, NEW j \in 1..Len(eventQ) - 1,
                        eventQ'[i].id = eventQ'[j].id
                 PROVE  i = j
      BY <1>d DEF IdsDiffer
    <3>1. from(i) \in 1..Len(eventQ) /\ from(j) \in 1..Len(eventQ)
          /\ eventQ[from(i)].id = eventQ[from(j)].id
      BY <1>f
    <3> QED BY <3>1, <2>1, <1>m
  <2>3. \A i \in 1..Len(eventQ) - 1 :
          \E m \in 1..Len(eventQ) : eventQ'[i] = eventQ[m] /\ eventQ[m].id # eventQ[k].id
    BY <1>f, <1>k, <2>1
  <2>4. \A m \in 1..Len(eventQ) : eventQ[m].id # eventQ[k].id =>
          \E i \in 1..Len(eventQ) - 1 : eventQ'[i] = eventQ[m]
    BY <1>b, <1>f, <1>k
  <2>5. Entries' = {e \in Entries : e.id # eventQ[k].id}
    <3>1. ASSUME NEW e \in Entries'
          PROVE  e \in Entries /\ e.id # eventQ[k].id
      <4>1. PICK i \in 1..Len(eventQ) - 1 : e = eventQ'[i]
        BY <1>d DEF Entries
      <4>2. PICK m \in 1..Len(eventQ) : eventQ'[i] = eventQ[m] /\ eventQ[m].id # eventQ[k].id
        BY <2>3
      <4> QED BY <4>1, <4>2, <1>d DEF Entries
    <3>2. ASSUME NEW e \in Entries, e.id # eventQ[k].id
          PROVE  e \in Entries'
      <4>1. PICK m \in 1..Len(eventQ) : e = eventQ[m]
        BY <1>d DEF Entries
      <4>2. PICK i \in 1..Len(eventQ) - 1 : eventQ'[i] = eventQ[m]
        BY <3>2, <4>1, <2>4
      <4> QED BY <4>1, <4>2, <1>d DEF Entries
    <3> QED BY <3>1, <3>2
  <2> QED BY <2>2, <2>5
<1> QED BY <1>1, <1>2, <1>3, <1>4

\* TimerThreadRemove takes out the event with the identifier, if it is there.
LEMMA Removed ==
  ASSUME TimerTypes, InOrder, NEW id, TimerThreadRemove(id)
  PROVE  /\ eventQ' \in Seq(TimerEvent)
         /\ InOrder'
         /\ Entries' \subseteq Entries
         /\ eventQ = <<>> => eventQ' = <<>>
         /\ eventQ' # <<>> => Head(eventQ).eventTime <= Head(eventQ').eventTime
         /\ IdsDiffer => IdsDiffer' /\ Entries' = {e \in Entries : e.id # id}
<1>q. eventQ \in Seq(TimerEvent) /\ Len(eventQ) \in Nat /\ DOMAIN eventQ = 1..Len(eventQ)
  BY DEF TimerTypes
<1>1. CASE Queued(id)
  <2>1. PICK i \in DOMAIN eventQ : eventQ[i].id = id /\ eventQ' = RemoveAt(eventQ, i)
    BY <1>1 DEF TimerThreadRemove
  <2>i. i \in 1..Len(eventQ)
    BY <1>q
  <2> DEFINE r == RemoveAt(eventQ, i)
  <2>2. /\ r \in Seq(TimerEvent) /\ Len(r) = Len(eventQ) - 1
        /\ \A m \in 1..i - 1 : r[m] = eventQ[m]
        /\ \A m \in i..Len(eventQ) - 1 : r[m] = eventQ[m + 1]
    BY <1>q, <2>i, RemoveFacts
  <2>3. eventQ' = r
    BY <2>1
  <2> HIDE DEF r
  <2>4. /\ eventQ' \in Seq(TimerEvent) /\ Len(eventQ') = Len(eventQ) - 1
        /\ \A m \in 1..i - 1 : eventQ'[m] = eventQ[m]
        /\ \A m \in i..Len(eventQ) - 1 : eventQ'[m] = eventQ[m + 1]
    BY <2>2, <2>3
  <2>5. /\ InOrder'
        /\ Entries' \subseteq Entries
        /\ eventQ' # <<>> => Head(eventQ).eventTime <= Head(eventQ').eventTime
        /\ IdsDiffer => IdsDiffer' /\ Entries' = {e \in Entries : e.id # eventQ[i].id}
    BY <2>4, Dropped
  <2>6. eventQ # <<>>
    BY <2>i, <1>q
  <2> QED BY <2>1, <2>4, <2>5, <2>6
<1>2. CASE ~Queued(id)
  <2>1. eventQ' = eventQ
    BY <1>2 DEF TimerThreadRemove
  <2>2. \A e \in Entries : e.id # id
    BY <1>2 DEF Entries, Queued
  <2>3. Entries' = Entries
    BY <2>1 DEF Entries
  <2>4. eventQ # <<>> => Head(eventQ).eventTime \in Nat
    <3>1. eventQ # <<>> => Head(eventQ) \in TimerEvent
      BY <1>q
    <3> QED BY <3>1 DEF TimerEvent
  <2>5. InOrder' /\ (IdsDiffer => IdsDiffer')
    BY <2>1 DEF InOrder, IdsDiffer
  <2> QED BY <1>q, <2>1, <2>2, <2>3, <2>4, <2>5
<1> QED BY <1>1, <1>2

\* The first event leaves the list.
LEMMA Fired ==
  ASSUME TimerTypes, InOrder, eventQ # <<>>, eventQ' = Tail(eventQ)
  PROVE  /\ eventQ' \in Seq(TimerEvent)
         /\ InOrder'
         /\ Head(eventQ) \in Entries
         /\ Entries' \subseteq Entries
         /\ IdsDiffer => IdsDiffer' /\ Entries' = {e \in Entries : e.id # Head(eventQ).id}
<1>q. eventQ \in Seq(TimerEvent) /\ Len(eventQ) \in Nat /\ DOMAIN eventQ = 1..Len(eventQ)
  BY DEF TimerTypes
<1>1. 1 \in DOMAIN eventQ /\ Head(eventQ) = eventQ[1]
  BY <1>q
<1>2. /\ eventQ' \in Seq(TimerEvent) /\ Len(eventQ') = Len(eventQ) - 1
      /\ \A i \in 1..Len(eventQ) - 1 : eventQ'[i] = eventQ[i + 1]
  BY <1>q
<1>3. \A i \in 1..1 - 1 : eventQ'[i] = eventQ[i]
  OBVIOUS
<1>4. /\ InOrder'
      /\ Entries' \subseteq Entries
      /\ IdsDiffer => IdsDiffer' /\ Entries' = {e \in Entries : e.id # eventQ[1].id}
  BY <1>1, <1>2, <1>3, Dropped
<1> QED BY <1>1, <1>2, <1>4 DEF Entries
-----------------------------------------------------------------------------
(* What the helpers do *)

\* A linked subscription is found by its SID.
LEMMA Found ==
  ASSUME NEW sid, Linked(sid)
  PROVE  Sub(sid) \in subs /\ Sub(sid).sid = sid
BY DEF Linked, Sub

\* Freeing keeps the counters numbers.
LEMMA FreeTypes ==
  ASSUME freed \in [Events -> Nat], NEW events, FreeAll(events)
  PROVE  freed' \in [Events -> Nat]
BY DEF FreeAll

\* The subscription s, now r, is renewed when its time-out is over, or never.
Rescheduled(s, r) ==
  \/ UNCHANGED timerVars /\ ~r.finite /\ r.RenewEventId = s.RenewEventId
  \/ /\ r.finite /\ r.RenewEventId = lastEventId
     /\ \E time \in Nat :
          TimerThreadSchedule([event |-> lastEventId, sid |-> s.sid], time)

LEMMA AutoRenewEffect ==
  ASSUME TimerTypes, NEW rest, NEW s \in Subscription, NEW grant \in Nat \cup {Infinite},
         ScheduleGenaAutoRenew(rest, s, grant)
  PROVE  \E r \in Subscription :
           /\ subs' = rest \cup {r} /\ r.sid = s.sid /\ r.since = s.since
           /\ Rescheduled(s, r)
<1>1. CASE grant = Infinite
  <2> DEFINE r == [s EXCEPT !.finite = FALSE]
  <2>1. r \in Subscription /\ r.sid = s.sid /\ r.since = s.since /\ ~r.finite
        /\ r.RenewEventId = s.RenewEventId
    BY DEF Subscription
  <2>2. subs' = rest \cup {r} /\ UNCHANGED timerVars
    BY <1>1 DEF ScheduleGenaAutoRenew
  <2> HIDE DEF r
  <2> QED BY <2>1, <2>2 DEF Rescheduled
<1>2. CASE grant # Infinite
  <2> DEFINE r == [s EXCEPT !.finite = TRUE, !.RenewEventId = lastEventId]
  <2>1. r \in Subscription /\ r.sid = s.sid /\ r.since = s.since /\ r.finite
        /\ r.RenewEventId = lastEventId
    BY DEF Subscription, TimerTypes
  <2>2. /\ subs' = rest \cup {r}
        /\ TimerThreadSchedule([event |-> lastEventId, sid |-> s.sid], Earliest(now + grant))
    BY <1>2 DEF ScheduleGenaAutoRenew
  <2>3. Earliest(now + grant) \in Nat
    BY <1>2, TimerAssumption DEF Earliest, TimerTypes
  <2> HIDE DEF r
  <2> QED BY <2>1, <2>2, <2>3 DEF Rescheduled
<1> QED BY <1>1, <1>2

\* Without its automatic renewal the subscription is gone, or it was not there.
LEMMA RemoveEffect ==
  ASSUME NEW sid, RemoveClientSub(sid)
  PROVE  /\ subs' = {s \in subs : s.sid # sid}
         /\ \/ Linked(sid) /\ CancelRenewal(sid)
            \/ ~Linked(sid) /\ UNCHANGED <<timerVars, freed>>
BY DEF RemoveClientSub, Without

\* The subscription that is being renewed stays, without an event.
LEMMA RenewalEffect ==
  ASSUME NEW t \in Threads, NEW sid, NEW event, subs \subseteq Subscription, Linked(sid),
         StartRenewal(t, sid, event)
  PROVE  /\ CancelRenewal(sid)
         /\ \E r \in Subscription :
              /\ subs' = {s \in subs : s.sid # sid} \cup {r}
              /\ r.sid = sid /\ r.since = Sub(sid).since /\ r.finite = Sub(sid).finite
              /\ r.RenewEventId = NoEvent
<1> DEFINE r == [Sub(sid) EXCEPT !.RenewEventId = NoEvent]
<1>1. Sub(sid) \in Subscription /\ Sub(sid).sid = sid
  BY Found
<1>2. r \in Subscription /\ r.sid = sid /\ r.since = Sub(sid).since
      /\ r.finite = Sub(sid).finite /\ r.RenewEventId = NoEvent
  BY <1>1 DEF Subscription
<1>3. subs' = {s \in subs : s.sid # sid} \cup {r} /\ CancelRenewal(sid)
  BY DEF StartRenewal, Without
<1> HIDE DEF r
<1> QED BY <1>2, <1>3

\* The time-outs that a device grants.
LEMMA GrantTypes == Grants \subseteq Nat \cup {Infinite}
BY ControlPointAssumption DEF Grants
-----------------------------------------------------------------------------
(* What the steps do to the timer *)

\* Every step calls the timer once at most.
LEMMA TimerCalls ==
  ASSUME Types, [Next]_vars
  PROVE  \/ TimerNext
         \/ UNCHANGED timerVars
         \/ \E id : TimerThreadRemove(id)
         \/ /\ client
            /\ \E job \in [event : Nat, sid : Nat], time \in Nat : TimerThreadSchedule(job, time)
         \/ \E t \in Callers : FinishTimer(t)
<1> DEFINE goal == \/ TimerNext
                   \/ UNCHANGED timerVars
                   \/ \E id : TimerThreadRemove(id)
                   \/ /\ client
                      /\ \E job \in [event : Nat, sid : Nat], time \in Nat :
                           TimerThreadSchedule(job, time)
                   \/ \E t \in Callers : FinishTimer(t)
<1> USE DEF Types, CallTypes
<1>c. \A sid : CancelRenewal(sid) => goal
  BY DEF CancelRenewal
<1>r. \A sid : RemoveClientSub(sid) => goal
  BY <1>c DEF RemoveClientSub
<1>s. ASSUME NEW rest, NEW s \in Subscription, NEW grant \in Nat \cup {Infinite},
             client, ScheduleGenaAutoRenew(rest, s, grant)
      PROVE  goal
  <2>1. \/ UNCHANGED timerVars
        \/ \E time \in Nat : TimerThreadSchedule([event |-> lastEventId, sid |-> s.sid], time)
    BY <1>s, AutoRenewEffect DEF Rescheduled
  <2>2. [event |-> lastEventId, sid |-> s.sid] \in [event : Nat, sid : Nat]
    BY DEF Subscription, TimerTypes
  <2> QED BY <2>1, <2>2, <1>s
<1>g. \A t, sid, event : StartRenewal(t, sid, event) => goal
  BY <1>c DEF StartRenewal
<1>l. \A t \in Threads : local[t] \in Locals /\ NewSubscription(t) \in Subscription
                         /\ local[t].grant \in Nat \cup {Infinite}
  <2>1. \A t \in Threads : local[t] \in Locals
    OBVIOUS
  <2> QED BY <2>1 DEF Locals, NewSubscription, Subscription
<1>b. \A sid : Linked(sid) => Sub(sid) \in Subscription
  BY Found
<1> HIDE DEF goal, Types, CallTypes
<1>1. CASE TimerStep
  BY <1>1 DEF TimerStep, goal
<1>2. ASSUME NEW t \in Callers,
             \/ dlnaRegisterClient(t) \/ dlnaUnRegisterClient(t) \/ dlnaFinish(t)
             \/ SubscribeCall(t) \/ UnSubscribeCall(t)
      PROVE  goal
  BY <1>2 DEF dlnaRegisterClient, dlnaUnRegisterClient, dlnaFinish, SubscribeCall,
              UnSubscribeCall, goal
<1>3. ASSUME NEW t \in Callers, RenewCall(t)
      PROVE  goal
  BY <1>3, <1>g DEF RenewCall
<1>4. ASSUME NEW t \in Threads, RenewReply(t) \/ RenewDone(t)
      PROVE  goal
  <2>1. CASE RenewReply(t)
    BY <2>1 DEF RenewReply, goal
  <2>2. CASE RenewDone(t)
    <3>1. \/ RemoveClientSub(local[t].sid)
          \/ /\ client /\ Linked(local[t].sid)
             /\ ScheduleGenaAutoRenew(Without(local[t].sid), Sub(local[t].sid), local[t].grant)
          \/ UNCHANGED timerVars
      BY <2>2 DEF RenewDone
    <3>2. CASE RemoveClientSub(local[t].sid)
      BY <3>2, <1>r
    <3>3. CASE /\ client /\ Linked(local[t].sid)
               /\ ScheduleGenaAutoRenew(Without(local[t].sid), Sub(local[t].sid), local[t].grant)
      BY <3>3, <1>s, <1>b, <1>l
    <3> QED BY <3>1, <3>2, <3>3 DEF goal
  <2> QED BY <1>4, <2>1, <2>2
<1>5. ASSUME NEW t \in Callers, CallStep(t)
      PROVE  goal
  <2>0. t \in Threads
    BY DEF Threads
  <2>1. CASE genaUnregisterClient(t)
    BY <2>1, <1>r DEF genaUnregisterClient, goal
  <2>2. CASE \/ UnregisterSent(t) \/ UnregisterDone(t) \/ SubscribeSend(t) \/ SubscribeReply(t)
             \/ FinishServer(t) \/ FinishJobs(t) \/ FinishDone(t)
    BY <2>2 DEF UnregisterSent, UnregisterDone, SubscribeSend, SubscribeReply, FinishServer,
                FinishJobs, FinishDone, goal
  <2>3. CASE SubscribeDone(t)
    <3>1. \/ client /\ ScheduleGenaAutoRenew(subs, NewSubscription(t), local[t].grant)
          \/ UNCHANGED timerVars
      BY <2>3 DEF SubscribeDone
    <3> QED BY <3>1, <2>0, <1>s, <1>l DEF goal
  <2>4. CASE RenewReply(t) \/ RenewDone(t)
    BY <2>4, <2>0, <1>4
  <2>5. CASE UnSubscribeDone(t)
    BY <2>5, <1>r DEF UnSubscribeDone, goal
  <2>6. CASE FinishTimer(t)
    BY <2>6 DEF goal
  <2> QED BY <1>5, <2>1, <2>2, <2>3, <2>4, <2>5, <2>6 DEF CallStep
<1>6. ASSUME NEW w \in Workers, WorkerStep(w)
      PROVE  goal
  <2>0. w \in Threads
    BY DEF Threads
  <2>1. CASE AutoRenew(w)
    BY <2>1, <1>g DEF AutoRenew, goal
  <2>2. CASE RenewReply(w) \/ RenewDone(w)
    BY <2>2, <2>0, <1>4
  <2>3. CASE ReportFailure(w) \/ CallbackReturns(w)
    BY <2>3 DEF ReportFailure, CallbackReturns, goal
  <2> QED BY <1>6, <2>1, <2>2, <2>3 DEF WorkerStep
<1>7. ASSUME NEW h \in Handlers, HandlerStep(h)
      PROVE  goal
  BY <1>7 DEF HandlerStep, NotifyLook, NotifyLookAgain, EventReturns, goal
<1>8. CASE UNCHANGED vars
  BY <1>8 DEF vars, goal
<1>9. ASSUME NEW t \in Callers,
             \/ dlnaRegisterClient(t) \/ dlnaUnRegisterClient(t) \/ dlnaFinish(t)
             \/ SubscribeCall(t) \/ RenewCall(t) \/ UnSubscribeCall(t)
             \/ CallStep(t)
      PROVE  goal
  BY <1>9, <1>2, <1>3, <1>5
<1>10. CASE Next
  BY <1>10, <1>1, <1>6, <1>7, <1>9 DEF Next, goal
<1> QED BY <1>8, <1>10

\* The list of the timer stays in order, and what is in it well formed.
LEMMA ListStep ==
  ASSUME Types, InOrder, [Next]_vars
  PROVE  TimerTypes' /\ InOrder'
<1>t. TimerTypes
  BY DEF Types
<1>n. Never \in Nat
  BY TimerAssumption DEF Never
<1>h. eventQ # <<>> => Head(eventQ).eventTime \in Nat
  <2>1. eventQ # <<>> => Head(eventQ) \in TimerEvent
    BY <1>t DEF TimerTypes
  <2> QED BY <2>1 DEF TimerEvent
<1>1. CASE TimerNext
  <2>1. CASE WorkerFire
    <3>1. eventQ # <<>> /\ eventQ' = Tail(eventQ) /\ lastEventId' = lastEventId /\ now' = now
          /\ wakeAt' = wakeAt
      BY <2>1 DEF WorkerFire, Due
    <3>2. eventQ' \in Seq(TimerEvent) /\ InOrder'
      BY <3>1, <1>t, Fired
    <3> QED BY <3>1, <3>2, <1>t DEF TimerTypes
  <2>2. CASE ~WorkerFire
    <3>1. eventQ' = eventQ /\ lastEventId' = lastEventId /\ (now' = now \/ now' = now + 1)
      BY <1>1, <2>2 DEF TimerNext, TimerThreadWorker, WorkerLock, WorkerTimedOut, WorkerReturn,
                        WorkerWait, Tick
    <3>2. wakeAt' \in {wakeAt, Never} \/ WorkerWait
      BY <1>1, <2>2 DEF TimerNext, TimerThreadWorker, WorkerLock, WorkerTimedOut, WorkerReturn,
                        Tick
    <3>3. WorkerWait => wakeAt' = IF eventQ = <<>> THEN Never ELSE Head(eventQ).eventTime
      BY DEF WorkerWait
    <3>4. wakeAt' \in Nat
      BY <3>2, <3>3, <1>n, <1>h, <1>t DEF TimerTypes
    <3> QED BY <3>1, <3>4, <1>t DEF TimerTypes, InOrder
  <2> QED BY <2>1, <2>2
<1>2. CASE UNCHANGED timerVars
  BY <1>2, <1>t DEF timerVars, TimerTypes, InOrder
<1>3. ASSUME NEW id, TimerThreadRemove(id)
      PROVE  TimerTypes' /\ InOrder'
  <2>1. lastEventId' = lastEventId /\ now' = now /\ wakeAt' = wakeAt
    BY <1>3 DEF TimerThreadRemove
  <2>2. eventQ' \in Seq(TimerEvent) /\ InOrder'
    BY <1>3, <1>t, Removed
  <2> QED BY <2>1, <2>2, <1>t DEF TimerTypes
<1>4. ASSUME NEW job \in [event : Nat, sid : Nat], NEW time \in Nat, TimerThreadSchedule(job, time)
      PROVE  TimerTypes' /\ InOrder'
  <2>1. /\ lastEventId' = lastEventId + 1 /\ now' = now
        /\ wakeAt' \in {wakeAt, Never}
        /\ \E k \in Places(time) : eventQ' = InsertAt(eventQ, k, EventFor(job, time))
    BY <1>4 DEF TimerThreadSchedule, Signal
  <2>2. eventQ' \in Seq(TimerEvent) /\ InOrder'
    BY <2>1, <1>t, Scheduled
  <2> QED BY <2>1, <2>2, <1>t, <1>n DEF TimerTypes
<1>5. CASE \E t \in Callers : FinishTimer(t)
  <2>1. eventQ' = <<>> /\ lastEventId' = lastEventId /\ now' = now
        /\ wakeAt' \in {wakeAt, Never}
    BY <1>5 DEF FinishTimer, TimerThreadShutdown, Signal
  <2>2. InOrder'
    BY <2>1 DEF InOrder
  <2>3. eventQ' \in Seq(TimerEvent)
    BY <2>1
  <2> QED BY <2>1, <2>2, <2>3, <1>t, <1>n DEF TimerTypes
<1> QED BY <1>1, <1>2, <1>3, <1>4, <1>5, TimerCalls

\* While the worker sleeps, what is done to the list does not make it late.
LEMMA WakesStep ==
  ASSUME Types, InOrder, WakesInTime, [Next]_vars
  PROVE  WakesInTime'
<1>t. TimerTypes
  BY DEF Types
<1>1. CASE TimerNext
  <2>1. CASE WorkerWait
    <3>1. eventQ' = eventQ /\ wakeAt' = IF eventQ = <<>> THEN Never ELSE Head(eventQ).eventTime
      BY <2>1 DEF WorkerWait
    <3>2. eventQ # <<>> => Head(eventQ).eventTime \in Nat
      <4>1. eventQ # <<>> => Head(eventQ) \in TimerEvent
        BY <1>t DEF TimerTypes
      <4> QED BY <4>1 DEF TimerEvent
    <3> QED BY <3>1, <3>2 DEF WakesInTime
  <2>2. CASE Tick
    BY <2>2 DEF Tick, WakesInTime
  <2>3. CASE ~WorkerWait /\ ~Tick
    <3>1. timer' # "wait"
      BY <1>1, <2>3 DEF TimerNext, TimerThreadWorker, WorkerLock, WorkerTimedOut, WorkerReturn,
                        WorkerFire
    <3> QED BY <3>1 DEF WakesInTime
  <2> QED BY <2>1, <2>2, <2>3
<1>2. CASE UNCHANGED timerVars
  BY <1>2 DEF timerVars, WakesInTime
<1>3. ASSUME NEW id, TimerThreadRemove(id)
      PROVE  WakesInTime'
  <2>1. timer' = timer /\ wakeAt' = wakeAt
    BY <1>3 DEF TimerThreadRemove
  <2>2. /\ eventQ = <<>> => eventQ' = <<>>
        /\ eventQ' # <<>> => Head(eventQ).eventTime <= Head(eventQ').eventTime
        /\ eventQ' \in Seq(TimerEvent)
    BY <1>3, <1>t, Removed
  <2> SUFFICES ASSUME timer' = "wait", eventQ' # <<>>
               PROVE  wakeAt' <= Head(eventQ').eventTime
    BY DEF WakesInTime
  <2>3. wakeAt <= Head(eventQ).eventTime
    BY <2>1, <2>2 DEF WakesInTime
  <2>4. Head(eventQ) \in TimerEvent /\ Head(eventQ') \in TimerEvent
    BY <2>2, <1>t DEF TimerTypes
  <2>5. Head(eventQ).eventTime \in Nat /\ Head(eventQ').eventTime \in Nat /\ wakeAt \in Nat
    BY <2>4, <1>t DEF TimerEvent, TimerTypes
  <2> QED BY <2>1, <2>2, <2>3, <2>5
<1>4. ASSUME NEW job, NEW time, TimerThreadSchedule(job, time)
      PROVE  WakesInTime'
  BY <1>4 DEF TimerThreadSchedule, Signal, WakesInTime
<1>5. CASE \E t \in Callers : FinishTimer(t)
  BY <1>5 DEF FinishTimer, TimerThreadShutdown, WakesInTime
<1> QED BY <1>1, <1>2, <1>3, <1>4, <1>5, TimerCalls
-----------------------------------------------------------------------------
(* Types *)

PcTypes == pc \in [Threads -> Stages]
LocalTypes == local \in [Threads -> Locals]

\* A thread moves on with locals of its own.
LEMMA MoveTypes ==
  ASSUME PcTypes, LocalTypes, NEW t \in Threads
  PROVE  /\ \A where \in Stages : Goto(t, where) => PcTypes'
         /\ \A locals \in Locals : Keep(t, locals) => LocalTypes'
         /\ Return(t) => PcTypes' /\ LocalTypes'
         /\ Back(t) => PcTypes' /\ LocalTypes'
         /\ \A failed : EndRenewal(t, failed) => PcTypes' /\ LocalTypes'
         /\ NoLocals \in Locals
<1>1. \A where \in Stages : Goto(t, where) => PcTypes'
  BY DEF Goto, PcTypes
<1>2. \A locals \in Locals : Keep(t, locals) => LocalTypes'
  BY DEF Keep, LocalTypes
<1>3. NoLocals \in Locals
  BY DEF NoLocals, Locals, NoSid
<1>4. {"idle", "finTimer", "renewFailed"} \subseteq Stages
  BY DEF Stages
<1>5. Return(t) => PcTypes' /\ LocalTypes'
  BY <1>1, <1>2, <1>3, <1>4 DEF Return
<1>6. Back(t) => PcTypes' /\ LocalTypes'
  BY <1>1, <1>2, <1>3, <1>4 DEF Back
<1>7. ASSUME NEW failed, EndRenewal(t, failed)
      PROVE  PcTypes' /\ LocalTypes'
  <2>1. \/ Goto(t, "renewFailed") /\ local' = local
        \/ Return(t)
    BY <1>7 DEF EndRenewal
  <2> QED BY <2>1, <1>1, <1>4, <1>5 DEF LocalTypes
<1> QED BY <1>1, <1>2, <1>3, <1>5, <1>6, <1>7

\* Every thread is at a stage of its call, with locals that are well formed.
LEMMA ThreadTypes ==
  ASSUME Types, [Next]_vars
  PROVE  PcTypes' /\ LocalTypes'
<1>p. PcTypes /\ LocalTypes
  BY DEF Types, CallTypes, PcTypes, LocalTypes
<1>t. \A t \in Threads : local[t] \in Locals
  BY <1>p DEF LocalTypes
<1>n. \A sid \in Nat, event \in Nat \cup {NoEvent} :
        [NoLocals EXCEPT !.sid = sid, !.event = event] \in Locals
  BY DEF NoLocals, Locals, NoSid
<1>s. \A s \in subs : s.sid \in Nat
  <2>1. \A s \in subs : s \in Subscription
    BY DEF Types, CallTypes
  <2> QED BY <2>1 DEF Subscription
<1>r. ASSUME NEW t \in Threads, NEW sid \in Nat, NEW event \in Nat \cup {NoEvent},
             StartRenewal(t, sid, event)
      PROVE  PcTypes' /\ LocalTypes'
  <2>1. "renewSent" \in Stages
    BY DEF Stages
  <2> QED BY <1>r, <2>1, <1>n, <1>p, MoveTypes DEF StartRenewal
<1>1. CASE TimerStep
  BY <1>1, <1>p DEF TimerStep, PcTypes, LocalTypes
<1>2. ASSUME NEW t \in Callers,
             \/ dlnaRegisterClient(t) \/ dlnaUnRegisterClient(t) \/ dlnaFinish(t)
      PROVE  PcTypes' /\ LocalTypes'
  <2>1. t \in Threads /\ {"unregister", "finTimer"} \subseteq Stages
    BY DEF Threads, Stages
  <2>2. local' = local /\ (pc' = pc \/ Goto(t, "unregister") \/ Goto(t, "finTimer"))
    BY <1>2 DEF dlnaRegisterClient, dlnaUnRegisterClient, dlnaFinish
  <2>3. PcTypes'
    BY <2>1, <2>2, <1>p, MoveTypes DEF PcTypes
  <2> QED BY <2>2, <2>3, <1>p DEF LocalTypes
<1>3. ASSUME NEW t \in Callers, SubscribeCall(t)
      PROVE  PcTypes' /\ LocalTypes'
  <2>1. t \in Threads /\ "subscribe" \in Stages
    BY DEF Threads, Stages
  <2>2. [NoLocals EXCEPT !.since = clients] \in Locals
    BY DEF NoLocals, Locals, NoSid, Types, CallTypes
  <2> QED BY <1>3, <2>1, <2>2, <1>p, MoveTypes DEF SubscribeCall
<1>4. ASSUME NEW t \in Callers, RenewCall(t)
      PROVE  PcTypes' /\ LocalTypes'
  <2>1. t \in Threads
    BY DEF Threads
  <2> QED BY <1>4, <2>1, <1>r, <1>s DEF RenewCall
<1>5. ASSUME NEW t \in Callers, UnSubscribeCall(t)
      PROVE  PcTypes' /\ LocalTypes'
  <2>1. t \in Threads /\ "unsubscribeSent" \in Stages
    BY DEF Threads, Stages
  <2>2. PICK s \in subs : Keep(t, [NoLocals EXCEPT !.sid = s.sid])
    BY <1>5 DEF UnSubscribeCall
  <2>3. [NoLocals EXCEPT !.sid = s.sid] \in Locals
    BY <1>s DEF NoLocals, Locals, NoSid
  <2> QED BY <1>5, <2>1, <2>2, <2>3, <1>p, MoveTypes DEF UnSubscribeCall
<1>6. ASSUME NEW t \in Threads, RenewReply(t) \/ RenewDone(t)
      PROVE  PcTypes' /\ LocalTypes'
  <2>1. CASE RenewReply(t)
    <3>1. "renewReplied" \in Stages
      BY DEF Stages
    <3>2. ASSUME NEW g \in Grants
          PROVE  [local[t] EXCEPT !.grant = g, !.ok = TRUE] \in Locals
      BY <1>t, GrantTypes DEF Locals
    <3>3. PcTypes'
      BY <2>1, <3>1, <1>p, MoveTypes DEF RenewReply
    <3>4. CASE local' = local
      BY <3>3, <3>4, <1>p DEF LocalTypes
    <3>5. CASE \E g \in Grants : Keep(t, [local[t] EXCEPT !.grant = g, !.ok = TRUE])
      BY <3>2, <3>3, <3>5, <1>p, MoveTypes
    <3> QED BY <2>1, <3>4, <3>5 DEF RenewReply
  <2>2. CASE RenewDone(t)
    BY <2>2, <1>p, MoveTypes DEF RenewDone
  <2> QED BY <1>6, <2>1, <2>2
<1>7. ASSUME NEW t \in Callers, CallStep(t)
      PROVE  PcTypes' /\ LocalTypes'
  <2>0. t \in Threads
    BY DEF Threads
  <2>s. {"unregister", "unregisterSent", "unregistered", "subscribeSent", "subscribeReplied",
         "finWait", "finHandlers", "finThreads", "finished"} \subseteq Stages
    BY DEF Stages
  <2>1. CASE genaUnregisterClient(t)
    <3>1. \/ Back(t)
          \/ local' = local /\ (Goto(t, "unregistered") \/ Goto(t, "unregisterSent"))
      BY <2>1 DEF genaUnregisterClient
    <3> QED BY <3>1, <2>0, <2>s, <1>p, MoveTypes DEF LocalTypes
  <2>2. CASE UnregisterDone(t) \/ SubscribeDone(t) \/ UnSubscribeDone(t)
    <3>1. Back(t) \/ Return(t)
      BY <2>2 DEF UnregisterDone, SubscribeDone, UnSubscribeDone
    <3> QED BY <3>1, <2>0, <1>p, MoveTypes
  <2>3. CASE \/ UnregisterSent(t) \/ SubscribeSend(t) \/ FinishTimer(t) \/ FinishServer(t)
             \/ FinishJobs(t) \/ FinishDone(t)
    <3>1. /\ local' = local
          /\ \/ Goto(t, "unregister") \/ Goto(t, "subscribeSent") \/ Goto(t, "finWait")
             \/ Goto(t, "finHandlers") \/ Goto(t, "finThreads") \/ Goto(t, "finished")
      BY <2>3 DEF UnregisterSent, SubscribeSend, FinishTimer, FinishServer, FinishJobs,
                  FinishDone, Pass
    <3> QED BY <3>1, <2>0, <2>s, <1>p, MoveTypes DEF LocalTypes
  <2>4. CASE SubscribeReply(t)
    <3>1. PcTypes'
      BY <2>4, <2>0, <2>s, <1>p, MoveTypes DEF SubscribeReply
    <3>2. ASSUME NEW g \in Grants, granted' = granted + 1
          PROVE  [local[t] EXCEPT !.sid = granted', !.grant = g, !.ok = TRUE] \in Locals
      <4>1. granted' \in Nat
        BY <3>2 DEF Types, DeviceTypes
      <4> QED BY <4>1, <2>0, <1>t, GrantTypes DEF Locals
    <3>3. CASE local' = local
      BY <3>1, <3>3, <1>p DEF LocalTypes
    <3>4. CASE /\ granted' = granted + 1
               /\ \E g \in Grants :
                    Keep(t, [local[t] EXCEPT !.sid = granted', !.grant = g, !.ok = TRUE])
      BY <3>1, <3>2, <3>4, <2>0, <1>p, MoveTypes
    <3> QED BY <2>4, <3>3, <3>4 DEF SubscribeReply
  <2>5. CASE RenewReply(t) \/ RenewDone(t)
    BY <2>5, <2>0, <1>6
  <2> QED BY <1>7, <2>1, <2>2, <2>3, <2>4, <2>5 DEF CallStep
<1>8. ASSUME NEW w \in Workers, WorkerStep(w)
      PROVE  PcTypes' /\ LocalTypes'
  <2>0. w \in Threads
    BY DEF Threads
  <2>1. CASE AutoRenew(w)
    <3>1. \A j \in jobs : j.sid \in Nat /\ j.event \in Nat
      BY DEF Types, EventTypes
    <3>2. \/ UNCHANGED <<pc, local>>
          \/ \E j \in jobs : StartRenewal(w, j.sid, j.event)
      BY <2>1 DEF AutoRenew
    <3> QED BY <3>1, <3>2, <2>0, <1>r, <1>p DEF PcTypes, LocalTypes
  <2>2. CASE RenewReply(w) \/ RenewDone(w)
    BY <2>2, <2>0, <1>6
  <2>3. CASE ReportFailure(w) \/ CallbackReturns(w)
    <3>1. Return(w) \/ (Goto(w, "callback") /\ local' = local)
      BY <2>3 DEF ReportFailure, CallbackReturns
    <3>2. "callback" \in Stages
      BY DEF Stages
    <3> QED BY <3>1, <3>2, <2>0, <1>p, MoveTypes DEF LocalTypes
  <2> QED BY <1>8, <2>1, <2>2, <2>3 DEF WorkerStep
<1>9. ASSUME NEW h \in Handlers, HandlerStep(h)
      PROVE  PcTypes' /\ LocalTypes'
  <2>0. h \in Threads /\ {"event", "notify"} \subseteq Stages
    BY DEF Threads, Stages
  <2>1. ASSUME NEW sid, Answer(h, sid)
        PROVE  PcTypes' /\ LocalTypes'
    <3>1. Return(h) \/ (Goto(h, "event") /\ Keep(h, NoLocals))
      BY <2>1 DEF Answer
    <3> QED BY <3>1, <2>0, <1>p, MoveTypes
  <2>2. CASE NotifyLook(h)
    <3>1. PICK sid \in notifies :
             \/ Goto(h, "notify") /\ Keep(h, [NoLocals EXCEPT !.sid = sid])
             \/ Answer(h, sid)
      BY <2>2 DEF NotifyLook
    <3>2. [NoLocals EXCEPT !.sid = sid] \in Locals
      BY DEF NoLocals, Locals, NoSid, Types, DeviceTypes
    <3> QED BY <3>1, <3>2, <2>0, <2>1, <1>p, MoveTypes
  <2>3. CASE NotifyLookAgain(h)
    BY <2>3, <2>1 DEF NotifyLookAgain
  <2>4. CASE EventReturns(h)
    BY <2>4, <2>0, <1>p, MoveTypes DEF EventReturns
  <2> QED BY <1>9, <2>2, <2>3, <2>4 DEF HandlerStep
<1>10. CASE UNCHANGED vars
  BY <1>10, <1>p DEF vars, PcTypes, LocalTypes
<1>11. ASSUME NEW t \in Callers,
             \/ dlnaRegisterClient(t) \/ dlnaUnRegisterClient(t) \/ dlnaFinish(t)
             \/ SubscribeCall(t) \/ RenewCall(t) \/ UnSubscribeCall(t)
             \/ CallStep(t)
      PROVE  PcTypes' /\ LocalTypes'
  BY <1>11, <1>2, <1>3, <1>4, <1>5, <1>7
<1>12. CASE Next
  BY <1>12, <1>1, <1>8, <1>9, <1>11 DEF Next
<1> QED BY <1>10, <1>12
\* A subscription is made by SubscribeDone alone: other steps leave those that
\* were there, without some, or with another event.  The client comes and goes
\* without subscriptions.
Inherited ==
  /\ subs' \subseteq Subscription
  /\ \A s, r \in subs' : s.sid = r.sid => s = r
  /\ \A s \in subs' : \E r \in subs : r.sid = s.sid /\ r.since = s.since

SameClient == client' = client /\ clients' = clients

Subscribed(t) ==
  /\ SubscribeDone(t) /\ client /\ local[t].ok /\ SameClient
  /\ \E r \in Subscription :
       subs' = subs \cup {r} /\ r.sid = local[t].sid /\ r.since = local[t].since

NewClient ==
  \E t \in Callers : dlnaRegisterClient(t) \/ UnregisterDone(t)

LEMMA SubsStep ==
  ASSUME Types, SubsOK, [Next]_vars
  PROVE  \/ Inherited /\ SameClient
         \/ Inherited /\ NewClient
         \/ \E t \in Callers : Subscribed(t)
<1> DEFINE goal == \/ Inherited /\ SameClient
                   \/ Inherited /\ NewClient
                   \/ \E t \in Callers : Subscribed(t)
<1>s. /\ subs \subseteq Subscription
      /\ \A s, r \in subs : s.sid = r.sid => s = r
  BY DEF Types, CallTypes, SubsOK
<1>a. TimerTypes
  BY DEF Types
<1>l. \A t \in Threads : local[t] \in Locals
  BY DEF Types, CallTypes
<1>u. ASSUME subs' = subs
      PROVE  Inherited
  BY <1>u, <1>s DEF Inherited
<1>w. ASSUME NEW sid, RemoveClientSub(sid)
      PROVE  Inherited
  BY <1>w, <1>s DEF Inherited, RemoveClientSub, Without
<1>v. ASSUME NEW sid, NEW r \in Subscription, Linked(sid), r.sid = sid, r.since = Sub(sid).since,
             subs' = {s \in subs : s.sid # sid} \cup {r}
      PROVE  Inherited
  <2>1. Sub(sid) \in subs /\ Sub(sid).sid = sid
    BY <1>v, Found
  <2>2. subs' \subseteq Subscription
    BY <1>v, <1>s
  <2>3. \A s, x \in subs' : s.sid = x.sid => s = x
    BY <1>v, <1>s
  <2>4. \A s \in subs' : \E x \in subs : x.sid = s.sid /\ x.since = s.since
    BY <1>v, <2>1
  <2> QED BY <2>2, <2>3, <2>4 DEF Inherited
<1>x. ASSUME NEW rest, NEW s \in Subscription, NEW grant \in Nat \cup {Infinite},
             ScheduleGenaAutoRenew(rest, s, grant)
      PROVE  \E r \in Subscription : subs' = rest \cup {r} /\ r.sid = s.sid /\ r.since = s.since
  <2>1. PICK r \in Subscription : subs' = rest \cup {r} /\ r.sid = s.sid /\ r.since = s.since
    BY <1>x, <1>a, AutoRenewEffect
  <2> QED BY <2>1
<1>r. ASSUME NEW t \in Threads, NEW sid, NEW event, Linked(sid), StartRenewal(t, sid, event)
      PROVE  Inherited
  <2>1. PICK r \in Subscription :
           /\ subs' = {s \in subs : s.sid # sid} \cup {r}
           /\ r.sid = sid /\ r.since = Sub(sid).since
    BY <1>r, <1>s, RenewalEffect
  <2> QED BY <2>1, <1>r, <1>v
<1>1. CASE TimerStep
  BY <1>1, <1>u DEF TimerStep, clientVars, SameClient
<1>2. ASSUME NEW t \in Callers,
             \/ dlnaRegisterClient(t) \/ dlnaUnRegisterClient(t) \/ dlnaFinish(t)
             \/ SubscribeCall(t) \/ UnSubscribeCall(t)
      PROVE  goal
  <2>1. CASE dlnaRegisterClient(t)
    BY <2>1 DEF dlnaRegisterClient, NewClient, Inherited
  <2>2. CASE dlnaUnRegisterClient(t) \/ dlnaFinish(t) \/ SubscribeCall(t) \/ UnSubscribeCall(t)
    BY <2>2, <1>u DEF dlnaUnRegisterClient, dlnaFinish, SubscribeCall, UnSubscribeCall,
                      clientVars, SameClient
  <2> QED BY <1>2, <2>1, <2>2
<1>3. ASSUME NEW t \in Callers, RenewCall(t)
      PROVE  goal
  <2>1. SameClient /\ \E s \in subs : StartRenewal(t, s.sid, NoEvent)
    BY <1>3 DEF RenewCall, SameClient
  <2>2. t \in Threads /\ \A s \in subs : Linked(s.sid)
    BY DEF Threads, Linked
  <2> QED BY <2>1, <2>2, <1>r
<1>6. ASSUME NEW t \in Threads, RenewReply(t) \/ RenewDone(t)
      PROVE  goal
  <2>1. CASE RenewReply(t)
    BY <2>1, <1>u DEF RenewReply, clientVars, SameClient
  <2>2. CASE RenewDone(t)
    <3> DEFINE sid == local[t].sid
    <3>1. SameClient
      BY <2>2 DEF RenewDone, SameClient
    <3>2. \/ RemoveClientSub(sid)
          \/ Linked(sid) /\ ScheduleGenaAutoRenew(Without(sid), Sub(sid), local[t].grant)
          \/ subs' = subs
      BY <2>2 DEF RenewDone
    <3>3. ASSUME Linked(sid), ScheduleGenaAutoRenew(Without(sid), Sub(sid), local[t].grant)
          PROVE  Inherited
      <4>1. Sub(sid) \in Subscription /\ Sub(sid).sid = sid
        BY <3>3, <1>s, Found
      <4>2. local[t].grant \in Nat \cup {Infinite}
        BY <1>l DEF Locals
      <4>3. PICK r \in Subscription :
               subs' = Without(sid) \cup {r} /\ r.sid = Sub(sid).sid /\ r.since = Sub(sid).since
        BY <3>3, <4>1, <4>2, <1>x
      <4> QED BY <3>3, <4>1, <4>3, <1>v DEF Without
    <3> HIDE DEF sid
    <3> QED BY <3>1, <3>2, <3>3, <1>u, <1>w
  <2> QED BY <1>6, <2>1, <2>2
<1>7. ASSUME NEW t \in Callers, CallStep(t)
      PROVE  goal
  <2>0. t \in Threads
    BY DEF Threads
  <2>1. CASE genaUnregisterClient(t)
    <3>1. SameClient /\ (subs' = subs \/ \E sid : RemoveClientSub(sid))
      BY <2>1 DEF genaUnregisterClient, SameClient
    <3> QED BY <3>1, <1>u, <1>w
  <2>2. CASE \/ UnregisterSent(t) \/ SubscribeSend(t) \/ SubscribeReply(t) \/ FinishTimer(t)
             \/ FinishServer(t) \/ FinishJobs(t) \/ FinishDone(t)
    BY <2>2, <1>u DEF UnregisterSent, SubscribeSend, SubscribeReply, FinishTimer, FinishServer,
                      FinishJobs, FinishDone, clientVars, SameClient
  <2>3. CASE UnregisterDone(t)
    <3>1. NewClient
      BY <2>3 DEF NewClient
    <3>2. subs' = {} \/ subs' = subs
      BY <2>3 DEF UnregisterDone
    <3> QED BY <3>1, <3>2, <1>u DEF Inherited
  <2>4. CASE SubscribeDone(t)
    <3>1. SameClient
      BY <2>4 DEF SubscribeDone, SameClient
    <3>2. CASE client /\ local[t].ok
      <4>1. ScheduleGenaAutoRenew(subs, NewSubscription(t), local[t].grant)
        BY <2>4, <3>2 DEF SubscribeDone
      <4>2. local[t] \in Locals
        BY <2>0, <1>l
      <4>3. /\ NewSubscription(t) \in Subscription /\ local[t].grant \in Nat \cup {Infinite}
            /\ NewSubscription(t).sid = local[t].sid /\ NewSubscription(t).since = local[t].since
        BY <4>2 DEF Locals, NewSubscription, Subscription
      <4>4. \E r \in Subscription :
               /\ subs' = subs \cup {r} /\ r.sid = local[t].sid /\ r.since = local[t].since
        <5>1. \E r \in Subscription :
                /\ subs' = subs \cup {r} /\ r.sid = NewSubscription(t).sid
                /\ r.since = NewSubscription(t).since
          BY <4>1, <4>3, <1>x
        <5> QED BY <5>1, <4>3
      <4> QED BY <2>4, <3>1, <3>2, <4>4 DEF Subscribed
    <3>3. CASE ~(client /\ local[t].ok)
      <4>1. subs' = subs
        BY <2>4, <3>3 DEF SubscribeDone
      <4> QED BY <3>1, <4>1, <1>u
    <3> QED BY <3>2, <3>3
  <2>5. CASE RenewReply(t) \/ RenewDone(t)
    BY <2>5, <2>0, <1>6
  <2>6. CASE UnSubscribeDone(t)
    <3>1. SameClient /\ (subs' = subs \/ \E sid : RemoveClientSub(sid))
      BY <2>6 DEF UnSubscribeDone, SameClient
    <3> QED BY <3>1, <1>u, <1>w
  <2> QED BY <1>7, <2>1, <2>2, <2>3, <2>4, <2>5, <2>6 DEF CallStep
<1>8. ASSUME NEW w \in Workers, WorkerStep(w)
      PROVE  goal
  <2>0. w \in Threads
    BY DEF Threads
  <2>1. CASE AutoRenew(w)
    <3>1. /\ SameClient
          /\ \/ subs' = subs
             \/ \E j \in jobs : Linked(j.sid) /\ StartRenewal(w, j.sid, j.event)
      BY <2>1 DEF AutoRenew, SameClient
    <3> QED BY <3>1, <2>0, <1>r, <1>u
  <2>2. CASE RenewReply(w) \/ RenewDone(w)
    BY <2>2, <2>0, <1>6
  <2>3. CASE ReportFailure(w) \/ CallbackReturns(w)
    BY <2>3, <1>u DEF ReportFailure, CallbackReturns, clientVars, SameClient
  <2> QED BY <1>8, <2>1, <2>2, <2>3 DEF WorkerStep
<1>9. ASSUME NEW h \in Handlers, HandlerStep(h)
      PROVE  goal
  BY <1>9, <1>u DEF HandlerStep, NotifyLook, NotifyLookAgain, EventReturns, clientVars, SameClient
<1>10. CASE UNCHANGED vars
  BY <1>10, <1>u DEF vars, clientVars, SameClient
<1>11. ASSUME NEW t \in Callers,
             \/ dlnaRegisterClient(t) \/ dlnaUnRegisterClient(t) \/ dlnaFinish(t)
             \/ SubscribeCall(t) \/ RenewCall(t) \/ UnSubscribeCall(t)
             \/ CallStep(t)
      PROVE  goal
  BY <1>11, <1>2, <1>3, <1>7
<1>12. CASE Next
  BY <1>12, <1>1, <1>8, <1>9, <1>11 DEF Next
<1> QED BY <1>10, <1>12
\* What the steps do to the device's side, and when an event is refused.
Refused(sid) ==
  /\ rejected' = rejected \cup {sid} /\ UNCHANGED <<client, clients, subs>>
  /\ granted' = granted /\ notifies' \subseteq notifies
  /\ client => subscriber = Nobody /\ ~Linked(sid)

LEMMA DeviceStep ==
  ASSUME [Next]_vars
  PROVE  \/ granted' = granted /\ notifies' \subseteq notifies /\ rejected' = rejected
         \/ /\ granted' = granted + 1 /\ notifies' = notifies \cup {granted'}
            /\ rejected' = rejected
         \/ \E sid \in notifies \cup {local[h].sid : h \in Threads} : Refused(sid)
<1> DEFINE goal == \/ granted' = granted /\ notifies' \subseteq notifies /\ rejected' = rejected
                   \/ /\ granted' = granted + 1 /\ notifies' = notifies \cup {granted'}
                      /\ rejected' = rejected
                   \/ \E sid \in notifies \cup {local[h].sid : h \in Threads} : Refused(sid)
<1>1. ASSUME UNCHANGED deviceVars
      PROVE  goal
  BY <1>1 DEF deviceVars
<1>2. ASSUME NEW t \in Threads, RenewReply(t) \/ RenewDone(t)
      PROVE  UNCHANGED deviceVars
  BY <1>2 DEF RenewReply, RenewDone
<1>3. ASSUME NEW t \in Callers, CallStep(t)
      PROVE  goal
  <2>0. t \in Threads
    BY DEF Threads
  <2>1. CASE SubscribeReply(t)
    BY <2>1 DEF SubscribeReply
  <2>2. CASE ~SubscribeReply(t)
    <3>1. UNCHANGED deviceVars
      BY <1>3, <2>0, <2>2, <1>2
         DEF CallStep, genaUnregisterClient, UnregisterSent, UnregisterDone, SubscribeSend,
             SubscribeDone, UnSubscribeDone, FinishTimer, FinishServer, FinishJobs, FinishDone
    <3> QED BY <3>1, <1>1
  <2> QED BY <2>1, <2>2
<1>4. ASSUME NEW t \in Callers,
             \/ dlnaRegisterClient(t) \/ dlnaUnRegisterClient(t) \/ dlnaFinish(t)
             \/ SubscribeCall(t) \/ RenewCall(t) \/ UnSubscribeCall(t)
             \/ CallStep(t)
      PROVE  goal
  <2>1. CASE CallStep(t)
    BY <2>1, <1>3
  <2>2. CASE ~CallStep(t)
    <3>1. UNCHANGED deviceVars
      BY <1>4, <2>2 DEF dlnaRegisterClient, dlnaUnRegisterClient, dlnaFinish, SubscribeCall,
                        RenewCall, UnSubscribeCall
    <3> QED BY <3>1, <1>1
  <2> QED BY <2>1, <2>2
<1>5. ASSUME NEW w \in Workers, WorkerStep(w)
      PROVE  goal
  <2>0. w \in Threads
    BY DEF Threads
  <2>1. UNCHANGED deviceVars
    BY <1>5, <2>0, <1>2 DEF WorkerStep, AutoRenew, ReportFailure, CallbackReturns
  <2> QED BY <2>1, <1>1
<1>6. ASSUME NEW h \in Handlers, HandlerStep(h)
      PROVE  goal
  <2>0. h \in Threads
    BY DEF Threads
  <2>1. ASSUME NEW sid \in notifies \cup {local[u].sid : u \in Threads}, Answer(h, sid),
               UNCHANGED clientVars, granted' = granted, notifies' \subseteq notifies,
               client /\ ~Linked(sid) => subscriber = Nobody
        PROVE  goal
    <3>1. CASE client /\ Linked(sid)
      BY <2>1, <3>1 DEF Answer
    <3>2. CASE ~(client /\ Linked(sid))
      <4>1. Refused(sid)
        BY <2>1, <3>2 DEF Answer, Refused, clientVars
      <4> QED BY <4>1
    <3> QED BY <3>1, <3>2
  <2>2. CASE NotifyLook(h)
    <3>1. PICK sid \in notifies :
             /\ notifies' = notifies \ {sid}
             /\ IF client /\ ~Linked(sid) THEN rejected' = rejected ELSE Answer(h, sid)
      BY <2>2 DEF NotifyLook
    <3>2. UNCHANGED clientVars /\ granted' = granted
      BY <2>2 DEF NotifyLook
    <3>3. CASE client /\ ~Linked(sid)
      BY <3>1, <3>2, <3>3
    <3>4. CASE ~(client /\ ~Linked(sid))
      BY <3>1, <3>2, <3>4, <2>1
    <3> QED BY <3>3, <3>4
  <2>3. CASE NotifyLookAgain(h)
    <3>1. /\ Answer(h, local[h].sid) /\ subscriber = Nobody
          /\ UNCHANGED clientVars /\ granted' = granted /\ notifies' = notifies
      BY <2>3 DEF NotifyLookAgain
    <3> QED BY <3>1, <2>0, <2>1
  <2>4. CASE EventReturns(h)
    BY <2>4, <1>1 DEF EventReturns
  <2> QED BY <1>6, <2>2, <2>3, <2>4 DEF HandlerStep
<1>7. ASSUME TimerStep \/ UNCHANGED vars
      PROVE  goal
  <2>1. UNCHANGED deviceVars
    BY <1>7 DEF TimerStep, vars
  <2> QED BY <2>1, <1>1
<1> HIDE DEF goal
<1>8. goal
  BY <1>4, <1>5, <1>6, <1>7 DEF Next
<1> QED BY <1>8 DEF goal

\* The jobs come from the list of the timer, and the counters stay numbers.
LEMMA EventTypesStep ==
  ASSUME Types, [Next]_vars
  PROVE  EventTypes'
<1>t. TimerTypes /\ EventTypes
  BY DEF Types
<1>1. jobs' \subseteq jobs \/ (eventQ # <<>> /\ jobs' = jobs \cup {Head(eventQ).job})
  <2>1. CASE TimerStep
    BY <2>1 DEF TimerStep, TimerNext, TimerThreadWorker, WorkerLock, WorkerTimedOut, WorkerReturn,
                WorkerFire, WorkerWait, Tick, Due
  <2>2. ASSUME NEW t \in Threads, RenewReply(t) \/ RenewDone(t)
        PROVE  jobs' = jobs
    BY <2>2 DEF RenewReply, RenewDone
  <2>3. ASSUME NEW t \in Callers, CallStep(t)
        PROVE  jobs' \subseteq jobs
    <3>0. t \in Threads
      BY DEF Threads
    <3> QED BY <2>3, <3>0, <2>2
               DEF CallStep, genaUnregisterClient, UnregisterSent, UnregisterDone, SubscribeSend,
                   SubscribeReply, SubscribeDone, UnSubscribeDone, FinishTimer, FinishServer,
                   FinishJobs, FinishDone
  <2>4. ASSUME NEW t \in Callers,
               \/ dlnaRegisterClient(t) \/ dlnaUnRegisterClient(t) \/ dlnaFinish(t)
               \/ SubscribeCall(t) \/ RenewCall(t) \/ UnSubscribeCall(t)
               \/ CallStep(t)
        PROVE  jobs' \subseteq jobs
    BY <2>4, <2>3 DEF dlnaRegisterClient, dlnaUnRegisterClient, dlnaFinish, SubscribeCall,
                      RenewCall, UnSubscribeCall
  <2>5. ASSUME NEW w \in Workers, WorkerStep(w)
        PROVE  jobs' \subseteq jobs
    <3>0. w \in Threads
      BY DEF Threads
    <3> QED BY <2>5, <3>0, <2>2 DEF WorkerStep, AutoRenew, ReportFailure, CallbackReturns
  <2>6. ASSUME NEW h \in Handlers, HandlerStep(h)
        PROVE  jobs' \subseteq jobs
    BY <2>6 DEF HandlerStep, NotifyLook, NotifyLookAgain, EventReturns
  <2>7. CASE UNCHANGED vars
    BY <2>7 DEF vars
  <2> QED BY <2>1, <2>4, <2>5, <2>6, <2>7 DEF Next
<1>2. eventQ # <<>> => Head(eventQ).job \in [event : Nat, sid : Nat]
  <2>1. eventQ # <<>> => Head(eventQ) \in TimerEvent
    BY <1>t DEF TimerTypes
  <2> QED BY <2>1 DEF TimerEvent
<1>3. freed' = freed \/ \E events : FreeAll(events)
  <2> DEFINE frees == freed' = freed \/ \E events : FreeAll(events)
  <2>c. \A sid : RemoveClientSub(sid) => frees
    BY DEF RemoveClientSub, CancelRenewal
  <2>s. \A t, sid, event : StartRenewal(t, sid, event) => frees
    BY DEF StartRenewal, CancelRenewal
  <2>1. ASSUME TimerStep \/ UNCHANGED vars
        PROVE  frees
    BY <2>1 DEF TimerStep, vars
  <2>2. ASSUME NEW t \in Threads, RenewReply(t) \/ RenewDone(t)
        PROVE  frees
    BY <2>2, <2>c DEF RenewReply, RenewDone
  <2>3. ASSUME NEW t \in Callers, CallStep(t)
        PROVE  frees
    <3>0. t \in Threads
      BY DEF Threads
    <3>1. CASE genaUnregisterClient(t)
      BY <3>1, <2>c DEF genaUnregisterClient
    <3>2. CASE UnSubscribeDone(t)
      BY <3>2, <2>c DEF UnSubscribeDone
    <3>3. CASE RenewReply(t) \/ RenewDone(t)
      BY <3>0, <3>3, <2>2
    <3>4. CASE FinishTimer(t) \/ FinishJobs(t)
      BY <3>4 DEF FinishTimer, FinishJobs
    <3>5. CASE \/ UnregisterSent(t) \/ UnregisterDone(t) \/ SubscribeSend(t) \/ SubscribeReply(t)
               \/ SubscribeDone(t) \/ FinishServer(t) \/ FinishDone(t)
      BY <3>5 DEF UnregisterSent, UnregisterDone, SubscribeSend, SubscribeReply, SubscribeDone,
                  FinishServer, FinishDone
    <3> QED BY <2>3, <3>1, <3>2, <3>3, <3>4, <3>5 DEF CallStep
  <2>4. ASSUME NEW t \in Callers,
               \/ dlnaRegisterClient(t) \/ dlnaUnRegisterClient(t) \/ dlnaFinish(t)
               \/ SubscribeCall(t) \/ RenewCall(t) \/ UnSubscribeCall(t)
               \/ CallStep(t)
        PROVE  frees
    BY <2>4, <2>3, <2>s DEF dlnaRegisterClient, dlnaUnRegisterClient, dlnaFinish, SubscribeCall,
                      RenewCall, UnSubscribeCall
  <2>5. ASSUME NEW w \in Workers, WorkerStep(w)
        PROVE  frees
    <3>0. w \in Threads
      BY DEF Threads
    <3>1. CASE AutoRenew(w)
      BY <3>1, <2>s DEF AutoRenew
    <3>2. CASE RenewReply(w) \/ RenewDone(w)
      BY <3>0, <3>2, <2>2
    <3>3. CASE ReportFailure(w) \/ CallbackReturns(w)
      BY <3>3 DEF ReportFailure, CallbackReturns
    <3> QED BY <2>5, <3>1, <3>2, <3>3 DEF WorkerStep
  <2>6. ASSUME NEW h \in Handlers, HandlerStep(h)
        PROVE  frees
    BY <2>6 DEF HandlerStep, NotifyLook, NotifyLookAgain, EventReturns
  <2> HIDE DEF frees
  <2>7. frees
    BY <2>1, <2>4, <2>5, <2>6 DEF Next
  <2> QED BY <2>7 DEF frees
<1>4. freed' \in [Events -> Nat]
  BY <1>3, <1>t, FreeTypes DEF EventTypes
<1> QED BY <1>1, <1>2, <1>4, <1>t DEF EventTypes
\* Everything stays well formed.
LEMMA TypesStep ==
  ASSUME Types, InOrder, SubsOK, [Next]_vars
  PROVE  Types'
<1>1. TimerTypes'
  BY ListStep
<1>2. PcTypes' /\ LocalTypes'
  BY ThreadTypes
<1>3. subs' \subseteq Subscription /\ client' \in BOOLEAN /\ clients' \in Nat
  <2>t. subs \subseteq Subscription /\ client \in BOOLEAN /\ clients \in Nat
    BY DEF Types, CallTypes
  <2>1. CASE Inherited /\ SameClient
    BY <2>1, <2>t DEF Inherited, SameClient
  <2>2. CASE Inherited /\ NewClient
    <3>1. PICK t \in Callers : dlnaRegisterClient(t) \/ UnregisterDone(t)
      BY <2>2 DEF NewClient
    <3>2. (client' = TRUE \/ client' = FALSE) /\ (clients' = clients \/ clients' = clients + 1)
      BY <3>1 DEF dlnaRegisterClient, UnregisterDone
    <3>3. client' \in BOOLEAN
      BY <3>2
    <3>4. clients' \in Nat
      BY <3>2, <2>t
    <3> QED BY <2>2, <3>3, <3>4 DEF Inherited
  <2>3. ASSUME NEW t \in Callers, Subscribed(t)
        PROVE  subs' \subseteq Subscription /\ client' \in BOOLEAN /\ clients' \in Nat
    BY <2>3, <2>t DEF Subscribed, SameClient
  <2> QED BY <2>1, <2>2, <2>3, SubsStep
<1>4. DeviceTypes'
  <2>t. DeviceTypes /\ \A h \in Threads : local[h].sid \in Nat
    <3>1. \A h \in Threads : local[h] \in Locals
      BY DEF Types, CallTypes
    <3> QED BY <3>1 DEF Types, Locals
  <2>1. CASE granted' = granted /\ notifies' \subseteq notifies /\ rejected' = rejected
    BY <2>1, <2>t DEF DeviceTypes
  <2>2. CASE granted' = granted + 1 /\ notifies' = notifies \cup {granted'} /\ rejected' = rejected
    BY <2>2, <2>t DEF DeviceTypes
  <2>3. ASSUME NEW sid \in notifies \cup {local[h].sid : h \in Threads}, Refused(sid)
        PROVE  DeviceTypes'
    BY <2>3, <2>t DEF DeviceTypes, Refused
  <2> QED BY <2>1, <2>2, <2>3, DeviceStep
<1>5. EventTypes'
  BY EventTypesStep
<1> QED BY <1>1, <1>2, <1>3, <1>4, <1>5 DEF Types, CallTypes, PcTypes, LocalTypes

\* What SubscribeDone adds was known to nobody.
LEMMA SubsOKStep ==
  ASSUME CPInv, [Next]_vars
  PROVE  SubsOK'
<1>t. /\ Types /\ SubsOK /\ granted \in Nat /\ Types'
      /\ \A s \in subs \cup subs' : s.sid \in Nat
  <2>1. Types /\ SubsOK /\ Types'
    BY TypesStep DEF CPInv
  <2>2. \A s \in subs \cup subs' : s \in Subscription
    BY <2>1 DEF Types, CallTypes
  <2> QED BY <2>1, <2>2 DEF Types, DeviceTypes, Subscription
<1>g. granted' \in Nat /\ granted <= granted'
  <2>1. granted' = granted \/ granted' = granted + 1
    BY DeviceStep DEF Refused
  <2> QED BY <2>1, <1>t
<1>1. CASE Inherited
  <2>1. \A s \in subs' : s.sid <= granted'
    BY <1>1, <1>g, <1>t DEF Inherited, SubsOK
  <2>2. ~client' => subs' = {}
    <3>1. CASE SameClient
      BY <3>1, <1>1, <1>t DEF SameClient, Inherited, SubsOK
    <3>2. CASE NewClient
      BY <3>2, <1>t DEF NewClient, dlnaRegisterClient, UnregisterDone, SubsOK
    <3>3. ASSUME NEW t \in Callers, Subscribed(t)
          PROVE  ~client' => subs' = {}
      BY <3>3 DEF Subscribed, SameClient
    <3> QED BY <3>1, <3>2, <3>3, <1>t, SubsStep
  <2> QED BY <2>1, <2>2, <1>1 DEF SubsOK, Inherited
<1>2. ASSUME NEW t \in Callers, Subscribed(t)
      PROVE  SubsOK'
  <2>1. PICK r \in Subscription : subs' = subs \cup {r} /\ r.sid = local[t].sid
    BY <1>2 DEF Subscribed
  <2>2. pc[t] = "subscribeReplied" /\ local[t].ok /\ client' /\ t \in Threads
    BY <1>2 DEF Subscribed, SubscribeDone, SameClient, Threads
  <2>3. local[t].sid <= granted /\ ~Linked(local[t].sid)
    BY <2>2 DEF CPInv, SubscribeOK
  <2>4. \A s \in subs : s.sid # r.sid
    BY <2>1, <2>3 DEF Linked
  <2>5. \A s, x \in subs' : s.sid = x.sid => s = x
    BY <2>1, <2>4, <1>t DEF SubsOK
  <2>6. \A s \in subs' : s.sid <= granted'
    <3>1. r.sid \in Nat
      BY DEF Subscription
    <3> QED BY <2>1, <2>3, <3>1, <1>g, <1>t DEF SubsOK
  <2> QED BY <2>2, <2>5, <2>6 DEF SubsOK
<1> QED BY <1>1, <1>2, <1>t, SubsStep
-----------------------------------------------------------------------------
(* Where the threads go *)

\* A step moves one thread and leaves the others where they are.
OthersStay(t) == \A u \in Threads \ {t} : pc'[u] = pc[u] /\ local'[u] = local[u]

LEMMA MoveFacts ==
  ASSUME PcTypes, LocalTypes, NEW t \in Threads
  PROVE  /\ \A where, locals :
              Goto(t, where) /\ Keep(t, locals) =>
                OthersStay(t) /\ pc'[t] = where /\ local'[t] = locals
         /\ \A where :
              Goto(t, where) /\ local' = local =>
                OthersStay(t) /\ pc'[t] = where /\ local'[t] = local[t]
         /\ Return(t) => OthersStay(t) /\ pc'[t] = "idle" /\ local'[t] = NoLocals
         /\ Back(t) => /\ OthersStay(t) /\ local'[t] = NoLocals
                       /\ pc'[t] = IF finishing = t THEN "finTimer" ELSE "idle"
         /\ pc' = pc /\ local' = local =>
              OthersStay(t) /\ pc'[t] = pc[t] /\ local'[t] = local[t]
<1>1. ASSUME NEW where, NEW locals, Goto(t, where), Keep(t, locals)
      PROVE  OthersStay(t) /\ pc'[t] = where /\ local'[t] = locals
  BY <1>1 DEF Goto, Keep, OthersStay, PcTypes, LocalTypes
<1>2. ASSUME NEW where, Goto(t, where), local' = local
      PROVE  OthersStay(t) /\ pc'[t] = where /\ local'[t] = local[t]
  BY <1>2 DEF Goto, OthersStay, PcTypes, LocalTypes
<1>3. Return(t) => OthersStay(t) /\ pc'[t] = "idle" /\ local'[t] = NoLocals
  BY <1>1 DEF Return
<1>4. Back(t) => /\ OthersStay(t) /\ local'[t] = NoLocals
                 /\ pc'[t] = IF finishing = t THEN "finTimer" ELSE "idle"
  BY <1>1 DEF Back
<1>5. pc' = pc /\ local' = local =>
        OthersStay(t) /\ pc'[t] = pc[t] /\ local'[t] = local[t]
  BY DEF OthersStay
<1> QED BY <1>1, <1>2, <1>3, <1>4, <1>5

\* What the thread that moves takes from the shared state, and how it comes to the
\* stages of a SUBSCRIBE and of dlnaFinish.
Conduct(t) ==
  /\ pc'[t] \in Down \cup {"finTimer"} =>
       pc[t] \in Down \cup {"finTimer"} \/ (finishing' = t /\ ~client')
  /\ pc'[t] \in Down => pc[t] \in Down \/ eventQ' = <<>>
  /\ local'[t].since \in {0, clients, local[t].since}
  /\ local'[t].sid \in {NoSid, local[t].sid, granted'} \cup {s.sid : s \in subs} \cup notifies
  /\ pc'[t] \in {"subscribe", "subscribeSent"} => ~local'[t].ok
  /\ pc'[t] = "subscribeReplied" =>
       /\ pc[t] = "subscribeSent" /\ subscriber' = subscriber /\ rejected' = rejected
       /\ local'[t].ok => local'[t].sid = granted' /\ granted' = granted + 1
  /\ pc'[t] = "subscribeSent" => subscriber' = t

\* The mutex of SUBSCRIBE is taken when it is free, and released by its holder.
Locking(t) ==
  \/ subscriber' = subscriber
  \/ subscriber = Nobody
  \/ pc[t] = "subscribeReplied" /\ pc'[t] = "idle"

Step(t) ==
  /\ OthersStay(t) /\ Conduct(t) /\ Locking(t)
  /\ finishing' = finishing \/ finishing = Nobody

\* A step that ends a call, or changes nothing of what Conduct is about.
LEMMA PlainStep ==
  ASSUME NEW t \in Threads, OthersStay(t),
         pc'[t] \notin Down \cup {"finTimer", "subscribe", "subscribeSent", "subscribeReplied"},
         local'[t].since \in {0, local[t].since},
         local'[t].sid \in {NoSid, local[t].sid} \cup {s.sid : s \in subs} \cup notifies,
         finishing' = finishing,
         subscriber' = subscriber
  PROVE  Step(t)
BY DEF Step, Conduct, Locking
StandStill == UNCHANGED <<pc, local, subscriber, finishing>>

\* The steps of the threads, one by one.
LEMMA ThreadSteps ==
  ASSUME CPInv, [Next]_vars
  PROVE  StandStill \/ \E t \in Threads : Step(t)
<1> DEFINE goal == StandStill \/ \E t \in Threads : Step(t)
<1>p. /\ PcTypes /\ LocalTypes
      /\ \A s \in subs : s \in Subscription
      /\ \A t \in Threads : local[t] \in Locals
  BY DEF CPInv, Types, CallTypes, PcTypes, LocalTypes
<1>n. NoLocals.sid = NoSid /\ NoLocals.since = 0 /\ NoLocals.ok = FALSE
  BY DEF NoLocals
<1>w. \A sid, event :
        /\ [NoLocals EXCEPT !.sid = sid, !.event = event].sid = sid
        /\ [NoLocals EXCEPT !.sid = sid, !.event = event].since = 0
        /\ [NoLocals EXCEPT !.sid = sid].sid = sid /\ [NoLocals EXCEPT !.sid = sid].since = 0
        /\ [NoLocals EXCEPT !.since = clients].sid = NoSid
        /\ [NoLocals EXCEPT !.since = clients].since = clients
        /\ [NoLocals EXCEPT !.since = clients].ok = FALSE
  BY DEF NoLocals, NoSid
<1>r. ASSUME NEW t \in Threads, NEW sid \in {s.sid : s \in subs}, NEW event,
             StartRenewal(t, sid, event), finishing' = finishing, subscriber' = subscriber
      PROVE  Step(t)
  <2>1. /\ OthersStay(t) /\ pc'[t] = "renewSent"
        /\ local'[t] = [NoLocals EXCEPT !.sid = sid, !.event = event]
    BY <1>r, <1>p, MoveFacts DEF StartRenewal
  <2>2. local'[t].since = 0 /\ local'[t].sid = sid
    BY <2>1, <1>w
  <2> QED BY <1>r, <2>1, <2>2, PlainStep DEF Down
<1>1. ASSUME TimerStep \/ UNCHANGED vars
      PROVE  goal
  BY <1>1 DEF TimerStep, vars, clientVars, StandStill
<1>2. ASSUME NEW t \in Threads, dlnaRegisterClient(t)
      PROVE  goal
  BY <1>2 DEF dlnaRegisterClient, StandStill
<1>3. ASSUME NEW t \in Threads, dlnaUnRegisterClient(t) \/ UnregisterSent(t)
      PROVE  Step(t)
  <2>1. Goto(t, "unregister") /\ local' = local /\ finishing' = finishing /\ subscriber' = subscriber
    BY <1>3 DEF dlnaUnRegisterClient, UnregisterSent, clientVars
  <2>2. OthersStay(t) /\ pc'[t] = "unregister" /\ local'[t] = local[t]
    BY <2>1, <1>p, MoveFacts
  <2> QED BY <2>1, <2>2, PlainStep DEF Down
<1>4. ASSUME NEW t \in Threads, dlnaFinish(t)
      PROVE  Step(t)
  <2>1. /\ Goto(t, IF client THEN "unregister" ELSE "finTimer") /\ local' = local
        /\ finishing' = t /\ subscriber' = subscriber /\ client' = client /\ finishing = Nobody
    BY <1>4 DEF dlnaFinish, MayCall, clientVars
  <2>2. /\ OthersStay(t) /\ local'[t] = local[t]
        /\ pc'[t] = IF client THEN "unregister" ELSE "finTimer"
    BY <2>1, <1>p, MoveFacts
  <2> QED BY <2>1, <2>2 DEF Step, Conduct, Locking, Down
<1>5. ASSUME NEW t \in Threads, SubscribeCall(t)
      PROVE  Step(t)
  <2>1. /\ Goto(t, "subscribe") /\ Keep(t, [NoLocals EXCEPT !.since = clients])
        /\ finishing' = finishing /\ subscriber' = subscriber
    BY <1>5 DEF SubscribeCall, clientVars
  <2>2. /\ OthersStay(t) /\ pc'[t] = "subscribe"
        /\ local'[t] = [NoLocals EXCEPT !.since = clients]
    BY <2>1, <1>p, MoveFacts
  <2>3. local'[t].sid = NoSid /\ local'[t].since = clients /\ local'[t].ok = FALSE
    BY <2>2, <1>w
  <2> QED BY <2>1, <2>2, <2>3 DEF Step, Conduct, Locking, Down
<1>6. ASSUME NEW t \in Threads, RenewCall(t)
      PROVE  Step(t)
  <2>1. \E s \in subs : StartRenewal(t, s.sid, NoEvent)
    BY <1>6 DEF RenewCall
  <2> QED BY <1>6, <2>1, <1>r DEF RenewCall
<1>7. ASSUME NEW t \in Threads, UnSubscribeCall(t)
      PROVE  Step(t)
  <2>1. PICK s \in subs : Keep(t, [NoLocals EXCEPT !.sid = s.sid])
    BY <1>7 DEF UnSubscribeCall
  <2>2. Goto(t, "unsubscribeSent") /\ finishing' = finishing /\ subscriber' = subscriber
    BY <1>7 DEF UnSubscribeCall, clientVars
  <2>3. /\ OthersStay(t) /\ pc'[t] = "unsubscribeSent"
        /\ local'[t] = [NoLocals EXCEPT !.sid = s.sid]
    BY <2>1, <2>2, <1>p, MoveFacts
  <2>4. local'[t].sid = s.sid /\ local'[t].since = 0
    BY <2>3, <1>w
  <2> QED BY <2>2, <2>3, <2>4, PlainStep DEF Down
<1>8. ASSUME NEW t \in Threads, RenewReply(t)
      PROVE  Step(t)
  <2>1. Goto(t, "renewReplied") /\ finishing' = finishing /\ subscriber' = subscriber
    BY <1>8 DEF RenewReply, clientVars
  <2>2. CASE local' = local
    <3>1. OthersStay(t) /\ pc'[t] = "renewReplied" /\ local'[t] = local[t]
      BY <2>1, <2>2, <1>p, MoveFacts
    <3> QED BY <2>1, <3>1, PlainStep DEF Down
  <2>3. ASSUME NEW g \in Grants, Keep(t, [local[t] EXCEPT !.grant = g, !.ok = TRUE])
        PROVE  Step(t)
    <3>1. /\ OthersStay(t) /\ pc'[t] = "renewReplied"
          /\ local'[t] = [local[t] EXCEPT !.grant = g, !.ok = TRUE]
      BY <2>1, <2>3, <1>p, MoveFacts
    <3>2. local'[t].since = local[t].since /\ local'[t].sid = local[t].sid
      BY <3>1, <1>p DEF Locals
    <3> QED BY <2>1, <3>1, <3>2, PlainStep DEF Down
  <2> QED BY <1>8, <2>2, <2>3 DEF RenewReply
<1>9. ASSUME NEW t \in Threads, Return(t), finishing' = finishing, subscriber' = subscriber
      PROVE  Step(t)
  <2>1. OthersStay(t) /\ pc'[t] = "idle" /\ local'[t] = NoLocals
    BY <1>9, <1>p, MoveFacts
  <2> QED BY <1>9, <2>1, <1>n, PlainStep DEF Down
<1>10. ASSUME NEW t \in Threads, RenewDone(t)
       PROVE  Step(t)
  <2>1. Return(t) \/ (Goto(t, "renewFailed") /\ local' = local)
    BY <1>10 DEF RenewDone, EndRenewal
  <2>2. finishing' = finishing /\ subscriber' = subscriber
    BY <1>10 DEF RenewDone
  <2>3. CASE Goto(t, "renewFailed") /\ local' = local
    <3>1. OthersStay(t) /\ pc'[t] = "renewFailed" /\ local'[t] = local[t]
      BY <2>3, <1>p, MoveFacts
    <3> QED BY <2>2, <3>1, PlainStep DEF Down
  <2> QED BY <2>1, <2>2, <2>3, <1>9
<1>11. ASSUME NEW t \in Threads, genaUnregisterClient(t)
       PROVE  Step(t)
  <2>1. finishing' = finishing /\ subscriber' = subscriber /\ client' = client
    BY <1>11 DEF genaUnregisterClient
  <2>2. CASE ~client /\ Back(t)
    <3>1. /\ OthersStay(t) /\ local'[t] = NoLocals
          /\ pc'[t] = IF finishing = t THEN "finTimer" ELSE "idle"
      BY <2>2, <1>p, MoveFacts
    <3>2. /\ pc'[t] \in Down \cup {"finTimer"} => finishing' = t /\ ~client'
          /\ pc'[t] \notin Down
          /\ pc'[t] \notin {"subscribe", "subscribeSent", "subscribeReplied"}
      BY <2>1, <2>2, <3>1 DEF Down
    <3>3. local'[t].since = 0 /\ local'[t].sid = NoSid
      BY <3>1, <1>n
    <3> QED BY <2>1, <3>1, <3>2, <3>3 DEF Step, Conduct, Locking
  <2>3. CASE local' = local /\ (Goto(t, "unregistered") \/ Goto(t, "unregisterSent"))
    <3>1. OthersStay(t) /\ pc'[t] \in {"unregistered", "unregisterSent"} /\ local'[t] = local[t]
      BY <2>3, <1>p, MoveFacts
    <3> QED BY <2>1, <3>1, PlainStep DEF Down
  <2> QED BY <1>11, <2>2, <2>3 DEF genaUnregisterClient
<1>12. ASSUME NEW t \in Threads, UnregisterDone(t)
       PROVE  Step(t)
  <2>1. finishing' = finishing /\ subscriber' = subscriber /\ client' = FALSE /\ Back(t)
    BY <1>12 DEF UnregisterDone
  <2>2. /\ OthersStay(t) /\ local'[t] = NoLocals
        /\ pc'[t] = IF finishing = t THEN "finTimer" ELSE "idle"
    BY <2>1, <1>p, MoveFacts
  <2>3. /\ pc'[t] \in Down \cup {"finTimer"} => finishing' = t /\ ~client'
        /\ pc'[t] \notin Down
        /\ pc'[t] \notin {"subscribe", "subscribeSent", "subscribeReplied"}
    BY <2>1, <2>2 DEF Down
  <2>4. local'[t].since = 0 /\ local'[t].sid = NoSid
    BY <2>2, <1>n
  <2> QED BY <2>1, <2>2, <2>3, <2>4 DEF Step, Conduct, Locking
<1>13. ASSUME NEW t \in Threads, SubscribeSend(t)
       PROVE  Step(t)
  <2>1. /\ Goto(t, "subscribeSent") /\ local' = local /\ finishing' = finishing
        /\ subscriber = Nobody /\ subscriber' = t /\ pc[t] = "subscribe"
    BY <1>13 DEF SubscribeSend
  <2>2. OthersStay(t) /\ pc'[t] = "subscribeSent" /\ local'[t] = local[t]
    BY <2>1, <1>p, MoveFacts
  <2>3. ~local[t].ok
    BY <2>1 DEF CPInv, SubscribeOK
  <2> QED BY <2>1, <2>2, <2>3 DEF Step, Conduct, Locking, Down
<1>14. ASSUME NEW t \in Threads, SubscribeReply(t)
       PROVE  Step(t)
  <2>1. /\ Goto(t, "subscribeReplied") /\ finishing' = finishing /\ subscriber' = subscriber
        /\ pc[t] = "subscribeSent" /\ rejected' = rejected
    BY <1>14 DEF SubscribeReply, clientVars
  <2>2. ~local[t].ok
    BY <2>1 DEF CPInv, SubscribeOK
  <2>3. CASE local' = local
    <3>1. OthersStay(t) /\ pc'[t] = "subscribeReplied" /\ local'[t] = local[t]
      BY <2>1, <2>3, <1>p, MoveFacts
    <3> QED BY <2>1, <2>2, <3>1 DEF Step, Conduct, Locking, Down
  <2>4. ASSUME NEW g \in Grants, granted' = granted + 1,
               Keep(t, [local[t] EXCEPT !.sid = granted', !.grant = g, !.ok = TRUE])
        PROVE  Step(t)
    <3>1. /\ OthersStay(t) /\ pc'[t] = "subscribeReplied"
          /\ local'[t] = [local[t] EXCEPT !.sid = granted', !.grant = g, !.ok = TRUE]
      BY <2>1, <2>4, <1>p, MoveFacts
    <3>2. local'[t].since = local[t].since /\ local'[t].sid = granted'
      BY <3>1, <1>p DEF Locals
    <3> QED BY <2>1, <2>4, <3>1, <3>2 DEF Step, Conduct, Locking, Down
  <2> QED BY <1>14, <2>3, <2>4 DEF SubscribeReply
<1>15. ASSUME NEW t \in Threads, SubscribeDone(t)
       PROVE  Step(t)
  <2>1. Return(t) /\ finishing' = finishing /\ pc[t] = "subscribeReplied"
    BY <1>15 DEF SubscribeDone
  <2>2. OthersStay(t) /\ pc'[t] = "idle" /\ local'[t] = NoLocals
    BY <2>1, <1>p, MoveFacts
  <2> QED BY <2>1, <2>2, <1>n DEF Step, Conduct, Locking, Down
<1>16. ASSUME NEW t \in Threads,
              UnSubscribeDone(t) \/ CallbackReturns(t) \/ EventReturns(t)
       PROVE  Step(t)
  <2>1. Return(t) /\ finishing' = finishing /\ subscriber' = subscriber
    BY <1>16 DEF UnSubscribeDone, CallbackReturns, EventReturns, clientVars
  <2> QED BY <2>1, <1>9
<1>17. ASSUME NEW t \in Threads,
              FinishTimer(t) \/ FinishServer(t) \/ FinishJobs(t) \/ FinishDone(t)
       PROVE  Step(t)
  <2>1. /\ local' = local /\ finishing' = finishing /\ subscriber' = subscriber
        /\ \/ pc[t] = "finTimer" /\ Goto(t, "finWait") /\ eventQ' = <<>>
           \/ pc[t] = "finWait" /\ Goto(t, "finHandlers")
           \/ pc[t] = "finHandlers" /\ Goto(t, "finThreads")
           \/ pc[t] = "finThreads" /\ Goto(t, "finished")
    BY <1>17 DEF FinishTimer, FinishServer, FinishJobs, FinishDone, Pass, TimerThreadShutdown,
                 clientVars
  <2>2. /\ OthersStay(t) /\ local'[t] = local[t] /\ pc'[t] \in Down
        /\ pc[t] \in Down \/ (pc[t] = "finTimer" /\ eventQ' = <<>>)
    BY <2>1, <1>p, MoveFacts DEF Down
  <2>3. pc'[t] \notin {"subscribe", "subscribeSent", "subscribeReplied"}
    BY <2>2 DEF Down
  <2> QED BY <2>1, <2>2, <2>3 DEF Step, Conduct, Locking
<1>18. ASSUME NEW t \in Threads, AutoRenew(t)
       PROVE  goal
  <2>1. finishing' = finishing /\ subscriber' = subscriber
    BY <1>18 DEF AutoRenew
  <2>2. \/ pc' = pc /\ local' = local
        \/ \E j \in jobs : Linked(j.sid) /\ StartRenewal(t, j.sid, j.event)
    BY <1>18 DEF AutoRenew
  <2>3. CASE pc' = pc /\ local' = local
    BY <2>1, <2>3 DEF StandStill
  <2>4. ASSUME NEW j \in jobs, Linked(j.sid), StartRenewal(t, j.sid, j.event)
        PROVE  Step(t)
    <3>1. j.sid \in {s.sid : s \in subs}
      BY <2>4 DEF Linked
    <3> QED BY <2>1, <2>4, <3>1, <1>r
  <2> QED BY <2>2, <2>3, <2>4
<1>19. ASSUME NEW t \in Threads, ReportFailure(t)
       PROVE  Step(t)
  <2>1. finishing' = finishing /\ subscriber' = subscriber
    BY <1>19 DEF ReportFailure, clientVars
  <2>2. Return(t) \/ (Goto(t, "callback") /\ local' = local)
    BY <1>19 DEF ReportFailure
  <2>3. CASE Goto(t, "callback") /\ local' = local
    <3>1. OthersStay(t) /\ pc'[t] = "callback" /\ local'[t] = local[t]
      BY <2>3, <1>p, MoveFacts
    <3> QED BY <2>1, <3>1, PlainStep DEF Down
  <2> QED BY <2>1, <2>2, <2>3, <1>9
<1>20. ASSUME NEW h \in Threads, NEW sid, Answer(h, sid), finishing' = finishing,
              subscriber' = subscriber
       PROVE  Step(h)
  <2>1. Return(h) \/ (Goto(h, "event") /\ Keep(h, NoLocals))
    BY <1>20 DEF Answer
  <2>2. CASE Goto(h, "event") /\ Keep(h, NoLocals)
    <3>1. OthersStay(h) /\ pc'[h] = "event" /\ local'[h] = NoLocals
      BY <2>2, <1>p, MoveFacts
    <3> QED BY <1>20, <3>1, <1>n, PlainStep DEF Down
  <2> QED BY <1>20, <2>1, <2>2, <1>9
<1>21. ASSUME NEW h \in Threads, NotifyLook(h)
       PROVE  Step(h)
  <2>1. finishing' = finishing /\ subscriber' = subscriber
    BY <1>21 DEF NotifyLook, clientVars
  <2>2. PICK sid \in notifies :
           \/ Goto(h, "notify") /\ Keep(h, [NoLocals EXCEPT !.sid = sid])
           \/ Answer(h, sid)
    BY <1>21 DEF NotifyLook
  <2>3. CASE Goto(h, "notify") /\ Keep(h, [NoLocals EXCEPT !.sid = sid])
    <3>1. /\ OthersStay(h) /\ pc'[h] = "notify"
          /\ local'[h] = [NoLocals EXCEPT !.sid = sid]
      BY <2>3, <1>p, MoveFacts
    <3>2. local'[h].sid = sid /\ local'[h].since = 0
      BY <3>1, <1>w
    <3> QED BY <2>1, <3>1, <3>2, PlainStep DEF Down
  <2> QED BY <2>1, <2>2, <2>3, <1>20
<1>22. ASSUME NEW h \in Threads, NotifyLookAgain(h)
       PROVE  Step(h)
  BY <1>22, <1>20 DEF NotifyLookAgain, clientVars
<1> HIDE DEF goal
<1>23. ASSUME NEW t \in Callers, CallStep(t)
       PROVE  \E u \in Threads : Step(u)
  <2>0. t \in Threads
    BY DEF Threads
  <2> QED BY <2>0, <1>23, <1>3, <1>8, <1>10, <1>11, <1>12, <1>13, <1>14, <1>15, <1>16, <1>17
          DEF CallStep
<1>24. ASSUME NEW t \in Callers,
              \/ dlnaRegisterClient(t) \/ dlnaUnRegisterClient(t) \/ dlnaFinish(t)
              \/ SubscribeCall(t) \/ RenewCall(t) \/ UnSubscribeCall(t)
              \/ CallStep(t)
       PROVE  goal
  <2>0. t \in Threads
    BY DEF Threads
  <2>1. (\E u \in Threads : Step(u)) => goal
    BY DEF goal
  <2> QED BY <2>0, <2>1, <1>24, <1>2, <1>3, <1>4, <1>5, <1>6, <1>7, <1>23
<1>25. ASSUME NEW w \in Workers, WorkerStep(w)
       PROVE  goal
  <2>0. w \in Threads
    BY DEF Threads
  <2>1. (\E u \in Threads : Step(u)) => goal
    BY DEF goal
  <2> QED BY <2>0, <2>1, <1>25, <1>8, <1>10, <1>16, <1>18, <1>19 DEF WorkerStep
<1>26. ASSUME NEW h \in Handlers, HandlerStep(h)
       PROVE  goal
  <2>0. h \in Threads
    BY DEF Threads
  <2>1. (\E u \in Threads : Step(u)) => goal
    BY DEF goal
  <2> QED BY <2>0, <2>1, <1>26, <1>16, <1>21, <1>22 DEF HandlerStep
<1>27. goal
  BY <1>1, <1>24, <1>25, <1>26 DEF Next
<1> QED BY <1>27 DEF goal
\* Once dlnaFinish has begun no client is registered, and once it has shut the timer
\* down nothing is scheduled.
LEMMA FinishingOKStep ==
  ASSUME CPInv, [Next]_vars
  PROVE  FinishingOK'
<1>t. Types /\ SubsOK /\ FinishingOK /\ TimerTypes
  BY DEF CPInv, Types
<1>n. Nobody \notin Threads
  BY ControlPointAssumption DEF Threads
<1>c. finishing # Nobody /\ ~client => ~client'
  <2>1. CASE SameClient
    BY <2>1 DEF SameClient
  <2>2. CASE NewClient
    BY <2>2 DEF NewClient, dlnaRegisterClient, MayCall, UnregisterDone
  <2>3. ASSUME NEW t \in Callers, Subscribed(t)
        PROVE  SameClient
    BY <2>3 DEF Subscribed
  <2> QED BY <2>1, <2>2, <2>3, <1>t, SubsStep
<1>q. eventQ = <<>> /\ ~client => eventQ' = <<>>
  <2> SUFFICES ASSUME eventQ = <<>>, ~client
               PROVE  eventQ' = <<>>
    OBVIOUS
  <2>1. CASE TimerNext
    BY <2>1 DEF TimerNext, TimerThreadWorker, WorkerLock, WorkerTimedOut, WorkerReturn, WorkerFire,
                WorkerWait, Due, Tick
  <2>2. CASE UNCHANGED timerVars
    BY <2>2 DEF timerVars
  <2>3. ASSUME NEW id, TimerThreadRemove(id)
        PROVE  eventQ' = <<>>
    BY <2>3, <1>t, Removed DEF CPInv
  <2>4. CASE \E t \in Callers : FinishTimer(t)
    BY <2>4 DEF FinishTimer, TimerThreadShutdown
  <2> QED BY <2>1, <2>2, <2>3, <2>4, <1>t, TimerCalls
<1>1. CASE StandStill
  <2>1. pc' = pc /\ finishing' = finishing
    BY <1>1 DEF StandStill
  <2>2. \A u \in Threads : pc'[u] \in Down \cup {"finTimer"} => finishing' = u /\ ~client'
    BY <2>1, <1>c, <1>n, <1>t DEF FinishingOK
  <2>3. TimerDown' => eventQ' = <<>>
    <3>1. TimerDown' => \E t \in Callers : pc[t] \in Down
      BY <2>1 DEF TimerDown, Down
    <3>2. \A t \in Callers : pc[t] \in Down => ~client /\ TimerDown
      BY <1>t DEF FinishingOK, Threads, TimerDown, Down
    <3> QED BY <3>1, <3>2, <1>q, <1>t DEF FinishingOK
  <2> QED BY <2>2, <2>3 DEF FinishingOK
<1>2. ASSUME NEW t \in Threads, Step(t)
      PROVE  FinishingOK'
  <2>1. /\ \A u \in Threads \ {t} : pc'[u] = pc[u]
        /\ finishing' = finishing \/ finishing = Nobody
        /\ pc'[t] \in Down \cup {"finTimer"} =>
             pc[t] \in Down \cup {"finTimer"} \/ (finishing' = t /\ ~client')
        /\ pc'[t] \in Down => pc[t] \in Down \/ eventQ' = <<>>
    BY <1>2 DEF Step, Conduct, OthersStay
  <2>2. ASSUME NEW u \in Threads, pc[u] \in Down \cup {"finTimer"}
        PROVE  finishing' = u /\ ~client'
    <3>1. finishing = u /\ ~client
      BY <2>2, <1>t DEF FinishingOK
    <3> QED BY <3>1, <2>1, <1>c, <1>n
  <2>3. \A u \in Threads : pc'[u] \in Down \cup {"finTimer"} => finishing' = u /\ ~client'
    BY <2>1, <2>2
  <2>4. ASSUME NEW u \in Callers, pc'[u] \in Down
        PROVE  eventQ' = <<>>
    <3>0. u \in Threads
      BY DEF Threads
    <3>1. pc[u] \in Down \/ eventQ' = <<>>
      BY <2>1, <2>4, <3>0
    <3>2. pc[u] \in Down => ~client /\ TimerDown
      BY <3>0, <1>t DEF FinishingOK, TimerDown, Down
    <3> QED BY <3>1, <3>2, <1>q, <1>t DEF FinishingOK
  <2>5. TimerDown' => eventQ' = <<>>
    BY <2>4 DEF TimerDown, Down
  <2> QED BY <2>3, <2>5 DEF FinishingOK
<1> QED BY <1>1, <1>2, ThreadSteps

\* One SUBSCRIBE at a time, and what it is granted is new.
LEMMA SubscribeOKStep ==
  ASSUME CPInv, [Next]_vars
  PROVE  SubscribeOK'
<1>t. /\ Types /\ SubsOK /\ SubscribeOK /\ RejectedOK
      /\ granted \in Nat /\ clients \in Nat /\ rejected \subseteq Nat /\ notifies \subseteq Nat
      /\ \A t \in Threads : local[t].sid \in Nat /\ local[t].since \in Nat
      /\ \A s \in subs : s.sid \in Nat
  <2>1. Types /\ SubsOK /\ SubscribeOK /\ RejectedOK
    BY DEF CPInv
  <2>2. \A t \in Threads : local[t] \in Locals
    BY <2>1 DEF Types, CallTypes
  <2>3. \A s \in subs : s \in Subscription
    BY <2>1 DEF Types, CallTypes
  <2> QED BY <2>1, <2>2, <2>3 DEF Types, CallTypes, DeviceTypes, Subscription, Locals
<1>n. Nobody \notin Threads
  BY ControlPointAssumption DEF Threads
<1>g. /\ granted' \in Nat /\ granted <= granted' /\ clients' \in Nat /\ clients <= clients'
      /\ client' /\ ~client => clients < clients'
      /\ client' # client \/ clients' = clients
  <2>1. granted' = granted \/ granted' = granted + 1
    BY DeviceStep DEF Refused
  <2>2. \/ client' = client /\ clients' = clients
        \/ ~client /\ clients' = clients + 1 /\ client'
        \/ ~client' /\ clients' = clients
    <3>1. CASE NewClient
      BY <3>1 DEF NewClient, dlnaRegisterClient, UnregisterDone
    <3>2. CASE SameClient
      BY <3>2 DEF SameClient
    <3>3. ASSUME NEW t \in Callers, Subscribed(t)
          PROVE  SameClient
      BY <3>3 DEF Subscribed
    <3> QED BY <3>1, <3>2, <3>3, <1>t, SubsStep
  <2> QED BY <2>1, <2>2, <1>t
<1>d. \A t \in Threads : Subscribed(t) => pc[t] = "subscribeReplied" /\ pc'[t] = "idle"
  <2>1. PcTypes /\ LocalTypes
    BY <1>t DEF Types, CallTypes, PcTypes, LocalTypes
  <2> QED BY <2>1, MoveFacts DEF Subscribed, SubscribeDone
<1>s. ASSUME NEW u \in Threads, pc[u] \in {"subscribeSent", "subscribeReplied"},
             pc'[u] = "subscribeReplied"
      PROVE  /\ \A s \in subs' : \E r \in subs : r.sid = s.sid
             /\ client' => rejected' = rejected
  <2>1. subscriber = u /\ u # Nobody
    BY <1>s, <1>n, <1>t DEF SubscribeOK
  <2>2. ASSUME NEW t \in Callers, Subscribed(t)
        PROVE  FALSE
    <3>1. t \in Threads
      BY DEF Threads
    <3>2. pc[t] = "subscribeReplied" /\ pc'[t] = "idle"
      BY <2>2, <3>1, <1>d
    <3>3. subscriber = t
      BY <3>1, <3>2, <1>t DEF SubscribeOK
    <3> QED BY <3>2, <3>3, <2>1, <1>s
  <2>3. \A s \in subs' : \E r \in subs : r.sid = s.sid
    BY <2>2, <1>t, SubsStep DEF Inherited
  <2>4. ASSUME NEW sid, Refused(sid)
        PROVE  ~client'
    BY <2>4, <2>1 DEF Refused
  <2> QED BY <2>3, <2>4, DeviceStep
<1>e. ASSUME NEW u \in Threads, pc[u] = "subscribeReplied", pc'[u] = "subscribeReplied",
             local'[u] = local[u], local[u].ok
      PROVE  /\ \A s \in subs' : s.sid # local[u].sid
             /\ client' /\ local[u].since = clients' => local[u].sid \notin rejected'
  <2>1. \A s \in subs : s.sid # local[u].sid
    BY <1>e, <1>t DEF SubscribeOK, Linked
  <2>2. \A s \in subs' : s.sid # local[u].sid
    BY <2>1, <1>e, <1>s
  <2>3. ASSUME client', local[u].since = clients'
        PROVE  local[u].sid \notin rejected'
    <3>1. rejected' = rejected
      BY <2>3, <1>e, <1>s
    <3>2. local[u].since <= clients
      BY <1>t DEF SubscribeOK
    <3>3. client /\ local[u].since = clients
      BY <2>3, <3>2, <1>g, <1>t
    <3> QED BY <3>1, <3>3, <1>e, <1>t DEF SubscribeOK
  <2> QED BY <2>2, <2>3
<1>b. \A u \in Threads : local[u].since <= clients' /\ local[u].sid <= granted'
  <2>1. \A u \in Threads : local[u].since <= clients /\ local[u].sid <= granted
    BY <1>t DEF SubscribeOK
  <2> QED BY <2>1, <1>g, <1>t
<1>1. CASE StandStill
  <2>1. pc' = pc /\ local' = local /\ subscriber' = subscriber
    BY <1>1 DEF StandStill
  <2>2. \A u \in Threads : pc'[u] \in {"subscribe", "subscribeSent"} => ~local'[u].ok
    BY <2>1, <1>t DEF SubscribeOK
  <2>3. \A u \in Threads : pc'[u] \in {"subscribeSent", "subscribeReplied"} => subscriber' = u
    BY <2>1, <1>t DEF SubscribeOK
  <2>4. \A u \in Threads : local'[u].since <= clients' /\ local'[u].sid <= granted'
    BY <2>1, <1>b
  <2>5. \A u \in Threads : pc'[u] = "subscribeReplied" /\ local'[u].ok =>
          /\ \A s \in subs' : s.sid # local'[u].sid
          /\ client' /\ local'[u].since = clients' => local'[u].sid \notin rejected'
    BY <2>1, <1>e
  <2> QED BY <2>2, <2>3, <2>4, <2>5 DEF SubscribeOK, Linked
<1>2. ASSUME NEW t \in Threads, Step(t)
      PROVE  SubscribeOK'
  <2>1. \A u \in Threads \ {t} : pc'[u] = pc[u] /\ local'[u] = local[u]
    BY <1>2 DEF Step, OthersStay
  <2>2. Conduct(t) /\ Locking(t)
    BY <1>2 DEF Step
  <2>3. \A u \in Threads : pc'[u] \in {"subscribe", "subscribeSent"} => ~local'[u].ok
    BY <2>1, <2>2, <1>t DEF SubscribeOK, Conduct
  <2>4. ASSUME NEW u \in Threads, pc'[u] \in {"subscribeSent", "subscribeReplied"}
        PROVE  subscriber' = u
    <3>1. CASE u = t
      <4>1. pc'[t] = "subscribeSent" => subscriber' = t
        BY <2>2 DEF Conduct
      <4>2. pc'[t] = "subscribeReplied" => pc[t] = "subscribeSent" /\ subscriber' = subscriber
        BY <2>2 DEF Conduct
      <4> QED BY <4>1, <4>2, <3>1, <2>4, <1>t DEF SubscribeOK
    <3>2. CASE u # t
      <4>1. pc[u] \in {"subscribeSent", "subscribeReplied"}
        BY <3>2, <2>1, <2>4
      <4>2. subscriber = u /\ u # Nobody
        BY <4>1, <1>n, <1>t DEF SubscribeOK
      <4>3. pc[t] = "subscribeReplied" => subscriber = t
        BY <1>t DEF SubscribeOK
      <4> QED BY <4>2, <4>3, <3>2, <2>2 DEF Locking
    <3> QED BY <3>1, <3>2
  <2>5. ASSUME NEW u \in Threads
        PROVE  local'[u].since <= clients' /\ local'[u].sid <= granted'
    <3>1. CASE u # t
      BY <3>1, <2>1, <1>b
    <3>2. CASE u = t
      <4>1. /\ local'[t].since \in {0, clients, local[t].since}
            /\ local'[t].sid \in {NoSid, local[t].sid, granted'} \cup {s.sid : s \in subs} \cup notifies
        BY <2>2 DEF Conduct
      <4>2. local'[t].since <= clients'
        BY <4>1, <1>b, <1>g
      <4>3. \A s \in subs : s.sid <= granted'
        BY <1>t, <1>g DEF SubsOK
      <4>4. \A sid \in notifies : sid <= granted'
        BY <1>t, <1>g DEF RejectedOK
      <4>5. local'[t].sid <= granted'
        BY <4>1, <4>3, <4>4, <1>b, <1>g DEF NoSid
      <4> QED BY <3>2, <4>2, <4>5
    <3> QED BY <3>1, <3>2
  <2>6. ASSUME NEW u \in Threads, pc'[u] = "subscribeReplied", local'[u].ok
        PROVE  /\ \A s \in subs' : s.sid # local'[u].sid
               /\ client' /\ local'[u].since = clients' => local'[u].sid \notin rejected'
    <3>1. CASE u # t
      BY <3>1, <2>1, <2>6, <1>e
    <3>2. CASE u = t
      <4>1. pc[t] = "subscribeSent" /\ rejected' = rejected /\ local'[t].sid = granted + 1
        BY <2>2, <2>6, <3>2 DEF Conduct
      <4>2. \A s \in subs' : \E r \in subs : r.sid = s.sid
        BY <4>1, <2>6, <3>2, <1>s
      <4>3. \A r \in subs : r.sid # granted + 1
        BY <1>t DEF SubsOK
      <4>4. granted + 1 \notin rejected
        BY <1>t DEF RejectedOK
      <4> QED BY <4>1, <4>2, <4>3, <4>4, <3>2
    <3> QED BY <3>1, <3>2
  <2> QED BY <2>3, <2>4, <2>5, <2>6 DEF SubscribeOK, Linked
<1> QED BY <1>1, <1>2, ThreadSteps

\* The first event of a subscription is refused only when its client is gone.
LEMMA RejectedOKStep ==
  ASSUME CPInv, [Next]_vars
  PROVE  RejectedOK'
<1>t. /\ Types /\ SubsOK /\ SubscribeOK /\ RejectedOK
      /\ granted \in Nat /\ clients \in Nat /\ rejected \subseteq Nat /\ notifies \subseteq Nat
      /\ \A t \in Threads : local[t].sid \in Nat /\ local[t].since \in Nat
      /\ \A s \in subs : s.sid \in Nat /\ s.since \in Nat
  <2>1. Types /\ SubsOK /\ SubscribeOK /\ RejectedOK
    BY DEF CPInv
  <2>2. \A t \in Threads : local[t] \in Locals
    BY <2>1 DEF Types, CallTypes
  <2>3. \A s \in subs : s \in Subscription
    BY <2>1 DEF Types, CallTypes
  <2> QED BY <2>1, <2>2, <2>3 DEF Types, CallTypes, DeviceTypes, Subscription, Locals
<1>l. \A t \in Threads : local[t].sid <= granted /\ local[t].since <= clients
  BY <1>t DEF SubscribeOK
<1>1. \A sid \in notifies' \cup rejected' : sid <= granted'
  <2>1. \A sid \in notifies \cup rejected : sid <= granted
    BY <1>t DEF RejectedOK
  <2>2. CASE granted' = granted /\ notifies' \subseteq notifies /\ rejected' = rejected
    BY <2>1, <2>2
  <2>3. CASE granted' = granted + 1 /\ notifies' = notifies \cup {granted'} /\ rejected' = rejected
    BY <2>1, <2>3, <1>t
  <2>4. ASSUME NEW sid \in notifies \cup {local[h].sid : h \in Threads}, Refused(sid)
        PROVE  \A x \in notifies' \cup rejected' : x <= granted'
    <3>1. sid <= granted
      BY <2>1, <1>l
    <3> QED BY <3>1, <2>1, <2>4 DEF Refused
  <2> QED BY <2>2, <2>3, <2>4, DeviceStep
<1>2. (\A s \in subs' : s.since <= clients') /\ FirstEventNotLost'
  <2>r. ASSUME NEW sid, Refused(sid)
        PROVE  \A s \in subs' : s.sid # sid
    BY <2>r, <1>t DEF Refused, SubsOK, Linked
  <2>1. CASE Inherited /\ NewClient
    <3>1. PICK t \in Callers : dlnaRegisterClient(t) \/ UnregisterDone(t)
      BY <2>1 DEF NewClient
    <3>2. subs' = {}
      BY <3>1, <1>t DEF dlnaRegisterClient, UnregisterDone, SubsOK
    <3> QED BY <3>2 DEF FirstEventNotLost
  <2>2. CASE Inherited /\ SameClient
    <3>1. \A s \in subs' : \E r \in subs : r.sid = s.sid /\ r.since = s.since
      BY <2>2 DEF Inherited
    <3>2. clients' = clients
      BY <2>2 DEF SameClient
    <3>3. \A s \in subs' : s.since <= clients'
      BY <3>1, <3>2, <1>t DEF RejectedOK
    <3>4. \A s \in subs' : s.since = clients' => s.sid \notin rejected
      BY <3>1, <3>2, <1>t DEF RejectedOK, FirstEventNotLost
    <3>5. \A s \in subs' : s.since = clients' => s.sid \notin rejected'
      <4>1. rejected' = rejected \/ \E sid : Refused(sid)
        BY DeviceStep
      <4> QED BY <4>1, <3>4, <2>r DEF Refused
    <3> QED BY <3>3, <3>5 DEF FirstEventNotLost
  <2>3. ASSUME NEW t \in Callers, Subscribed(t)
        PROVE  (\A s \in subs' : s.since <= clients') /\ FirstEventNotLost'
    <3>1. PICK r \in Subscription :
             subs' = subs \cup {r} /\ r.sid = local[t].sid /\ r.since = local[t].since
      BY <2>3 DEF Subscribed
    <3>2. /\ client /\ local[t].ok /\ clients' = clients /\ pc[t] = "subscribeReplied"
          /\ t \in Threads /\ rejected' = rejected
      BY <2>3 DEF Subscribed, SubscribeDone, SameClient, Threads, deviceVars
    <3>3. local[t].since = clients => local[t].sid \notin rejected
      BY <3>2, <1>t DEF SubscribeOK
    <3>4. \A s \in subs' : s.since <= clients'
      BY <3>1, <3>2, <1>l, <1>t DEF RejectedOK
    <3>5. \A s \in subs' : s.since = clients' => s.sid \notin rejected'
      BY <3>1, <3>2, <3>3, <1>t DEF RejectedOK, FirstEventNotLost
    <3> QED BY <3>4, <3>5 DEF FirstEventNotLost
  <2> QED BY <2>1, <2>2, <2>3, <1>t, SubsStep
<1> QED BY <1>1, <1>2 DEF RejectedOK

\* The invariant holds at the start, and every step keeps it.
LEMMA CPInvHolds == Spec => [](CPInv /\ WakesInTime)
<1>1. Init => CPInv /\ WakesInTime
  <2> SUFFICES ASSUME Init
               PROVE  CPInv /\ WakesInTime
    OBVIOUS
  <2> USE DEF Init, TimerInit
  <2>1. TimerTypes /\ InOrder /\ WakesInTime
    BY TimerAssumption DEF TimerTypes, InOrder, WakesInTime, Never
  <2>2. CallTypes
    BY DEF CallTypes, Stages, Locals, NoLocals, NoSid
  <2>3. DeviceTypes /\ EventTypes
    BY DEF DeviceTypes, EventTypes
  <2>4. SubsOK
    BY DEF SubsOK
  <2>5. FinishingOK
    BY DEF FinishingOK, TimerDown, Down, Threads
  <2>6. SubscribeOK
    BY DEF SubscribeOK, NoLocals, NoSid
  <2>7. RejectedOK
    BY DEF RejectedOK, FirstEventNotLost
  <2> QED BY <2>1, <2>2, <2>3, <2>4, <2>5, <2>6, <2>7 DEF CPInv, Types
<1>2. CPInv /\ WakesInTime /\ [Next]_vars => (CPInv /\ WakesInTime)'
  <2> SUFFICES ASSUME CPInv, WakesInTime, [Next]_vars
               PROVE  CPInv' /\ WakesInTime'
    OBVIOUS
  <2>1. Types /\ InOrder /\ SubsOK
    BY DEF CPInv
  <2>2. Types'
    BY <2>1, TypesStep
  <2>3. InOrder' /\ WakesInTime'
    BY <2>1, ListStep, WakesStep
  <2> QED BY <2>2, <2>3, SubsOKStep, FinishingOKStep, SubscribeOKStep, RejectedOKStep DEF CPInv
<1> QED BY <1>1, <1>2, PTL DEF Spec

-----------------------------------------------------------------------------
(* The theorems about shutdown, the first event and the timer *)

\* The worker of the timer never sleeps past the first event, however the users of
\* the timer schedule and remove events while it sleeps (lines 133-144 and 385-390
\* of TimerThread.c).
THEOREM TimerWakesInTime == Spec => []WakesInTime
<1>1. CPInv /\ WakesInTime => WakesInTime
  OBVIOUS
<1> QED BY <1>1, CPInvHolds, PTL

\* The first event of a subscription is refused only when the client it was for is
\* gone, in whatever order the response and the NOTIFY arrive (lines 816-824 of
\* gena_ctrlpt.c).
THEOREM FirstEventReported == Spec => []FirstEventNotLost
<1>1. CPInv /\ WakesInTime => FirstEventNotLost
  BY DEF CPInv, RejectedOK
<1> QED BY <1>1, CPInvHolds, PTL

\* After dlnaFinish has shut the timer down there is no client and no subscription,
\* and no call that was under way schedules an event (lines 466-503 of TimerThread.c).
THEOREM NothingScheduledAfterShutdown == Spec => []QuietAfterShutdown
<1>1. CPInv /\ WakesInTime => QuietAfterShutdown
  <2> SUFFICES ASSUME CPInv, TimerDown
               PROVE  eventQ = <<>> /\ ~client /\ subs = {}
    BY DEF QuietAfterShutdown
  <2>1. PICK t \in Callers : pc[t] \in Down
    BY DEF TimerDown, Down
  <2>2. eventQ = <<>> /\ ~client
    BY <2>1 DEF CPInv, FinishingOK, Threads
  <2> QED BY <2>2 DEF CPInv, SubsOK
<1> QED BY <1>1, CPInvHolds, PTL
-----------------------------------------------------------------------------
(* Nobody waits for ever *)

\* The mutex of SUBSCRIBE is held by a thread whose request is under way.
LockOK ==
  subscriber # Nobody =>
    subscriber \in Threads /\ pc[subscriber] \in {"subscribeSent", "subscribeReplied"}

\* The worker that is to be shut down is about to notice, and is not shut down twice.
TimerOK ==
  /\ timer \in {"woken", "run", "wait", "done"} /\ shutdown \in {0, 1}
  /\ shutdown = 1 => timer \in {"woken", "run"}
  /\ shutdown = 1 \/ timer = "done" => TimerDown

WaitsOK == LockOK /\ TimerOK /\ finishing \in Callers \cup {Nobody}

\* How a step of t takes it to the stages at which it is waited for, and away.
Path(t) ==
  \/ pc[t] \notin Down \cup {"subscribe", "subscribeSent", "subscribeReplied"} /\ subscriber' = subscriber
  \/ pc[t] = "subscribe" /\ pc'[t] = "subscribeSent" /\ subscriber = Nobody /\ subscriber' = t
  \/ pc[t] = "subscribeSent" /\ pc'[t] = "subscribeReplied" /\ subscriber' = subscriber
  \/ pc[t] = "subscribeReplied" /\ subscriber' = Nobody
  \/ pc[t] \in Down /\ pc'[t] \in Down /\ subscriber' = subscriber

Walk(t) ==
  /\ \A u \in Threads \ {t} : pc'[u] = pc[u]
  /\ Path(t)
  /\ finishing' = finishing \/ (finishing' = t /\ t \in Callers)

LEMMA GotoFacts ==
  ASSUME PcTypes, NEW t \in Threads
  PROVE  /\ \A where : Goto(t, where) => /\ \A u \in Threads \ {t} : pc'[u] = pc[u]
                                         /\ pc'[t] = where
         /\ Return(t) \/ Back(t) => \A u \in Threads \ {t} : pc'[u] = pc[u]
<1>1. ASSUME NEW where, Goto(t, where)
      PROVE  (\A u \in Threads \ {t} : pc'[u] = pc[u]) /\ pc'[t] = where
  BY <1>1 DEF Goto, PcTypes
<1> QED BY <1>1 DEF Return, Back

LEMMA Walks ==
  ASSUME PcTypes, [Next]_vars
  PROVE  StandStill \/ \E t \in Threads : Walk(t)
<1> DEFINE free(t) == pc[t] \notin Down \cup {"subscribe", "subscribeSent", "subscribeReplied"}
<1>p. ASSUME NEW t \in Threads, free(t), subscriber' = subscriber, finishing' = finishing,
             Return(t) \/ Back(t) \/ \E where : Goto(t, where)
      PROVE  Walk(t)
  <2>1. \A u \in Threads \ {t} : pc'[u] = pc[u]
    BY <1>p, GotoFacts
  <2> QED BY <2>1, <1>p DEF Walk, Path
<1>i. \A t \in Threads : Idle(t) => free(t)
  BY DEF Idle, Down
<1>1. ASSUME TimerStep \/ UNCHANGED vars
      PROVE  StandStill
  BY <1>1 DEF TimerStep, vars, clientVars, StandStill
<1>2. ASSUME NEW t \in Threads, dlnaRegisterClient(t)
      PROVE  StandStill
  BY <1>2 DEF dlnaRegisterClient, StandStill
<1>3. ASSUME NEW t \in Threads, dlnaUnRegisterClient(t) \/ SubscribeCall(t) \/ RenewCall(t) \/ UnSubscribeCall(t)
      PROVE  Walk(t)
  <2>1. Idle(t) /\ subscriber' = subscriber /\ finishing' = finishing
    BY <1>3 DEF dlnaUnRegisterClient, SubscribeCall, RenewCall, UnSubscribeCall, MayCall, clientVars
  <2>2. \E where : Goto(t, where)
    BY <1>3 DEF dlnaUnRegisterClient, SubscribeCall, RenewCall, UnSubscribeCall, StartRenewal
  <2> QED BY <2>1, <2>2, <1>i, <1>p
<1>4. ASSUME NEW t \in Callers, dlnaFinish(t)
      PROVE  Walk(t)
  <2>0. t \in Threads
    BY DEF Threads
  <2>1. Idle(t) /\ subscriber' = subscriber /\ finishing' = t /\ \E where : Goto(t, where)
    BY <1>4 DEF dlnaFinish, MayCall, clientVars
  <2>2. \A u \in Threads \ {t} : pc'[u] = pc[u]
    BY <2>0, <2>1, GotoFacts
  <2> QED BY <2>0, <2>1, <2>2, <1>i DEF Walk, Path
<1>5. ASSUME NEW t \in Threads, genaUnregisterClient(t) \/ UnregisterSent(t) \/ UnregisterDone(t)
      PROVE  Walk(t)
  <2>1. free(t) /\ subscriber' = subscriber /\ finishing' = finishing
    BY <1>5 DEF genaUnregisterClient, UnregisterSent, UnregisterDone, clientVars, Down
  <2>2. Back(t) \/ \E where : Goto(t, where)
    BY <1>5 DEF genaUnregisterClient, UnregisterSent, UnregisterDone
  <2> QED BY <2>1, <2>2, <1>p
<1>6. ASSUME NEW t \in Threads, SubscribeSend(t)
      PROVE  Walk(t)
  <2>1. /\ Goto(t, "subscribeSent") /\ finishing' = finishing
        /\ subscriber = Nobody /\ subscriber' = t /\ pc[t] = "subscribe"
    BY <1>6 DEF SubscribeSend
  <2>2. (\A u \in Threads \ {t} : pc'[u] = pc[u]) /\ pc'[t] = "subscribeSent"
    BY <2>1, GotoFacts
  <2> QED BY <2>1, <2>2 DEF Walk, Path
<1>7. ASSUME NEW t \in Threads, SubscribeReply(t)
      PROVE  Walk(t)
  <2>1. /\ Goto(t, "subscribeReplied") /\ finishing' = finishing
        /\ subscriber' = subscriber /\ pc[t] = "subscribeSent"
    BY <1>7 DEF SubscribeReply, clientVars
  <2>2. (\A u \in Threads \ {t} : pc'[u] = pc[u]) /\ pc'[t] = "subscribeReplied"
    BY <2>1, GotoFacts
  <2> QED BY <2>1, <2>2 DEF Walk, Path
<1>8. ASSUME NEW t \in Threads, SubscribeDone(t)
      PROVE  Walk(t)
  <2>1. Return(t) /\ finishing' = finishing /\ subscriber' = Nobody /\ pc[t] = "subscribeReplied"
    BY <1>8 DEF SubscribeDone
  <2>2. \A u \in Threads \ {t} : pc'[u] = pc[u]
    BY <2>1, GotoFacts
  <2> QED BY <2>1, <2>2 DEF Walk, Path
<1>9. ASSUME NEW t \in Threads, RenewReply(t) \/ RenewDone(t) \/ UnSubscribeDone(t)
      PROVE  Walk(t)
  <2>1. free(t) /\ subscriber' = subscriber /\ finishing' = finishing
    BY <1>9 DEF RenewReply, RenewDone, UnSubscribeDone, clientVars, Down
  <2>2. Return(t) \/ \E where : Goto(t, where)
    BY <1>9 DEF RenewReply, RenewDone, UnSubscribeDone, EndRenewal
  <2> QED BY <2>1, <2>2, <1>p
<1>10. ASSUME NEW t \in Threads, FinishTimer(t)
       PROVE  Walk(t)
  <2>1. free(t) /\ subscriber' = subscriber /\ finishing' = finishing
    BY <1>10 DEF FinishTimer, Pass, clientVars, Down
  <2>2. \E where : Goto(t, where)
    BY <1>10 DEF FinishTimer, Pass
  <2> QED BY <2>1, <2>2, <1>p
<1>11. ASSUME NEW t \in Threads, FinishServer(t) \/ FinishJobs(t) \/ FinishDone(t)
       PROVE  Walk(t)
  <2>1. /\ finishing' = finishing /\ subscriber' = subscriber /\ pc[t] \in Down
        /\ \E where \in Down : Goto(t, where)
    BY <1>11 DEF FinishServer, FinishJobs, FinishDone, Pass, clientVars, Down
  <2>2. (\A u \in Threads \ {t} : pc'[u] = pc[u]) /\ pc'[t] \in Down
    BY <2>1, GotoFacts
  <2> QED BY <2>1, <2>2 DEF Walk, Path
<1>12. ASSUME NEW t \in Threads, AutoRenew(t)
       PROVE  StandStill \/ Walk(t)
  <2>1. Idle(t) /\ finishing' = finishing /\ subscriber' = subscriber
    BY <1>12 DEF AutoRenew
  <2>2. (pc' = pc /\ local' = local) \/ \E where : Goto(t, where)
    BY <1>12 DEF AutoRenew, StartRenewal
  <2> QED BY <2>1, <2>2, <1>i, <1>p DEF StandStill
<1>13. ASSUME NEW t \in Threads, ReportFailure(t) \/ CallbackReturns(t) \/ EventReturns(t)
       PROVE  Walk(t)
  <2>1. free(t) /\ subscriber' = subscriber /\ finishing' = finishing
    BY <1>13 DEF ReportFailure, CallbackReturns, EventReturns, clientVars, Down
  <2>2. Return(t) \/ \E where : Goto(t, where)
    BY <1>13 DEF ReportFailure, CallbackReturns, EventReturns
  <2> QED BY <2>1, <2>2, <1>p
<1>14. ASSUME NEW t \in Threads, NotifyLook(t) \/ NotifyLookAgain(t)
       PROVE  Walk(t)
  <2>1. free(t) /\ subscriber' = subscriber /\ finishing' = finishing
    BY <1>14, <1>i DEF NotifyLook, NotifyLookAgain, clientVars, Down
  <2>2. Return(t) \/ \E where : Goto(t, where)
    BY <1>14 DEF NotifyLook, NotifyLookAgain, Answer
  <2> QED BY <2>1, <2>2, <1>p
<1>t. \A t : t \in Callers \/ t \in Workers \/ t \in Handlers => t \in Threads
  BY DEF Threads
<1> HIDE DEF free
<1>15. ASSUME NEW t \in Callers, CallStep(t)
       PROVE  Walk(t)
  BY <1>t, <1>15, <1>5, <1>6, <1>7, <1>8, <1>9, <1>10, <1>11 DEF CallStep
<1>16. ASSUME NEW t \in Workers, WorkerStep(t)
       PROVE  StandStill \/ Walk(t)
  BY <1>t, <1>16, <1>9, <1>12, <1>13 DEF WorkerStep
<1>17. ASSUME NEW t \in Handlers, HandlerStep(t)
       PROVE  Walk(t)
  BY <1>t, <1>17, <1>13, <1>14 DEF HandlerStep
<1>18. ASSUME NEW t \in Callers,
              \/ dlnaRegisterClient(t) \/ dlnaUnRegisterClient(t) \/ dlnaFinish(t)
              \/ SubscribeCall(t) \/ RenewCall(t) \/ UnSubscribeCall(t)
              \/ CallStep(t)
       PROVE  StandStill \/ Walk(t)
  BY <1>t, <1>18, <1>2, <1>3, <1>4, <1>15
<1> QED BY <1>t, <1>1, <1>16, <1>17, <1>18 DEF Next

LEMMA WaitsOKStep ==
  ASSUME CPInv, WaitsOK, [Next]_vars
  PROVE  WaitsOK'
<1>t. Types /\ PcTypes /\ FinishingOK /\ LockOK /\ TimerOK /\ finishing \in Callers \cup {Nobody}
  BY DEF CPInv, Types, CallTypes, PcTypes, WaitsOK
<1>n. Nobody \notin Threads
  BY ControlPointAssumption DEF Threads
<1>d. TimerDown => TimerDown'
  <2>1. CASE StandStill
    BY <2>1 DEF StandStill, TimerDown
  <2>2. ASSUME NEW t \in Threads, Walk(t), TimerDown
        PROVE  TimerDown'
    <3>1. PICK u \in Callers : pc[u] \in Down
      BY <2>2 DEF TimerDown, Down
    <3>2. pc'[u] \in Down
      BY <2>2, <3>1 DEF Walk, Path, Threads, Down
    <3> QED BY <3>2 DEF TimerDown, Down
  <2> QED BY <2>1, <2>2, <1>t, Walks
<1>1. LockOK' /\ finishing' \in Callers \cup {Nobody}
  <2>1. CASE StandStill
    BY <2>1, <1>t DEF StandStill, LockOK
  <2>2. ASSUME NEW t \in Threads, Walk(t)
        PROVE  LockOK' /\ finishing' \in Callers \cup {Nobody}
    <3>1. \A u \in Threads \ {t} : pc'[u] = pc[u]
      BY <2>2 DEF Walk
    <3>2. finishing' \in Callers \cup {Nobody}
      BY <2>2, <1>t DEF Walk
    <3>3. LockOK'
      BY <2>2, <3>1, <1>t, <1>n DEF Walk, Path, LockOK, Down
    <3> QED BY <3>2, <3>3
  <2> QED BY <2>1, <2>2, <1>t, Walks
<1>2. TimerOK'
  <2>1. CASE TimerNext
    BY <2>1, <1>t, <1>d DEF TimerNext, TimerThreadWorker, WorkerLock, WorkerTimedOut, WorkerReturn, WorkerFire,
                            WorkerWait, Tick, TimerOK
  <2>2. CASE UNCHANGED timerVars
    BY <2>2, <1>t, <1>d DEF timerVars, TimerOK
  <2>3. ASSUME NEW id, TimerThreadRemove(id)
        PROVE  TimerOK'
    BY <2>3, <1>t, <1>d DEF TimerThreadRemove, TimerOK
  <2>4. ASSUME NEW job, NEW time, TimerThreadSchedule(job, time)
        PROVE  TimerOK'
    BY <2>4, <1>t, <1>d DEF TimerThreadSchedule, Signal, TimerOK
  <2>5. ASSUME NEW t \in Callers, FinishTimer(t)
        PROVE  TimerOK'
    <3>1. pc[t] = "finTimer" /\ Goto(t, "finWait") /\ MutexFree /\ shutdown' = 1 /\ Signal /\ t \in Threads
      BY <2>5 DEF FinishTimer, Pass, TimerThreadShutdown, Threads
    <3>2. ~TimerDown
      BY <3>1, <1>t DEF FinishingOK, TimerDown, Down, Threads
    <3>3. pc'[t] = "finWait"
      BY <3>1, <1>t, GotoFacts
    <3>4. TimerDown'
      BY <3>3 DEF TimerDown
    <3> QED BY <3>1, <3>2, <3>4, <1>t DEF MutexFree, Signal, TimerOK
  <2> QED BY <2>1, <2>2, <2>3, <2>4, <2>5, <1>t, TimerCalls
<1> QED BY <1>1, <1>2 DEF WaitsOK

\* A set of natural numbers has a least one: numbers are well-ordered.
LEMMA Smallest ==
  ASSUME NEW T, T \subseteq Nat, T # {}
  PROVE  \E m \in T : \A k \in T : m <= k
<1> DEFINE less == OpToRel(<, Nat)
<1>1. IsWellFoundedOn(less, Nat)
  BY NatLessThanWellFounded
<1> HIDE DEF less
<1>2. PICK m \in T : \A k \in T : ~(<<k, m>> \in less)
  BY <1>1, WFMin
<1>3. ASSUME NEW k \in T
      PROVE  m <= k
  <2>1. ~(<<k, m>> \in less)
    BY <1>2
  <2>2. ~(k < m)
    BY <2>1 DEF less, OpToRel
  <2> QED BY <2>2
<1> QED BY <1>3

\* There is a place for every event in a list that is in order.
LEMMA PlaceFound ==
  ASSUME TimerTypes, InOrder, NEW time \in Nat
  PROVE  Places(time) # {}
<1> DEFINE later == {k \in 1..Len(eventQ) : time <= eventQ[k].eventTime}
<1>q. Len(eventQ) \in Nat /\ DOMAIN eventQ = 1..Len(eventQ)
      /\ \A k \in 1..Len(eventQ) : eventQ[k].eventTime \in Nat
  <2>1. eventQ \in Seq(TimerEvent)
    BY DEF TimerTypes
  <2>2. \A k \in 1..Len(eventQ) : eventQ[k] \in TimerEvent
    BY <2>1
  <2> QED BY <2>1, <2>2 DEF TimerEvent
<1>1. CASE later = {}
  <2>1. \A k \in 1..Len(eventQ) : eventQ[k].eventTime < time
    BY <1>1, <1>q
  <2>2. Len(eventQ) + 1 \in Places(time)
    BY <2>1, <1>q DEF Places
  <2> QED BY <2>2
<1>2. CASE later # {}
  <2>1. PICK k \in later : \A i \in later : k <= i
    <3>1. later \subseteq Nat
      BY <1>q
    <3> HIDE DEF later
    <3> QED BY <1>2, <3>1, Smallest
  <2>2. \A i \in 1..k - 1 : eventQ[i].eventTime < time
    <3> SUFFICES ASSUME NEW i \in 1..k - 1
                 PROVE  eventQ[i].eventTime < time
      OBVIOUS
    <3>1. i \in 1..Len(eventQ) /\ ~(k <= i)
      BY <1>q
    <3>2. i \notin later
      BY <2>1, <3>1
    <3> QED BY <3>1, <3>2, <1>q
  <2>3. k \in Places(time)
    BY <2>2, <1>q DEF Places
  <2> QED BY <2>3
<1> QED BY <1>1, <1>2

\* Whoever is under way finds what it waits for, or somebody else goes on.
LEMMA SomebodyGoesOn ==
  ASSUME CPInv, WaitsOK
  PROVE  CallsGoOn
<1> SUFFICES ASSUME NEW t \in Threads, pc[t] \notin {"idle", "finished"},
                    ~WorkerReady, \A u \in Threads : ~CanGoOn(u)
             PROVE  FALSE
  BY DEF CallsGoOn
<1>t. /\ Types /\ TimerTypes /\ InOrder /\ FinishingOK /\ LockOK /\ TimerOK /\ finishing \in Callers \cup {Nobody}
      /\ \A u \in Threads : local[u] \in Locals /\ local[u].grant \in Nat \cup {Infinite}
  <2>1. Types /\ TimerTypes /\ CallTypes /\ InOrder /\ FinishingOK
    BY DEF CPInv, Types
  <2>2. \A u \in Threads : local[u] \in Locals
    BY <2>1 DEF CallTypes
  <2> QED BY <2>1, <2>2 DEF WaitsOK, Locals
<1>n. Nobody \notin Threads
  BY ControlPointAssumption DEF Threads
<1>1. MutexFree /\ shutdown = 0
  BY <1>t DEF WorkerReady, MutexFree, TimerOK
<1>2. \A grant \in Nat \cup {Infinite} : CanSchedule(grant)
  <2> SUFFICES ASSUME NEW grant \in Nat
               PROVE  Places(Earliest(now + grant)) # {}
    BY <1>1 DEF CanSchedule
  <2>1. now \in Nat /\ MaxTime \in Nat
    BY <1>t, TimerAssumption DEF TimerTypes
  <2>2. Earliest(now + grant) \in Nat
    BY <2>1 DEF Earliest
  <2> QED BY <2>2, <1>t, PlaceFound
<1>3. \A u \in Threads : pc[u] \in {"subscribe", "notify", "finHandlers", "finThreads", "idle", "finished"}
  BY <1>1, <1>2, <1>t DEF CanGoOn
<1>4. subscriber = Nobody
  BY <1>3, <1>t DEF LockOK
<1>5. \A u \in Threads : pc[u] \in {"finHandlers", "finThreads", "idle", "finished"}
  BY <1>3, <1>4 DEF CanGoOn
<1>6. \A u \in Threads : pc[u] # "idle" => u = finishing
  BY <1>5, <1>t DEF FinishingOK, Down
<1>7. t = finishing /\ t \in Callers /\ \A u \in Threads \ {t} : Idle(u)
  BY <1>6, <1>t, <1>n DEF Idle
<1>8. \A h \in Handlers : Idle(h)
  BY <1>7, ControlPointAssumption DEF Threads
<1> QED BY <1>5, <1>7, <1>8 DEF CanGoOn

\* Calls, renewals, NOTIFYs and dlnaFinish never wait for each other in a circle: while one of them is under way
\* one has a step to take, or the timer's worker has (lines 558 and 824 of gena_ctrlpt.c, 466-503 of TimerThread.c).
THEOREM NobodyWaitsForEver == Spec => []CallsGoOn
<1>1. Init => WaitsOK
  BY DEF Init, TimerInit, WaitsOK, LockOK, TimerOK
<1>2. CPInv /\ WaitsOK /\ [Next]_vars => WaitsOK'
  BY WaitsOKStep
<1>3. CPInv /\ WaitsOK => CallsGoOn
  BY SomebodyGoesOn
<1>4. Spec => []CPInv
  BY CPInvHolds, PTL
<1> QED BY <1>1, <1>2, <1>3, <1>4, PTL DEF Spec

-----------------------------------------------------------------------------
(* What the steps do to the events *)

RenewalStages == {"renewSent", "renewReplied", "renewFailed", "callback"}

SameEvents == \A u \in Threads : local'[u].event = local[u].event

\* The thread t exchanges its event, the others keep theirs.
Exchange(t, event) ==
  /\ local'[t].event = event
  /\ \A u \in Threads \ {t} : local'[u].event = local[u].event

\* A new event with its own number is scheduled.
ScheduleOne ==
  \E sid \in Nat, time \in Nat : TimerThreadSchedule([event |-> lastEventId, sid |-> sid], time)

ListKept == UNCHANGED <<eventQ, lastEventId>>

EventStep ==
  \/ ListKept /\ jobs' = jobs /\ freed' = freed /\ SameEvents
  \/ WorkerFire /\ freed' = freed /\ SameEvents
  \/ /\ jobs' = jobs /\ SameEvents
     /\ \E sid : Linked(sid) /\ CancelRenewal(sid)
  \/ \E t \in Threads, j \in jobs :
       /\ jobs' = jobs \ {j} /\ local[t].event = NoEvent /\ Exchange(t, j.event)
       /\ Linked(j.sid) /\ CancelRenewal(j.sid)
  \/ \E j \in jobs : ListKept /\ jobs' = jobs \ {j} /\ FreeAll({j.event}) /\ SameEvents
  \/ \E t \in Threads :
       /\ jobs' = jobs /\ FreeAll(Mine(t)) /\ Exchange(t, NoEvent)
       /\ ListKept \/ ScheduleOne
  \/ ScheduleOne /\ jobs' = jobs /\ freed' = freed /\ SameEvents
  \/ /\ TimerThreadShutdown /\ FreeAll({eventQ[i].job.event : i \in DOMAIN eventQ})
     /\ jobs' = jobs /\ SameEvents
  \/ ListKept /\ jobs' = {} /\ FreeAll({j.event : j \in jobs}) /\ SameEvents

\* A thread that keeps its event, or ends without one.
LEMMA KeepsEvent ==
  ASSUME NEW t \in Threads, OthersStay(t), RunsInRenewal,
         local'[t].event = local[t].event,
         local[t].event # NoEvent => pc'[t] \in RenewalStages
  PROVE  SameEvents /\ RunsInRenewal'
BY DEF OthersStay, SameEvents, RunsInRenewal, RenewalStages

LEMMA EventSteps ==
  ASSUME CPInv, OwnedOK, [Next]_vars
  PROVE  EventStep /\ RunsInRenewal'
<1> DEFINE goal == EventStep /\ RunsInRenewal'
<1>p. /\ PcTypes /\ LocalTypes /\ RunsInRenewal
      /\ \A s \in subs : s \in Subscription
      /\ \A t \in Threads : local[t] \in Locals
  BY DEF CPInv, Types, CallTypes, PcTypes, LocalTypes, OwnedOK
<1>a. TimerTypes
  BY DEF CPInv, Types
<1>n. NoLocals.event = NoEvent
  BY DEF NoLocals
<1>w. \A sid, event :
        /\ [NoLocals EXCEPT !.sid = sid, !.event = event].event = event
        /\ [NoLocals EXCEPT !.sid = sid].event = NoEvent
        /\ [NoLocals EXCEPT !.since = clients].event = NoEvent
  BY DEF NoLocals
<1>e. \A t \in Threads : pc[t] \notin RenewalStages => local[t].event = NoEvent
  BY <1>p DEF RunsInRenewal, RenewalStages
<1>k. ASSUME ListKept, jobs' = jobs, freed' = freed, SameEvents, RunsInRenewal'
      PROVE  goal
  BY <1>k DEF EventStep
<1>u. timerVars' = timerVars => ListKept
  BY DEF timerVars, ListKept
<1>m. ASSUME NEW t \in Threads, OthersStay(t), local'[t].event = local[t].event,
             pc[t] \notin RenewalStages
      PROVE  SameEvents /\ RunsInRenewal'
  BY <1>m, <1>e, <1>p, KeepsEvent
<1>s. ASSUME NEW rest, NEW s \in Subscription, NEW grant \in Nat \cup {Infinite},
             ScheduleGenaAutoRenew(rest, s, grant)
      PROVE  ListKept \/ ScheduleOne
  <2>1. PICK r \in Subscription : Rescheduled(s, r)
    BY <1>s, <1>a, AutoRenewEffect
  <2>2. s.sid \in Nat
    BY DEF Subscription
  <2> QED BY <2>1, <2>2, <1>u DEF Rescheduled, ScheduleOne
<1>c. ASSUME NEW sid, RemoveClientSub(sid), jobs' = jobs, SameEvents, RunsInRenewal'
      PROVE  goal
  <2>1. CASE Linked(sid) /\ CancelRenewal(sid)
    BY <1>c, <2>1 DEF EventStep
  <2>2. CASE UNCHANGED <<timerVars, freed>>
    BY <1>c, <2>2, <1>k, <1>u
  <2> QED BY <1>c, <2>1, <2>2, RemoveEffect
<1>d. ASSUME NEW t \in Threads, NEW sid, NEW event, StartRenewal(t, sid, event)
      PROVE  /\ OthersStay(t) /\ Exchange(t, event) /\ pc'[t] = "renewSent" /\ RunsInRenewal'
             /\ CancelRenewal(sid)
  <2>1. /\ OthersStay(t) /\ pc'[t] = "renewSent" /\ CancelRenewal(sid)
        /\ local'[t] = [NoLocals EXCEPT !.sid = sid, !.event = event]
    BY <1>d, <1>p, MoveFacts DEF StartRenewal
  <2>2. Exchange(t, event)
    BY <2>1, <1>w DEF Exchange, OthersStay
  <2>3. RunsInRenewal'
    BY <2>1, <1>p DEF RunsInRenewal, OthersStay
  <2> QED BY <2>1, <2>2, <2>3
<1>r. ASSUME NEW t \in Threads, Return(t)
      PROVE  Exchange(t, NoEvent) /\ RunsInRenewal'
  <2>1. OthersStay(t) /\ pc'[t] = "idle" /\ local'[t] = NoLocals
    BY <1>r, <1>p, MoveFacts
  <2> QED BY <2>1, <1>n, <1>p DEF Exchange, OthersStay, RunsInRenewal
<1>v. ASSUME NEW t \in Threads, Exchange(t, NoEvent), local[t].event = NoEvent
      PROVE  SameEvents
  BY <1>v DEF Exchange, SameEvents
<1>f. ASSUME NEW t \in Threads, Return(t), local[t].event = NoEvent
      PROVE  SameEvents /\ RunsInRenewal'
  BY <1>f, <1>r, <1>v
<1>l. ASSUME local' = local, pc' = pc
      PROVE  SameEvents /\ RunsInRenewal'
  BY <1>l, <1>p DEF SameEvents, RunsInRenewal
<1>1. ASSUME TimerStep \/ UNCHANGED vars
      PROVE  goal
  <2>1. local' = local /\ pc' = pc /\ freed' = freed
    BY <1>1 DEF TimerStep, vars
  <2>2. WorkerFire \/ (ListKept /\ jobs' = jobs)
    BY <1>1, <1>u DEF TimerStep, TimerNext, TimerThreadWorker, WorkerLock, WorkerTimedOut,
                      WorkerReturn, WorkerWait, Tick, vars, ListKept
  <2> QED BY <2>1, <2>2, <1>l DEF EventStep
<1>2. ASSUME NEW t \in Threads, dlnaRegisterClient(t)
      PROVE  goal
  BY <1>2, <1>k, <1>l, <1>u DEF dlnaRegisterClient
<1>3. ASSUME NEW t \in Threads,
             \/ dlnaUnRegisterClient(t) \/ UnregisterSent(t) \/ dlnaFinish(t) \/ SubscribeSend(t)
             \/ FinishServer(t) \/ FinishDone(t)
      PROVE  goal
  <2>1. /\ \E where : Goto(t, where)
        /\ local' = local /\ UNCHANGED <<timerVars, jobs, freed>>
        /\ pc[t] \in {"idle", "unregisterSent", "subscribe", "finWait", "finThreads"}
    BY <1>3 DEF dlnaUnRegisterClient, UnregisterSent, dlnaFinish, SubscribeSend, FinishServer,
                FinishDone, MayCall, Idle, Pass
  <2>2. OthersStay(t) /\ local'[t].event = local[t].event /\ pc[t] \notin RenewalStages
    BY <2>1, <1>p, MoveFacts DEF RenewalStages
  <2>3. SameEvents /\ RunsInRenewal'
    BY <2>2, <1>m
  <2> QED BY <2>1, <2>3, <1>k, <1>u
<1>4. ASSUME NEW t \in Threads, SubscribeCall(t) \/ UnSubscribeCall(t)
      PROVE  goal
  <2>1. UNCHANGED <<timerVars, jobs, freed>> /\ pc[t] = "idle"
    BY <1>4 DEF SubscribeCall, UnSubscribeCall, MayCall, Idle
  <2>2. PICK where, locals :
           /\ Goto(t, where) /\ Keep(t, locals)
           /\ \/ locals = [NoLocals EXCEPT !.since = clients]
              \/ \E sid : locals = [NoLocals EXCEPT !.sid = sid]
    BY <1>4 DEF SubscribeCall, UnSubscribeCall
  <2>3. OthersStay(t) /\ local'[t] = locals
    BY <2>2, <1>p, MoveFacts
  <2>4. locals.event = NoEvent /\ pc[t] \notin RenewalStages
    BY <2>1, <2>2, <1>w DEF RenewalStages
  <2>5. SameEvents /\ RunsInRenewal'
    BY <2>3, <2>4, <1>m, <1>e
  <2> QED BY <2>1, <2>5, <1>k, <1>u
<1>5. ASSUME NEW t \in Threads, RenewCall(t)
      PROVE  goal
  <2>1. PICK s \in subs : StartRenewal(t, s.sid, NoEvent)
    BY <1>5 DEF RenewCall
  <2>2. jobs' = jobs /\ pc[t] = "idle" /\ Linked(s.sid)
    BY <1>5 DEF RenewCall, MayCall, Idle, Linked
  <2>3. local[t].event = NoEvent
    BY <2>2, <1>e DEF RenewalStages
  <2> QED BY <2>1, <2>2, <2>3, <1>d, <1>v DEF EventStep
<1>6. ASSUME NEW t \in Threads, RenewReply(t)
      PROVE  goal
  <2>1. UNCHANGED <<timerVars, jobs, freed>> /\ Goto(t, "renewReplied")
    BY <1>6 DEF RenewReply
  <2>2. \/ local' = local
        \/ \E g \in Grants : Keep(t, [local[t] EXCEPT !.grant = g, !.ok = TRUE])
    BY <1>6 DEF RenewReply
  <2>3. OthersStay(t) /\ pc'[t] = "renewReplied" /\ local'[t].event = local[t].event
    <3>1. CASE local' = local
      BY <2>1, <3>1, <1>p, MoveFacts
    <3>2. ASSUME NEW g \in Grants, Keep(t, [local[t] EXCEPT !.grant = g, !.ok = TRUE])
          PROVE  OthersStay(t) /\ pc'[t] = "renewReplied" /\ local'[t].event = local[t].event
      <4>1. /\ OthersStay(t) /\ pc'[t] = "renewReplied"
            /\ local'[t] = [local[t] EXCEPT !.grant = g, !.ok = TRUE]
        BY <2>1, <3>2, <1>p, MoveFacts
      <4> QED BY <4>1, <1>p DEF Locals
    <3> QED BY <2>2, <3>1, <3>2
  <2>4. SameEvents /\ RunsInRenewal'
    BY <2>3, <1>p, KeepsEvent DEF RenewalStages
  <2> QED BY <2>1, <2>4, <1>k, <1>u
<1>7. ASSUME NEW t \in Threads, RenewDone(t)
      PROVE  goal
  <2> DEFINE sid == local[t].sid
             failed == client /\ ~local[t].ok
  <2>1. /\ jobs' = jobs /\ EndRenewal(t, failed)
        /\ \/ failed /\ RemoveClientSub(sid)
           \/ /\ ~failed /\ FreeAll(Mine(t))
              /\ \/ Linked(sid) /\ ScheduleGenaAutoRenew(Without(sid), Sub(sid), local[t].grant)
                 \/ UNCHANGED timerVars
    BY <1>7 DEF RenewDone
  <2>2. local[t].grant \in Nat \cup {Infinite}
    BY <1>p DEF Locals
  <2> HIDE DEF sid, failed
  <2>3. CASE failed /\ RemoveClientSub(sid)
    <3>1. SameEvents /\ RunsInRenewal'
      <4>1. CASE local[t].event # NoEvent
        <5>1. Goto(t, "renewFailed") /\ local' = local
          BY <2>1, <2>3, <4>1 DEF EndRenewal
        <5>2. OthersStay(t) /\ pc'[t] = "renewFailed" /\ local'[t].event = local[t].event
          BY <5>1, <1>p, MoveFacts
        <5> QED BY <5>2, <1>p, KeepsEvent DEF RenewalStages
      <4>2. CASE local[t].event = NoEvent
        BY <4>2, <2>1, <1>f DEF EndRenewal
      <4> QED BY <4>1, <4>2
    <3> QED BY <2>1, <2>3, <3>1, <1>c
  <2>4. CASE ~failed /\ FreeAll(Mine(t))
    <3>1. Return(t)
      BY <2>1, <2>4 DEF EndRenewal
    <3>2. ListKept \/ ScheduleOne
      <4>1. CASE Linked(sid) /\ ScheduleGenaAutoRenew(Without(sid), Sub(sid), local[t].grant)
        BY <4>1, <2>2, <1>s, <1>p, Found
      <4>2. CASE UNCHANGED timerVars
        BY <4>2, <1>u
      <4> QED BY <2>1, <2>4, <4>1, <4>2
    <3> QED BY <2>1, <2>4, <3>1, <3>2, <1>r DEF EventStep
  <2> QED BY <2>1, <2>3, <2>4
<1>8. ASSUME NEW t \in Threads, genaUnregisterClient(t)
      PROVE  goal
  <2>1. jobs' = jobs /\ local[t].event = NoEvent /\ pc[t] \notin RenewalStages
    <3>1. jobs' = jobs /\ pc[t] = "unregister"
      BY <1>8 DEF genaUnregisterClient
    <3> QED BY <3>1, <1>e DEF RenewalStages
  <2>2. SameEvents /\ RunsInRenewal'
    <3>1. Back(t) \/ (local' = local /\ (Goto(t, "unregistered") \/ Goto(t, "unregisterSent")))
      BY <1>8 DEF genaUnregisterClient
    <3>2. OthersStay(t) /\ local'[t].event = local[t].event
      BY <3>1, <2>1, <1>n, <1>p, MoveFacts
    <3> QED BY <3>2, <2>1, <1>m
  <2>3. UNCHANGED <<timerVars, freed>> \/ \E sid : RemoveClientSub(sid)
    BY <1>8 DEF genaUnregisterClient
  <2> QED BY <2>1, <2>2, <2>3, <1>c, <1>k, <1>u
<1>9. ASSUME NEW t \in Threads, UnregisterDone(t)
      PROVE  goal
  <2>1. UNCHANGED <<timerVars, jobs, freed>> /\ Back(t) /\ pc[t] = "unregistered"
    BY <1>9 DEF UnregisterDone
  <2>2. local[t].event = NoEvent /\ pc[t] \notin RenewalStages
    BY <2>1, <1>e DEF RenewalStages
  <2>3. OthersStay(t) /\ local'[t].event = local[t].event
    BY <2>1, <2>2, <1>n, <1>p, MoveFacts
  <2>4. SameEvents /\ RunsInRenewal'
    BY <2>2, <2>3, <1>m
  <2> QED BY <2>1, <2>4, <1>k, <1>u
<1>10. ASSUME NEW t \in Threads, SubscribeReply(t)
       PROVE  goal
  <2>1. UNCHANGED <<timerVars, jobs, freed>> /\ Goto(t, "subscribeReplied")
        /\ pc[t] = "subscribeSent"
    BY <1>10 DEF SubscribeReply
  <2>2. \/ local' = local
        \/ \E g \in Grants : Keep(t, [local[t] EXCEPT !.sid = granted', !.grant = g, !.ok = TRUE])
    BY <1>10 DEF SubscribeReply
  <2>3. OthersStay(t) /\ local'[t].event = local[t].event
    <3>1. CASE local' = local
      BY <2>1, <3>1, <1>p, MoveFacts
    <3>2. ASSUME NEW g \in Grants,
                 Keep(t, [local[t] EXCEPT !.sid = granted', !.grant = g, !.ok = TRUE])
          PROVE  OthersStay(t) /\ local'[t].event = local[t].event
      <4>1. /\ OthersStay(t)
            /\ local'[t] = [local[t] EXCEPT !.sid = granted', !.grant = g, !.ok = TRUE]
        BY <2>1, <3>2, <1>p, MoveFacts
      <4> QED BY <4>1, <1>p DEF Locals
    <3> QED BY <2>2, <3>1, <3>2
  <2>4. SameEvents /\ RunsInRenewal'
    BY <2>1, <2>3, <1>m DEF RenewalStages
  <2> QED BY <2>1, <2>4, <1>k, <1>u
<1>11. ASSUME NEW t \in Threads, SubscribeDone(t)
       PROVE  goal
  <2>1. UNCHANGED <<jobs, freed>> /\ Return(t) /\ pc[t] = "subscribeReplied"
    BY <1>11 DEF SubscribeDone
  <2>2. SameEvents /\ RunsInRenewal'
    BY <2>1, <1>e, <1>f DEF RenewalStages
  <2>3. \/ ScheduleGenaAutoRenew(subs, NewSubscription(t), local[t].grant)
        \/ UNCHANGED timerVars
    BY <1>11 DEF SubscribeDone
  <2>4. NewSubscription(t) \in Subscription /\ local[t].grant \in Nat \cup {Infinite}
    BY <1>p DEF Locals, NewSubscription, Subscription
  <2>5. ListKept \/ ScheduleOne
    BY <2>3, <2>4, <1>s, <1>u
  <2> QED BY <2>1, <2>2, <2>5, <1>k DEF EventStep
<1>12. ASSUME NEW t \in Threads, UnSubscribeDone(t)
       PROVE  goal
  <2>1. jobs' = jobs /\ Return(t) /\ pc[t] = "unsubscribeSent"
        /\ (UNCHANGED <<timerVars, freed>> \/ RemoveClientSub(local[t].sid))
    BY <1>12 DEF UnSubscribeDone
  <2>2. SameEvents /\ RunsInRenewal'
    BY <2>1, <1>e, <1>f DEF RenewalStages
  <2> QED BY <2>1, <2>2, <1>c, <1>k, <1>u
<1>13. ASSUME NEW t \in Threads, CallbackReturns(t)
       PROVE  goal
  <2>1. UNCHANGED <<timerVars, jobs>> /\ FreeAll(Mine(t)) /\ Return(t)
    BY <1>13 DEF CallbackReturns
  <2> QED BY <2>1, <1>r, <1>u DEF EventStep
<1>14. ASSUME NEW t \in Threads, EventReturns(t)
       PROVE  goal
  <2>1. UNCHANGED <<timerVars, jobs, freed>> /\ Return(t) /\ pc[t] = "event"
    BY <1>14 DEF EventReturns
  <2>2. SameEvents /\ RunsInRenewal'
    BY <2>1, <1>e, <1>f DEF RenewalStages
  <2> QED BY <2>1, <2>2, <1>k, <1>u
<1>15. ASSUME NEW t \in Threads, FinishTimer(t) \/ FinishJobs(t)
       PROVE  goal
  <2>1. \/ /\ TimerThreadShutdown /\ FreeAll({eventQ[i].job.event : i \in DOMAIN eventQ})
           /\ jobs' = jobs
        \/ ListKept /\ jobs' = {} /\ FreeAll({j.event : j \in jobs})
    BY <1>15, <1>u DEF FinishTimer, FinishJobs
  <2>2. /\ local' = local /\ pc[t] \in {"finTimer", "finHandlers"}
        /\ \E where : Goto(t, where)
    BY <1>15 DEF FinishTimer, FinishJobs, Pass
  <2>3. OthersStay(t) /\ local'[t].event = local[t].event /\ pc[t] \notin RenewalStages
    BY <2>2, <1>p, MoveFacts DEF RenewalStages
  <2>4. SameEvents /\ RunsInRenewal'
    BY <2>3, <1>m
  <2> QED BY <2>1, <2>4 DEF EventStep
<1>16. ASSUME NEW t \in Threads, AutoRenew(t)
       PROVE  goal
  <2>1. PICK j \in jobs :
           /\ jobs' = jobs \ {j}
           /\ IF client /\ Linked(j.sid)
              THEN StartRenewal(t, j.sid, j.event)
              ELSE FreeAll({j.event}) /\ UNCHANGED <<timerVars, subs, pc, local>>
    BY <1>16 DEF AutoRenew
  <2>2. local[t].event = NoEvent
    BY <1>16, <1>e DEF AutoRenew, Idle, RenewalStages
  <2>3. CASE client /\ Linked(j.sid)
    <3>1. StartRenewal(t, j.sid, j.event)
      BY <2>1, <2>3
    <3>2. Exchange(t, j.event) /\ RunsInRenewal' /\ CancelRenewal(j.sid)
      BY <3>1, <1>d
    <3> QED BY <2>1, <2>2, <2>3, <3>2 DEF EventStep
  <2>4. CASE ~(client /\ Linked(j.sid))
    <3>1. FreeAll({j.event}) /\ UNCHANGED <<timerVars, subs, pc, local>>
      BY <2>1, <2>4
    <3> QED BY <2>1, <3>1, <1>l, <1>u DEF EventStep
  <2> QED BY <2>3, <2>4
<1>17. ASSUME NEW t \in Threads, ReportFailure(t)
       PROVE  goal
  <2>1. UNCHANGED <<timerVars, jobs>>
    BY <1>17 DEF ReportFailure
  <2>2. CASE Goto(t, "callback") /\ UNCHANGED <<local, freed>>
    <3>1. OthersStay(t) /\ pc'[t] = "callback" /\ local'[t].event = local[t].event
      BY <2>2, <1>p, MoveFacts
    <3>2. SameEvents /\ RunsInRenewal'
      BY <3>1, <1>p, KeepsEvent DEF RenewalStages
    <3> QED BY <2>1, <2>2, <3>2, <1>k, <1>u
  <2>3. CASE FreeAll(Mine(t)) /\ Return(t)
    BY <2>1, <2>3, <1>r, <1>u DEF EventStep
  <2> QED BY <1>17, <2>2, <2>3 DEF ReportFailure
<1>18. ASSUME NEW h \in Threads, NotifyLook(h) \/ NotifyLookAgain(h)
       PROVE  goal
  <2>1. UNCHANGED <<timerVars, jobs, freed>> /\ pc[h] \in {"idle", "notify"}
    BY <1>18 DEF NotifyLook, NotifyLookAgain, Idle
  <2>2. \/ Return(h)
        \/ \E where : Goto(h, where) /\ Keep(h, NoLocals)
        \/ \E where, sid : Goto(h, where) /\ Keep(h, [NoLocals EXCEPT !.sid = sid])
    BY <1>18 DEF NotifyLook, NotifyLookAgain, Answer
  <2>3. OthersStay(h) /\ local'[h].event = NoEvent
    <3>1. CASE Return(h)
      BY <3>1, <1>n, <1>p, MoveFacts
    <3>2. ASSUME NEW where, Goto(h, where), Keep(h, NoLocals)
          PROVE  OthersStay(h) /\ local'[h].event = NoEvent
      BY <3>2, <1>n, <1>p, MoveFacts
    <3>3. ASSUME NEW where, NEW sid, Goto(h, where), Keep(h, [NoLocals EXCEPT !.sid = sid])
          PROVE  OthersStay(h) /\ local'[h].event = NoEvent
      <4>1. OthersStay(h) /\ local'[h] = [NoLocals EXCEPT !.sid = sid]
        BY <3>3, <1>p, MoveFacts
      <4> QED BY <4>1, <1>w
    <3> QED BY <2>2, <3>1, <3>2, <3>3
  <2>4. SameEvents /\ RunsInRenewal'
    BY <2>1, <2>3, <1>m, <1>e DEF RenewalStages
  <2> QED BY <2>1, <2>4, <1>k, <1>u
<1> HIDE DEF goal
<1>19. ASSUME NEW t \in Callers, CallStep(t)
       PROVE  goal
  <2>0. t \in Threads
    BY DEF Threads
  <2> QED BY <2>0, <1>19, <1>3, <1>6, <1>7, <1>8, <1>9, <1>10, <1>11, <1>12, <1>15 DEF CallStep
<1>20. ASSUME NEW t \in Callers,
              \/ dlnaRegisterClient(t) \/ dlnaUnRegisterClient(t) \/ dlnaFinish(t)
              \/ SubscribeCall(t) \/ RenewCall(t) \/ UnSubscribeCall(t)
              \/ CallStep(t)
       PROVE  goal
  <2>0. t \in Threads
    BY DEF Threads
  <2> QED BY <2>0, <1>20, <1>2, <1>3, <1>4, <1>5, <1>19
<1>21. ASSUME NEW w \in Workers, WorkerStep(w)
       PROVE  goal
  <2>0. w \in Threads
    BY DEF Threads
  <2> QED BY <2>0, <1>21, <1>6, <1>7, <1>13, <1>16, <1>17 DEF WorkerStep
<1>22. ASSUME NEW h \in Handlers, HandlerStep(h)
       PROVE  goal
  <2>0. h \in Threads
    BY DEF Threads
  <2> QED BY <2>0, <1>22, <1>14, <1>18 DEF HandlerStep
<1>23. goal
  BY <1>1, <1>20, <1>21, <1>22 DEF Next
<1> QED BY <1>23 DEF goal
-----------------------------------------------------------------------------
(* Who owns the events *)

Owned == Waiting \cup Handed \cup Running

\* What is freed was owned, and what is new is owned: the account stays even.
LEMMA Balance ==
  ASSUME lastEventId \in Nat, freed \in [Events -> Nat], FreedOnce, Apart,
         NEW F, F \subseteq Owned, FreeAll(F) \/ (F = {} /\ freed' = freed),
         \/ lastEventId' = lastEventId /\ Owned' = Owned \ F
         \/ lastEventId' = lastEventId + 1 /\ Owned' = (Owned \ F) \cup {lastEventId}
  PROVE  FreedOnce' /\ \A e \in Owned' : e \in Nat /\ e < lastEventId'
<1>1. \A e \in Owned : e \in Nat /\ e < lastEventId
  BY DEF Apart, Owned
<1>2. \A e \in Owned' : e \in Nat /\ e < lastEventId'
  BY <1>1
<1>3. \A e \in Events : e \in Nat
  BY TimerAssumption DEF Events
<1>4. \A e \in Events : freed'[e] = IF e \in F THEN freed[e] + 1 ELSE freed[e]
  BY DEF FreeAll
<1>5. \A e \in Events : freed[e] = IF e \in Owned \/ lastEventId <= e THEN 0 ELSE 1
  BY DEF FreedOnce, Owned
<1>6. ASSUME NEW e \in Events
      PROVE  freed'[e] = IF e \in Owned' \/ lastEventId' <= e THEN 0 ELSE 1
  <2>1. CASE e \in F
    <3>1. e \in Owned /\ e < lastEventId /\ freed[e] = 0
      BY <2>1, <1>1, <1>5
    <3>2. e \notin Owned' /\ ~(lastEventId' <= e)
      BY <2>1, <3>1, <1>3
    <3> QED BY <2>1, <3>1, <3>2, <1>4
  <2>2. CASE e \notin F
    <3>1. freed'[e] = freed[e]
      BY <2>2, <1>4
    <3>2. e \in Owned' \/ lastEventId' <= e <=> e \in Owned \/ lastEventId <= e
      BY <2>2, <1>3, <1>1
    <3> QED BY <3>1, <3>2, <1>5
  <2> QED BY <2>1, <2>2
<1>7. FreedOnce'
  BY <1>6 DEF FreedOnce, Owned
<1> QED BY <1>2, <1>7

LEMMA BalanceKept ==
  ASSUME lastEventId \in Nat, freed \in [Events -> Nat], FreedOnce, Apart, freed' = freed,
         \/ lastEventId' = lastEventId /\ Owned' = Owned
         \/ lastEventId' = lastEventId + 1 /\ Owned' = Owned \cup {lastEventId}
  PROVE  FreedOnce' /\ \A e \in Owned' : e \in Nat /\ e < lastEventId'
<1> DEFINE F == {}
<1>1. F \subseteq Owned /\ F = {} /\ Owned \ F = Owned
  OBVIOUS
<1> HIDE DEF F
<1> QED BY <1>1, Balance

\* The threads with an event, when they keep theirs or one of them exchanges it.
LEMMA RunningSame ==
  ASSUME SameEvents
  PROVE  Running' = Running
BY DEF SameEvents, Running

LEMMA RunningDone ==
  ASSUME OneEach, NEW t \in Threads, Exchange(t, NoEvent)
  PROVE  /\ Running' = Running \ Mine(t) /\ Mine(t) \subseteq Running
         /\ \A u, v \in Threads :
              local'[u].event = local'[v].event => u = v \/ local'[u].event = NoEvent
<1>1. Mine(t) = {local[t].event} \ {NoEvent}
  BY DEF Mine
<1>2. \A u \in Threads \ {t} : local[u].event # NoEvent => local[u].event # local[t].event
  BY DEF OneEach
<1>3. \A u, v \in Threads :
        local'[u].event = local'[v].event => u = v \/ local'[u].event = NoEvent
  BY DEF OneEach, Exchange
<1>4. ASSUME NEW e
      PROVE  e \in Running' <=> e \in Running /\ e \notin Mine(t)
  <2>1. e \in Running' <=> \E u \in Threads : local'[u].event = e /\ e # NoEvent
    BY DEF Running
  <2>2. e \in Running <=> \E u \in Threads : local[u].event = e /\ e # NoEvent
    BY DEF Running
  <2> QED BY <2>1, <2>2, <1>1, <1>2 DEF Exchange
<1> QED BY <1>1, <1>3, <1>4 DEF Running

LEMMA RunningTaken ==
  ASSUME OneEach, NEW t \in Threads, NEW event, event # NoEvent, event \notin Running,
         local[t].event = NoEvent, Exchange(t, event)
  PROVE  /\ Running' = Running \cup {event}
         /\ \A u, v \in Threads :
              local'[u].event = local'[v].event => u = v \/ local'[u].event = NoEvent
<1>1. \A u \in Threads : local[u].event # event
  BY DEF Running
<1>2. \A u, v \in Threads :
        local'[u].event = local'[v].event => u = v \/ local'[u].event = NoEvent
  BY <1>1 DEF OneEach, Exchange
<1>3. ASSUME NEW e
      PROVE  e \in Running' <=> e \in Running \/ e = event
  <2>1. e \in Running' <=> \E u \in Threads : local'[u].event = e /\ e # NoEvent
    BY DEF Running
  <2>2. e \in Running <=> \E u \in Threads : local[u].event = e /\ e # NoEvent
    BY DEF Running
  <2> QED BY <2>1, <2>2 DEF Exchange
<1> QED BY <1>2, <1>3

\* The jobs, when one of them goes.
LEMMA HandedWithout ==
  ASSUME OneEach, NEW j \in jobs, jobs' = jobs \ {j}
  PROVE  /\ Handed' = Handed \ {j.event} /\ j.event \in Handed
         /\ \A i, k \in jobs' : i.event = k.event => i = k
BY DEF OneEach, Handed

\* An event that is waiting and cancelled is freed; one that is not, is not.
LEMMA Cancelled ==
  ASSUME TimerTypes, InOrder, OneEach, NEW sid, CancelRenewal(sid)
  PROVE  /\ IdsDiffer'
         /\ Entries' = {e \in Entries : e.id # Sub(sid).RenewEventId}
         /\ Waiting' = Waiting \ {Sub(sid).RenewEventId}
         /\ FreeAll(Waiting \cap {Sub(sid).RenewEventId})
         /\ lastEventId' = lastEventId
<1> DEFINE id == Sub(sid).RenewEventId
<1>1. TimerThreadRemove(id) /\ FreeAll(IF Queued(id) THEN {id} ELSE {})
  BY DEF CancelRenewal
<1> HIDE DEF id
<1>2. IdsDiffer' /\ Entries' = {e \in Entries : e.id # id}
  BY <1>1, Removed DEF OneEach
<1>3. Waiting' = Waiting \ {id}
  BY <1>2 DEF Waiting
<1>4. Queued(id) <=> id \in Waiting
  BY DEF Queued, Waiting, Entries
<1>5. (IF Queued(id) THEN {id} ELSE {}) = Waiting \cap {id}
  BY <1>4
<1>6. FreeAll(Waiting \cap {id}) /\ lastEventId' = lastEventId
  BY <1>1, <1>5 DEF TimerThreadRemove
<1> QED BY <1>2, <1>3, <1>6 DEF id

\* An event that is scheduled waits under a new number.
LEMMA ScheduledOne ==
  ASSUME TimerTypes, InOrder, OneEach, Apart, ScheduleOne
  PROVE  /\ IdsDiffer'
         /\ \A e \in Entries' : e.job.event = e.id
         /\ Waiting' = Waiting \cup {lastEventId}
         /\ lastEventId' = lastEventId + 1
<1>1. PICK sid \in Nat, time \in Nat :
         TimerThreadSchedule([event |-> lastEventId, sid |-> sid], time)
  BY DEF ScheduleOne
<1> DEFINE job == [event |-> lastEventId, sid |-> sid]
<1>2. job \in [event : Nat, sid : Nat] /\ job.event = lastEventId
  BY DEF TimerTypes
<1>3. /\ lastEventId' = lastEventId + 1
      /\ \E k \in Places(time) : eventQ' = InsertAt(eventQ, k, EventFor(job, time))
  BY <1>1 DEF TimerThreadSchedule
<1> HIDE DEF job
<1>4. \A e \in Entries : e.id < lastEventId
  BY DEF Apart, Waiting
<1>5. IdsDiffer' /\ Entries' = Entries \cup {EventFor(job, time)}
  BY <1>2, <1>3, <1>4, Scheduled DEF OneEach
<1>6. EventFor(job, time).id = lastEventId /\ EventFor(job, time).job.event = lastEventId
  BY <1>2 DEF EventFor
<1>7. Waiting' = Waiting \cup {lastEventId}
  BY <1>5, <1>6 DEF Waiting
<1> QED BY <1>3, <1>5, <1>6, <1>7 DEF OneEach

\* The list as it was.
LEMMA ListSame ==
  ASSUME OneEach, ListKept
  PROVE  /\ Entries' = Entries /\ Waiting' = Waiting /\ lastEventId' = lastEventId
         /\ IdsDiffer' /\ \A e \in Entries' : e.job.event = e.id
BY DEF ListKept, Entries, Waiting, IdsDiffer, OneEach
\* Every event goes from the timer to the pool and on to a thread, and each of them
\* frees it or hands it on.
LEMMA OwnedStep ==
  ASSUME CPInv, OwnedOK, PoolHasRoom, [Next]_vars
  PROVE  OwnedOK'
<1>t. /\ TimerTypes /\ InOrder /\ OneEach /\ Apart /\ FreedOnce /\ lastEventId \in Nat
      /\ freed \in [Events -> Nat] /\ \A j \in jobs : j.event \in Nat
  BY DEF CPInv, Types, TimerTypes, EventTypes, OwnedOK
<1>a. /\ Waiting \cap Handed = {} /\ Waiting \cap Running = {} /\ Handed \cap Running = {}
      /\ \A e \in Owned : e \in Nat /\ e < lastEventId
  BY <1>t DEF Apart, Owned
<1>u. \A u, v \in Threads : local[u].event = local[v].event => u = v \/ local[u].event = NoEvent
  BY <1>t DEF OneEach
<1>j. \A i, k \in jobs : i.event = k.event => i = k
  BY <1>t DEF OneEach
<1>d. jobs' = jobs => Handed' = Handed
  BY DEF Handed
<1>s. SameEvents => \A u, v \in Threads :
        local'[u].event = local'[v].event => u = v \/ local'[u].event = NoEvent
  BY <1>u DEF SameEvents
<1>n. NoEvent \notin Nat
  BY DEF NoEvent
<1>o. Owned = Waiting \cup Handed \cup Running /\ Owned' = Waiting' \cup Handed' \cup Running'
  BY DEF Owned
<1>q. ASSUME IdsDiffer', \A e \in Entries' : e.job.event = e.id,
             \A i, k \in jobs' : i.event = k.event => i = k,
             \A u, v \in Threads :
               local'[u].event = local'[v].event => u = v \/ local'[u].event = NoEvent,
             Waiting' \cap Handed' = {}, Waiting' \cap Running' = {}, Handed' \cap Running' = {},
             FreedOnce', \A e \in Owned' : e \in Nat /\ e < lastEventId'
      PROVE  OwnedOK'
  <2>1. OneEach'
    BY <1>q DEF OneEach
  <2>2. Apart'
    BY <1>q DEF Apart, Owned
  <2> QED BY <2>1, <2>2, <1>q, EventSteps DEF OwnedOK
<1>1. CASE ListKept /\ jobs' = jobs /\ freed' = freed /\ SameEvents
  <2>1. /\ Waiting' = Waiting /\ Handed' = Handed /\ Running' = Running
        /\ lastEventId' = lastEventId /\ IdsDiffer' /\ \A e \in Entries' : e.job.event = e.id
    BY <1>1, <1>t, <1>d, ListSame, RunningSame
  <2>2. Owned' = Owned
    BY <2>1, <1>o
  <2>3. FreedOnce' /\ \A e \in Owned' : e \in Nat /\ e < lastEventId'
    BY <2>1, <2>2, <1>1, <1>t, BalanceKept
  <2> QED BY <2>1, <2>3, <1>1, <1>a, <1>j, <1>s, <1>q
<1>2. CASE WorkerFire /\ freed' = freed /\ SameEvents
  <2> DEFINE e0 == Head(eventQ)
  <2>1. eventQ # <<>> /\ eventQ' = Tail(eventQ) /\ lastEventId' = lastEventId
        /\ jobs' = jobs \cup {e0.job}
    <3>1. timer = "run" /\ shutdown = 0 /\ Due
      BY <1>2 DEF WorkerFire
    <3>2. Cardinality(jobs) < MaxJobs
      BY <3>1 DEF PoolHasRoom
    <3> QED BY <1>2, <3>2 DEF WorkerFire, Due
  <2>2. e0 \in Entries /\ IdsDiffer' /\ Entries' = {e \in Entries : e.id # e0.id}
    BY <2>1, <1>t, Fired DEF OneEach
  <2> HIDE DEF e0
  <2>3. e0.job.event = e0.id /\ \A e \in Entries' : e.job.event = e.id
    BY <2>2, <1>t DEF OneEach
  <2>4. Waiting' = Waiting \ {e0.id} /\ e0.id \in Waiting
    BY <2>2 DEF Waiting
  <2>5. Handed' = Handed \cup {e0.id}
    BY <2>1, <2>3 DEF Handed
  <2>6. Running' = Running
    BY <1>2, RunningSame
  <2>7. \A i, k \in jobs' : i.event = k.event => i = k
    <3>1. \A j \in jobs : j.event # e0.id
      BY <2>4, <1>a DEF Handed
    <3> QED BY <3>1, <2>1, <2>3, <1>j
  <2>8. Owned' = Owned
    BY <2>4, <2>5, <2>6, <1>o
  <2>9. FreedOnce' /\ \A e \in Owned' : e \in Nat /\ e < lastEventId'
    BY <2>1, <2>8, <1>2, <1>t, BalanceKept
  <2>10. Waiting' \cap Handed' = {} /\ Waiting' \cap Running' = {} /\ Handed' \cap Running' = {}
    BY <2>4, <2>5, <2>6, <1>a
  <2> QED BY <2>2, <2>3, <2>7, <2>9, <2>10, <1>2, <1>s, <1>q
<1>3. ASSUME jobs' = jobs, SameEvents, NEW sid, CancelRenewal(sid)
      PROVE  OwnedOK'
  <2> DEFINE id == Sub(sid).RenewEventId
             F == Waiting \cap {id}
  <2>1. /\ IdsDiffer' /\ Entries' \subseteq Entries /\ Waiting' = Waiting \ {id} /\ FreeAll(F)
        /\ lastEventId' = lastEventId
    BY <1>3, <1>t, Cancelled
  <2>2. Handed' = Handed /\ Running' = Running
    BY <1>3, <1>d, RunningSame
  <2>f. F = Waiting \cap {id}
    OBVIOUS
  <2> HIDE DEF id, F
  <2>3. Owned' = Owned \ F /\ F \subseteq Owned
    BY <2>1, <2>2, <2>f, <1>o, <1>a
  <2>4. FreedOnce' /\ \A e \in Owned' : e \in Nat /\ e < lastEventId'
    BY <2>1, <2>3, <1>t, Balance
  <2>5. \A e \in Entries' : e.job.event = e.id
    BY <2>1, <1>t DEF OneEach
  <2>6. Waiting' \cap Handed' = {} /\ Waiting' \cap Running' = {} /\ Handed' \cap Running' = {}
    BY <2>1, <2>2, <1>a
  <2> QED BY <2>1, <2>4, <2>5, <2>6, <1>3, <1>j, <1>s, <1>q
<1>4. ASSUME NEW t \in Threads, NEW j \in jobs, jobs' = jobs \ {j}, local[t].event = NoEvent,
             Exchange(t, j.event), CancelRenewal(j.sid)
      PROVE  OwnedOK'
  <2> DEFINE id == Sub(j.sid).RenewEventId
             F == Waiting \cap {id}
  <2>1. /\ IdsDiffer' /\ Entries' \subseteq Entries /\ Waiting' = Waiting \ {id} /\ FreeAll(F)
        /\ lastEventId' = lastEventId
    BY <1>4, <1>t, Cancelled
  <2>2. /\ Handed' = Handed \ {j.event} /\ j.event \in Handed
        /\ \A i, k \in jobs' : i.event = k.event => i = k
    BY <1>4, <1>t, HandedWithout
  <2>3. j.event # NoEvent /\ j.event \notin Running
    BY <2>2, <1>t, <1>n, <1>a
  <2>4. /\ Running' = Running \cup {j.event}
        /\ \A u, v \in Threads :
             local'[u].event = local'[v].event => u = v \/ local'[u].event = NoEvent
    BY <2>3, <1>4, <1>t, RunningTaken
  <2>f. F = Waiting \cap {id}
    OBVIOUS
  <2> HIDE DEF id, F
  <2>5. Owned' = Owned \ F /\ F \subseteq Owned
    BY <2>1, <2>2, <2>4, <2>f, <1>o, <1>a
  <2>6. FreedOnce' /\ \A e \in Owned' : e \in Nat /\ e < lastEventId'
    BY <2>1, <2>5, <1>t, Balance
  <2>7. \A e \in Entries' : e.job.event = e.id
    BY <2>1, <1>t DEF OneEach
  <2>8. Waiting' \cap Handed' = {} /\ Waiting' \cap Running' = {} /\ Handed' \cap Running' = {}
    BY <2>1, <2>2, <2>4, <1>a
  <2> QED BY <2>1, <2>2, <2>4, <2>6, <2>7, <2>8, <1>q
<1>5. ASSUME NEW j \in jobs, ListKept, jobs' = jobs \ {j}, FreeAll({j.event}), SameEvents
      PROVE  OwnedOK'
  <2>1. /\ Waiting' = Waiting /\ lastEventId' = lastEventId /\ IdsDiffer'
        /\ \A e \in Entries' : e.job.event = e.id
    BY <1>5, <1>t, ListSame
  <2>2. /\ Handed' = Handed \ {j.event} /\ j.event \in Handed
        /\ \A i, k \in jobs' : i.event = k.event => i = k
    BY <1>5, <1>t, HandedWithout
  <2>3. Running' = Running
    BY <1>5, RunningSame
  <2>4. Owned' = Owned \ {j.event} /\ {j.event} \subseteq Owned
    BY <2>1, <2>2, <2>3, <1>o, <1>a
  <2>5. FreedOnce' /\ \A e \in Owned' : e \in Nat /\ e < lastEventId'
    BY <2>1, <2>4, <1>5, <1>t, Balance
  <2>6. Waiting' \cap Handed' = {} /\ Waiting' \cap Running' = {} /\ Handed' \cap Running' = {}
    BY <2>1, <2>2, <2>3, <1>a
  <2> QED BY <2>1, <2>2, <2>5, <2>6, <1>5, <1>s, <1>q
<1>6. ASSUME NEW t \in Threads, jobs' = jobs, FreeAll(Mine(t)), Exchange(t, NoEvent),
             ListKept \/ ScheduleOne
      PROVE  OwnedOK'
  <2>1. /\ Running' = Running \ Mine(t) /\ Mine(t) \subseteq Running /\ Handed' = Handed
        /\ \A u, v \in Threads :
             local'[u].event = local'[v].event => u = v \/ local'[u].event = NoEvent
    BY <1>6, <1>t, <1>d, RunningDone
  <2> DEFINE F == Mine(t)
  <2>f. F = Mine(t)
    OBVIOUS
  <2> HIDE DEF F
  <2>2. /\ IdsDiffer' /\ \A e \in Entries' : e.job.event = e.id
        /\ \/ Waiting' = Waiting /\ lastEventId' = lastEventId
           \/ Waiting' = Waiting \cup {lastEventId} /\ lastEventId' = lastEventId + 1
    BY <1>6, <1>t, ListSame, ScheduledOne
  <2>3. lastEventId \notin Owned
    BY <1>a, <1>t
  <2>4. /\ F \subseteq Owned /\ FreeAll(F)
        /\ \/ lastEventId' = lastEventId /\ Owned' = Owned \ F
           \/ lastEventId' = lastEventId + 1 /\ Owned' = (Owned \ F) \cup {lastEventId}
    BY <2>1, <2>2, <2>f, <1>6, <1>o, <1>a
  <2>5. FreedOnce' /\ \A e \in Owned' : e \in Nat /\ e < lastEventId'
    BY <2>4, <1>t, Balance
  <2>6. Waiting' \cap Handed' = {} /\ Waiting' \cap Running' = {} /\ Handed' \cap Running' = {}
    BY <2>1, <2>2, <2>3, <1>o, <1>a
  <2> QED BY <2>1, <2>2, <2>5, <2>6, <1>6, <1>j, <1>q
<1>7. CASE ScheduleOne /\ jobs' = jobs /\ freed' = freed /\ SameEvents
  <2>1. /\ IdsDiffer' /\ \A e \in Entries' : e.job.event = e.id
        /\ Waiting' = Waiting \cup {lastEventId} /\ lastEventId' = lastEventId + 1
        /\ Handed' = Handed /\ Running' = Running
    BY <1>7, <1>t, <1>d, ScheduledOne, RunningSame
  <2>2. lastEventId \notin Owned
    BY <1>a, <1>t
  <2>3. Owned' = Owned \cup {lastEventId}
    BY <2>1, <1>o
  <2>4. FreedOnce' /\ \A e \in Owned' : e \in Nat /\ e < lastEventId'
    BY <2>1, <2>3, <1>7, <1>t, BalanceKept
  <2>5. Waiting' \cap Handed' = {} /\ Waiting' \cap Running' = {} /\ Handed' \cap Running' = {}
    BY <2>1, <2>2, <1>o, <1>a
  <2> QED BY <2>1, <2>4, <2>5, <1>7, <1>j, <1>s, <1>q
<1>8. CASE /\ TimerThreadShutdown /\ FreeAll({eventQ[i].job.event : i \in DOMAIN eventQ})
           /\ jobs' = jobs /\ SameEvents
  <2>1. eventQ' = <<>> /\ lastEventId' = lastEventId
    BY <1>8 DEF TimerThreadShutdown
  <2>2. IdsDiffer' /\ Entries' = {} /\ Waiting' = {}
    BY <2>1 DEF IdsDiffer, Entries, Waiting
  <2>3. {eventQ[i].job.event : i \in DOMAIN eventQ} = Waiting
    <3>1. \A i \in DOMAIN eventQ : eventQ[i] \in Entries /\ eventQ[i].job.event = eventQ[i].id
      BY <1>t DEF OneEach, Entries
    <3>2. Waiting = {eventQ[i].id : i \in DOMAIN eventQ}
      BY DEF Waiting, Entries
    <3> QED BY <3>1, <3>2
  <2>4. Handed' = Handed /\ Running' = Running
    BY <1>8, <1>d, RunningSame
  <2>5. Owned' = Owned \ Waiting /\ Waiting \subseteq Owned /\ FreeAll(Waiting)
    BY <2>2, <2>3, <2>4, <1>8, <1>o, <1>a
  <2>6. FreedOnce' /\ \A e \in Owned' : e \in Nat /\ e < lastEventId'
    BY <2>1, <2>5, <1>t, Balance
  <2> QED BY <2>2, <2>4, <2>6, <1>8, <1>a, <1>j, <1>s, <1>q
<1>9. CASE ListKept /\ jobs' = {} /\ FreeAll({j.event : j \in jobs}) /\ SameEvents
  <2>1. /\ Waiting' = Waiting /\ lastEventId' = lastEventId /\ IdsDiffer'
        /\ \A e \in Entries' : e.job.event = e.id /\ Running' = Running
    BY <1>9, <1>t, ListSame, RunningSame
  <2>2. Handed' = {} /\ FreeAll(Handed)
    BY <1>9 DEF Handed
  <2>r. Running' = Running
    BY <1>9, RunningSame
  <2>3. Owned' = Owned \ Handed /\ Handed \subseteq Owned
    BY <2>1, <2>2, <2>r, <1>o, <1>a
  <2>4. FreedOnce' /\ \A e \in Owned' : e \in Nat /\ e < lastEventId'
    BY <2>1, <2>2, <2>3, <1>t, Balance
  <2> QED BY <2>1, <2>2, <2>r, <2>4, <1>9, <1>a, <1>s, <1>q
<1> QED BY <1>1, <1>2, <1>3, <1>4, <1>5, <1>6, <1>7, <1>8, <1>9, EventSteps DEF EventStep
\* A set whose members are all the same has one member at most.
LEMMA AtMostOne ==
  ASSUME NEW S, \A x, y \in S : x = y
  PROVE  Cardinality(S) = IF S = {} THEN 0 ELSE 1
<1>1. CASE S = {}
  BY <1>1, FS_EmptySet
<1>2. CASE S # {}
  <2>1. PICK x \in S : S = {x}
    BY <1>2
  <2> QED BY <1>2, <2>1, FS_Singleton
<1> QED BY <1>1, <1>2

\* Being in one place at most is being owned once.
LEMMA OwnedOnce ==
  ASSUME OwnedOK, lastEventId \in Nat
  PROVE  EventOwnedOnce
<1> SUFFICES ASSUME NEW e \in Events
             PROVE  Owners(e) + freed[e] = IF e < lastEventId THEN 1 ELSE 0
  BY DEF EventOwnedOnce
<1> DEFINE Q == {i \in DOMAIN eventQ : eventQ[i].job.event = e}
           J == {j \in jobs : j.event = e}
           T == {t \in Threads : local[t].event = e}
<1>e. e \in Nat /\ e # NoEvent
  BY TimerAssumption DEF Events, NoEvent
<1>o. OneEach /\ Apart /\ FreedOnce
  BY DEF OwnedOK
<1>i. \A i \in DOMAIN eventQ : eventQ[i] \in Entries /\ eventQ[i].job.event = eventQ[i].id
  BY <1>o DEF OneEach, Entries
<1>1. Cardinality(Q) = IF e \in Waiting THEN 1 ELSE 0
  <2>1. \A x, y \in Q : x = y
    BY <1>i, <1>o DEF OneEach, IdsDiffer
  <2>2. Q # {} <=> e \in Waiting
    BY <1>i DEF Waiting, Entries
  <2> QED BY <2>1, <2>2, AtMostOne
<1>2. Cardinality(J) = IF e \in Handed THEN 1 ELSE 0
  <2>1. \A x, y \in J : x = y
    BY <1>o DEF OneEach
  <2>2. J # {} <=> e \in Handed
    BY DEF Handed
  <2> QED BY <2>1, <2>2, AtMostOne
<1>3. Cardinality(T) = IF e \in Running THEN 1 ELSE 0
  <2>1. \A x, y \in T : x = y
    BY <1>e, <1>o DEF OneEach
  <2>2. T # {} <=> e \in Running
    BY <1>e DEF Running
  <2> QED BY <2>1, <2>2, AtMostOne
<1>4. Owners(e) = Cardinality(Q) + Cardinality(J) + Cardinality(T)
  BY DEF Owners
<1> HIDE DEF Q, J, T
<1>5. freed[e] = IF e \in Waiting \cup Handed \cup Running \/ lastEventId <= e THEN 0 ELSE 1
  BY <1>o DEF FreedOnce
<1>6. e \in Waiting \cup Handed \cup Running => e < lastEventId
  BY <1>o DEF Apart
<1>7. /\ ~(e \in Waiting /\ e \in Handed) /\ ~(e \in Waiting /\ e \in Running)
      /\ ~(e \in Handed /\ e \in Running)
  BY <1>o DEF Apart
<1>8. lastEventId <= e <=> ~(e < lastEventId)
  BY <1>e
<1> QED BY <1>1, <1>2, <1>3, <1>4, <1>5, <1>6, <1>7, <1>8

-----------------------------------------------------------------------------
(* The renewals *)

AtRenewal == {"renewSent", "renewReplied"}
Renews(sid) == \E t \in Threads : pc[t] \in AtRenewal /\ local[t].sid = sid
Pending(sid) ==
  (\E e \in Entries : e.job.sid = sid) \/ (\E j \in jobs : j.sid = sid) \/ Renews(sid)

LEMMA PendingFacts ==
  /\ RenewalPending <=> \A s \in subs : s.finite => Pending(s.sid)
  /\ RenewalPending' <=> \A s \in subs' : s.finite => Pending(s.sid)'
<1>1. RenewalPending <=> \A s \in subs : s.finite => Pending(s.sid)
  BY DEF RenewalPending, Pending, Renews, AtRenewal, Entries
<1>2. RenewalPending' <=> \A s \in subs' : s.finite => Pending(s.sid)'
  BY DEF RenewalPending, Pending, Renews, AtRenewal, Entries
<1> QED BY <1>1, <1>2

\* A step that looks after one SID, and leaves what is pending for the others.
LEMMA Followed ==
  ASSUME RenewalPending, NEW sid,
         \A s \in subs' : s.sid # sid => s \in subs,
         \A s \in subs' : s.sid = sid /\ s.finite => Pending(sid)',
         \A e \in Entries : e.job.sid # sid => e \in Entries' \/ e.job \in jobs',
         \A j \in jobs : j.sid # sid => j \in jobs',
         \A u \in Threads : pc[u] \in AtRenewal /\ local[u].sid # sid =>
           pc'[u] \in AtRenewal /\ local'[u].sid = local[u].sid
  PROVE  RenewalPending'
<1>1. ASSUME NEW s \in subs', s.finite
      PROVE  Pending(s.sid)'
  <2>1. CASE s.sid = sid
    BY <1>1, <2>1
  <2>2. CASE s.sid # sid
    <3>1. Pending(s.sid)
      BY <1>1, <2>2, PendingFacts
    <3>2. CASE \E e \in Entries : e.job.sid = s.sid
      BY <2>2, <3>2 DEF Pending
    <3>3. CASE \E j \in jobs : j.sid = s.sid
      BY <2>2, <3>3 DEF Pending
    <3>4. CASE Renews(s.sid)
      BY <2>2, <3>4 DEF Pending, Renews
    <3> QED BY <3>1, <3>2, <3>3, <3>4 DEF Pending
  <2> QED BY <2>1, <2>2
<1> QED BY <1>1, PendingFacts

\* The subscriptions name events as they did, none, or the one that is new.
LEMMA Named ==
  ASSUME RenewsItself, lastEventId \in Nat, \A e \in Entries : e.id \in Nat /\ e.id < lastEventId,
         \A s \in subs : s.RenewEventId \in Int,
         NEW sid,
         \/ lastEventId' = lastEventId /\ Entries' \subseteq Entries
         \/ /\ lastEventId' = lastEventId + 1
            /\ \E e \in Entries' : /\ Entries' = Entries \cup {e}
                                   /\ e.id = lastEventId /\ e.job.sid = sid,
         \A s \in subs' :
           \/ s.RenewEventId = NoEvent
           \/ \E r \in subs : r.RenewEventId = s.RenewEventId /\ r.sid = s.sid
           \/ /\ lastEventId' = lastEventId + 1
              /\ s.RenewEventId = lastEventId /\ s.sid = sid
  PROVE  RenewsItself'
<1> SUFFICES ASSUME NEW s \in subs'
             PROVE  /\ s.RenewEventId < lastEventId'
                    /\ \A e \in Entries' : e.id = s.RenewEventId => e.job.sid = s.sid
  BY DEF RenewsItself
<1>1. \A e \in Entries' : e \in Entries \/
        (e.id = lastEventId /\ e.job.sid = sid /\ lastEventId' = lastEventId + 1)
  OBVIOUS
<1>2. lastEventId' = lastEventId \/ lastEventId' = lastEventId + 1
  OBVIOUS
<1>3. CASE s.RenewEventId = NoEvent
  BY <1>1, <1>2, <1>3 DEF NoEvent
<1>4. ASSUME NEW r \in subs, r.RenewEventId = s.RenewEventId, r.sid = s.sid
      PROVE  /\ s.RenewEventId < lastEventId'
             /\ \A e \in Entries' : e.id = s.RenewEventId => e.job.sid = s.sid
  <2>1. /\ s.RenewEventId \in Int /\ s.RenewEventId < lastEventId
        /\ \A e \in Entries : e.id = s.RenewEventId => e.job.sid = s.sid
    BY <1>4 DEF RenewsItself
  <2> QED BY <2>1, <1>1, <1>2
<1>5. CASE lastEventId' = lastEventId + 1 /\ s.RenewEventId = lastEventId /\ s.sid = sid
  BY <1>1, <1>5
<1> QED BY <1>3, <1>4, <1>5

\* The renewal that is scheduled waits for its SID.
LEMMA RescheduledFacts ==
  ASSUME TimerTypes, InOrder, NEW s \in Subscription, NEW r, Rescheduled(s, r)
  PROVE  \/ /\ lastEventId' = lastEventId /\ Entries' = Entries
            /\ ~r.finite /\ r.RenewEventId = s.RenewEventId
         \/ /\ lastEventId' = lastEventId + 1 /\ r.finite /\ r.RenewEventId = lastEventId
            /\ \E e \in Entries' : /\ Entries' = Entries \cup {e}
                                   /\ e.id = lastEventId /\ e.job.sid = s.sid
<1>1. CASE UNCHANGED timerVars /\ ~r.finite /\ r.RenewEventId = s.RenewEventId
  BY <1>1 DEF timerVars, Entries
<1>2. CASE /\ r.finite /\ r.RenewEventId = lastEventId
           /\ \E time \in Nat :
                TimerThreadSchedule([event |-> lastEventId, sid |-> s.sid], time)
  <2>1. PICK time \in Nat : TimerThreadSchedule([event |-> lastEventId, sid |-> s.sid], time)
    BY <1>2
  <2> DEFINE job == [event |-> lastEventId, sid |-> s.sid]
  <2>2. job \in [event : Nat, sid : Nat] /\ job.sid = s.sid
    BY DEF TimerTypes, Subscription
  <2>3. /\ lastEventId' = lastEventId + 1
        /\ \E k \in Places(time) : eventQ' = InsertAt(eventQ, k, EventFor(job, time))
    BY <2>1 DEF TimerThreadSchedule
  <2> HIDE DEF job
  <2>4. Entries' = Entries \cup {EventFor(job, time)}
    BY <2>2, <2>3, Scheduled
  <2>5. EventFor(job, time).id = lastEventId /\ EventFor(job, time).job.sid = s.sid
    BY <2>2 DEF EventFor
  <2> QED BY <1>2, <2>3, <2>4, <2>5
<1> QED BY <1>1, <1>2 DEF Rescheduled
-----------------------------------------------------------------------------
(* What the steps do to the renewals *)

\* The renewals of other SIDs go on where they are.
Leaves(sid) ==
  /\ \A j \in jobs : j.sid # sid => j \in jobs'
  /\ \A u \in Threads : pc[u] \in AtRenewal /\ local[u].sid # sid =>
       pc'[u] \in AtRenewal /\ local'[u].sid = local[u].sid

LEMMA Numbers ==
  ASSUME CPInv, OwnedOK
  PROVE  /\ TimerTypes /\ InOrder /\ OneEach /\ lastEventId \in Nat
         /\ \A e \in Entries : e.id \in Nat /\ e.id < lastEventId
         /\ \A s \in subs : s \in Subscription /\ s.RenewEventId \in Int /\ s.sid \in Nat
<1>1. TimerTypes /\ InOrder /\ OneEach /\ lastEventId \in Nat
  BY DEF CPInv, Types, TimerTypes, OwnedOK
<1>2. \A e \in Entries : e.id \in Nat /\ e.id < lastEventId
  BY DEF OwnedOK, Apart, Waiting
<1>3. \A s \in subs : s \in Subscription
  BY DEF CPInv, Types, CallTypes
<1>4. \A s \in Subscription : s.RenewEventId \in Int /\ s.sid \in Nat
  BY DEF Subscription, NoEvent
<1> QED BY <1>1, <1>2, <1>3, <1>4

\* Cancelling the renewal of a subscription leaves those of the others.
LEMMA CancelledItself ==
  ASSUME CPInv, OwnedOK, RenewsItself, NEW sid, Linked(sid), CancelRenewal(sid)
  PROVE  /\ lastEventId' = lastEventId /\ Entries' \subseteq Entries
         /\ \A e \in Entries : e.job.sid # sid => e \in Entries'
<1>1. /\ Entries' = {e \in Entries : e.id # Sub(sid).RenewEventId}
      /\ lastEventId' = lastEventId
  BY Numbers, Cancelled
<1>2. Sub(sid) \in subs /\ Sub(sid).sid = sid
  BY Found
<1>3. \A e \in Entries : e.id = Sub(sid).RenewEventId => e.job.sid = sid
  BY <1>2 DEF RenewsItself
<1> QED BY <1>1, <1>3

\* A subscription goes, or there was none.
LEMMA Ended ==
  ASSUME CPInv, OwnedOK, RenewsItself, RenewalPending, NEW sid, Leaves(sid),
         \A s \in subs' : s \in subs /\ s.sid # sid,
         (Linked(sid) /\ CancelRenewal(sid)) \/ ListKept
  PROVE  RenewsItself' /\ RenewalPending'
<1>1. /\ lastEventId' = lastEventId /\ Entries' \subseteq Entries
      /\ \A e \in Entries : e.job.sid # sid => e \in Entries'
  <2>1. CASE Linked(sid) /\ CancelRenewal(sid)
    BY <2>1, CancelledItself
  <2>2. CASE ListKept
    BY <2>2 DEF ListKept, Entries
  <2> QED BY <2>1, <2>2
<1>2. RenewsItself'
  BY <1>1, Numbers, Named
<1>3. RenewalPending'
  BY <1>1, Followed DEF Leaves
<1> QED BY <1>2, <1>3

\* A renewal begins.
LEMMA Started ==
  ASSUME CPInv, OwnedOK, RenewsItself, RenewalPending, NEW sid, Leaves(sid), Linked(sid),
         CancelRenewal(sid),
         NEW r, r.sid = sid, r.RenewEventId = NoEvent,
         subs' = {s \in subs : s.sid # sid} \cup {r},
         NEW t \in Threads, pc'[t] = "renewSent", local'[t].sid = sid
  PROVE  RenewsItself' /\ RenewalPending'
<1>1. /\ lastEventId' = lastEventId /\ Entries' \subseteq Entries
      /\ \A e \in Entries : e.job.sid # sid => e \in Entries'
  BY CancelledItself
<1>2. RenewsItself'
  BY <1>1, Numbers, Named
<1>3. Pending(sid)'
  BY DEF Pending, Renews, AtRenewal
<1>4. RenewalPending'
  BY <1>1, <1>3, Followed DEF Leaves
<1> QED BY <1>2, <1>4

\* A renewal is scheduled, or the subscription has no time-out.
LEMMA Renewed ==
  ASSUME CPInv, OwnedOK, RenewsItself, RenewalPending,
         NEW s \in Subscription, s \in subs \/ s.RenewEventId = NoEvent, Leaves(s.sid),
         NEW r, r.sid = s.sid, Rescheduled(s, r),
         subs' = {x \in subs : x.sid # s.sid} \cup {r}
  PROVE  RenewsItself' /\ RenewalPending'
<1>1. \/ /\ lastEventId' = lastEventId /\ Entries' = Entries
         /\ ~r.finite /\ r.RenewEventId = s.RenewEventId
      \/ /\ lastEventId' = lastEventId + 1 /\ r.finite /\ r.RenewEventId = lastEventId
         /\ \E e \in Entries' : /\ Entries' = Entries \cup {e}
                                /\ e.id = lastEventId /\ e.job.sid = s.sid
  BY Numbers, RescheduledFacts
<1>2. RenewsItself'
  <2>1. \A x \in subs' :
          \/ x.RenewEventId = NoEvent
          \/ \E y \in subs : y.RenewEventId = x.RenewEventId /\ y.sid = x.sid
          \/ /\ lastEventId' = lastEventId + 1
             /\ x.RenewEventId = lastEventId /\ x.sid = s.sid
    BY <1>1
  <2> QED BY <1>1, <2>1, Numbers, Named
<1>3. r.finite => Pending(s.sid)'
  BY <1>1 DEF Pending
<1>4. \A x \in subs' : x.sid = s.sid /\ x.finite => Pending(s.sid)'
  BY <1>3
<1>5. \A e \in Entries : e \in Entries'
  BY <1>1
<1>6. RenewalPending'
  BY <1>4, <1>5, Followed DEF Leaves
<1> QED BY <1>2, <1>6

\* The timer hands a renewal to the pool.
LEMMA FiredOn ==
  ASSUME CPInv, OwnedOK, RenewsItself, RenewalPending, PoolHasRoom, WorkerFire,
         subs' = subs, pc' = pc, local' = local
  PROVE  RenewsItself' /\ RenewalPending'
<1> DEFINE e0 == Head(eventQ)
<1>1. eventQ # <<>> /\ eventQ' = Tail(eventQ) /\ lastEventId' = lastEventId
      /\ jobs' = jobs \cup {e0.job}
  <2>1. timer = "run" /\ shutdown = 0 /\ Due
    BY DEF WorkerFire
  <2>2. Cardinality(jobs) < MaxJobs
    BY <2>1 DEF PoolHasRoom
  <2> QED BY <2>2 DEF WorkerFire, Due
<1>2. e0 \in Entries /\ Entries' = {e \in Entries : e.id # e0.id}
  BY <1>1, Numbers, Fired DEF OneEach
<1>3. \A e \in Entries : e.id = e0.id => e = e0
  BY <1>2, Numbers DEF OneEach, IdsDiffer, Entries
<1> HIDE DEF e0
<1>4. RenewsItself'
  <2>1. \A s \in subs' : \E y \in subs : y.RenewEventId = s.RenewEventId /\ y.sid = s.sid
    OBVIOUS
  <2> QED BY <2>1, <1>1, <1>2, Numbers, Named
<1>5. RenewalPending'
  <2> DEFINE sid == NoEvent
  <2>1. \A s \in subs' : s.sid # sid
    BY Numbers DEF NoEvent
  <2>2. \A e \in Entries : e \in Entries' \/ e.job \in jobs'
    BY <1>1, <1>2, <1>3
  <2>3. \A j \in jobs : j \in jobs'
    BY <1>1
  <2> HIDE DEF sid
  <2> QED BY <2>1, <2>2, <2>3, Followed
<1> QED BY <1>4, <1>5
\* Whatever overlaps, the renewal of a subscription with a time-out is still to come.
LEMMA RenewalStep ==
  ASSUME CPInv, OwnedOK, RenewsItself, RenewalPending, PoolHasRoom, [Next]_vars
  PROVE  RenewsItself' /\ RenewalPending'
<1> DEFINE goal == RenewsItself' /\ RenewalPending'
           Stay == \A u \in Threads :
                     pc[u] \in AtRenewal => pc'[u] \in AtRenewal /\ local'[u].sid = local[u].sid
<1>p. /\ PcTypes /\ LocalTypes /\ TimerTypes /\ subs \subseteq Subscription
      /\ \A s \in subs : s \in Subscription
      /\ \A t \in Threads : local[t] \in Locals
  BY DEF CPInv, Types, CallTypes, PcTypes, LocalTypes
<1>w. \A sid, event : [NoLocals EXCEPT !.sid = sid, !.event = event].sid = sid
  BY DEF NoLocals
<1>u. timerVars' = timerVars => ListKept
  BY DEF timerVars, ListKept
<1>q. ASSUME ListKept, jobs' = jobs, Stay, \A s \in subs' : s \in subs
      PROVE  goal
  <2> DEFINE sid == NoEvent
  <2>1. \A s \in subs' : s \in subs /\ s.sid # sid
    BY <1>q, Numbers DEF NoEvent
  <2>2. Leaves(sid)
    BY <1>q DEF Leaves
  <2> HIDE DEF sid
  <2> QED BY <2>1, <2>2, <1>q, Ended
<1>m. ASSUME NEW t \in Threads, OthersStay(t), pc[t] \notin AtRenewal
      PROVE  Stay
  BY <1>m DEF OthersStay
<1>g. ASSUME NEW t \in Threads, OthersStay(t), jobs' = jobs
      PROVE  Leaves(local[t].sid)
  BY <1>g DEF OthersStay, Leaves
<1>l. Stay /\ jobs' = jobs => \A sid : Leaves(sid)
  BY DEF Leaves
<1>c. ASSUME NEW sid, RemoveClientSub(sid), Leaves(sid)
      PROVE  goal
  <2>1. \A s \in subs' : s \in subs /\ s.sid # sid
    BY <1>c, RemoveEffect
  <2>2. (Linked(sid) /\ CancelRenewal(sid)) \/ ListKept
    BY <1>c, <1>u, RemoveEffect
  <2> QED BY <2>1, <2>2, <1>c, Ended
<1>s. ASSUME NEW rest, NEW s \in Subscription, s \in subs \/ s.RenewEventId = NoEvent,
             rest = {x \in subs : x.sid # s.sid}, Leaves(s.sid),
             NEW grant \in Nat \cup {Infinite}, ScheduleGenaAutoRenew(rest, s, grant)
      PROVE  goal
  <2>1. PICK r \in Subscription : subs' = rest \cup {r} /\ r.sid = s.sid /\ Rescheduled(s, r)
    BY <1>s, <1>p, AutoRenewEffect
  <2> QED BY <2>1, <1>s, Renewed
<1>d. ASSUME NEW t \in Threads, NEW sid, NEW event, StartRenewal(t, sid, event), Linked(sid),
             pc[t] \notin AtRenewal, \A j \in jobs : j.sid # sid => j \in jobs'
      PROVE  goal
  <2>1. PICK r \in Subscription :
           /\ CancelRenewal(sid) /\ subs' = {s \in subs : s.sid # sid} \cup {r}
           /\ r.sid = sid /\ r.RenewEventId = NoEvent
    BY <1>d, <1>p, RenewalEffect
  <2>2. /\ OthersStay(t) /\ pc'[t] = "renewSent"
        /\ local'[t] = [NoLocals EXCEPT !.sid = sid, !.event = event]
    BY <1>d, <1>p, MoveFacts DEF StartRenewal
  <2>3. local'[t].sid = sid
    BY <2>2, <1>w
  <2>4. Leaves(sid)
    BY <2>2, <1>d DEF Leaves, OthersStay
  <2> QED BY <2>1, <2>2, <2>3, <2>4, <1>d, Started
<1> HIDE DEF Stay
<1>1. ASSUME TimerStep \/ UNCHANGED vars
      PROVE  goal
  <2>1. local' = local /\ pc' = pc /\ subs' = subs
    BY <1>1 DEF TimerStep, vars, clientVars
  <2>2. WorkerFire \/ (ListKept /\ jobs' = jobs)
    BY <1>1, <1>u DEF TimerStep, TimerNext, TimerThreadWorker, WorkerLock, WorkerTimedOut,
                      WorkerReturn, WorkerWait, Tick, vars, ListKept
  <2>3. Stay
    BY <2>1 DEF Stay
  <2> QED BY <2>1, <2>2, <2>3, <1>q, FiredOn
<1>2. ASSUME NEW t \in Threads, dlnaRegisterClient(t)
      PROVE  goal
  <2>1. subs' = {} /\ pc' = pc /\ local' = local /\ jobs' = jobs /\ ListKept
    BY <1>2, <1>u DEF dlnaRegisterClient
  <2>2. Stay
    BY <2>1 DEF Stay
  <2> QED BY <2>1, <2>2, <1>q
<1>3. ASSUME NEW t \in Threads,
             \/ dlnaUnRegisterClient(t) \/ UnregisterSent(t) \/ dlnaFinish(t) \/ SubscribeSend(t)
             \/ FinishServer(t) \/ FinishDone(t)
      PROVE  goal
  <2>1. /\ \E where : Goto(t, where)
        /\ local' = local /\ subs' = subs /\ UNCHANGED <<timerVars, jobs>>
        /\ pc[t] \in {"idle", "unregisterSent", "subscribe", "finWait", "finThreads"}
    BY <1>3 DEF dlnaUnRegisterClient, UnregisterSent, dlnaFinish, SubscribeSend, FinishServer,
                FinishDone, MayCall, Idle, Pass, clientVars
  <2>2. OthersStay(t) /\ pc[t] \notin AtRenewal
    BY <2>1, <1>p, MoveFacts DEF AtRenewal
  <2> QED BY <2>1, <2>2, <1>m, <1>q, <1>u
<1>4. ASSUME NEW t \in Threads, SubscribeCall(t) \/ UnSubscribeCall(t)
      PROVE  goal
  <2>1. UNCHANGED <<timerVars, jobs>> /\ pc[t] = "idle" /\ subs' = subs
    BY <1>4 DEF SubscribeCall, UnSubscribeCall, MayCall, Idle, clientVars
  <2>2. \E where, locals : Goto(t, where) /\ Keep(t, locals)
    BY <1>4 DEF SubscribeCall, UnSubscribeCall
  <2>3. OthersStay(t) /\ pc[t] \notin AtRenewal
    BY <2>1, <2>2, <1>p, MoveFacts DEF AtRenewal
  <2> QED BY <2>1, <2>3, <1>m, <1>q, <1>u
<1>5. ASSUME NEW t \in Threads, RenewCall(t)
      PROVE  goal
  <2>1. PICK s \in subs : StartRenewal(t, s.sid, NoEvent)
    BY <1>5 DEF RenewCall
  <2>2. jobs' = jobs /\ pc[t] = "idle" /\ Linked(s.sid)
    BY <1>5 DEF RenewCall, MayCall, Idle, Linked
  <2> QED BY <2>1, <2>2, <1>d DEF AtRenewal
<1>6. ASSUME NEW t \in Threads, RenewReply(t)
      PROVE  goal
  <2>1. UNCHANGED <<timerVars, jobs>> /\ subs' = subs /\ Goto(t, "renewReplied")
    BY <1>6 DEF RenewReply, clientVars
  <2>2. \/ local' = local
        \/ \E g \in Grants : Keep(t, [local[t] EXCEPT !.grant = g, !.ok = TRUE])
    BY <1>6 DEF RenewReply
  <2>3. OthersStay(t) /\ pc'[t] = "renewReplied" /\ local'[t].sid = local[t].sid
    <3>1. CASE local' = local
      BY <2>1, <3>1, <1>p, MoveFacts
    <3>2. ASSUME NEW g \in Grants, Keep(t, [local[t] EXCEPT !.grant = g, !.ok = TRUE])
          PROVE  OthersStay(t) /\ pc'[t] = "renewReplied" /\ local'[t].sid = local[t].sid
      <4>1. /\ OthersStay(t) /\ pc'[t] = "renewReplied"
            /\ local'[t] = [local[t] EXCEPT !.grant = g, !.ok = TRUE]
        BY <2>1, <3>2, <1>p, MoveFacts
      <4> QED BY <4>1, <1>p DEF Locals
    <3> QED BY <2>2, <3>1, <3>2
  <2>4. Stay
    BY <2>3 DEF Stay, OthersStay, AtRenewal
  <2> QED BY <2>1, <2>4, <1>q, <1>u
<1>7. ASSUME NEW t \in Threads, RenewDone(t)
      PROVE  goal
  <2> DEFINE sid == local[t].sid
             failed == client /\ ~local[t].ok
  <2>1. /\ jobs' = jobs /\ EndRenewal(t, failed)
        /\ \/ failed /\ RemoveClientSub(sid)
           \/ ~failed /\ client /\ Linked(sid)
              /\ ScheduleGenaAutoRenew(Without(sid), Sub(sid), local[t].grant)
           \/ ~failed /\ ~(client /\ Linked(sid)) /\ UNCHANGED <<timerVars, subs>>
    BY <1>7 DEF RenewDone
  <2>2. local[t].grant \in Nat \cup {Infinite}
    BY <1>p DEF Locals
  <2>3. OthersStay(t)
    <3>1. Return(t) \/ (Goto(t, "renewFailed") /\ local' = local)
      BY <2>1 DEF EndRenewal
    <3> QED BY <3>1, <1>p, MoveFacts
  <2>4. Leaves(sid)
    BY <2>1, <2>3, <1>g
  <2> HIDE DEF sid, failed
  <2>5. CASE RemoveClientSub(sid)
    BY <2>4, <2>5, <1>c
  <2>6. CASE Linked(sid) /\ ScheduleGenaAutoRenew(Without(sid), Sub(sid), local[t].grant)
    <3>1. Sub(sid) \in subs /\ Sub(sid).sid = sid
      BY <2>6, Found
    <3>2. Without(sid) = {x \in subs : x.sid # Sub(sid).sid}
      BY <3>1 DEF Without
    <3>3. Sub(sid) \in Subscription /\ Leaves(Sub(sid).sid)
      BY <3>1, <2>4, <1>p
    <3> QED BY <2>2, <2>6, <3>1, <3>2, <3>3, <1>s
  <2>7. CASE ~(client /\ Linked(sid)) /\ UNCHANGED <<timerVars, subs>>
    <3>1. \A s \in subs' : s \in subs /\ s.sid # sid
      BY <2>7 DEF CPInv, SubsOK, Linked
    <3> QED BY <2>4, <2>7, <3>1, <1>u, Ended
  <2> QED BY <2>1, <2>5, <2>6, <2>7
<1>8. ASSUME NEW t \in Threads, genaUnregisterClient(t)
      PROVE  goal
  <2>1. jobs' = jobs /\ pc[t] \notin AtRenewal
    BY <1>8 DEF genaUnregisterClient, AtRenewal
  <2>2. OthersStay(t)
    <3>1. Back(t) \/ (local' = local /\ (Goto(t, "unregistered") \/ Goto(t, "unregisterSent")))
      BY <1>8 DEF genaUnregisterClient
    <3> QED BY <3>1, <1>p, MoveFacts
  <2>3. UNCHANGED <<timerVars, subs>> \/ \E sid : RemoveClientSub(sid)
    BY <1>8 DEF genaUnregisterClient
  <2>4. Stay /\ \A sid : Leaves(sid)
    BY <2>1, <2>2, <1>m, <1>l
  <2> QED BY <2>1, <2>3, <2>4, <1>c, <1>q, <1>u
<1>9. ASSUME NEW t \in Threads, UnregisterDone(t)
      PROVE  goal
  <2>1. /\ UNCHANGED <<timerVars, jobs>> /\ Back(t) /\ pc[t] = "unregistered"
        /\ \A s \in subs' : s \in subs
    BY <1>9 DEF UnregisterDone
  <2>2. OthersStay(t) /\ pc[t] \notin AtRenewal
    BY <2>1, <1>p, MoveFacts DEF AtRenewal
  <2> QED BY <2>1, <2>2, <1>m, <1>q, <1>u
<1>10. ASSUME NEW t \in Threads, SubscribeReply(t)
       PROVE  goal
  <2>1. UNCHANGED <<timerVars, jobs>> /\ Goto(t, "subscribeReplied") /\ subs' = subs
        /\ pc[t] = "subscribeSent"
    BY <1>10 DEF SubscribeReply, clientVars
  <2>2. local' = local \/ \E locals : Keep(t, locals)
    BY <1>10 DEF SubscribeReply
  <2>3. OthersStay(t) /\ pc[t] \notin AtRenewal
    BY <2>1, <2>2, <1>p, MoveFacts DEF AtRenewal
  <2> QED BY <2>1, <2>3, <1>m, <1>q, <1>u
<1>11. ASSUME NEW t \in Threads, SubscribeDone(t)
       PROVE  goal
  <2>1. jobs' = jobs /\ Return(t) /\ pc[t] = "subscribeReplied"
    BY <1>11 DEF SubscribeDone
  <2>2. OthersStay(t) /\ pc[t] \notin AtRenewal
    BY <2>1, <1>p, MoveFacts DEF AtRenewal
  <2>3. Stay /\ \A sid : Leaves(sid)
    BY <2>1, <2>2, <1>m, <1>l
  <2>4. CASE client /\ local[t].ok
    <3> DEFINE s == NewSubscription(t)
    <3>1. ScheduleGenaAutoRenew(subs, s, local[t].grant)
      BY <1>11, <2>4 DEF SubscribeDone
    <3>2. /\ s \in Subscription /\ local[t].grant \in Nat \cup {Infinite}
          /\ s.RenewEventId = NoEvent /\ s.sid = local[t].sid
      BY <1>p DEF Locals, NewSubscription, Subscription
    <3>3. ~Linked(local[t].sid)
      BY <2>1, <2>4 DEF CPInv, SubscribeOK
    <3> HIDE DEF s
    <3>4. subs = {x \in subs : x.sid # s.sid}
      BY <3>2, <3>3 DEF Linked
    <3> QED BY <2>3, <3>1, <3>2, <3>4, <1>s
  <2>5. CASE ~(client /\ local[t].ok)
    <3>1. UNCHANGED <<timerVars, subs>>
      BY <1>11, <2>5 DEF SubscribeDone
    <3> QED BY <2>1, <2>3, <3>1, <1>q, <1>u
  <2> QED BY <2>4, <2>5
<1>12. ASSUME NEW t \in Threads, UnSubscribeDone(t)
       PROVE  goal
  <2>1. jobs' = jobs /\ Return(t) /\ pc[t] = "unsubscribeSent"
        /\ (UNCHANGED <<timerVars, subs>> \/ RemoveClientSub(local[t].sid))
    BY <1>12 DEF UnSubscribeDone
  <2>2. OthersStay(t) /\ pc[t] \notin AtRenewal
    BY <2>1, <1>p, MoveFacts DEF AtRenewal
  <2>3. Stay /\ Leaves(local[t].sid)
    BY <2>1, <2>2, <1>m, <1>l
  <2> QED BY <2>1, <2>3, <1>c, <1>q, <1>u
<1>13. ASSUME NEW t \in Threads, CallbackReturns(t) \/ EventReturns(t)
       PROVE  goal
  <2>1. UNCHANGED <<timerVars, jobs>> /\ subs' = subs /\ Return(t) /\ pc[t] \in {"callback", "event"}
    BY <1>13 DEF CallbackReturns, EventReturns, clientVars
  <2>2. OthersStay(t) /\ pc[t] \notin AtRenewal
    BY <2>1, <1>p, MoveFacts DEF AtRenewal
  <2> QED BY <2>1, <2>2, <1>m, <1>q, <1>u
<1>15. ASSUME NEW t \in Threads, FinishTimer(t) \/ FinishJobs(t)
       PROVE  goal
  <2>1. subs' = subs /\ pc[t] \in {"finTimer", "finHandlers"}
    BY <1>15 DEF FinishTimer, FinishJobs, Pass, clientVars
  <2>2. ~client
    BY <2>1 DEF CPInv, FinishingOK, Down
  <2>3. subs' = {}
    BY <2>1, <2>2 DEF CPInv, SubsOK
  <2> QED BY <2>3 DEF RenewsItself, RenewalPending
<1>16. ASSUME NEW t \in Threads, AutoRenew(t)
       PROVE  goal
  <2>1. PICK j \in jobs :
           /\ jobs' = jobs \ {j}
           /\ IF client /\ Linked(j.sid)
              THEN StartRenewal(t, j.sid, j.event)
              ELSE FreeAll({j.event}) /\ UNCHANGED <<timerVars, subs, pc, local>>
    BY <1>16 DEF AutoRenew
  <2>2. pc[t] \notin AtRenewal
    BY <1>16 DEF AutoRenew, Idle, AtRenewal
  <2>3. CASE client /\ Linked(j.sid)
    BY <2>1, <2>2, <2>3, <1>d
  <2>4. CASE ~(client /\ Linked(j.sid))
    <3>1. UNCHANGED <<timerVars, subs, pc, local>>
      BY <2>1, <2>4
    <3>2. \A s \in subs' : s \in subs /\ s.sid # j.sid
      BY <3>1, <2>4 DEF CPInv, SubsOK, Linked
    <3>3. Leaves(j.sid)
      BY <2>1, <3>1 DEF Leaves
    <3> QED BY <3>1, <3>2, <3>3, <1>u, Ended
  <2> QED BY <2>3, <2>4
<1>17. ASSUME NEW t \in Threads, ReportFailure(t)
       PROVE  goal
  <2>1. UNCHANGED <<timerVars, jobs>> /\ subs' = subs /\ pc[t] = "renewFailed"
    BY <1>17 DEF ReportFailure, clientVars
  <2>2. Return(t) \/ (Goto(t, "callback") /\ local' = local)
    BY <1>17 DEF ReportFailure
  <2>3. OthersStay(t) /\ pc[t] \notin AtRenewal
    BY <2>1, <2>2, <1>p, MoveFacts DEF AtRenewal
  <2> QED BY <2>1, <2>3, <1>m, <1>q, <1>u
<1>18. ASSUME NEW h \in Threads, NotifyLook(h) \/ NotifyLookAgain(h)
       PROVE  goal
  <2>1. UNCHANGED <<timerVars, jobs>> /\ subs' = subs /\ pc[h] \in {"idle", "notify"}
    BY <1>18 DEF NotifyLook, NotifyLookAgain, Idle, clientVars
  <2>2. Return(h) \/ \E where, locals : Goto(h, where) /\ Keep(h, locals)
    BY <1>18 DEF NotifyLook, NotifyLookAgain, Answer
  <2>3. OthersStay(h) /\ pc[h] \notin AtRenewal
    BY <2>1, <2>2, <1>p, MoveFacts DEF AtRenewal
  <2> QED BY <2>1, <2>3, <1>m, <1>q, <1>u
<1> HIDE DEF goal
<1>19. ASSUME NEW t \in Callers, CallStep(t)
       PROVE  goal
  <2>0. t \in Threads
    BY DEF Threads
  <2> QED BY <2>0, <1>19, <1>3, <1>6, <1>7, <1>8, <1>9, <1>10, <1>11, <1>12, <1>15 DEF CallStep
<1>20. ASSUME NEW t \in Callers,
              \/ dlnaRegisterClient(t) \/ dlnaUnRegisterClient(t) \/ dlnaFinish(t)
              \/ SubscribeCall(t) \/ RenewCall(t) \/ UnSubscribeCall(t)
              \/ CallStep(t)
       PROVE  goal
  <2>0. t \in Threads
    BY DEF Threads
  <2> QED BY <2>0, <1>20, <1>2, <1>3, <1>4, <1>5, <1>19
<1>21. ASSUME NEW w \in Workers, WorkerStep(w)
       PROVE  goal
  <2>0. w \in Threads
    BY DEF Threads
  <2> QED BY <2>0, <1>21, <1>6, <1>7, <1>13, <1>16, <1>17 DEF WorkerStep
<1>22. ASSUME NEW h \in Handlers, HandlerStep(h)
       PROVE  goal
  <2>0. h \in Threads
    BY DEF Threads
  <2> QED BY <2>0, <1>22, <1>13, <1>18 DEF HandlerStep
<1>23. goal
  BY <1>1, <1>20, <1>21, <1>22 DEF Next
<1> QED BY <1>23 DEF goal

-----------------------------------------------------------------------------
(* The theorems about renewals.  They suppose that the pool takes the job when   *)
(* a timer event fires: TimerThreadWorker drops the event when the pool refuses. *)

LEMMA OwnHolds == Spec /\ []PoolHasRoom => [](CPInv /\ OwnedOK /\ RenewsItself /\ RenewalPending)
<1>1. Init => OwnedOK /\ RenewsItself /\ RenewalPending
  <2> SUFFICES ASSUME Init
               PROVE  OwnedOK /\ RenewsItself /\ RenewalPending
    OBVIOUS
  <2>1. /\ eventQ = <<>> /\ jobs = {} /\ subs = {} /\ lastEventId = 0
        /\ \A t \in Threads : local[t].event = NoEvent
        /\ \A e \in Events : freed[e] = 0
    BY DEF Init, TimerInit, NoLocals
  <2>2. Entries = {} /\ Waiting = {} /\ Handed = {} /\ Running = {} /\ IdsDiffer
    BY <2>1 DEF Entries, Waiting, Handed, Running, IdsDiffer
  <2>3. \A e \in Events : lastEventId <= e
    BY <2>1, TimerAssumption DEF Events
  <2>4. OneEach /\ Apart /\ FreedOnce /\ RunsInRenewal
    BY <2>1, <2>2, <2>3 DEF OneEach, Apart, FreedOnce, RunsInRenewal
  <2> QED BY <2>1, <2>4 DEF OwnedOK, RenewsItself, RenewalPending
<1>2. CPInv /\ OwnedOK /\ RenewsItself /\ RenewalPending /\ PoolHasRoom /\ [Next]_vars
        => (OwnedOK /\ RenewsItself /\ RenewalPending)'
  BY OwnedStep, RenewalStep
<1> QED BY <1>1, <1>2, CPInvHolds, PTL DEF Spec

\* The memory of a renewal event is freed once, by the timer, by the pool or by the
\* thread that runs it, whichever has it last (lines 84-112 and 664-668 of
\* gena_ctrlpt.c, 96-99 of client_table.c).
THEOREM RenewalEventFreedOnce == Spec /\ []PoolHasRoom => []EventOwnedOnce
<1>1. CPInv /\ OwnedOK /\ RenewsItself /\ RenewalPending => EventOwnedOnce
  BY OwnedOnce, Numbers
<1> QED BY <1>1, OwnHolds, PTL

\* Every subscription with a time-out has a renewal that is still to come or under
\* way, whatever calls overlap (lines 140-176 and 640-740 of gena_ctrlpt.c).
THEOREM SubscriptionsAreRenewed == Spec /\ []PoolHasRoom => []RenewalPending
<1>1. CPInv /\ OwnedOK /\ RenewsItself /\ RenewalPending => RenewalPending
  OBVIOUS
<1> QED BY <1>1, OwnHolds, PTL
=============================================================================
