----------------------------- MODULE GenaDevice -----------------------------
(***************************************************************************)
(* Eventing on the device side: gena_device.c over the subscription list   *)
(* of service_table.c, with the parts of upnpapi.c that create, configure  *)
(* and destroy the device.  One service; services do not interact.         *)
(*                                                                         *)
(* Everything runs under GlobalHndRWLock, so a section under the write     *)
(* lock is one action.  A thread of gSendThreadPool that starts a notify   *)
(* job takes only the read lock, and does more with it than read: those    *)
(* sections are split at every access to what another reader may change.   *)
(***************************************************************************)
EXTENDS Integers, Sequences, FiniteSets

CONSTANTS
  Sids,       \* the ids uuid_create hands out, each once
  Workers,    \* threads of gSendThreadPool
  Receivers,  \* threads of gMiniServerThreadPool, which handle requests
  NULL,
  MaxJobs,    \* maxJobsTotal of gSendThreadPool
  MaxKey,     \* the largest event key, INT_MAX
  Limits,     \* values of MaxSubscriptions and MaxSubscriptionTimeOut
  Requests,   \* the kinds of requests control points make
  MaxEvents,  \* bound on the events of a behaviour
  MaxDevices, \* bound on the registrations of a behaviour
  MaxBacklog  \* bound on the jobs queued when the application publishes an event

DLNA_INFINITE == -1

ASSUME GenaAssumption ==
  /\ IsFiniteSet(Workers)
  /\ NULL \notin Sids \cup Receivers
  /\ MaxJobs \in Nat
  /\ MaxKey \in Nat /\ MaxKey > MaxJobs + Cardinality(Workers)
  /\ Limits \subseteq Nat \cup {DLNA_INFINITE}
  /\ Requests \subseteq {"subscribe", "renew", "unsubscribe"}
  /\ MaxEvents \in Nat /\ MaxDevices \in Nat /\ MaxBacklog \in Nat

VARIABLES
  writer,              \* who left GlobalHndRWLock locked for writing
  app,                 \* where the application is in (un)registering the device
  device,              \* "registered", "serviceless" after freeServiceTable, or "none"
  devices,             \* registrations so far
  limit,               \* MaxSubscriptions and MaxSubscriptionTimeOut of the handle
  subscriptionList,    \* of service_info, by SID, the latest first
  TotalSubscriptions,
  sub,                 \* the fields of each subscription
  used,                \* SIDs handed out
  expired,             \* listed subscriptions whose expireTime has passed
  callback,            \* the subscription a receiver is about to report to the application
  queue,               \* the notify jobs in gSendThreadPool
  wpc, wjob,           \* where each thread is in genaNotifyThread, and with which job
  wcount,              \* a decremented reference count in a register
  events,              \* events so far; each has a number
  reference_count,     \* per event, the notify jobs that share its data
  frees,               \* per event, how often its data has been freed
  initial,             \* per subscription the event that is its initial state table
  accepted, sent       \* per subscription the events queued, and those sent

deviceVars == <<app, device, devices, limit>>
listVars == <<subscriptionList, TotalSubscriptions, sub, expired>>
workerVars == <<wpc, wjob, wcount>>
dataVars == <<reference_count, frees>>
feedVars == <<initial, accepted, sent>>
vars == <<writer, deviceVars, listVars, used, callback, queue, workerVars, events,
          dataVars, feedVars>>

Events == 1..MaxEvents
NoJob == [sid |-> NULL, eventKey |-> 0, event |-> 0]
NewSub == [eventKey |-> 0, ToSendEventKey |-> 0, active |-> FALSE, expires |-> FALSE]

\* Inside its read section a worker holds a subscription it looked up and found
\* valid ("found") or expired ("expired"), or is about to give up its job
\* ("drop"), has decremented the count in a register ("store") or in memory
\* ("test").
ReadPcs == {"found", "expired", "drop", "store", "test"}
WorkerPcs == {"idle", "started", "sending"} \cup ReadPcs

-----------------------------------------------------------------------------
(* GlobalHndRWLock *)

Readers == {w \in Workers : wpc[w] \in ReadPcs}

\* The writer does not wait for readers.
CanWrite_WithReaders(t) == writer \in {NULL, t}

\* wrlock by thread t.  The thread that left it locked gets EDEADLK, which nobody
\* looks at, and goes on.
CanWrite(t) == writer \in {NULL, t} /\ Readers = {}
CanRead == writer = NULL

\* HandleUnlock by whoever holds it.
Unlock == writer' = NULL

-----------------------------------------------------------------------------
(* The subscription list *)

Places == DOMAIN subscriptionList
In(s, list) == \E i \in DOMAIN list : list[i] = s
Listed(s) == In(s, subscriptionList)

\* The part of the list at some of its places, in the order of the list.  There is
\* one such sequence.
Part(places) ==
  LET n == Cardinality(places)
      order == {f \in [1..n -> places] : \A i, k \in 1..n : i < k => f[i] < f[k]}
  IN  {[i \in 1..n |-> subscriptionList[f[i]]] : f \in order}

\* The node is freed but stays linked.
Unlink_StaysListed(s) ==
  /\ TotalSubscriptions' = TotalSubscriptions - 1
  /\ expired' = expired \ {s}
  /\ UNCHANGED subscriptionList

\* Unlink and free the node of s, and count it out.
Unlink(s) ==
  /\ \E rest \in Part({i \in Places : subscriptionList[i] # s}) : subscriptionList' = rest
  /\ TotalSubscriptions' = TotalSubscriptions - 1
  /\ expired' = expired \ {s}

\* What GetSubscriptionSID returns, and what it does to the list on the way.
Found(s) == Listed(s) /\ s \notin expired
GetSubscriptionSID(s) ==
  IF s \in expired THEN Unlink(s) ELSE UNCHANGED <<subscriptionList, TotalSubscriptions, expired>>

\* eventKey++ when an event is published, with the wrap to 1.
EventKeyAfter(k) == IF k = MaxKey THEN 1 ELSE k + 1

\* The counter of what has been sent wraps to 0.
ToSendAfter_WrapsToZero(k) == IF k = MaxKey THEN 0 ELSE k + 1

\* ToSendEventKey++ when a NOTIFY is over, with the wrap to 1.
ToSendAfter(k) == IF k = MaxKey THEN 1 ELSE k + 1

\* One job too many.
Room_OffByOne == MaxJobs + 1 - Len(queue)

\* How many more jobs gSendThreadPool takes.
Room == MaxJobs - Len(queue)

Job(s, k, e) == [sid |-> s, eventKey |-> k, event |-> e]
Pending(e) == {i \in DOMAIN queue : queue[i].event = e}
                \cup {w \in Workers : wpc[w] # "idle" /\ wjob[w].event = e}

\* The first job is not counted.
Share_OneShort(e, count) ==
  /\ events' = e
  /\ reference_count' = [reference_count EXCEPT ![e] = count - 1]
  /\ frees' = [frees EXCEPT ![e] = IF count = 0 THEN 1 ELSE 0]

\* Event e has the notify jobs of the subscriptions in to, and count of them
\* are counted, those that could not be queued included.
Share(e, count) ==
  /\ events' = e
  /\ reference_count' = [reference_count EXCEPT ![e] = count]
  /\ frees' = [frees EXCEPT ![e] = IF count = 0 THEN 1 ELSE 0]

-----------------------------------------------------------------------------
(* The application: upnpapi.c *)

RegisterCall ==
  /\ app = "idle" /\ device = "none" /\ devices < MaxDevices
  /\ app' = "registering" /\ devices' = devices + 1
  /\ UNCHANGED <<writer, device, limit, listVars, used, callback, queue, workerVars,
                 events, dataVars, feedVars>>

\* May fail: no handle, no memory, or a bad description.
dlnaRegisterRootDevice ==
  /\ app = "registering" /\ CanWrite(NULL)
  /\ app' = "idle"
  /\ \/ device' = "registered" /\ limit' = [subs |-> DLNA_INFINITE, timeOut |-> DLNA_INFINITE]
     \/ UNCHANGED <<device, limit>>
  /\ UNCHANGED <<writer, devices, listVars, used, callback, queue, workerVars, events,
                 dataVars, feedVars>>

\* The first half of dlnaUnRegisterRootDevice; byebye messages follow, without the lock.
genaUnregisterDevice ==
  /\ app = "idle" /\ device = "registered" /\ CanWrite(NULL)
  /\ app' = "unregistering"
  /\ device' = "serviceless"
  /\ subscriptionList' = <<>> /\ TotalSubscriptions' = 0 /\ expired' = {}
  /\ UNCHANGED <<writer, devices, limit, sub, used, callback, queue, workerVars, events,
                 dataVars, feedVars>>

dlnaUnRegisterRootDevice ==
  /\ app = "unregistering" /\ CanWrite(NULL)
  /\ app' = "idle"
  /\ device' = "none"
  /\ UNCHANGED <<writer, devices, limit, listVars, used, callback, queue, workerVars,
                 events, dataVars, feedVars>>

dlnaSetMaxSubscriptions(n) ==
  /\ device # "none" /\ CanWrite(NULL)
  /\ limit' = [limit EXCEPT !.subs = n]
  /\ UNCHANGED <<writer, app, device, devices, listVars, used, callback, queue, workerVars,
                 events, dataVars, feedVars>>

dlnaSetMaxSubscriptionTimeOut(n) ==
  /\ device # "none" /\ CanWrite(NULL)
  /\ limit' = [limit EXCEPT !.timeOut = n]
  /\ UNCHANGED <<writer, app, device, devices, listVars, used, callback, queue, workerVars,
                 events, dataVars, feedVars>>

\* Also those that have not been confirmed.
Targets_All == Part({i \in Places : subscriptionList[i] \notin expired})

\* The subscriptions that GetFirstSubscription and GetNextSubscription stop at.
Targets ==
  Part({i \in Places : subscriptionList[i] \notin expired /\ sub[subscriptionList[i]].active})

\* Those that have a job made for them, up to the first the pool refuses, and those
\* whose job it takes.
Made(targets) == IF Len(targets) > Room THEN SubSeq(targets, 1, Room + 1) ELSE targets
Taken(targets) == IF Len(targets) > Room THEN SubSeq(targets, 1, Room) ELSE targets

\* The expired subscriptions met on the way.
Met(targets) ==
  {s \in expired : \E i \in Places :
     /\ subscriptionList[i] = s
     /\ Len(targets) > Room =>
          \E k \in Places : i < k /\ subscriptionList[k] = targets[Room + 1]}

(***************************************************************************)
(* genaNotifyAll and genaNotifyAllExt: a job for each confirmed            *)
(* subscription, up to the first the pool refuses, which has its event key *)
(* advanced and its job counted all the same.  The expired subscriptions   *)
(* met on the way are removed.                                             *)
(***************************************************************************)
genaNotifyAll ==
  /\ device = "registered" /\ CanWrite(NULL)
  /\ events < MaxEvents /\ Len(queue) <= MaxBacklog
  /\ \E targets \in Targets :
       LET made   == Made(targets)
           queued == Taken(targets)
           gone   == Met(targets)
       IN  /\ Share(events + 1, Len(made))
           /\ queue' = queue \o [i \in DOMAIN queued |->
                                  Job(queued[i], sub[queued[i]].eventKey, events + 1)]
           /\ sub' = [s \in Sids |->
                        IF In(s, made) THEN [sub[s] EXCEPT !.eventKey = EventKeyAfter(@)] ELSE sub[s]]
           /\ accepted' = [s \in Sids |->
                             IF In(s, queued) THEN Append(accepted[s], events + 1) ELSE accepted[s]]
           /\ \E rest \in Part({i \in Places : subscriptionList[i] \notin gone}) :
                subscriptionList' = rest
           /\ TotalSubscriptions' = TotalSubscriptions - Cardinality(gone)
           /\ expired' = expired \ gone
  /\ UNCHANGED <<writer, deviceVars, used, callback, workerVars, initial, sent>>

(***************************************************************************)
(* The application's callback: it confirms the subscription with           *)
(* dlnaAcceptSubscriptionExt, whose genaInitNotifyExt queues the initial   *)
(* state table.  If the pool refuses the job, the subscription stays       *)
(* confirmed and its event key advanced.                                   *)
(***************************************************************************)
AcceptSubscription(r) ==
  /\ callback[r] # NULL /\ CanWrite(r)
  /\ callback' = [callback EXCEPT ![r] = NULL]
  /\ Unlock
  /\ LET s == callback[r]
     IN  \/ /\ ~Found(s) \/ sub[s].active
            /\ GetSubscriptionSID(s)
            /\ UNCHANGED <<sub, queue, events, dataVars, feedVars>>
         \/ /\ Found(s) /\ ~sub[s].active /\ events < MaxEvents
            /\ sub' = [sub EXCEPT ![s].active = TRUE, ![s].eventKey = @ + 1]
            /\ IF Room > 0
               THEN /\ Share(events + 1, 1)
                    /\ queue' = Append(queue, Job(s, sub[s].eventKey, events + 1))
                    /\ initial' = [initial EXCEPT ![s] = events + 1]
                    /\ accepted' = [accepted EXCEPT ![s] = Append(@, events + 1)]
               ELSE /\ Share(events + 1, 0)
                    /\ UNCHANGED <<queue, initial, accepted>>
            /\ UNCHANGED <<subscriptionList, TotalSubscriptions, expired, sent>>
  /\ UNCHANGED <<deviceVars, used, workerVars>>

-----------------------------------------------------------------------------
(* Requests of control points *)

Granted(timeOut) ==
  IF limit.timeOut # DLNA_INFINITE /\ (timeOut = DLNA_INFINITE \/ timeOut > limit.timeOut)
  THEN limit.timeOut ELSE timeOut

Expires(timeOut) == Granted(timeOut) # DLNA_INFINITE

\* Refused at any time: a bad request, no memory, or the answer cannot be sent.
Subscribe(r, s, timeOut) ==
  /\ "subscribe" \in Requests /\ callback[r] = NULL /\ CanWrite(r) /\ s \notin used
  /\ Unlock
  /\ \/ UNCHANGED <<listVars, used, callback>>
     \/ /\ device = "registered"
        /\ limit.subs = DLNA_INFINITE \/ TotalSubscriptions < limit.subs
        /\ used' = used \cup {s}
        /\ sub' = [sub EXCEPT ![s] = [NewSub EXCEPT !.expires = Expires(timeOut)]]
        /\ subscriptionList' = <<s>> \o subscriptionList
        /\ TotalSubscriptions' = TotalSubscriptions + 1
        /\ callback' = [callback EXCEPT ![r] = s]
        /\ UNCHANGED expired
  /\ UNCHANGED <<deviceVars, queue, workerVars, events, dataVars, feedVars>>

\* Without a device the handler returns with the lock held.
Renew(r, s, timeOut) ==
  /\ "renew" \in Requests /\ callback[r] = NULL /\ CanWrite(r)
  /\ \/ device = "none" /\ writer' = r /\ UNCHANGED listVars
     \/ device # "none" /\ Unlock /\ ~Found(s) /\ GetSubscriptionSID(s) /\ UNCHANGED sub
     \/ /\ device = "registered" /\ Unlock /\ Found(s)
        /\ limit.subs # DLNA_INFINITE /\ TotalSubscriptions > limit.subs
        /\ Unlink(s) /\ UNCHANGED sub
     \/ /\ device = "registered" /\ Unlock /\ Found(s)
        /\ limit.subs = DLNA_INFINITE \/ TotalSubscriptions <= limit.subs
        /\ sub' = [sub EXCEPT ![s].expires = Expires(timeOut)]
        /\ Unlink(s) \/ UNCHANGED <<subscriptionList, TotalSubscriptions, expired>>
  /\ UNCHANGED <<deviceVars, used, callback, queue, workerVars, events, dataVars, feedVars>>

Unsubscribe(r, s) ==
  /\ "unsubscribe" \in Requests /\ callback[r] = NULL /\ CanWrite(r)
  /\ Unlock
  /\ IF Found(s) THEN Unlink(s) ELSE GetSubscriptionSID(s)
  /\ UNCHANGED <<deviceVars, sub, used, callback, queue, workerVars, events, dataVars, feedVars>>

\* The clock passes the expireTime of s.
Expire(s) ==
  /\ Found(s) /\ sub[s].expires
  /\ expired' = expired \cup {s}
  /\ UNCHANGED <<writer, deviceVars, subscriptionList, TotalSubscriptions, sub, used, callback,
                 queue, workerVars, events, dataVars, feedVars>>

-----------------------------------------------------------------------------
(* genaNotifyThread *)

Goes(w, pc) == wpc' = [wpc EXCEPT ![w] = pc]
Ends(w) == Goes(w, "idle") /\ wjob' = [wjob EXCEPT ![w] = NoJob]

NotifyStart(w) ==
  /\ wpc[w] = "idle" /\ queue # <<>>
  /\ Goes(w, "started") /\ wjob' = [wjob EXCEPT ![w] = Head(queue)]
  /\ queue' = Tail(queue)
  /\ UNCHANGED <<writer, deviceVars, listVars, used, callback, wcount, events, dataVars, feedVars>>

\* Take the read lock and look for the subscription.
NotifyLook(w) ==
  /\ wpc[w] = "started" /\ CanRead
  /\ LET s == wjob[w].sid
     IN  Goes(w, IF device # "registered" \/ ~Listed(s) THEN "drop"
                 ELSE IF s \in expired THEN "expired" ELSE "found")
  /\ UNCHANGED <<writer, deviceVars, listVars, used, callback, queue, wjob, wcount, events,
                 dataVars, feedVars>>

\* GetSubscriptionSID removes an expired subscription, although readers are not alone.
NotifyExpire(w) ==
  /\ wpc[w] = "expired"
  /\ LET s == wjob[w].sid
     IN  IF Listed(s) THEN Unlink(s)
         ELSE TotalSubscriptions' = TotalSubscriptions - 1 /\ UNCHANGED <<subscriptionList, expired>>
  /\ Goes(w, "drop")
  /\ UNCHANGED <<writer, deviceVars, sub, used, callback, queue, wjob, wcount, events,
                 dataVars, feedVars>>

\* Any event is taken to be the next.
NextInOrder_Any(w) == TRUE

NextInOrder(w) == wjob[w].eventKey = sub[wjob[w].sid].ToSendEventKey

\* Copy the subscription.  An event out of turn goes back to the pool, which may
\* refuse it.  What a node freed by another reader holds is anybody's guess.
NotifyCopy(w) ==
  /\ wpc[w] = "found"
  /\ LET s == wjob[w].sid
     IN  \/ /\ ~NextInOrder(w) \/ ~Listed(s)
            /\ Ends(w)
            /\ queue' = IF Room > 0 THEN Append(queue, wjob[w]) ELSE queue
            /\ UNCHANGED sent
         \/ /\ NextInOrder(w) \/ ~Listed(s)
            /\ Goes(w, "sending") /\ UNCHANGED wjob
            /\ sent' = [sent EXCEPT ![s] = Append(@, wjob[w].event)]
            /\ UNCHANGED queue
  /\ UNCHANGED <<writer, deviceVars, listVars, used, callback, wcount, events, dataVars,
                 initial, accepted>>

\* free_notify_struct under the read lock: load, decrement and store the count ...
UnrefLoad(w) ==
  /\ wpc[w] = "drop"
  /\ wcount' = [wcount EXCEPT ![w] = reference_count[wjob[w].event] - 1]
  /\ Goes(w, "store")
  /\ UNCHANGED <<writer, deviceVars, listVars, used, callback, queue, wjob, events, dataVars, feedVars>>

UnrefStore(w) ==
  /\ wpc[w] = "store"
  /\ reference_count' = [reference_count EXCEPT ![wjob[w].event] = wcount[w]]
  /\ Goes(w, "test")
  /\ UNCHANGED <<writer, deviceVars, listVars, used, callback, queue, wjob, wcount, events, frees,
                 feedVars>>

\* ... then test it, in the register or read again, and unlock.
UnrefTest(w) ==
  /\ wpc[w] = "test"
  /\ \E count \in {wcount[w], reference_count[wjob[w].event]} :
       frees' = [frees EXCEPT ![wjob[w].event] = IF count = 0 THEN @ + 1 ELSE @]
  /\ Ends(w)
  /\ wcount' = [wcount EXCEPT ![w] = 0]
  /\ UNCHANGED <<writer, deviceVars, listVars, used, callback, queue, events, reference_count, feedVars>>

\* The NOTIFY is over; gone if the subscriber answered 412.  The rest is done
\* under the write lock.
NotifySent(w, gone) ==
  /\ wpc[w] = "sending" /\ CanWrite(NULL)
  /\ LET s == wjob[w].sid
         e == wjob[w].event
     IN  /\ \/ ~Found(s) /\ GetSubscriptionSID(s) /\ UNCHANGED sub
            \/ /\ Found(s)
               /\ sub' = [sub EXCEPT ![s].ToSendEventKey = ToSendAfter(@)]
               /\ IF gone THEN Unlink(s)
                  ELSE UNCHANGED <<subscriptionList, TotalSubscriptions, expired>>
         /\ reference_count' = [reference_count EXCEPT ![e] = @ - 1]
         /\ frees' = [frees EXCEPT ![e] = IF reference_count[e] = 1 THEN @ + 1 ELSE @]
  /\ Ends(w)
  /\ UNCHANGED <<writer, deviceVars, used, callback, queue, wcount, events, feedVars>>

-----------------------------------------------------------------------------
Init ==
  /\ writer = NULL
  /\ app = "idle" /\ device = "none" /\ devices = 0
  /\ limit = [subs |-> DLNA_INFINITE, timeOut |-> DLNA_INFINITE]
  /\ subscriptionList = <<>> /\ TotalSubscriptions = 0
  /\ sub = [s \in Sids |-> NewSub]
  /\ used = {} /\ expired = {}
  /\ callback = [r \in Receivers |-> NULL]
  /\ queue = <<>>
  /\ wpc = [w \in Workers |-> "idle"] /\ wjob = [w \in Workers |-> NoJob]
  /\ wcount = [w \in Workers |-> 0]
  /\ events = 0
  /\ reference_count = [e \in Events |-> 0] /\ frees = [e \in Events |-> 0]
  /\ initial = [s \in Sids |-> 0]
  /\ accepted = [s \in Sids |-> <<>>] /\ sent = [s \in Sids |-> <<>>]

ReadSection(w) ==
  NotifyLook(w) \/ NotifyExpire(w) \/ NotifyCopy(w) \/ UnrefLoad(w) \/ UnrefStore(w) \/ UnrefTest(w)

Next ==
  \/ RegisterCall \/ dlnaRegisterRootDevice
  \/ genaUnregisterDevice \/ dlnaUnRegisterRootDevice
  \/ \E n \in Limits : dlnaSetMaxSubscriptions(n) \/ dlnaSetMaxSubscriptionTimeOut(n)
  \/ genaNotifyAll
  \/ \E r \in Receivers : AcceptSubscription(r)
  \/ \E r \in Receivers, s \in Sids, t \in Limits : Subscribe(r, s, t) \/ Renew(r, s, t)
  \/ \E r \in Receivers, s \in Sids : Unsubscribe(r, s)
  \/ \E s \in Sids : Expire(s)
  \/ \E w \in Workers : NotifyStart(w) \/ ReadSection(w) \/ \E gone \in BOOLEAN : NotifySent(w, gone)

Spec == Init /\ [][Next]_vars

\* Threads run, a NOTIFY ends, if only by its timeout, and whoever waits for the
\* lock gets it some day.  Nobody has to subscribe, publish or unregister.
FairSpec ==
  /\ Spec
  /\ \A w \in Workers : WF_vars(NotifyStart(w)) /\ SF_vars(ReadSection(w))
                          /\ SF_vars(\E gone \in BOOLEAN : NotifySent(w, gone))
  /\ SF_vars(dlnaRegisterRootDevice) /\ SF_vars(dlnaUnRegisterRootDevice)
  /\ \A r \in Receivers : SF_vars(AcceptSubscription(r))

-----------------------------------------------------------------------------
(* Types *)

NotifyJob == [sid : Sids, eventKey : 0..MaxKey, event : Events]

\* Every variable keeps its type.  A key never passes INT_MAX.
TypeOK ==
  /\ writer \in Receivers \cup {NULL}
  /\ app \in {"idle", "registering", "unregistering"}
  /\ device \in {"none", "registered", "serviceless"}
  /\ devices \in 0..MaxDevices
  /\ limit \in [subs : Limits \cup {DLNA_INFINITE}, timeOut : Limits \cup {DLNA_INFINITE}]
  /\ subscriptionList \in Seq(Sids)
  /\ TotalSubscriptions \in Int
  /\ sub \in [Sids -> [eventKey : 0..MaxKey, ToSendEventKey : 0..MaxKey, active : BOOLEAN, expires : BOOLEAN]]
  /\ used \subseteq Sids /\ expired \subseteq Sids
  /\ callback \in [Receivers -> Sids \cup {NULL}]
  /\ queue \in Seq(NotifyJob) /\ Len(queue) <= MaxJobs
  /\ wpc \in [Workers -> WorkerPcs]
  /\ \A w \in Workers : wjob[w] \in NotifyJob \/ (wpc[w] = "idle" /\ wjob[w] = NoJob)
  /\ wcount \in [Workers -> Int]
  /\ events \in 0..MaxEvents
  /\ reference_count \in [Events -> Int] /\ frees \in [Events -> Nat]
  /\ initial \in [Sids -> 0..MaxEvents]
  /\ accepted \in [Sids -> Seq(Events)] /\ sent \in [Sids -> Seq(Events)]

-----------------------------------------------------------------------------
(* Safety *)

\* TotalSubscriptions, which the limit is checked against, is the length of the
\* list, and no subscription is listed twice or after the device is gone.
SubscriptionsCounted ==
  /\ TotalSubscriptions = Len(subscriptionList)
  /\ \A i, j \in DOMAIN subscriptionList : subscriptionList[i] = subscriptionList[j] => i = j
  /\ subscriptionList # <<>> => device = "registered"

\* A subscriber never has two NOTIFYs under way at once, whichever threads of the
\* pool run its jobs.
OneNotifyAtATime ==
  \A v, w \in Workers : wpc[v] = "sending" /\ wpc[w] = "sending" /\ wjob[v].sid = wjob[w].sid => v = w

\* The headers and property set that the notify jobs of an event share are freed
\* with the last of those jobs: not before, not twice, and not never ("This
\* function frees memory used in notify_threads if the reference count is 0
\* otherwise decrements the refrence count", gena_device.c:152).
DataFreedWithLastJob ==
  \A e \in 1..events : frees[e] = (IF Pending(e) = {} THEN 1 ELSE 0)

\* The subscription a notify thread has looked up is still there when the thread
\* copies or removes it ("It validates the subscription and copies the
\* subscription", gena_device.c:347).
NodeStaysValid == \A w \in Workers : wpc[w] \in {"found", "expired"} => Listed(wjob[w].sid)

-----------------------------------------------------------------------------
(* Liveness *)

\* Every event accepted for a subscriber is sent to it some day, or its
\* subscription ends first ("If the event is out of order push it back to the job
\* queue", gena_device.c:386: being pushed back does not lose it).
EventsReachSubscribers ==
  \A s \in Sids, n \in Events :
    Len(accepted[s]) >= n /\ Listed(s) ~> Len(sent[s]) >= n \/ ~Listed(s)

\* Registering and unregistering a device ends ("synchronous", upnp.h:1194 and
\* 1351), whatever control points request meanwhile.
CallsReturn == app # "idle" ~> app = "idle"

-----------------------------------------------------------------------------
(* Refinement *)

Feed == INSTANCE EventFeed WITH Subscribers <- Sids, notified <- sent

\* Per subscriber, events are sent in the order of acceptance, without gap or
\* duplicate, and beginning with the initial state table.
ImplementsEventFeed == Feed!Spec
=============================================================================
