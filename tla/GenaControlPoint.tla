-------------------------- MODULE GenaControlPoint --------------------------
(***************************************************************************)
(* Eventing on the control point side: gena_ctrlpt.c and client_table.c    *)
(* over the timer thread, with registration, unregistration and dlnaFinish *)
(* of upnpapi.c.                                                           *)
(*                                                                         *)
(* What runs under GlobalHndRWLock is one action; requests to the device   *)
(* are made with the lock released.  GlobalClientSubscribeMutex is held    *)
(* over a whole SUBSCRIBE, so it is a variable.  The client SID and the    *)
(* SID of the device name the same subscription and are one number; a      *)
(* renewal keeps it.                                                       *)
(***************************************************************************)
EXTENDS TimerThread

CONSTANTS
  Callers,     \* threads in calls of the application and jobs of the asynchronous calls
  Workers,     \* threads of gSendThreadPool that run automatic renewals
  Handlers,    \* threads of gMiniServerThreadPool that handle a NOTIFY
  Nobody,
  Delays,      \* seconds from a subscription or renewal to its automatic renewal
  MaxSids,     \* bound on the subscriptions devices grant
  MaxClients,  \* bound on the registrations
  MayFinish    \* whether the application calls dlnaFinish

ASSUME ControlPointAssumption ==
  /\ Delays \subseteq Nat
  /\ MaxSids \in Nat /\ MaxClients \in Nat
  /\ MayFinish \in BOOLEAN
  /\ Nobody \notin Callers \cup Workers \cup Handlers
  /\ Callers \cap Handlers = {}

VARIABLES
  client,       \* is a client in the handle table
  clients,      \* registrations so far
  subs,         \* ClientSubList: subscriptions by SID
  subscriber,   \* the holder of GlobalClientSubscribeMutex
  pc, local,    \* where each thread is, and its local variables
  granted,      \* SUBSCRIBEs that devices have accepted, the last SID
  notifies,     \* the SIDs whose first NOTIFY, with key 0, is under way
  rejected,     \* those whose first NOTIFY was answered with an error
  freed,        \* how often each dlna_timeout has been freed
  finishing     \* the caller of dlnaFinish

clientVars == <<client, clients, subs, subscriber>>
deviceVars == <<granted, notifies, rejected>>
vars == <<timerVars, jobs, clientVars, pc, local, deviceVars, freed, finishing>>

Threads == Callers \cup Workers \cup Handlers
SIDs == 1..MaxSids
NoSid == 0
NoEvent == -1
Infinite == -1
Events == 0..MaxEventId - 1

\* What a timer event carries: the number of its dlna_timeout and the SID to renew.
Job == [event : Events, sid : SIDs]

NoLocals == [sid |-> NoSid, since |-> 0, grant |-> Infinite, ok |-> FALSE, event |-> NoEvent]

-----------------------------------------------------------------------------
(* Helpers *)

Goto(t, where) == pc' = [pc EXCEPT ![t] = where]
Keep(t, locals) == local' = [local EXCEPT ![t] = locals]
Return(t) == Goto(t, "idle") /\ Keep(t, NoLocals)

\* The end of dlnaUnRegisterClient, which dlnaFinish may have called.
Back(t) ==
  /\ Goto(t, IF finishing = t THEN "finTimer" ELSE "idle")
  /\ Keep(t, NoLocals)

Linked(sid) == \E s \in subs : s.sid = sid
Sub(sid) == CHOOSE s \in subs : s.sid = sid
Without(sid) == {s \in subs : s.sid # sid}

FreeAll(events) == freed' = [e \in Events |-> IF e \in events THEN freed[e] + 1 ELSE freed[e]]

\* The result of TimerThreadRemove is ignored.
CancelRenewal_FreesAnyway(sid) ==
  LET id == Sub(sid).RenewEventId
  IN  /\ TimerThreadRemove(id)
      /\ FreeAll({id})

\* TimerThreadRemove of the renewal of a subscription, and free_dlna_timeout of
\* what it returns, which leaves alone an event that is in the pool already.
CancelRenewal(sid) ==
  LET id == Sub(sid).RenewEventId
  IN  /\ TimerThreadRemove(id)
      /\ FreeAll(IF Queued(id) THEN {id} ELSE {})

\* RemoveClientSubClientSID
RemoveClientSub(sid) ==
  /\ subs' = Without(sid)
  /\ IF Linked(sid) THEN CancelRenewal(sid) ELSE UNCHANGED <<timerVars, freed>>

Earliest(time) == IF time < MaxTime THEN time ELSE MaxTime

\* ScheduleGenaAutoRenew for the subscription sid, which is one of rest \cup {s}.
ScheduleGenaAutoRenew(rest, s, grant) ==
  IF grant = Infinite
  THEN /\ subs' = rest \cup {[s EXCEPT !.finite = FALSE]}
       /\ UNCHANGED timerVars
  ELSE /\ TimerThreadSchedule([event |-> lastEventId, sid |-> s.sid], Earliest(now + grant))
       /\ subs' = rest \cup {[s EXCEPT !.finite = TRUE, !.RenewEventId = lastEventId]}

\* A device grants time-outs from Delays, and infinite ones, alone when the bound
\* on events is near.
Grants ==
  LET promised == Cardinality({t \in Threads : local[t].grant # Infinite})
  IN  {Infinite} \cup (IF lastEventId + promised < MaxEventId THEN Delays ELSE {})

Idle(t) == pc[t] = "idle"
MayCall(t) == Idle(t) /\ finishing = Nobody

\* Until StopMiniServer.
Serving == \A t \in Callers : pc[t] \notin {"finHandlers", "finThreads", "finished"}

-----------------------------------------------------------------------------
(* Registration *)

dlnaRegisterClient(t) ==
  /\ MayCall(t) /\ ~client /\ clients < MaxClients
  /\ client' = TRUE
  /\ clients' = clients + 1
  /\ subs' = {}
  /\ UNCHANGED <<timerVars, subscriber, pc, local, deviceVars, jobs, freed, finishing>>

dlnaUnRegisterClient(t) ==
  /\ MayCall(t) /\ client
  /\ Goto(t, "unregister")
  /\ UNCHANGED <<timerVars, clientVars, local, deviceVars, jobs, freed, finishing>>

\* One round of the loop of genaUnregisterClient: the head of the list, which is
\* the latest subscription, goes.
genaUnregisterClient(t) ==
  /\ pc[t] = "unregister"
  /\ \/ /\ ~client
        /\ Back(t)
        /\ UNCHANGED <<timerVars, subs, freed>>
     \/ /\ client /\ subs = {}
        /\ Goto(t, "unregistered")
        /\ UNCHANGED <<timerVars, subs, local, freed>>
     \/ /\ client /\ subs # {}
        /\ LET head == CHOOSE s \in subs : \A r \in subs : r.sid <= s.sid
           IN  RemoveClientSub(head.sid)
        /\ Goto(t, "unregisterSent")
        /\ UNCHANGED local
  /\ UNCHANGED <<client, clients, subscriber, deviceVars, jobs, finishing>>

UnregisterSent(t) ==
  /\ pc[t] = "unregisterSent"
  /\ Goto(t, "unregister")
  /\ UNCHANGED <<timerVars, clientVars, local, deviceVars, jobs, freed, finishing>>

\* FreeHandle: what was subscribed since the list was found empty goes with it.
UnregisterDone(t) ==
  /\ pc[t] = "unregistered"
  /\ client' = FALSE
  /\ subs' = IF client THEN {} ELSE subs
  /\ Back(t)
  /\ UNCHANGED <<timerVars, clients, subscriber, deviceVars, jobs, freed, finishing>>

-----------------------------------------------------------------------------
(* genaSubscribe *)

SubscribeCall(t) ==
  /\ MayCall(t) /\ client
  /\ Goto(t, "subscribe")
  /\ Keep(t, [NoLocals EXCEPT !.since = clients])
  /\ UNCHANGED <<timerVars, clientVars, deviceVars, jobs, freed, finishing>>

\* SubscribeLock, and the request goes out.
SubscribeSend(t) ==
  /\ pc[t] = "subscribe" /\ subscriber = Nobody
  /\ subscriber' = t
  /\ Goto(t, "subscribeSent")
  /\ UNCHANGED <<timerVars, client, clients, subs, local, deviceVars, jobs, freed, finishing>>

\* gena_subscribe: the device accepts and sends its first NOTIFY, and the response
\* arrives or is lost; or the request fails.
SubscribeReply(t) ==
  /\ pc[t] = "subscribeSent"
  /\ Goto(t, "subscribeReplied")
  /\ \/ /\ granted < MaxSids
        /\ granted' = granted + 1
        /\ notifies' = notifies \cup {granted'}
        /\ \/ \E g \in Grants :
                Keep(t, [local[t] EXCEPT !.sid = granted', !.grant = g, !.ok = TRUE])
           \/ UNCHANGED local
     \/ UNCHANGED <<granted, notifies, local>>
  /\ UNCHANGED <<timerVars, clientVars, rejected, jobs, freed, finishing>>

NewSubscription(t) ==
  [sid |-> local[t].sid, RenewEventId |-> NoEvent, finite |-> FALSE, since |-> local[t].since]

\* The handle is not looked up again.
SubscribeDone_TrustsHandle(t) ==
  /\ pc[t] = "subscribeReplied"
  /\ IF local[t].ok
     THEN ScheduleGenaAutoRenew(subs, NewSubscription(t), local[t].grant)
     ELSE UNCHANGED <<timerVars, subs>>
  /\ subscriber' = Nobody
  /\ Return(t)
  /\ UNCHANGED <<client, clients, deviceVars, jobs, freed, finishing>>

\* The failed call keeps GlobalClientSubscribeMutex.
SubscribeDone_KeepsLock(t) ==
  /\ pc[t] = "subscribeReplied"
  /\ IF client /\ local[t].ok
     THEN /\ ScheduleGenaAutoRenew(subs, NewSubscription(t), local[t].grant)
          /\ subscriber' = Nobody
     ELSE UNCHANGED <<timerVars, subs, subscriber>>
  /\ Return(t)
  /\ UNCHANGED <<client, clients, deviceVars, jobs, freed, finishing>>

SubscribeDone(t) ==
  /\ pc[t] = "subscribeReplied"
  /\ IF client /\ local[t].ok
     THEN ScheduleGenaAutoRenew(subs, NewSubscription(t), local[t].grant)
     ELSE UNCHANGED <<timerVars, subs>>
  /\ subscriber' = Nobody
  /\ Return(t)
  /\ UNCHANGED <<client, clients, deviceVars, jobs, freed, finishing>>

-----------------------------------------------------------------------------
(* genaRenewSubscription, called by the application or by a timer event *)

\* The lookup, with the event that is about to be replaced.
StartRenewal(t, sid, event) ==
  /\ CancelRenewal(sid)
  /\ subs' = Without(sid) \cup {[Sub(sid) EXCEPT !.RenewEventId = NoEvent]}
  /\ Goto(t, "renewSent")
  /\ Keep(t, [NoLocals EXCEPT !.sid = sid, !.event = event])

RenewCall(t) ==
  /\ MayCall(t) /\ client
  /\ \E s \in subs : StartRenewal(t, s.sid, NoEvent)
  /\ UNCHANGED <<client, clients, subscriber, deviceVars, jobs, finishing>>

\* A thread of the pool picks up an event: GenaAutoRenewSubscription up to the
\* request.  Without the client or the subscription it just frees the event.
AutoRenew(w) ==
  /\ Idle(w)
  /\ \E j \in jobs :
       /\ jobs' = jobs \ {j}
       /\ IF client /\ Linked(j.sid)
          THEN StartRenewal(w, j.sid, j.event)
          ELSE FreeAll({j.event}) /\ UNCHANGED <<timerVars, subs, pc, local>>
  /\ UNCHANGED <<client, clients, subscriber, deviceVars, finishing>>

\* gena_subscribe with the SID: the device grants a new time-out, or the request fails.
RenewReply(t) ==
  /\ pc[t] = "renewSent"
  /\ Goto(t, "renewReplied")
  /\ \/ \E g \in Grants : Keep(t, [local[t] EXCEPT !.grant = g, !.ok = TRUE])
     \/ UNCHANGED local
  /\ UNCHANGED <<timerVars, clientVars, deviceVars, jobs, freed, finishing>>

Mine(t) == IF local[t].event = NoEvent THEN {} ELSE {local[t].event}

\* A failure other than of the handle or of the SID is reported by automatic
\* renewals; otherwise the thread is done with its event.
EndRenewal(t, failed) ==
  IF failed /\ local[t].event # NoEvent
  THEN Goto(t, "renewFailed") /\ UNCHANGED local
  ELSE Return(t)

\* The failed subscription stays in the list.
RenewDone_KeepsFailed(t) ==
  /\ pc[t] = "renewReplied"
  /\ LET sid == local[t].sid
         failed == client /\ ~local[t].ok
     IN  /\ EndRenewal(t, failed)
         /\ FreeAll(IF failed THEN {} ELSE Mine(t))
         /\ IF client /\ ~failed /\ Linked(sid)
            THEN ScheduleGenaAutoRenew(Without(sid), Sub(sid), local[t].grant)
            ELSE UNCHANGED <<timerVars, subs>>
  /\ UNCHANGED <<client, clients, subscriber, deviceVars, jobs, finishing>>

RenewDone(t) ==
  /\ pc[t] = "renewReplied"
  /\ LET sid == local[t].sid
         failed == client /\ ~local[t].ok
     IN  /\ EndRenewal(t, failed)
         /\ \/ /\ failed
               /\ RemoveClientSub(sid)
            \/ /\ ~failed
               /\ FreeAll(Mine(t))
               /\ IF client /\ Linked(sid)
                  THEN ScheduleGenaAutoRenew(Without(sid), Sub(sid), local[t].grant)
                  ELSE UNCHANGED <<timerVars, subs>>
  /\ UNCHANGED <<client, clients, subscriber, deviceVars, jobs, finishing>>

\* The handle is checked again, and the callback is made after HandleUnlock.
ReportFailure(w) ==
  /\ pc[w] = "renewFailed"
  /\ IF client
     THEN Goto(w, "callback") /\ UNCHANGED <<local, freed>>
     ELSE FreeAll(Mine(w)) /\ Return(w)
  /\ UNCHANGED <<timerVars, clientVars, deviceVars, jobs, finishing>>

CallbackReturns(w) ==
  /\ pc[w] = "callback"
  /\ FreeAll(Mine(w))
  /\ Return(w)
  /\ UNCHANGED <<timerVars, clientVars, deviceVars, jobs, finishing>>

-----------------------------------------------------------------------------
(* genaUnSubscribe *)

UnSubscribeCall(t) ==
  /\ MayCall(t) /\ client
  /\ \E s \in subs : Keep(t, [NoLocals EXCEPT !.sid = s.sid])
  /\ Goto(t, "unsubscribeSent")
  /\ UNCHANGED <<timerVars, clientVars, deviceVars, jobs, freed, finishing>>

\* The subscription goes whatever the device has answered.
UnSubscribeDone(t) ==
  /\ pc[t] = "unsubscribeSent"
  /\ IF client THEN RemoveClientSub(local[t].sid) ELSE UNCHANGED <<timerVars, subs, freed>>
  /\ Return(t)
  /\ UNCHANGED <<client, clients, subscriber, deviceVars, jobs, finishing>>

-----------------------------------------------------------------------------
(* gena_process_notification_event, for the event with key 0.  An event with  *)
(* another key is matched once, and changes nothing.                          *)

\* The subscription is reported to the application, or the NOTIFY refused.
Answer(h, sid) ==
  IF client /\ Linked(sid)
  THEN Goto(h, "event") /\ Keep(h, NoLocals) /\ UNCHANGED rejected
  ELSE Return(h) /\ rejected' = rejected \cup {sid}

\* No second look.
NotifyLook_Once(h) ==
  /\ Idle(h)
  /\ Serving
  /\ \E sid \in notifies :
       /\ notifies' = notifies \ {sid}
       /\ Answer(h, sid)
  /\ UNCHANGED <<timerVars, clientVars, granted, jobs, freed, finishing>>

NotifyLook(h) ==
  /\ Idle(h)
  /\ Serving
  /\ \E sid \in notifies :
       /\ notifies' = notifies \ {sid}
       /\ IF client /\ ~Linked(sid)
          THEN /\ Goto(h, "notify")
               /\ Keep(h, [NoLocals EXCEPT !.sid = sid])
               /\ UNCHANGED rejected
          ELSE Answer(h, sid)
  /\ UNCHANGED <<timerVars, clientVars, granted, jobs, freed, finishing>>

\* Again, once no subscription is in the making: SubscribeLock is taken and
\* released around the second look.
NotifyLookAgain(h) ==
  /\ pc[h] = "notify" /\ subscriber = Nobody
  /\ Answer(h, local[h].sid)
  /\ UNCHANGED <<timerVars, clientVars, granted, notifies, jobs, freed, finishing>>

EventReturns(h) ==
  /\ pc[h] = "event"
  /\ Return(h)
  /\ UNCHANGED <<timerVars, clientVars, deviceVars, jobs, freed, finishing>>

-----------------------------------------------------------------------------
(* dlnaFinish.  The application makes no other calls once it has begun, but    *)
(* calls already on a thread go on.                                            *)

Pass(t, from, to) == pc[t] = from /\ Goto(t, to)

dlnaFinish(t) ==
  /\ MayFinish /\ MayCall(t)
  /\ finishing' = t
  /\ Goto(t, IF client THEN "unregister" ELSE "finTimer")
  /\ UNCHANGED <<timerVars, clientVars, local, deviceVars, jobs, freed>>

\* TimerThreadShutdown frees the arguments of the events in its list,
FinishTimer(t) ==
  /\ Pass(t, "finTimer", "finWait")
  /\ TimerThreadShutdown
  /\ FreeAll({eventQ[i].job.event : i \in DOMAIN eventQ})
  /\ UNCHANGED <<clientVars, local, deviceVars, jobs, finishing>>

\* and waits for the worker.  StopMiniServer ends the flow of requests,
FinishServer(t) ==
  /\ MutexFree /\ shutdown = 0
  /\ Pass(t, "finWait", "finHandlers")
  /\ UNCHANGED <<timerVars, clientVars, local, deviceVars, jobs, freed, finishing>>

\* ThreadPoolShutdown waits for the threads that serve them, and discards the
\* jobs of gSendThreadPool
FinishJobs(t) ==
  /\ \A h \in Handlers : Idle(h)
  /\ Pass(t, "finHandlers", "finThreads")
  /\ jobs' = {}
  /\ FreeAll({j.event : j \in jobs})
  /\ UNCHANGED <<timerVars, clientVars, local, deviceVars, finishing>>

\* before it waits for its threads.
FinishDone(t) ==
  /\ \A u \in Threads \ {t} : Idle(u)
  /\ Pass(t, "finThreads", "finished")
  /\ UNCHANGED <<timerVars, clientVars, local, deviceVars, jobs, freed, finishing>>

-----------------------------------------------------------------------------
Init ==
  /\ TimerInit
  /\ client = FALSE /\ clients = 0 /\ subs = {}
  /\ subscriber = Nobody
  /\ pc = [t \in Threads |-> "idle"]
  /\ local = [t \in Threads |-> NoLocals]
  /\ granted = 0 /\ notifies = {} /\ rejected = {}
  /\ freed = [e \in Events |-> 0]
  /\ finishing = Nobody

TimerStep == TimerNext /\ UNCHANGED <<clientVars, pc, local, deviceVars, freed, finishing>>

CallStep(t) ==
  \/ genaUnregisterClient(t) \/ UnregisterSent(t) \/ UnregisterDone(t)
  \/ SubscribeSend(t) \/ SubscribeReply(t) \/ SubscribeDone(t)
  \/ RenewReply(t) \/ RenewDone(t)
  \/ UnSubscribeDone(t)
  \/ FinishTimer(t) \/ FinishServer(t) \/ FinishJobs(t) \/ FinishDone(t)

WorkerStep(w) ==
  AutoRenew(w) \/ RenewReply(w) \/ RenewDone(w) \/ ReportFailure(w) \/ CallbackReturns(w)

HandlerStep(h) == NotifyLook(h) \/ NotifyLookAgain(h) \/ EventReturns(h)

Next ==
  \/ TimerStep
  \/ \E t \in Callers :
       \/ dlnaRegisterClient(t) \/ dlnaUnRegisterClient(t) \/ dlnaFinish(t)
       \/ SubscribeCall(t) \/ RenewCall(t) \/ UnSubscribeCall(t)
       \/ CallStep(t)
  \/ \E w \in Workers : WorkerStep(w)
  \/ \E h \in Handlers : HandlerStep(h)

Spec == Init /\ [][Next]_vars

-----------------------------------------------------------------------------
(* Properties *)

\* A subscription with a time-out is never forgotten: its renewal is a timer
\* event, a job of the pool, or under way, whatever renewals, unsubscriptions and
\* failures overlap.
RenewalPending ==
  \A s \in subs : s.finite =>
    \/ \E i \in DOMAIN eventQ : eventQ[i].job.sid = s.sid
    \/ \E j \in jobs : j.sid = s.sid
    \/ \E t \in Threads : pc[t] \in {"renewSent", "renewReplied"} /\ local[t].sid = s.sid

Owners(e) ==
  Cardinality({i \in DOMAIN eventQ : eventQ[i].job.event = e})
    + Cardinality({j \in jobs : j.event = e})
    + Cardinality({t \in Threads : local[t].event = e})

\* The memory of a timer event always has one owner, the timer, the pool or the
\* thread that runs it, until that owner frees it, once.
EventOwnedOnce ==
  \A e \in Events : Owners(e) + freed[e] = IF e < lastEventId THEN 1 ELSE 0

\* The first event of a service is not refused although it may overtake the
\* response that makes the subscription known (lines 816-820 of gena_ctrlpt.c),
\* unless the client it was for has been unregistered meanwhile.
FirstEventNotLost ==
  \A s \in subs : s.since = clients => s.sid \notin rejected

TimerDown ==
  \E t \in Callers : pc[t] \in {"finWait", "finHandlers", "finThreads", "finished"}

\* After dlnaFinish has shut the timer down nobody schedules events, although
\* calls that were under way go on until the pools are shut down.
QuietAfterShutdown == TimerDown => eventQ = <<>> /\ ~client /\ subs = {}

CanSchedule(grant) == grant = Infinite \/ (MutexFree /\ Places(Earliest(now + grant)) # {})

\* A thread in a call, a job or a NOTIFY has a step to take: what its next step asks for is there.
CanGoOn(t) ==
  CASE pc[t] \in {"subscribe", "notify"} -> subscriber = Nobody
    [] pc[t] = "subscribeReplied" -> client /\ local[t].ok => CanSchedule(local[t].grant)
    [] pc[t] = "renewReplied" ->
         client /\ Linked(local[t].sid) => IF local[t].ok THEN CanSchedule(local[t].grant) ELSE MutexFree
    [] pc[t] = "unsubscribeSent" -> client /\ Linked(local[t].sid) => MutexFree
    [] pc[t] = "unregister" -> client /\ subs # {} => MutexFree
    [] pc[t] = "finTimer" -> MutexFree
    [] pc[t] = "finWait" -> MutexFree /\ shutdown = 0
    [] pc[t] = "finHandlers" -> \A h \in Handlers : Idle(h)
    [] pc[t] = "finThreads" -> \A u \in Threads \ {t} : Idle(u)
    [] OTHER -> pc[t] \notin {"idle", "finished"}

\* Nobody waits for ever: while calls, jobs or NOTIFYs are under way, one of them or
\* the timer's worker has a step to take.  The waits are for the mutex of
\* SUBSCRIBE (lines 558 and 824 of gena_ctrlpt.c), for the timer's mutex and worker
\* (line 503 of TimerThread.c), and in dlnaFinish for every other thread.
CallsGoOn ==
  (\E t \in Threads : pc[t] \notin {"idle", "finished"}) =>
    WorkerReady \/ \E t \in Threads : CanGoOn(t)
=============================================================================
