------------------------------ MODULE UpnpApi ------------------------------
(***************************************************************************)
(* upnp/upnpapi.c and upnp/miniserver.c: the life cycle of the library,    *)
(* the handle table under GlobalHndRWLock, the asynchronous calls as jobs  *)
(* of gSendThreadPool, and the server that accepts connections.            *)
(*                                                                         *)
(* A step is one stretch of code under the lock, or one between two points *)
(* where a thread waits.  The three pools promise what JobPool says: a job *)
(* taken is run once or discarded by the shutdown, which waits for the     *)
(* jobs that run.  A call whose checks fail returns and changes nothing.   *)
(***************************************************************************)
EXTENDS Integers, FiniteSets, Functions

CONSTANTS
  Main,          \* the application thread that calls dlnaInit and dlnaFinish
  Others,        \* its other threads
  DeviceThreads, \* those that register and unregister devices
  ClientThreads, \* those that register and unregister clients
  Workers,       \* threads of gSendThreadPool
  NumHandle,     \* NUM_HANDLE
  MaxQueued,     \* jobs gSendThreadPool holds before it refuses one
  Calls,         \* identities of asynchronous calls
  Requests,      \* identities of connections to the mini server
  MaxAds,        \* bound on the timer events of advertisements
  MaxInits,      \* bound on the calls of dlnaInit
  InOrder,       \* the application calls nothing before dlnaInit and after dlnaFinish
  NULL

Threads == {Main} \cup Others
Handles == 1..(NumHandle - 1)

ASSUME ApiAssumption ==
  /\ NumHandle \in Nat /\ NumHandle > 2
  /\ MaxQueued \in Nat /\ MaxAds \in Nat /\ MaxInits \in Nat
  /\ InOrder \in BOOLEAN
  /\ DeviceThreads \subseteq Threads /\ ClientThreads \subseteq Threads
  /\ NULL \notin Threads \cup Workers \cup {"DEVICE", "CLIENT"}

VARIABLES
  dlnaSdkInit, dlnaSdkDeviceRegistered, dlnaSdkClientRegistered,
  HandleTable,    \* per handle the type of what it stands for, or NULL
  lock,           \* who holds GlobalHndRWLock over a wait, or NULL
  pool,           \* per pool "none", "up", "stopping" or "down"
  timer,          \* gTimerThread: "none", "up" or "down"
  ads,            \* per handle the advertisements that wait in the timer
  adJobs,         \* per handle those handed to gSendThreadPool and not yet started
  bWebServerState,
  gMServState,
  sockets,        \* the sockets the library has open of its own
  server,         \* RunMiniServer: "none", "queued", "loop" or "told" to stop
  at,             \* per application thread the operation it is in, with its handle
  finishing,      \* who called dlnaFinish: "nobody", "application" or "dlnaInit"
  inits,          \* calls of dlnaInit so far
  call,           \* what became of each asynchronous call
  work,           \* per worker the job it runs and how far it is
  connection      \* what became of each connection

lifeVars == <<dlnaSdkInit, pool, timer, bWebServerState, finishing, inits>>
tableVars == <<dlnaSdkDeviceRegistered, dlnaSdkClientRegistered, HandleTable, lock>>
serverVars == <<gMServState, server, sockets, connection>>
jobVars == <<call, work, ads, adJobs>>
vars == <<lifeVars, tableVars, serverVars, jobVars, at>>

Idle == [op |-> "idle", h |-> 0]
Nothing == [job |-> NULL, h |-> 0, step |-> "none"]
NoAds == [h \in Handles |-> 0]
Total(f) == FoldFunction(+, 0, f)

-----------------------------------------------------------------------------
(* The handle table *)

\* Line 3486 stops one after the slot it found, so the last slot is never found.
FreeSlots == {h \in Handles : HandleTable[h] = NULL /\ h + 1 < NumHandle}
GetFreeHandle == CHOOSE h \in FreeSlots : \A g \in FreeSlots : h <= g

GetHandleInfo(h) == IF h \in Handles THEN HandleTable[h] ELSE NULL

\* dlnaFinish looks at the first two handles, without the lock.
FirstOf(type) == {h \in {1, 2} : GetHandleInfo(h) = type}
GetDeviceHandleInfo == FirstOf("DEVICE")
GetClientHandleInfo == FirstOf("CLIENT")

FreeHandle(h) == HandleTable' = [HandleTable EXCEPT ![h] = NULL]
LockFree == lock = NULL

InitHandleList == HandleTable' = [h \in Handles |-> NULL]

-----------------------------------------------------------------------------
(* Helpers for the threads *)

Goto(t, op) == at' = [at EXCEPT ![t].op = op]
Return(t) == at' = [at EXCEPT ![t] = Idle]

Starting ==
  at[Main].op \in {"init_send", "init_recv", "init_mini", "init_timer", "init_server",
                   "init_wait", "init_web"}

\* Where an operation of the application may begin.  The checks are dlnaSdkInit alone.
MayCall(t) ==
  /\ at[t] = Idle
  /\ dlnaSdkInit = 1
  /\ InOrder => finishing = "nobody" /\ ~Starting

\* dlnaUnRegisterRootDevice and dlnaUnRegisterClient return to the application or to dlnaFinish.
Resume(t, next) == IF t = Main /\ finishing # "nobody" THEN Goto(t, next) ELSE Return(t)

Queued == {c \in Calls : call[c] \in {"gena_queued", "soap_queued"}}

-----------------------------------------------------------------------------
(* dlnaInit *)

\* Up to InitHandleList, under the lock.
dlnaInit ==
  /\ at[Main] = Idle /\ dlnaSdkInit # 1 /\ inits < MaxInits
  /\ inits' = inits + 1
  /\ InitHandleList
  /\ Goto(Main, "init_send")
  /\ UNCHANGED <<dlnaSdkInit, pool, timer, bWebServerState, finishing, dlnaSdkDeviceRegistered,
                 dlnaSdkClientRegistered, lock, serverVars, jobVars>>

\* A pool that cannot start: dlnaFinish sees dlnaSdkInit = 0 and returns at once.
InitPool(p, this, next) ==
  /\ at[Main].op = this
  /\ \/ /\ pool' = [pool EXCEPT ![p] = "up"]
        /\ Goto(Main, next)
        /\ dlnaSdkInit' = IF p = "mini" THEN 1 ELSE dlnaSdkInit
     \/ /\ Return(Main)
        /\ dlnaSdkInit' = 0
        /\ UNCHANGED pool
  /\ UNCHANGED <<timer, bWebServerState, finishing, inits, tableVars, serverVars, jobVars>>

InitPools ==
  \/ InitPool("send", "init_send", "init_recv")
  \/ InitPool("recv", "init_recv", "init_mini")
  \/ InitPool("mini", "init_mini", "init_timer")

InitTimer ==
  /\ at[Main].op = "init_timer"
  /\ \/ timer' = "up" /\ Goto(Main, "init_server") /\ UNCHANGED dlnaSdkInit
     \/ Return(Main) /\ dlnaSdkInit' = 0 /\ UNCHANGED timer
  /\ UNCHANGED <<pool, bWebServerState, finishing, inits, tableVars, serverVars, jobVars>>

\* What follows a failure once dlnaSdkInit is 1: dlnaFinish for dlnaInit.
Give(up) == finishing' = up /\ Goto(Main, "fin_device")

\* What each of these leaves open: all it has to open, or nothing.
get_miniserver_sockets == {{"listen", "stop"}, {}}
get_ssdp_sockets == {{"ssdp", "ssdpReq"}, {}}

\* Up to the persistent job RunMiniServer, which the pool may refuse.
StartMiniServer ==
  /\ at[Main].op = "init_server"
  /\ \/ \E mini \in get_miniserver_sockets \ {{}}, ssdp \in get_ssdp_sockets \ {{}} :
          /\ gMServState = "IDLE"
          /\ sockets' = mini \cup ssdp
          /\ server' = "queued" /\ Goto(Main, "init_wait") /\ UNCHANGED finishing
     \/ Give("dlnaInit") /\ UNCHANGED <<server, sockets>>
  /\ UNCHANGED <<dlnaSdkInit, pool, timer, bWebServerState, inits, tableVars, gMServState,
                 connection, jobVars>>

StartMiniServerWaits ==
  /\ at[Main].op = "init_wait" /\ gMServState = "RUNNING"
  /\ Goto(Main, "init_web")
  /\ UNCHANGED <<lifeVars, tableVars, serverVars, jobVars>>

dlnaEnableWebserver ==
  /\ at[Main].op = "init_web"
  /\ \/ bWebServerState' = "ENABLED" /\ Return(Main) /\ UNCHANGED finishing
     \/ Give("dlnaInit") /\ UNCHANGED bWebServerState
  /\ UNCHANGED <<dlnaSdkInit, pool, timer, inits, tableVars, serverVars, jobVars>>

-----------------------------------------------------------------------------
(* dlnaFinish *)

dlnaFinish ==
  /\ at[Main] = Idle /\ dlnaSdkInit = 1
  /\ InOrder => \A t \in Others : at[t] = Idle
  /\ finishing' = "application"
  /\ Goto(Main, "fin_device")
  /\ UNCHANGED <<dlnaSdkInit, pool, timer, bWebServerState, inits, tableVars, serverVars, jobVars>>

\* A device is unregistered the way the application would do it.
FinishDevice ==
  /\ at[Main].op = "fin_device"
  /\ IF GetDeviceHandleInfo # {} /\ dlnaSdkDeviceRegistered = 1
       THEN /\ LockFree
            /\ at' = [at EXCEPT ![Main] = [op |-> "unreg_gena",
                                           h |-> CHOOSE h \in GetDeviceHandleInfo : TRUE]]
       ELSE Goto(Main, "fin_client")
  /\ UNCHANGED <<lifeVars, tableVars, serverVars, jobVars>>

FinishClient ==
  /\ at[Main].op = "fin_client"
  /\ IF GetClientHandleInfo # {} /\ dlnaSdkClientRegistered = 1
       THEN /\ LockFree
            /\ at' = [at EXCEPT ![Main] = [op |-> "unclient_gena",
                                           h |-> CHOOSE h \in GetClientHandleInfo : TRUE]]
       ELSE Goto(Main, "fin_timer")
  /\ UNCHANGED <<lifeVars, tableVars, serverVars, jobVars>>

\* The events that wait are freed.
FinishTimer ==
  /\ at[Main].op = "fin_timer"
  /\ timer' = "down" /\ ads' = NoAds
  /\ Goto(Main, "fin_server")
  /\ UNCHANGED <<dlnaSdkInit, pool, bWebServerState, finishing, inits, tableVars, serverVars,
                 call, work, adJobs>>

\* The running server is told to stop, or no socket opens to tell it over: then the
\* state stays STOPPING, nobody is told, and dlnaFinish goes on.
StopMiniServer ==
  /\ at[Main].op = "fin_server"
  /\ \/ /\ gMServState = "RUNNING" /\ gMServState' = "STOPPING"
        /\ \/ server' = "told" /\ Goto(Main, "fin_stop")
           \/ Goto(Main, "fin_web") /\ UNCHANGED server
     \/ gMServState # "RUNNING" /\ Goto(Main, "fin_web") /\ UNCHANGED <<gMServState, server>>
  /\ UNCHANGED <<lifeVars, tableVars, sockets, connection, jobVars>>

StopMiniServerWaits ==
  /\ at[Main].op = "fin_stop" /\ gMServState = "IDLE"
  /\ Goto(Main, "fin_web")
  /\ UNCHANGED <<lifeVars, tableVars, serverVars, jobVars>>

FinishWeb ==
  /\ at[Main].op = "fin_web"
  /\ bWebServerState' = "DISABLED"
  /\ Goto(Main, "fin_mini")
  /\ UNCHANGED <<dlnaSdkInit, pool, timer, finishing, inits, tableVars, serverVars, jobVars>>

Busy(p) ==
  CASE p = "send" -> \E w \in Workers : work[w] # Nothing
    [] p = "mini" -> server # "none" \/ \E r \in Requests : connection[r] \in {"read", "callback"}
    [] OTHER -> FALSE

\* The jobs of a pool that shuts down are discarded with their arguments.
Discarded(p) ==
  /\ call' = [c \in Calls |-> IF p = "send" /\ c \in Queued THEN "discarded" ELSE call[c]]
  /\ connection' = [r \in Requests |-> IF p = "mini" /\ connection[r] = "queued"
                                         THEN "closed" ELSE connection[r]]

FinishPool(p, this) ==
  /\ at[Main].op = this /\ pool[p] = "up"
  /\ pool' = [pool EXCEPT ![p] = "stopping"]
  /\ Discarded(p)
  /\ adJobs' = IF p = "send" THEN NoAds ELSE adJobs
  /\ UNCHANGED <<dlnaSdkInit, timer, bWebServerState, finishing, inits, tableVars, gMServState,
                 server, sockets, work, ads, at>>

\* ThreadPoolShutdown returns when the last thread has gone.
FinishPoolDone(p, this, next) ==
  /\ at[Main].op = this /\ pool[p] = "stopping" /\ ~Busy(p)
  /\ pool' = [pool EXCEPT ![p] = "down"]
  /\ Goto(Main, next)
  /\ UNCHANGED <<dlnaSdkInit, timer, bWebServerState, finishing, inits, tableVars, serverVars,
                 jobVars>>

\* The sending pool is forgotten.
FinishPools_SendLeft ==
  \/ FinishPool("mini", "fin_mini") \/ FinishPoolDone("mini", "fin_mini", "fin_recv")
  \/ FinishPool("recv", "fin_recv") \/ FinishPoolDone("recv", "fin_recv", "fin_done")

FinishPools ==
  \/ FinishPool("mini", "fin_mini") \/ FinishPoolDone("mini", "fin_mini", "fin_recv")
  \/ FinishPool("recv", "fin_recv") \/ FinishPoolDone("recv", "fin_recv", "fin_send")
  \/ FinishPool("send", "fin_send") \/ FinishPoolDone("send", "fin_send", "fin_done")

FinishDone ==
  /\ at[Main].op = "fin_done"
  /\ dlnaSdkInit' = 0 /\ finishing' = "nobody"
  /\ Return(Main)
  /\ UNCHANGED <<pool, timer, bWebServerState, inits, tableVars, serverVars, jobVars>>

-----------------------------------------------------------------------------
(* Registration *)

\* The description is fetched with the write lock held.  dlnaRegisterRootDevice2 differs in
\* where it takes the description from, and in that it may come under an alias.
dlnaRegisterRootDevice(t) ==
  /\ MayCall(t) /\ t \in DeviceThreads
  /\ LockFree /\ dlnaSdkDeviceRegistered = 0 /\ FreeSlots # {}
  /\ HandleTable' = [HandleTable EXCEPT ![GetFreeHandle] = "DEVICE"]
  /\ lock' = t
  /\ at' = [at EXCEPT ![t] = [op |-> "download", h |-> GetFreeHandle]]
  /\ UNCHANGED <<lifeVars, dlnaSdkDeviceRegistered, dlnaSdkClientRegistered, serverVars, jobVars>>

dlnaRegisterRootDevice2(t) == dlnaRegisterRootDevice(t)

\* The slot is not given back.
RegisterFails_Kept(t) ==
  /\ at[t].op = "download"
  /\ lock' = NULL /\ UNCHANGED HandleTable
  /\ Return(t)
  /\ UNCHANGED <<lifeVars, dlnaSdkDeviceRegistered, dlnaSdkClientRegistered, serverVars, jobVars>>

\* GetDescDocumentAndURL, dlnaDownloadXmlDoc, or a document without a device.
RegisterFails(t) ==
  /\ at[t].op = "download"
  /\ FreeHandle(at[t].h) /\ lock' = NULL
  /\ Return(t)
  /\ UNCHANGED <<lifeVars, dlnaSdkDeviceRegistered, dlnaSdkClientRegistered, serverVars, jobVars>>

RegisterDone(t) ==
  /\ at[t].op = "download"
  /\ dlnaSdkDeviceRegistered' = 1 /\ lock' = NULL
  /\ Return(t)
  /\ UNCHANGED <<lifeVars, HandleTable, dlnaSdkClientRegistered, serverVars, jobVars>>

dlnaRegisterClient(t) ==
  /\ MayCall(t) /\ t \in ClientThreads
  /\ LockFree /\ dlnaSdkClientRegistered = 0 /\ FreeSlots # {}
  /\ HandleTable' = [HandleTable EXCEPT ![GetFreeHandle] = "CLIENT"]
  /\ dlnaSdkClientRegistered' = 1
  /\ UNCHANGED <<lifeVars, dlnaSdkDeviceRegistered, lock, serverVars, jobVars, at>>

\* dlnaUnRegisterRootDevice looks its handle up three times, and lets go of the lock in between.
dlnaUnRegisterRootDevice(t, h) ==
  /\ MayCall(t) /\ t \in DeviceThreads
  /\ LockFree /\ dlnaSdkDeviceRegistered = 1
  /\ at' = [at EXCEPT ![t] = [op |-> "unreg_gena", h |-> h]]
  /\ UNCHANGED <<lifeVars, tableVars, serverVars, jobVars>>

UnRegisterGena(t) ==
  /\ at[t].op = "unreg_gena" /\ LockFree
  /\ IF GetHandleInfo(at[t].h) = "DEVICE" THEN Goto(t, "unreg_look") ELSE Resume(t, "fin_client")
  /\ UNCHANGED <<lifeVars, tableVars, serverVars, jobVars>>

UnRegisterLook(t) ==
  /\ at[t].op = "unreg_look" /\ LockFree
  /\ IF GetHandleInfo(at[t].h) # NULL THEN Goto(t, "unreg_bye") ELSE Resume(t, "fin_client")
  /\ UNCHANGED <<lifeVars, tableVars, serverVars, jobVars>>

\* AdvertiseAndReply(-1, ...), to which HInfo->MaxAge is passed with the lock let go.
UnRegisterBye(t) ==
  /\ at[t].op = "unreg_bye"
  /\ Goto(t, "unreg_free")
  /\ UNCHANGED <<lifeVars, tableVars, serverVars, jobVars>>

UnRegisterFree(t) ==
  /\ at[t].op = "unreg_free" /\ LockFree
  /\ IF GetHandleInfo(at[t].h) # NULL
       THEN FreeHandle(at[t].h) /\ dlnaSdkDeviceRegistered' = 0
       ELSE UNCHANGED <<HandleTable, dlnaSdkDeviceRegistered>>
  /\ Resume(t, "fin_client")
  /\ UNCHANGED <<lifeVars, dlnaSdkClientRegistered, lock, serverVars, jobVars>>

dlnaUnRegisterClient(t, h) ==
  /\ MayCall(t) /\ t \in ClientThreads
  /\ LockFree /\ dlnaSdkClientRegistered = 1
  /\ at' = [at EXCEPT ![t] = [op |-> "unclient_gena", h |-> h]]
  /\ UNCHANGED <<lifeVars, tableVars, serverVars, jobVars>>

UnClientGena(t) ==
  /\ at[t].op = "unclient_gena" /\ LockFree
  /\ IF GetHandleInfo(at[t].h) = "CLIENT" THEN Goto(t, "unclient_free") ELSE Resume(t, "fin_timer")
  /\ UNCHANGED <<lifeVars, tableVars, serverVars, jobVars>>

\* The searches go with the handle.
UnClientFree(t) ==
  /\ at[t].op = "unclient_free" /\ LockFree
  /\ IF GetHandleInfo(at[t].h) # NULL
       THEN FreeHandle(at[t].h) /\ dlnaSdkClientRegistered' = 0
       ELSE UNCHANGED <<HandleTable, dlnaSdkClientRegistered>>
  /\ Resume(t, "fin_timer")
  /\ UNCHANGED <<lifeVars, dlnaSdkDeviceRegistered, lock, serverVars, jobVars>>

-----------------------------------------------------------------------------
(* Calls *)

\* A call that checks its handle under the read lock and then works without the lock.
Checked(t, type, op) ==
  \E h \in Handles :
    /\ MayCall(t) /\ LockFree
    /\ GetHandleInfo(h) = type
    /\ at' = [at EXCEPT ![t] = [op |-> op, h |-> IF op = "advertise" THEN h ELSE 0]]
    /\ UNCHANGED <<lifeVars, tableVars, serverVars, jobVars>>

dlnaSubscribe(t) == Checked(t, "CLIENT", "gena")
dlnaUnSubscribe(t) == Checked(t, "CLIENT", "gena")
dlnaNotify(t) == Checked(t, "DEVICE", "gena")
dlnaNotifyExt(t) == Checked(t, "DEVICE", "gena")
dlnaAcceptSubscription(t) == Checked(t, "DEVICE", "gena")
dlnaAcceptSubscriptionExt(t) == Checked(t, "DEVICE", "gena")
dlnaSendAction(t) == Checked(t, "CLIENT", "request")
dlnaSendActionEx(t) == Checked(t, "CLIENT", "request")
dlnaGetServiceVarStatus(t) == Checked(t, "CLIENT", "request")
dlnaSearchAsync(t) == Checked(t, "CLIENT", "request")

\* The functions of GENA look the handle up again; the others do not need it any more.
CallReturns(t) ==
  /\ at[t].op \in {"gena", "request"}
  /\ at[t].op = "gena" => LockFree
  /\ Return(t)
  /\ UNCHANGED <<lifeVars, tableVars, serverVars, jobVars>>

HasRoom == Cardinality(Queued) + Total(adJobs) < MaxQueued

\* The result of ThreadPoolAdd is ignored: the caller is told DLNA_E_SUCCESS all the same.
Async(t, c, queued) ==
  /\ MayCall(t) /\ LockFree
  /\ \E h \in Handles : GetHandleInfo(h) = "CLIENT"
  /\ call[c] = "none"
  /\ call' = [call EXCEPT ![c] = IF HasRoom THEN queued ELSE "lost"]
  /\ UNCHANGED <<lifeVars, tableVars, serverVars, work, ads, adJobs, at>>

dlnaSubscribeAsync(t, c) == Async(t, c, "gena_queued")
dlnaUnSubscribeAsync(t, c) == Async(t, c, "gena_queued")
dlnaRenewSubscriptionAsync(t, c) == Async(t, c, "gena_queued")
dlnaSendActionAsync(t, c) == Async(t, c, "soap_queued")
dlnaSendActionExAsync(t, c) == Async(t, c, "soap_queued")
dlnaGetServiceVarStatusAsync(t, c) == Async(t, c, "soap_queued")

\* A thread of the pool takes the call, makes its request, and calls the application.
TakeCall(w, c) ==
  /\ pool["send"] = "up" /\ work[w] = Nothing /\ c \in Queued
  /\ work' = [work EXCEPT ![w] = [job |-> c, h |-> 0,
                                  step |-> IF call[c] = "gena_queued" THEN "gena" ELSE "soap"]]
  /\ call' = [call EXCEPT ![c] = "running"]
  /\ UNCHANGED <<lifeVars, tableVars, serverVars, ads, adJobs, at>>

dlnaThreadDistribution(w) ==
  /\ work[w].step \in {"gena", "soap"}
  /\ work[w].step = "gena" => LockFree
  /\ work' = [work EXCEPT ![w].step = "callback"]
  /\ UNCHANGED <<lifeVars, tableVars, serverVars, call, ads, adJobs, at>>

CallbackReturns(w) ==
  /\ work[w].step = "callback"
  /\ call' = [call EXCEPT ![work[w].job] = "answered"]
  /\ work' = [work EXCEPT ![w] = Nothing]
  /\ UNCHANGED <<lifeVars, tableVars, serverVars, ads, adJobs, at>>

-----------------------------------------------------------------------------
(* Advertisements *)

Scheduled_Unchecked(h) ==
  IF Total(ads) + Total(adJobs) < MaxAds
    THEN ads' = [ads EXCEPT ![h] = @ + 1]
    ELSE UNCHANGED ads

\* The device may have gone while it was advertised, so it is looked up again.
Scheduled(h) ==
  IF GetHandleInfo(h) = "DEVICE" /\ Total(ads) + Total(adJobs) < MaxAds
    THEN ads' = [ads EXCEPT ![h] = @ + 1]
    ELSE UNCHANGED ads
dlnaSendAdvertisement(t) == Checked(t, "DEVICE", "advertise")

AdvertisementSent(t) ==
  /\ at[t].op = "advertise" /\ LockFree
  /\ Scheduled(at[t].h)
  /\ Return(t)
  /\ UNCHANGED <<lifeVars, tableVars, serverVars, call, work, adJobs>>

TimerFires(h) ==
  /\ timer = "up" /\ ads[h] > 0
  /\ ads' = [ads EXCEPT ![h] = @ - 1]
  /\ adJobs' = IF HasRoom THEN [adJobs EXCEPT ![h] = @ + 1] ELSE adJobs
  /\ UNCHANGED <<lifeVars, tableVars, serverVars, call, work, at>>

\* The job makes the call an application would make.
AutoAdvertise(w, h) ==
  /\ pool["send"] = "up" /\ work[w] = Nothing /\ adJobs[h] > 0 /\ LockFree
  /\ adJobs' = [adJobs EXCEPT ![h] = @ - 1]
  /\ work' = IF GetHandleInfo(h) = "DEVICE"
               THEN [work EXCEPT ![w] = [job |-> "ad", h |-> h, step |-> "advertise"]]
               ELSE work
  /\ UNCHANGED <<lifeVars, tableVars, serverVars, call, ads, at>>

AutoAdvertised(w) ==
  /\ work[w].step = "advertise" /\ LockFree
  /\ Scheduled(work[w].h)
  /\ work' = [work EXCEPT ![w] = Nothing]
  /\ UNCHANGED <<lifeVars, tableVars, serverVars, call, adJobs, at>>

-----------------------------------------------------------------------------
(* The mini server *)

\* The thread of the persistent job enters its loop.
RunMiniServer ==
  /\ server = "queued" /\ pool["mini"] = "up"
  /\ server' = "loop" /\ gMServState' = "RUNNING"
  /\ UNCHANGED <<lifeVars, tableVars, sockets, connection, jobVars, at>>

\* A connection becomes a job, or is closed when the pool refuses it.
schedule_request_job(r) ==
  /\ server \in {"loop", "told"} /\ connection[r] = "none"
  /\ \E fate \in {"queued", "closed"} : connection' = [connection EXCEPT ![r] = fate]
  /\ UNCHANGED <<lifeVars, tableVars, gMServState, server, sockets, jobVars, at>>

\* The thread ends and does not say so in gMServState.
ServerStops_Untold ==
  /\ server = "told"
  /\ server' = "none" /\ sockets' = {}
  /\ UNCHANGED <<lifeVars, tableVars, gMServState, connection, jobVars, at>>

\* The loop ends when it reads "ShutDown" from the socket StopMiniServer writes to.
ServerStops ==
  /\ server = "told"
  /\ server' = "none" /\ sockets' = {} /\ gMServState' = "IDLE"
  /\ UNCHANGED <<lifeVars, tableVars, connection, jobVars, at>>

handle_request(r) ==
  /\ pool["mini"] = "up" /\ connection[r] = "queued"
  /\ connection' = [connection EXCEPT ![r] = "read"]
  /\ UNCHANGED <<lifeVars, tableVars, gMServState, server, sockets, jobVars, at>>

\* What is dispatched looks its device or client up, and calls the application back.
dispatch_request(r) ==
  /\ connection[r] = "read" /\ LockFree
  /\ connection' = [connection EXCEPT ![r] =
                      IF \E h \in Handles : HandleTable[h] # NULL THEN "callback" ELSE "closed"]
  /\ UNCHANGED <<lifeVars, tableVars, gMServState, server, sockets, jobVars, at>>

\* A message that cannot be read gets an error.
handle_error(r) ==
  /\ connection[r] = "read"
  /\ connection' = [connection EXCEPT ![r] = "closed"]
  /\ UNCHANGED <<lifeVars, tableVars, gMServState, server, sockets, jobVars, at>>

RequestDone(r) ==
  /\ connection[r] = "callback"
  /\ connection' = [connection EXCEPT ![r] = "closed"]
  /\ UNCHANGED <<lifeVars, tableVars, gMServState, server, sockets, jobVars, at>>

-----------------------------------------------------------------------------
Init ==
  /\ dlnaSdkInit = 0 /\ dlnaSdkDeviceRegistered = 0 /\ dlnaSdkClientRegistered = 0
  /\ HandleTable = [h \in Handles |-> NULL] /\ lock = NULL
  /\ pool = [p \in {"send", "recv", "mini"} |-> "none"]
  /\ timer = "none" /\ ads = NoAds /\ adJobs = NoAds
  /\ bWebServerState = "DISABLED"
  /\ gMServState = "IDLE" /\ server = "none" /\ sockets = {}
  /\ at = [t \in Threads |-> Idle] /\ finishing = "nobody" /\ inits = 0
  /\ call = [c \in Calls |-> "none"] /\ work = [w \in Workers |-> Nothing]
  /\ connection = [r \in Requests |-> "none"]

Lifecycle ==
  \/ dlnaInit \/ InitPools \/ InitTimer \/ StartMiniServer \/ StartMiniServerWaits
  \/ dlnaEnableWebserver
  \/ dlnaFinish \/ FinishDevice \/ FinishClient \/ FinishTimer \/ StopMiniServer
  \/ StopMiniServerWaits \/ FinishWeb \/ FinishPools \/ FinishDone

Registration(t) ==
  \/ dlnaRegisterRootDevice(t) \/ dlnaRegisterRootDevice2(t) \/ RegisterFails(t) \/ RegisterDone(t) \/ dlnaRegisterClient(t)
  \/ \E h \in Handles : dlnaUnRegisterRootDevice(t, h) \/ dlnaUnRegisterClient(t, h)
  \/ UnRegisterGena(t) \/ UnRegisterLook(t) \/ UnRegisterBye(t) \/ UnRegisterFree(t)
  \/ UnClientGena(t) \/ UnClientFree(t)

Calling(t) ==
  \/ dlnaSubscribe(t) \/ dlnaUnSubscribe(t) \/ dlnaNotify(t) \/ dlnaNotifyExt(t)
  \/ dlnaAcceptSubscription(t) \/ dlnaAcceptSubscriptionExt(t) \/ dlnaSendAction(t)
  \/ dlnaSendActionEx(t) \/ dlnaGetServiceVarStatus(t) \/ dlnaSearchAsync(t)
  \/ dlnaSendAdvertisement(t) \/ AdvertisementSent(t) \/ CallReturns(t)
  \/ \E c \in Calls :
       \/ dlnaSubscribeAsync(t, c) \/ dlnaUnSubscribeAsync(t, c)
       \/ dlnaRenewSubscriptionAsync(t, c) \/ dlnaSendActionAsync(t, c)
       \/ dlnaSendActionExAsync(t, c) \/ dlnaGetServiceVarStatusAsync(t, c)

Working(w) ==
  \/ \E c \in Calls : TakeCall(w, c)
  \/ dlnaThreadDistribution(w) \/ CallbackReturns(w)
  \/ \E h \in Handles : AutoAdvertise(w, h)
  \/ AutoAdvertised(w)

Serving ==
  \/ RunMiniServer \/ ServerStops
  \/ \E r \in Requests :
       \/ schedule_request_job(r) \/ handle_request(r) \/ dispatch_request(r)
       \/ handle_error(r) \/ RequestDone(r)

Next ==
  \/ Lifecycle
  \/ \E t \in Threads : Registration(t) \/ Calling(t)
  \/ \E w \in Workers : Working(w)
  \/ \E h \in Handles : TimerFires(h)
  \/ Serving

Spec == Init /\ [][Next]_vars

\* What has been begun goes on.  Nobody has to begin anything.
Ends(t) ==
  \/ RegisterFails(t) \/ RegisterDone(t) \/ UnRegisterGena(t) \/ UnRegisterLook(t)
  \/ UnRegisterBye(t) \/ UnRegisterFree(t) \/ UnClientGena(t) \/ UnClientFree(t)
  \/ CallReturns(t) \/ AdvertisementSent(t)

Continues ==
  \/ InitPools \/ InitTimer \/ StartMiniServer \/ StartMiniServerWaits \/ dlnaEnableWebserver
  \/ FinishDevice \/ FinishClient \/ FinishTimer \/ StopMiniServer \/ StopMiniServerWaits
  \/ FinishWeb \/ FinishPools \/ FinishDone \/ Ends(Main)

FairSpec ==
  /\ Spec
  /\ WF_vars(Continues)
  /\ \A w \in Workers : WF_vars(Working(w))
  /\ WF_vars(RunMiniServer) /\ WF_vars(ServerStops)
  /\ \A r \in Requests :
       WF_vars(handle_request(r) \/ dispatch_request(r) \/ RequestDone(r))

-----------------------------------------------------------------------------
\* The two flags say what the handle table holds (upnpapi.c:126): a device or client is
\* registered at most once, and its flag is set as long as its handle is in the table.
RegistrationMatchesTable ==
  LockFree =>
    /\ Cardinality({h \in Handles : HandleTable[h] = "DEVICE"}) = dlnaSdkDeviceRegistered
    /\ Cardinality({h \in Handles : HandleTable[h] = "CLIENT"}) = dlnaSdkClientRegistered

\* Nothing is put into the timer once dlnaFinish has shut it down (upnpapi.c:432),
\* although advertisements are still being sent by jobs then.
TimerStaysEmpty == timer = "down" => ads = NoAds

\* Once dlnaFinish has returned, no job calls the application, no connection that was
\* accepted and no socket of the library is open, and the server has stopped
\* (upnpapi.c:433-441); the same after a dlnaInit that failed.
QuietWhenDown ==
  dlnaSdkInit = 0 /\ at[Main] = Idle =>
    /\ \A w \in Workers : work[w] = Nothing
    /\ server = "none" /\ sockets = {}
    /\ \A r \in Requests : connection[r] \in {"none", "closed"}

\* StopMiniServer found no socket to tell the server over (miniserver.c:819-824).
Unheard == server = "loop" /\ gMServState = "STOPPING"

\* dlnaInit and dlnaFinish return, whatever jobs and connections there are
\* (upnpapi.c:433-441), unless StopMiniServer could not open its socket: only then does
\* the server run on, and dlnaFinish waits for its job for ever.
MainReturns == at[Main].op # "idle" ~> at[Main].op = "idle" \/ Unheard
=============================================================================
