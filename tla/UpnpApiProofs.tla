--------------------------- MODULE UpnpApiProofs ---------------------------
(***************************************************************************)
(* Proofs about UpnpApi: the handle table and its flags, the timer, and    *)
(* what is left once the library is down.                                  *)
(***************************************************************************)
EXTENDS UpnpApi, FiniteSetTheorems, TLAPS

InitOps ==
  {"init_send", "init_recv", "init_mini", "init_timer", "init_server", "init_wait", "init_web"}
DeviceOps == {"download", "unreg_gena", "unreg_look", "unreg_bye", "unreg_free"}
ClientOps == {"unclient_gena", "unclient_free"}
\* dlnaFinish after the device, after the client, and after the timer.
AfterTimer == {"fin_server", "fin_stop", "fin_web", "fin_mini", "fin_recv", "fin_send", "fin_done"}
AfterClient == {"fin_timer"} \cup AfterTimer
AfterDevice == {"fin_client"} \cup AfterClient
FinOps == {"fin_device"} \cup AfterDevice
Ops == {"idle", "gena", "request", "advertise"} \cup InitOps \cup DeviceOps \cup ClientOps \cup FinOps

TypesOK ==
  /\ at \in [Threads -> [op : Ops, h : Nat]]
  /\ HandleTable \in [Handles -> {NULL, "DEVICE", "CLIENT"}]
  /\ lock \in Threads \cup {NULL}
  /\ dlnaSdkInit \in {0, 1} /\ dlnaSdkDeviceRegistered \in {0, 1} /\ dlnaSdkClientRegistered \in {0, 1}
  /\ pool \in [{"send", "recv", "mini"} -> {"none", "up", "stopping", "down"}]
  /\ call \in [Calls -> {"none", "gena_queued", "soap_queued", "lost", "running", "answered", "discarded"}]
  /\ connection \in [Requests -> {"none", "queued", "read", "callback", "closed"}]

MainOp == at[Main].op
Up == dlnaSdkInit = 1

\* Where dlnaInit and dlnaFinish are, and that nobody else is inside the library then.
LifeOK ==
  /\ MainOp \in {"init_send", "init_recv", "init_mini"} => ~Up
  /\ ~Up => MainOp \in {"idle", "init_send", "init_recv", "init_mini"} /\ finishing = "nobody"
  /\ finishing # "nobody" => MainOp \in FinOps \cup (DeviceOps \ {"download"}) \cup ClientOps
  /\ MainOp \in FinOps => finishing # "nobody"
  /\ ~Up \/ finishing # "nobody" \/ MainOp \in InitOps =>
       \A t \in Threads : t # Main => at[t] = Idle

Has(type) == \E h \in Handles : HandleTable[h] = type

(***************************************************************************)
(* A type is in the table at most once and in one of the first two slots,  *)
(* and its flag tells whether it is, except while a device is registered,  *)
(* by the thread that holds the lock.                                      *)
(***************************************************************************)
TableOK ==
  /\ \A g, h \in Handles : HandleTable[g] = HandleTable[h] /\ HandleTable[g] # NULL => g = h
  /\ \A h \in Handles : HandleTable[h] # NULL => h \in {1, 2}
  /\ Has("CLIENT") <=> dlnaSdkClientRegistered = 1
  /\ LockFree => (Has("DEVICE") <=> dlnaSdkDeviceRegistered = 1)
  /\ ~LockFree => at[lock].op = "download" /\ dlnaSdkDeviceRegistered = 0

\* One thread at a time registers or unregisters a device, and what it does is about
\* the device in the table; the same for a client.
ActorOK(t) ==
  /\ at[t].op \in DeviceOps => t \in DeviceThreads \/ (t = Main /\ finishing # "nobody")
  /\ at[t].op \in ClientOps => t \in ClientThreads \/ (t = Main /\ finishing # "nobody")
  /\ at[t].op = "download" => lock = t
  /\ at[t].op \in {"download", "unreg_look", "unreg_bye", "unreg_free"} =>
       at[t].h \in Handles /\ HandleTable[at[t].h] = "DEVICE"
  /\ at[t].op = "unclient_free" => at[t].h \in Handles /\ HandleTable[at[t].h] = "CLIENT"
  /\ t = Main /\ finishing # "nobody" =>
       /\ at[t].op = "unreg_gena" => at[t].h \in Handles /\ HandleTable[at[t].h] = "DEVICE"
       /\ at[t].op = "unclient_gena" => at[t].h \in Handles /\ HandleTable[at[t].h] = "CLIENT"

ActorsOK == \A t \in Threads : ActorOK(t)

\* dlnaFinish leaves no device, then no client; dlnaInit begins without either.
EmptyOK ==
  /\ ~Up \/ MainOp \in InitOps \cup AfterDevice \/ (finishing # "nobody" /\ MainOp \in ClientOps) => ~Has("DEVICE")
  /\ ~Up \/ MainOp \in InitOps \cup AfterClient => ~Has("CLIENT")

\* A timer that is down gets no event, since there is no device to advertise.
TimerOK ==
  /\ timer = "down" => ~Up \/ MainOp \in {"init_timer"} \cup AfterTimer
  /\ ~Up \/ MainOp \in InitOps \cup AfterTimer => ads = NoAds

\* Up to here the server has not been started.
NotServing == {"init_send", "init_recv", "init_mini", "init_timer", "init_server"}
Stopped == {"fin_recv", "fin_send", "fin_done"}

\* The server runs from "init_wait" to "fin_stop", with its sockets open, and on to
\* "fin_mini" when nobody could tell it to stop.
ServerOK ==
  /\ server = "none" => sockets = {} /\ gMServState = "IDLE"
  /\ server = "queued" => gMServState = "IDLE" /\ MainOp = "init_wait"
  /\ server = "loop" => gMServState = "RUNNING" \/ (Unheard /\ MainOp \in {"fin_web", "fin_mini"})
  /\ MainOp \in {"fin_web", "fin_mini"} => server = "none" \/ Unheard
  /\ server = "told" => gMServState = "STOPPING" /\ MainOp = "fin_stop"
  /\ MainOp = "fin_stop" => server \in {"told", "none"}
  /\ server \in {"none", "queued", "loop", "told"}
  /\ ~Up \/ MainOp \in NotServing \cup Stopped => server = "none"

\* No connection is left once the pool of the server is down.
ConnectionsOK ==
  /\ ~Up \/ MainOp \in NotServing \cup {"fin_recv", "fin_send", "fin_done"} =>
       \A r \in Requests : connection[r] \in {"none", "closed"}
  /\ pool["mini"] = "stopping" =>
       MainOp = "fin_mini" /\ (server = "none" => \A r \in Requests : connection[r] # "queued")

NoJobs == Queued = {} /\ adJobs = NoAds

\* No job is left once the sending pool is down.
JobsOK ==
  /\ pool["send"] = "stopping" => MainOp = "fin_send" /\ NoJobs
  /\ ~Up \/ MainOp \in InitOps \cup {"fin_done"} => NoJobs /\ \A w \in Workers : work[w] = Nothing

ApiInv ==
  /\ TypesOK /\ LifeOK /\ TableOK /\ ActorsOK /\ EmptyOK
  /\ TimerOK /\ ServerOK /\ ConnectionsOK /\ JobsOK

\* The library is down, or dlnaInit or dlnaFinish is at work: no call can begin.
Closed == ~Up \/ MainOp \in InitOps \/ finishing # "nobody"

\* One thread registers and unregisters devices, and one clients: two that do are not
\* kept apart (upnpapi.c:840).
OneRegistrar ==
  /\ \A s, t \in DeviceThreads : s = t
  /\ \A s, t \in ClientThreads : s = t

LEMMA InitApi == Init => ApiInv
<1> SUFFICES ASSUME Init PROVE ApiInv
  OBVIOUS
<1>1. Main \in Threads /\ \A t \in Threads : at[t] = Idle
  BY DEF Init, Threads
<1>2. TypesOK
  BY DEF Init, TypesOK, Idle, Ops
<1>3. MainOp = "idle" /\ ~Up /\ ~Has("DEVICE") /\ ~Has("CLIENT")
  BY <1>1, ApiAssumption DEF MainOp, Idle, Up, Has, Init
<1>4. NoJobs
  BY DEF Init, NoJobs, Queued
<1>5. LifeOK /\ EmptyOK /\ TimerOK
  BY <1>1, <1>3 DEF Init, LifeOK, EmptyOK, TimerOK, AfterTimer, InitOps, FinOps, AfterClient, AfterDevice
<1>6. TableOK
  <2>1. \A h \in Handles : HandleTable[h] = NULL
    BY DEF Init
  <2>2. LockFree /\ dlnaSdkDeviceRegistered = 0 /\ dlnaSdkClientRegistered = 0
    BY DEF Init, LockFree
  <2> QED BY <1>3, <2>1, <2>2 DEF TableOK
<1>8. ActorsOK
  BY <1>1, <1>3 DEF Init, ActorsOK, ActorOK, Idle, DeviceOps, ClientOps
<1>7. ServerOK /\ ConnectionsOK /\ JobsOK
  BY <1>3, <1>4 DEF Init, ServerOK, ConnectionsOK, JobsOK
<1> QED BY <1>2, <1>5, <1>6, <1>7, <1>8 DEF ApiInv

-----------------------------------------------------------------------------
(* Steps that leave the table and the life cycle alone. *)

\* While the library is closed the lock is free and the other threads are outside it.
LEMMA ClosedAlone ==
  ASSUME ApiInv, Closed
  PROVE  /\ \A t \in Threads : t # Main => at[t] = Idle
         /\ LockFree
<1>1. \A t \in Threads : t # Main => at[t] = Idle
  BY DEF ApiInv, LifeOK, Closed
<1>2. MainOp # "download"
  BY DEF ApiInv, LifeOK, Closed, InitOps, FinOps, AfterDevice, AfterClient, AfterTimer, DeviceOps, ClientOps
<1>3. lock # NULL => at[lock].op = "download" /\ lock \in Threads
  BY DEF ApiInv, TableOK, LockFree, TypesOK
<1> QED BY <1>1, <1>2, <1>3 DEF LockFree, MainOp, Idle

\* A call begins when the library is open.
LEMMA CallsWhenOpen == ASSUME InOrder, ApiInv, NEW t \in Threads, MayCall(t) PROVE ~Closed /\ at[t] = Idle
<1> QED BY DEF MayCall, Closed, Starting, InitOps, MainOp, Up

\* What the application does in an open library: only its place changes.
LEMMA OpenStep ==
  ASSUME ApiInv, ~Closed, NEW t \in Threads, NEW r \in [op : Ops \ (InitOps \cup FinOps), h : Nat],
         at' = [at EXCEPT ![t] = r], UNCHANGED <<dlnaSdkInit, timer, finishing, pool, serverVars>>
  PROVE  /\ ~Closed' /\ at' \in [Threads -> [op : Ops, h : Nat]]
         /\ LifeOK' /\ EmptyOK' /\ TimerOK' /\ ServerOK' /\ ConnectionsOK' /\ JobsOK'
<1>1. /\ Main \in Threads /\ at \in [Threads -> [op : Ops, h : Nat]] /\ r.op \in Ops \ (InitOps \cup FinOps)
  BY DEF ApiInv, TypesOK, Threads
<1>2. at' \in [Threads -> [op : Ops, h : Nat]] /\ MainOp' \in {MainOp, r.op}
  BY <1>1 DEF MainOp
<1>3. Up /\ finishing = "nobody" /\ MainOp \notin InitOps /\ MainOp \notin FinOps
  BY DEF Closed, ApiInv, LifeOK
<1>4. Up' /\ finishing' = "nobody" /\ MainOp' \notin InitOps /\ MainOp' \notin FinOps
  BY <1>1, <1>2, <1>3 DEF Up
<1>5. LifeOK' /\ ~Closed'
  BY <1>4 DEF LifeOK, Closed, InitOps
<1>6. EmptyOK'
  BY <1>4 DEF EmptyOK, FinOps, AfterDevice
<1>7. TimerOK'
  <2>1. timer # "down"
    BY <1>3 DEF ApiInv, TimerOK, InitOps, FinOps, AfterDevice, AfterClient
  <2> QED BY <1>4, <2>1 DEF TimerOK, FinOps, AfterDevice, AfterClient
<1>8. ServerOK'
  <2>1. UNCHANGED <<server, sockets, gMServState>> /\ server \notin {"queued", "told"}
    BY <1>3 DEF ApiInv, ServerOK, serverVars, InitOps, FinOps, AfterDevice, AfterClient, AfterTimer
  <2>2. MainOp' \notin {"fin_stop", "fin_web", "fin_mini"} \cup NotServing \cup Stopped
    BY <1>4 DEF NotServing, Stopped, InitOps, FinOps, AfterDevice, AfterClient, AfterTimer
  <2>3. server = "loop" => gMServState = "RUNNING"
    BY <1>3 DEF ApiInv, ServerOK, InitOps, FinOps, AfterDevice, AfterClient, AfterTimer
  <2> QED BY <1>4, <2>1, <2>2, <2>3 DEF ApiInv, ServerOK
<1>9. ConnectionsOK'
  <2>1. pool["mini"] # "stopping"
    BY <1>3 DEF ApiInv, ConnectionsOK, FinOps, AfterDevice, AfterClient, AfterTimer
  <2> QED BY <1>4, <2>1 DEF ConnectionsOK, NotServing, InitOps, FinOps, AfterDevice, AfterClient, AfterTimer
<1>10. JobsOK'
  <2>1. pool["send"] # "stopping"
    BY <1>3 DEF ApiInv, JobsOK, FinOps, AfterDevice, AfterClient, AfterTimer
  <2> QED BY <1>4, <2>1 DEF JobsOK, FinOps, AfterDevice, AfterClient, AfterTimer
<1> QED BY <1>2, <1>5, <1>6, <1>7, <1>8, <1>9, <1>10

\* Nothing of the life cycle, the table or the places of the threads changes.
LEMMA Undisturbed ==
  ASSUME ApiInv, UNCHANGED <<dlnaSdkInit, finishing, tableVars, at>>
  PROVE  LifeOK' /\ TableOK' /\ ActorsOK' /\ EmptyOK'
<1>1. UNCHANGED <<dlnaSdkInit, finishing, at, dlnaSdkDeviceRegistered, dlnaSdkClientRegistered, HandleTable, lock>>
  BY DEF tableVars
<1>2. MainOp' = MainOp /\ Up' = Up /\ LockFree' = LockFree /\ \A type : Has(type)' = Has(type)
  BY <1>1 DEF MainOp, Up, LockFree, Has
<1> QED BY <1>1, <1>2 DEF ApiInv, LifeOK, TableOK, ActorsOK, ActorOK, EmptyOK

\* The table is as it was, and a thread that holds no lock moves.
LEMMA TableStays ==
  ASSUME ApiInv, UNCHANGED tableVars, NEW t \in Threads, NEW r, at' = [at EXCEPT ![t] = r], at[t].op # "download"
  PROVE  TableOK'
<1>1. UNCHANGED <<dlnaSdkDeviceRegistered, dlnaSdkClientRegistered, HandleTable, lock>>
  BY DEF tableVars
<1>2. LockFree' = LockFree /\ \A type : Has(type)' = Has(type)
  BY <1>1 DEF LockFree, Has
<1>3. ~LockFree => lock \in Threads /\ at[lock].op = "download"
  BY DEF ApiInv, TableOK, TypesOK, LockFree
<1>4. ~LockFree => at'[lock] = at[lock]
  BY <1>3 DEF ApiInv, TypesOK
<1> QED BY <1>1, <1>2, <1>3, <1>4 DEF ApiInv, TableOK

\* Only one thread moves.
LEMMA ActorsStay ==
  ASSUME ApiInv, UNCHANGED <<finishing, HandleTable, lock>>, NEW t \in Threads, NEW r,
         at' = [at EXCEPT ![t] = r], ActorOK(t)'
  PROVE  ActorsOK'
<1>1. \A s \in Threads : s # t => at'[s] = at[s]
  BY DEF ApiInv, TypesOK
<1>2. \A s \in Threads : s # t => ActorOK(s)'
  BY <1>1 DEF ApiInv, ActorsOK, ActorOK
<1> QED BY <1>2 DEF ActorsOK

\* A call that only takes note of where its thread is.
LEMMA OpenCall ==
  ASSUME ApiInv, ~Closed, NEW t \in Threads, at[t].op # "download",
         NEW r \in [op : Ops \ (InitOps \cup FinOps), h : Nat], r.op # "download",
         at' = [at EXCEPT ![t] = r], UNCHANGED <<dlnaSdkInit, timer, finishing, pool, tableVars, serverVars, jobVars>>,
         r.op \in DeviceOps => t \in DeviceThreads,
         r.op \in ClientOps => t \in ClientThreads,
         r.op \in {"unreg_look", "unreg_bye", "unreg_free"} => r.h \in Handles /\ HandleTable[r.h] = "DEVICE",
         r.op = "unclient_free" => r.h \in Handles /\ HandleTable[r.h] = "CLIENT"
  PROVE  ApiInv'
<1>1. /\ at' \in [Threads -> [op : Ops, h : Nat]]
      /\ LifeOK' /\ EmptyOK' /\ TimerOK' /\ ServerOK' /\ ConnectionsOK' /\ JobsOK'
  BY OpenStep
<1>2. UNCHANGED <<dlnaSdkDeviceRegistered, dlnaSdkClientRegistered, HandleTable, lock, call, connection>>
  BY DEF tableVars, jobVars, serverVars
<1>3. TypesOK'
  BY <1>1, <1>2 DEF ApiInv, TypesOK
<1>4. TableOK'
  BY TableStays
<1>5. at'[t] = r /\ finishing = "nobody"
  BY DEF ApiInv, TypesOK, Closed
<1>6. ActorOK(t)'
  BY <1>2, <1>5 DEF ActorOK
<1>7. ActorsOK'
  BY <1>2, <1>6, ActorsStay
<1> QED BY <1>1, <1>3, <1>4, <1>7 DEF ApiInv

-----------------------------------------------------------------------------
(* Calls of the application, and unregistering. *)

LEMMA Moves ==
  ASSUME TypesOK, NEW t \in Threads
  PROVE  /\ \A op \in Ops : Goto(t, op) => at' = [at EXCEPT ![t] = [op |-> op, h |-> at[t].h]]
         /\ Return(t) => at' = [at EXCEPT ![t] = Idle]
         /\ at[t].h \in Nat /\ at[t].op \in Ops
         /\ Idle.op = "idle" /\ Idle \in [op : Ops \ (InitOps \cup FinOps), h : Nat]
<1>1. at \in [Threads -> [op : Ops, h : Nat]]
  BY DEF TypesOK
<1>2. Idle.op = "idle" /\ Idle \in [op : Ops \ (InitOps \cup FinOps), h : Nat]
  BY DEF Idle, Ops, InitOps, FinOps, AfterDevice, AfterClient, AfterTimer
<1> QED BY <1>1, <1>2 DEF Goto, Return

\* Who is inside the library while it is closed is dlnaInit or dlnaFinish.
LEMMA InsideClosed ==
  ASSUME ApiInv, Closed, NEW t \in Threads, at[t].op \in {"gena", "request", "advertise"} \cup DeviceOps \cup ClientOps
  PROVE  t = Main /\ finishing # "nobody" /\ at[t].op \in (DeviceOps \ {"download"}) \cup ClientOps /\ Up
<1>1. t = Main
  <2>1. at[t].op # "idle"
    BY DEF DeviceOps, ClientOps
  <2>2. at[t] = Idle => at[t].op = "idle"
    BY DEF Idle
  <2> QED BY <2>1, <2>2, ClosedAlone
<1>2. Up /\ MainOp \notin InitOps /\ MainOp \notin FinOps
  BY <1>1 DEF ApiInv, LifeOK, MainOp, DeviceOps, ClientOps, InitOps, FinOps, AfterDevice, AfterClient, AfterTimer
<1> QED BY <1>1, <1>2 DEF ApiInv, LifeOK, MainOp, Closed

OnlyAt == UNCHANGED <<lifeVars, tableVars, serverVars, jobVars>>

LEMMA CheckedCall ==
  ASSUME InOrder, ApiInv, NEW t \in Threads, NEW type, NEW op \in {"gena", "request", "advertise"}, Checked(t, type, op)
  PROVE  ApiInv'
<1>1. PICK h \in Handles : /\ MayCall(t) /\ OnlyAt
                           /\ at' = [at EXCEPT ![t] = [op |-> op, h |-> IF op = "advertise" THEN h ELSE 0]]
  BY DEF Checked, OnlyAt
<1> DEFINE r == [op |-> op, h |-> IF op = "advertise" THEN h ELSE 0]
<1>2. ~Closed /\ at[t].op # "download"
  BY <1>1, CallsWhenOpen DEF Idle
<1>3. r \in [op : Ops \ (InitOps \cup FinOps), h : Nat] /\ r.op = op /\ at' = [at EXCEPT ![t] = r]
  <2>1. op \in Ops \ (InitOps \cup FinOps)
    BY DEF Ops, InitOps, FinOps, AfterDevice, AfterClient, AfterTimer
  <2>2. h \in Nat
    BY ApiAssumption DEF Handles
  <2> QED BY <1>1, <2>1, <2>2
<1>4. r.op \notin DeviceOps \cup ClientOps
  BY <1>3 DEF DeviceOps, ClientOps
<1> HIDE DEF r
<1> QED BY <1>1, <1>2, <1>3, <1>4, OpenCall DEF OnlyAt, lifeVars, DeviceOps, ClientOps

LEMMA CallEnds == ASSUME ApiInv, NEW t \in Threads, CallReturns(t) PROVE ApiInv'
<1>1. OnlyAt /\ at[t].op \in {"gena", "request"} /\ at' = [at EXCEPT ![t] = Idle]
  BY DEF CallReturns, OnlyAt, Return
<1>2. ~Closed
  BY <1>1, InsideClosed DEF DeviceOps, ClientOps
<1>3. Idle.op = "idle" /\ Idle \in [op : Ops \ (InitOps \cup FinOps), h : Nat]
  BY Moves DEF ApiInv
<1> QED BY <1>1, <1>2, <1>3, OpenCall DEF OnlyAt, lifeVars, DeviceOps, ClientOps

\* The first steps of dlnaFinish: the timer, the server and the pools still run.
EarlyOps == {"fin_device", "fin_client", "fin_timer"} \cup (DeviceOps \ {"download"}) \cup ClientOps

LEMMA FinishMoves ==
  ASSUME ApiInv, finishing # "nobody", MainOp \in EarlyOps, NEW r \in [op : EarlyOps, h : Nat],
         at' = [at EXCEPT ![Main] = r], UNCHANGED <<lifeVars, lock, serverVars, jobVars>>,
         HandleTable' \in [Handles -> {NULL, "DEVICE", "CLIENT"}],
         dlnaSdkDeviceRegistered' \in {0, 1} /\ dlnaSdkClientRegistered' \in {0, 1}
  PROVE  /\ TypesOK' /\ LifeOK' /\ TimerOK' /\ ServerOK' /\ ConnectionsOK' /\ JobsOK'
         /\ MainOp' = r.op /\ at'[Main] = r /\ Up /\ Up' /\ LockFree
         /\ \A t \in Threads : t # Main => at'[t] = Idle
<1>1. /\ Main \in Threads /\ at \in [Threads -> [op : Ops, h : Nat]] /\ r.op \in EarlyOps /\ Closed
      /\ UNCHANGED <<dlnaSdkInit, pool, timer, finishing, gMServState, server, sockets, connection, call, work, ads, adJobs, lock>>
  BY DEF ApiInv, TypesOK, Threads, lifeVars, serverVars, jobVars, Closed
<1>2. EarlyOps \subseteq Ops /\ EarlyOps \cap (InitOps \cup AfterTimer) = {} /\ "idle" \notin EarlyOps
  BY DEF EarlyOps, Ops, InitOps, FinOps, AfterTimer, AfterClient, AfterDevice, DeviceOps, ClientOps
<1>3. at'[Main] = r /\ MainOp' = r.op /\ at' \in [Threads -> [op : Ops, h : Nat]]
  BY <1>1, <1>2 DEF MainOp
<1>4. Up /\ Up'
  BY <1>1, <1>2 DEF ApiInv, LifeOK, Up, InitOps
<1>5. \A t \in Threads : t # Main => at'[t] = Idle
  BY <1>1, ClosedAlone
<1>6. TypesOK'
  BY <1>1, <1>3 DEF ApiInv, TypesOK
<1>7. LifeOK'
  BY <1>1, <1>2, <1>3, <1>4, <1>5 DEF LifeOK, EarlyOps, FinOps, AfterDevice, AfterClient, InitOps
<1>8. TimerOK'
  <2>1. timer # "down"
    BY <1>2, <1>4 DEF ApiInv, TimerOK, InitOps
  <2> QED BY <1>1, <1>2, <1>3, <1>4, <2>1 DEF TimerOK
<1>9. EarlyOps \cap (NotServing \cup Stopped \cup {"init_wait", "fin_stop", "fin_web", "fin_mini", "fin_recv", "fin_send", "fin_done"}) = {}
  BY <1>2 DEF NotServing, Stopped, InitOps, AfterTimer
<1>10. ServerOK'
  <2>1. server \notin {"queued", "told"}
    BY <1>9 DEF ApiInv, ServerOK
  <2>2. MainOp' \notin {"fin_stop", "fin_web", "fin_mini", "init_wait"} \cup NotServing \cup Stopped
    BY <1>1, <1>3, <1>9
  <2>3. server = "loop" => gMServState = "RUNNING"
    BY <1>9 DEF ApiInv, ServerOK
  <2> QED BY <1>1, <1>4, <2>1, <2>2, <2>3 DEF ApiInv, ServerOK
<1>11. ConnectionsOK'
  <2>1. pool["mini"] # "stopping"
    BY <1>9 DEF ApiInv, ConnectionsOK
  <2> QED BY <1>1, <1>3, <1>4, <1>9, <2>1 DEF ConnectionsOK
<1>12. JobsOK'
  <2>1. pool["send"] # "stopping"
    BY <1>9 DEF ApiInv, JobsOK
  <2> QED BY <1>1, <1>2, <1>3, <1>4, <1>9, <2>1 DEF JobsOK
<1> QED BY <1>1, <1>3, <1>4, <1>5, <1>6, <1>7, <1>8, <1>10, <1>11, <1>12, ClosedAlone

LEMMA BeginUnregister ==
  ASSUME InOrder, ApiInv, NEW t \in Threads, NEW g \in Handles, NEW op, op \in {"unreg_gena", "unclient_gena"},
         MayCall(t), OnlyAt, at' = [at EXCEPT ![t] = [op |-> op, h |-> g]],
         op = "unreg_gena" => t \in DeviceThreads, op = "unclient_gena" => t \in ClientThreads
  PROVE  ApiInv'
<1> DEFINE r == [op |-> op, h |-> g]
<1>2. ~Closed /\ at[t].op # "download"
  BY CallsWhenOpen DEF Idle
<1>3. r \in [op : Ops \ (InitOps \cup FinOps), h : Nat] /\ r.op = op /\ at' = [at EXCEPT ![t] = r]
  <2>1. op \in Ops \ (InitOps \cup FinOps)
    BY DEF Ops, InitOps, FinOps, AfterDevice, AfterClient, AfterTimer, DeviceOps, ClientOps
  <2>2. g \in Nat
    BY ApiAssumption DEF Handles
  <2> QED BY <2>1, <2>2
<1> HIDE DEF r
<1> QED BY <1>2, <1>3, OpenCall DEF OnlyAt, lifeVars, DeviceOps, ClientOps

\* A step of dlnaFinish that leaves the table alone.
LEMMA FinishKeeps ==
  ASSUME ApiInv, finishing # "nobody", MainOp \in EarlyOps, NEW r \in [op : EarlyOps, h : Nat],
         at' = [at EXCEPT ![Main] = r], OnlyAt,
         r.op \in {"unreg_gena", "unreg_look", "unreg_bye", "unreg_free"} =>
           r.h \in Handles /\ HandleTable[r.h] = "DEVICE",
         r.op \in ClientOps => r.h \in Handles /\ HandleTable[r.h] = "CLIENT" /\ ~Has("DEVICE"),
         r.op = "fin_client" => ~Has("DEVICE"),
         r.op = "fin_timer" => ~Has("DEVICE") /\ ~Has("CLIENT")
  PROVE  ApiInv'
<1>1. UNCHANGED <<lifeVars, lock, serverVars, jobVars, HandleTable, dlnaSdkDeviceRegistered,
                  dlnaSdkClientRegistered, finishing, dlnaSdkInit, tableVars>>
  BY DEF OnlyAt, tableVars, lifeVars
<1>2. /\ HandleTable' \in [Handles -> {NULL, "DEVICE", "CLIENT"}]
      /\ dlnaSdkDeviceRegistered' \in {0, 1} /\ dlnaSdkClientRegistered' \in {0, 1}
  BY <1>1 DEF ApiInv, TypesOK
<1>3. /\ TypesOK' /\ LifeOK' /\ TimerOK' /\ ServerOK' /\ ConnectionsOK' /\ JobsOK'
      /\ MainOp' = r.op /\ at'[Main] = r /\ Up /\ Up' /\ LockFree
  BY <1>1, <1>2, FinishMoves
<1>4. Main \in Threads /\ at[Main].op # "download" /\ r.op \in EarlyOps
  BY DEF Threads, MainOp, EarlyOps, DeviceOps, ClientOps
<1>5. TableOK'
  BY <1>1, <1>4, TableStays
<1>6. ActorsOK'
  <2>1. ActorOK(Main)'
    BY <1>1, <1>3, <1>4 DEF ActorOK, EarlyOps, DeviceOps, ClientOps
  <2> QED BY <1>1, <1>4, <2>1, ActorsStay
<1>7. EmptyOK'
  <2>1. Has("DEVICE")' = Has("DEVICE") /\ Has("CLIENT")' = Has("CLIENT")
    BY <1>1 DEF Has
  <2>2. EarlyOps \cap (InitOps \cup AfterTimer) = {}
    BY DEF EarlyOps, InitOps, FinOps, AfterTimer, DeviceOps, ClientOps
  <2>3. r.op \in InitOps \cup AfterDevice => r.op \in {"fin_client", "fin_timer"}
    BY <1>4, <2>2 DEF AfterDevice, AfterClient
  <2>4. r.op \in InitOps \cup AfterClient => r.op = "fin_timer"
    BY <1>4, <2>2 DEF AfterClient
  <2> QED BY <1>3, <2>1, <2>3, <2>4 DEF EmptyOK
<1> QED BY <1>3, <1>5, <1>6, <1>7 DEF ApiInv

LEMMA FinishLooks ==
  ASSUME ApiInv, FinishDevice \/ FinishClient PROVE ApiInv'
<1>a. /\ MainOp \in {"fin_device", "fin_client"} /\ OnlyAt /\ Main \in Threads /\ at[Main].h \in Nat
      /\ finishing # "nobody" /\ MainOp \in EarlyOps /\ Closed /\ Handles \subseteq Nat /\ TypesOK
      /\ MainOp \in Ops
  <2>1. MainOp \in {"fin_device", "fin_client"} /\ OnlyAt /\ Main \in Threads
    BY DEF FinishDevice, FinishClient, MainOp, OnlyAt, Threads
  <2>2. finishing # "nobody" /\ MainOp \in EarlyOps /\ Closed
    BY <2>1 DEF ApiInv, LifeOK, FinOps, AfterDevice, EarlyOps, Closed
  <2>3. Handles \subseteq Nat
    BY ApiAssumption DEF Handles
  <2>4. TypesOK /\ at[Main].h \in Nat /\ MainOp \in Ops
    BY <2>1 DEF ApiInv, TypesOK, MainOp
  <2> QED BY <2>1, <2>2, <2>3, <2>4
<1>b. LockFree
  BY <1>a, ClosedAlone
<1>c. \A type \in {"DEVICE", "CLIENT"} : FirstOf(type) = {h \in Handles : HandleTable[h] = type}
  <2>1. \A h \in Handles : HandleTable[h] # NULL => h \in {1, 2}
    BY DEF ApiInv, TableOK
  <2>2. NULL \notin {"DEVICE", "CLIENT"}
    BY ApiAssumption
  <2> QED BY <2>1, <2>2 DEF FirstOf, GetHandleInfo
<1>d. \A op \in EarlyOps : op \in Ops
  BY DEF EarlyOps, Ops, FinOps, AfterDevice, AfterClient, DeviceOps, ClientOps
<1>1. CASE FinishDevice
  <2>1. CASE GetDeviceHandleInfo # {} /\ dlnaSdkDeviceRegistered = 1
    <3> DEFINE h == CHOOSE h \in GetDeviceHandleInfo : TRUE
               r == [op |-> "unreg_gena", h |-> h]
    <3>1. h \in Handles /\ HandleTable[h] = "DEVICE"
      BY <1>c, <2>1 DEF GetDeviceHandleInfo
    <3>2. at' = [at EXCEPT ![Main] = r]
      BY <1>1, <2>1 DEF FinishDevice
    <3>3. r.op = "unreg_gena" /\ r.h = h /\ r \in [op : EarlyOps, h : Nat]
      BY <1>a, <3>1 DEF EarlyOps, DeviceOps
    <3> HIDE DEF r, h
    <3> QED BY <1>a, <3>1, <3>2, <3>3, FinishKeeps DEF ClientOps
  <2>2. CASE ~(GetDeviceHandleInfo # {} /\ dlnaSdkDeviceRegistered = 1)
    <3> DEFINE r == [op |-> "fin_client", h |-> at[Main].h]
    <3>1. ~Has("DEVICE")
      <4>1. Has("DEVICE") <=> dlnaSdkDeviceRegistered = 1
        BY <1>b DEF ApiInv, TableOK
      <4>2. Has("DEVICE") => GetDeviceHandleInfo # {}
        BY <1>c DEF Has, GetDeviceHandleInfo
      <4> QED BY <2>2, <4>1, <4>2
    <3>2. at' = [at EXCEPT ![Main] = r]
      BY <1>1, <1>a, <1>d, <2>2, Moves DEF FinishDevice, EarlyOps
    <3>3. r.op = "fin_client" /\ r \in [op : EarlyOps, h : Nat]
      BY <1>a DEF EarlyOps
    <3> HIDE DEF r
    <3> QED BY <1>a, <3>1, <3>2, <3>3, FinishKeeps DEF ClientOps
  <2> QED BY <2>1, <2>2
<1>2. CASE FinishClient
  <2>a. ~Has("DEVICE")
    BY <1>2 DEF ApiInv, EmptyOK, FinishClient, MainOp, AfterDevice
  <2>1. CASE GetClientHandleInfo # {} /\ dlnaSdkClientRegistered = 1
    <3> DEFINE h == CHOOSE h \in GetClientHandleInfo : TRUE
               r == [op |-> "unclient_gena", h |-> h]
    <3>1. h \in Handles /\ HandleTable[h] = "CLIENT"
      BY <1>c, <2>1 DEF GetClientHandleInfo
    <3>2. at' = [at EXCEPT ![Main] = r]
      BY <1>2, <2>1 DEF FinishClient
    <3>3. r.op = "unclient_gena" /\ r.h = h /\ r \in [op : EarlyOps, h : Nat]
      BY <1>a, <3>1 DEF EarlyOps, ClientOps
    <3> HIDE DEF r, h
    <3> QED BY <1>a, <2>a, <3>1, <3>2, <3>3, FinishKeeps
  <2>2. CASE ~(GetClientHandleInfo # {} /\ dlnaSdkClientRegistered = 1)
    <3> DEFINE r == [op |-> "fin_timer", h |-> at[Main].h]
    <3>1. ~Has("CLIENT")
      <4>1. Has("CLIENT") <=> dlnaSdkClientRegistered = 1
        BY DEF ApiInv, TableOK
      <4>2. Has("CLIENT") => GetClientHandleInfo # {}
        BY <1>c DEF Has, GetClientHandleInfo
      <4> QED BY <2>2, <4>1, <4>2
    <3>2. at' = [at EXCEPT ![Main] = r]
      BY <1>2, <1>a, <1>d, <2>2, Moves DEF FinishClient, EarlyOps
    <3>3. r.op = "fin_timer" /\ r \in [op : EarlyOps, h : Nat]
      BY <1>a DEF EarlyOps
    <3> HIDE DEF r
    <3> QED BY <1>a, <2>a, <3>1, <3>2, <3>3, FinishKeeps DEF ClientOps
  <2> QED BY <2>1, <2>2
<1> QED BY <1>1, <1>2

\* dlnaUnRegisterRootDevice and dlnaUnRegisterClient up to where they free the handle.
LEMMA UnregisterLooks ==
  ASSUME ApiInv, NEW t \in Threads, UnRegisterGena(t) \/ UnRegisterLook(t) \/ UnRegisterBye(t) \/ UnClientGena(t)
  PROVE  ApiInv'
<1>a. /\ at[t].op \in {"unreg_gena", "unreg_look", "unreg_bye", "unclient_gena"} /\ OnlyAt /\ TypesOK
      /\ at[t].h \in Nat /\ at[t].op # "download" /\ ActorOK(t) /\ Main \in Threads
  BY DEF UnRegisterGena, UnRegisterLook, UnRegisterBye, UnClientGena, OnlyAt, ApiInv, TypesOK, ActorsOK, Threads
<1>b. UNCHANGED <<dlnaSdkInit, timer, finishing, pool, tableVars, serverVars, jobVars>> /\ NULL \notin {"DEVICE", "CLIENT"}
  BY <1>a, ApiAssumption DEF OnlyAt, lifeVars
<1>c. {"unreg_look", "unreg_bye", "unreg_free", "unclient_free"} \subseteq (EarlyOps \cap (Ops \ (InitOps \cup FinOps))) \ {"download"}
  BY DEF EarlyOps, Ops, InitOps, FinOps, AfterDevice, AfterClient, AfterTimer, DeviceOps, ClientOps
<1>d. ASSUME NEW op, op \in {"unreg_look", "unreg_bye", "unreg_free", "unclient_free"}, Goto(t, op),
             op # "unclient_free" => /\ at[t].op # "unclient_gena"
                                     /\ at[t].h \in Handles /\ HandleTable[at[t].h] = "DEVICE",
             op = "unclient_free" => /\ at[t].op = "unclient_gena"
                                     /\ at[t].h \in Handles /\ HandleTable[at[t].h] = "CLIENT"
      PROVE  ApiInv'
  <2> DEFINE r == [op |-> op, h |-> at[t].h]
  <2>1. at' = [at EXCEPT ![t] = r]
    <3>1. op \in Ops
      BY <1>c, <1>d
    <3> QED BY <1>a, <1>d, <3>1, Moves
  <2>2. r.op = op /\ r.h = at[t].h /\ r \in [op : Ops \ (InitOps \cup FinOps), h : Nat] /\ r \in [op : EarlyOps, h : Nat]
    BY <1>a, <1>c, <1>d
  <2>3. op # "download"
    BY <1>d
  <2>4. at[t].op \in (DeviceOps \ {"download"}) \cup ClientOps /\ at[t].op \in EarlyOps
    BY <1>a DEF DeviceOps, ClientOps, EarlyOps
  <2>5. (r.op \in DeviceOps <=> op # "unclient_free") /\ (r.op \in ClientOps <=> op = "unclient_free")
    BY <1>d, <2>2 DEF DeviceOps, ClientOps
  <2> HIDE DEF r
  <2>6. CASE ~Closed
    <3>1. finishing = "nobody"
      BY <2>6 DEF Closed
    <3>2. r.op \in DeviceOps => t \in DeviceThreads
      BY <1>a, <1>d, <2>5, <3>1 DEF ActorOK, DeviceOps, ClientOps
    <3>3. r.op \in ClientOps => t \in ClientThreads
      BY <1>a, <1>d, <2>5, <3>1 DEF ActorOK, DeviceOps, ClientOps
    <3> QED BY <1>a, <1>b, <1>d, <2>1, <2>2, <2>3, <2>6, <3>2, <3>3, OpenCall
  <2>7. CASE Closed
    <3>1. t = Main /\ finishing # "nobody" /\ MainOp \in EarlyOps
      BY <2>4, <2>7, InsideClosed DEF MainOp
    <3>2. r.op \in ClientOps => ~Has("DEVICE")
      <4>1. r.op \in ClientOps => MainOp \in ClientOps
        BY <1>d, <2>5, <3>1 DEF MainOp, ClientOps
      <4> QED BY <3>1, <4>1 DEF ApiInv, EmptyOK
    <3>3. r.op \notin {"fin_client", "fin_timer"}
      BY <1>d, <2>2
    <3> QED BY <1>a, <1>d, <2>1, <2>2, <2>5, <3>1, <3>2, <3>3, FinishKeeps
  <2> QED BY <2>6, <2>7
\* It gives up: not in dlnaFinish, which has found the handle.
<1>e. ASSUME at' = [at EXCEPT ![t] = Idle], ~Closed PROVE ApiInv'
  <2>1. Idle.op = "idle" /\ Idle \in [op : Ops \ (InitOps \cup FinOps), h : Nat]
    BY <1>a, Moves
  <2> QED BY <1>a, <1>b, <1>e, <2>1, OpenCall DEF DeviceOps, ClientOps
<1>f. Closed => t = Main /\ finishing # "nobody"
  BY <1>a, InsideClosed DEF DeviceOps, ClientOps
<1>g. ~Closed => finishing = "nobody"
  BY DEF Closed
<1>1. CASE UnRegisterGena(t)
  <2>1. CASE GetHandleInfo(at[t].h) = "DEVICE"
    BY <1>b, <1>d, <1>1, <2>1 DEF UnRegisterGena, GetHandleInfo
  <2>2. CASE GetHandleInfo(at[t].h) # "DEVICE"
    <3>1. ~Closed
      BY <1>a, <1>f, <1>1, <2>2 DEF ActorOK, UnRegisterGena, GetHandleInfo
    <3> QED BY <1>e, <1>g, <1>1, <2>2, <3>1 DEF UnRegisterGena, Resume, Return
  <2> QED BY <2>1, <2>2
<1>2. CASE UnRegisterLook(t)
  <2>1. at[t].h \in Handles /\ HandleTable[at[t].h] = "DEVICE"
    BY <1>a, <1>2 DEF ActorOK, UnRegisterLook
  <2> QED BY <1>b, <1>d, <1>2, <2>1 DEF UnRegisterLook, GetHandleInfo
<1>3. CASE UnRegisterBye(t)
  <2>1. at[t].h \in Handles /\ HandleTable[at[t].h] = "DEVICE"
    BY <1>a, <1>3 DEF ActorOK, UnRegisterBye
  <2> QED BY <1>d, <1>3, <2>1 DEF UnRegisterBye
<1>4. CASE UnClientGena(t)
  <2>1. CASE GetHandleInfo(at[t].h) = "CLIENT"
    BY <1>b, <1>d, <1>4, <2>1 DEF UnClientGena, GetHandleInfo
  <2>2. CASE GetHandleInfo(at[t].h) # "CLIENT"
    <3>1. ~Closed
      BY <1>a, <1>f, <1>4, <2>2 DEF ActorOK, UnClientGena, GetHandleInfo
    <3> QED BY <1>e, <1>g, <1>4, <2>2, <3>1 DEF UnClientGena, Resume, Return
  <2> QED BY <2>1, <2>2
<1> QED BY <1>1, <1>2, <1>3, <1>4

-----------------------------------------------------------------------------
(* The table changes. *)

\* The slot a registration takes: with one other handle at most, one of the first two.
LEMMA FreeHandleHere ==
  ASSUME ApiInv, FreeSlots # {}, NEW type \in {"DEVICE", "CLIENT"}, ~Has(type)
  PROVE  GetFreeHandle \in Handles /\ GetFreeHandle \in {1, 2} /\ HandleTable[GetFreeHandle] = NULL
<1>a. /\ HandleTable \in [Handles -> {NULL, "DEVICE", "CLIENT"}] /\ NumHandle \in Nat /\ NumHandle > 2
      /\ \A g, h \in Handles : HandleTable[g] = HandleTable[h] /\ HandleTable[g] # NULL => g = h
  BY ApiAssumption DEF ApiInv, TypesOK, TableOK
<1>b. \A h : h \in FreeSlots <=> h \in Handles /\ HandleTable[h] = NULL /\ h + 1 < NumHandle
  BY DEF FreeSlots
<1>c. \A h \in Handles : h \in Nat /\ h >= 1 /\ h <= NumHandle - 1
  BY <1>a DEF Handles
<1>1. ASSUME NEW k \in {1, 2}, k \in FreeSlots, \A g \in FreeSlots : k <= g
      PROVE  GetFreeHandle = k
  <2>1. ASSUME NEW h \in FreeSlots, \A g \in FreeSlots : h <= g PROVE h = k
    BY <1>1, <2>1, <1>b, <1>c
  <2> QED BY <1>1, <2>1 DEF GetFreeHandle
<1>2. CASE 1 \in FreeSlots
  <2>1. \A g \in FreeSlots : 1 <= g
    BY <1>b, <1>c
  <2>2. GetFreeHandle = 1
    BY <1>1, <1>2, <2>1
  <2> QED BY <1>2, <1>b, <2>2
<1>3. CASE 1 \notin FreeSlots
  <2>1. 1 \in Handles /\ HandleTable[1] # NULL
    BY <1>a, <1>b, <1>3 DEF Handles
  <2>2. NumHandle > 3
    <3>1. PICK h \in FreeSlots : TRUE
      OBVIOUS
    <3>2. h \in Nat /\ h # 1 /\ h >= 1 /\ h + 1 < NumHandle
      BY <1>3, <1>b, <1>c, <3>1
    <3> QED BY <1>a, <3>2
  <2>3. 2 \in Handles /\ HandleTable[2] = NULL
    <3>1. 2 \in Handles
      BY <1>a, <2>2 DEF Handles
    <3>2. HandleTable[1] \in {"DEVICE", "CLIENT"} \ {type} /\ HandleTable[2] \in {NULL, "DEVICE", "CLIENT"} \ {type}
      BY <1>a, <2>1, <3>1 DEF Has
    <3>3. HandleTable[2] # NULL => HandleTable[1] = HandleTable[2]
      BY <3>2
    <3> QED BY <1>a, <2>1, <3>1, <3>3
  <2>4. 2 \in FreeSlots
    BY <1>a, <1>b, <2>2, <2>3
  <2>5. \A g \in FreeSlots : 2 <= g
    BY <1>3, <1>b, <1>c
  <2>6. GetFreeHandle = 2
    BY <1>1, <2>4, <2>5
  <2> QED BY <2>3, <2>6
<1> QED BY <1>2, <1>3

LEMMA BeginRegister == ASSUME InOrder, OneRegistrar, ApiInv, NEW t \in Threads, dlnaRegisterRootDevice(t) PROVE ApiInv'
<1> DEFINE k == GetFreeHandle
           r == [op |-> "download", h |-> k]
<1>1. /\ ~Closed /\ at[t] = Idle /\ LockFree /\ dlnaSdkDeviceRegistered = 0 /\ FreeSlots # {} /\ t \in DeviceThreads
      /\ HandleTable' = [HandleTable EXCEPT ![k] = "DEVICE"] /\ lock' = t /\ at' = [at EXCEPT ![t] = r]
      /\ UNCHANGED <<dlnaSdkInit, timer, finishing, pool, serverVars, jobVars, dlnaSdkDeviceRegistered, dlnaSdkClientRegistered>>
  BY CallsWhenOpen DEF dlnaRegisterRootDevice, lifeVars
<1>2. ~Has("DEVICE") /\ NULL \notin {"DEVICE", "CLIENT"} /\ NULL \notin Threads
  BY <1>1, ApiAssumption DEF ApiInv, TableOK
<1>3. k \in Handles /\ k \in {1, 2} /\ HandleTable[k] = NULL
  BY <1>1, <1>2, FreeHandleHere
<1>4. r \in [op : Ops \ (InitOps \cup FinOps), h : Nat] /\ r.op = "download" /\ r.h = k
  BY <1>3 DEF Ops, InitOps, FinOps, AfterDevice, AfterClient, AfterTimer, DeviceOps
<1> HIDE DEF r, k
<1>5. /\ at' \in [Threads -> [op : Ops, h : Nat]] /\ at'[t] = r
      /\ LifeOK' /\ EmptyOK' /\ TimerOK' /\ ServerOK' /\ ConnectionsOK' /\ JobsOK'
  <2>1. at'[t] = r
    BY <1>1 DEF ApiInv, TypesOK
  <2> QED BY <1>1, <1>4, <2>1, OpenStep
<1>6. HandleTable \in [Handles -> {NULL, "DEVICE", "CLIENT"}] /\ HandleTable' \in [Handles -> {NULL, "DEVICE", "CLIENT"}]
  BY <1>1, <1>3 DEF ApiInv, TypesOK
<1>7. HandleTable'[k] = "DEVICE" /\ \A h \in Handles : h # k => HandleTable'[h] = HandleTable[h] /\ HandleTable[h] # "DEVICE"
  BY <1>1, <1>2, <1>3, <1>6 DEF Has
<1>8. TypesOK'
  BY <1>1, <1>5, <1>6 DEF ApiInv, TypesOK, serverVars, jobVars
<1>9. TableOK'
  <2>1. Has("CLIENT")' <=> Has("CLIENT")
    BY <1>2, <1>3, <1>7 DEF Has
  <2>2. ~LockFree'
    BY <1>1, <1>2 DEF LockFree
  <2>3. \A g, h \in Handles : HandleTable'[g] = HandleTable'[h] /\ HandleTable'[g] # NULL => g = h
    BY <1>7 DEF ApiInv, TableOK
  <2>4. \A h \in Handles : HandleTable'[h] # NULL => h \in {1, 2}
    BY <1>3, <1>7 DEF ApiInv, TableOK
  <2> QED BY <1>1, <1>4, <1>5, <2>1, <2>2, <2>3, <2>4 DEF ApiInv, TableOK
<1>10. ActorsOK'
  <2>1. finishing = "nobody" /\ finishing' = "nobody"
    BY <1>1 DEF Closed
  <2>2. ActorOK(t)'
    BY <1>1, <1>3, <1>4, <1>5, <1>7, <2>1 DEF ActorOK, ClientOps
  <2>3. ASSUME NEW s \in Threads, s # t PROVE ActorOK(s)'
    <3>1. at'[s] = at[s] /\ ActorOK(s)
      BY <1>1, <2>3 DEF ApiInv, TypesOK, ActorsOK
    <3>2. at[s].op \notin DeviceOps
      <4>1. at[s].op \in DeviceOps => s \in DeviceThreads
        BY <2>1, <3>1 DEF ActorOK
      <4> QED BY <1>1, <2>3, <4>1 DEF OneRegistrar
    <3>3. at[s].op = "unclient_free" => HandleTable'[at[s].h] = "CLIENT"
      BY <1>2, <1>3, <1>7, <3>1 DEF ActorOK
    <3> QED BY <2>1, <3>1, <3>2, <3>3 DEF ActorOK, DeviceOps
  <2> QED BY <2>2, <2>3 DEF ActorsOK
<1> QED BY <1>5, <1>8, <1>9, <1>10 DEF ApiInv

LEMMA ClientRegisters == ASSUME InOrder, OneRegistrar, ApiInv, NEW t \in Threads, dlnaRegisterClient(t) PROVE ApiInv'
<1> DEFINE k == GetFreeHandle
<1>1. /\ ~Closed /\ at[t] = Idle /\ LockFree /\ dlnaSdkClientRegistered = 0 /\ FreeSlots # {} /\ t \in ClientThreads
      /\ HandleTable' = [HandleTable EXCEPT ![k] = "CLIENT"] /\ dlnaSdkClientRegistered' = 1
      /\ UNCHANGED <<dlnaSdkInit, timer, finishing, pool, serverVars, jobVars, dlnaSdkDeviceRegistered, lock, at>>
  BY CallsWhenOpen DEF dlnaRegisterClient, lifeVars
<1>2. ~Has("CLIENT") /\ NULL \notin {"DEVICE", "CLIENT"}
  BY <1>1, ApiAssumption DEF ApiInv, TableOK
<1>3. k \in Handles /\ k \in {1, 2} /\ HandleTable[k] = NULL
  BY <1>1, <1>2, FreeHandleHere
<1> HIDE DEF k
<1>4. finishing = "nobody" /\ Up /\ MainOp \notin InitOps /\ MainOp \notin FinOps
  BY <1>1 DEF Closed, ApiInv, LifeOK
<1>5. HandleTable \in [Handles -> {NULL, "DEVICE", "CLIENT"}] /\ HandleTable' \in [Handles -> {NULL, "DEVICE", "CLIENT"}]
  BY <1>1, <1>3 DEF ApiInv, TypesOK
<1>6. HandleTable'[k] = "CLIENT" /\ \A h \in Handles : h # k => HandleTable'[h] = HandleTable[h] /\ HandleTable[h] # "CLIENT"
  BY <1>1, <1>2, <1>3, <1>5 DEF Has
<1>7. UNCHANGED <<call, work, ads, adJobs, server, sockets, gMServState, connection>> /\ Up' = Up /\ MainOp' = MainOp
  BY <1>1 DEF serverVars, jobVars, Up, MainOp
<1>8. TypesOK'
  BY <1>1, <1>5, <1>7 DEF ApiInv, TypesOK
<1>9. LifeOK' /\ TimerOK' /\ ServerOK' /\ ConnectionsOK' /\ JobsOK'
  BY <1>1, <1>7 DEF ApiInv, LifeOK, TimerOK, ServerOK, ConnectionsOK, JobsOK, NoJobs, Queued, Unheard
<1>10. EmptyOK'
  BY <1>1, <1>4, <1>7 DEF EmptyOK, FinOps, AfterDevice
<1>11. TableOK'
  <2>1. Has("DEVICE")' <=> Has("DEVICE")
    BY <1>2, <1>3, <1>6 DEF Has
  <2>2. LockFree' /\ Has("CLIENT")'
    BY <1>1, <1>3, <1>6 DEF LockFree, Has
  <2>3. \A g, h \in Handles : HandleTable'[g] = HandleTable'[h] /\ HandleTable'[g] # NULL => g = h
    BY <1>6 DEF ApiInv, TableOK
  <2>4. \A h \in Handles : HandleTable'[h] # NULL => h \in {1, 2}
    BY <1>3, <1>6 DEF ApiInv, TableOK
  <2> QED BY <1>1, <2>1, <2>2, <2>3, <2>4 DEF ApiInv, TableOK
<1>12. ActorsOK'
  <2>1. SUFFICES ASSUME NEW s \in Threads PROVE ActorOK(s)'
    BY DEF ActorsOK
  <2>2. ActorOK(s) /\ UNCHANGED <<at, finishing, lock>>
    BY <1>1 DEF ApiInv, ActorsOK
  <2>3. \A h \in Handles : HandleTable[h] # NULL => HandleTable'[h] = HandleTable[h]
    BY <1>3, <1>6
  <2> QED BY <1>2, <2>2, <2>3 DEF ActorOK
<1> QED BY <1>8, <1>9, <1>10, <1>11, <1>12 DEF ApiInv

\* Nobody else is about the device, or the client.
LEMMA AloneAbout ==
  ASSUME OneRegistrar, ApiInv, NEW s \in Threads, NEW t \in Threads,
         \/ at[s].op \in DeviceOps /\ at[t].op \in DeviceOps
         \/ at[s].op \in ClientOps /\ at[t].op \in ClientOps
  PROVE  s = t
<1>1. ActorOK(s) /\ ActorOK(t)
  BY DEF ApiInv, ActorsOK
<1>2. CASE finishing = "nobody"
  BY <1>1, <1>2 DEF ActorOK, OneRegistrar
<1>3. CASE finishing # "nobody"
  <2>1. s = Main
    BY <1>3, InsideClosed DEF Closed
  <2>2. t = Main
    BY <1>3, InsideClosed DEF Closed
  <2> QED BY <2>1, <2>2
<1> QED BY <1>2, <1>3

LEMMA RegisterEnds == ASSUME OneRegistrar, ApiInv, NEW t \in Threads, RegisterFails(t) \/ RegisterDone(t) PROVE ApiInv'
<1> DEFINE k == at[t].h
<1>1. /\ at[t].op = "download" /\ lock' = NULL /\ at' = [at EXCEPT ![t] = Idle]
      /\ UNCHANGED <<dlnaSdkInit, timer, finishing, pool, serverVars, jobVars, dlnaSdkClientRegistered>>
      /\ \/ HandleTable' = [HandleTable EXCEPT ![k] = NULL] /\ dlnaSdkDeviceRegistered' = dlnaSdkDeviceRegistered
         \/ HandleTable' = HandleTable /\ dlnaSdkDeviceRegistered' = 1
  BY DEF RegisterFails, RegisterDone, Return, FreeHandle, lifeVars
<1>2. ~Closed /\ lock = t /\ k \in Handles /\ HandleTable[k] = "DEVICE" /\ finishing = "nobody"
  BY <1>1, InsideClosed DEF ApiInv, ActorsOK, ActorOK, DeviceOps, ClientOps, Closed
<1>3. dlnaSdkDeviceRegistered = 0 /\ NULL \notin {"DEVICE", "CLIENT"} /\ Idle.op = "idle"
  <2>1. t # NULL
    BY ApiAssumption
  <2> QED BY <1>2, <2>1, ApiAssumption DEF ApiInv, TableOK, LockFree, Idle
<1> HIDE DEF k
<1>4. /\ at' \in [Threads -> [op : Ops, h : Nat]] /\ at'[t] = Idle
      /\ LifeOK' /\ EmptyOK' /\ TimerOK' /\ ServerOK' /\ ConnectionsOK' /\ JobsOK'
  <2>1. at'[t] = Idle
    BY <1>1 DEF ApiInv, TypesOK
  <2>2. Idle \in [op : Ops \ (InitOps \cup FinOps), h : Nat]
    BY Moves DEF ApiInv
  <2> QED BY <1>1, <1>2, <2>1, <2>2, OpenStep
<1>5. HandleTable \in [Handles -> {NULL, "DEVICE", "CLIENT"}] /\ HandleTable' \in [Handles -> {NULL, "DEVICE", "CLIENT"}]
  BY <1>1, <1>2 DEF ApiInv, TypesOK
<1>6. TypesOK'
  BY <1>1, <1>4, <1>5 DEF ApiInv, TypesOK, serverVars, jobVars
<1>7. \A h \in Handles : h # k => HandleTable'[h] = HandleTable[h] /\ HandleTable[h] # "DEVICE"
  BY <1>1, <1>2, <1>3, <1>5 DEF ApiInv, TableOK
<1>8. TableOK'
  <2>1. Has("CLIENT")' <=> Has("CLIENT")
    BY <1>1, <1>2, <1>3, <1>5, <1>7 DEF Has
  <2>2. Has("DEVICE")' <=> dlnaSdkDeviceRegistered' = 1
    <3>1. CASE HandleTable' = [HandleTable EXCEPT ![k] = NULL] /\ dlnaSdkDeviceRegistered' = dlnaSdkDeviceRegistered
      <4>1. \A h \in Handles : HandleTable'[h] # "DEVICE"
        BY <1>2, <1>3, <1>5, <1>7, <3>1
      <4> QED BY <1>3, <3>1, <4>1 DEF Has
    <3>2. CASE HandleTable' = HandleTable /\ dlnaSdkDeviceRegistered' = 1
      BY <1>2, <3>2 DEF Has
    <3> QED BY <1>1, <3>1, <3>2
  <2>3. LockFree'
    BY <1>1 DEF LockFree
  <2>4. \A g, h \in Handles : HandleTable'[g] = HandleTable'[h] /\ HandleTable'[g] # NULL => g = h
    BY <1>1, <1>2, <1>5, <1>7 DEF ApiInv, TableOK
  <2>5. \A h \in Handles : HandleTable'[h] # NULL => h \in {1, 2}
    BY <1>1, <1>2, <1>5, <1>7 DEF ApiInv, TableOK
  <2> QED BY <1>1, <2>1, <2>2, <2>3, <2>4, <2>5 DEF ApiInv, TableOK
<1>9. ActorsOK'
  <2>1. ActorOK(t)'
    BY <1>3, <1>4 DEF ActorOK, DeviceOps, ClientOps
  <2>2. ASSUME NEW s \in Threads, s # t PROVE ActorOK(s)'
    <3>1. at'[s] = at[s] /\ ActorOK(s)
      BY <1>1, <2>2 DEF ApiInv, TypesOK, ActorsOK
    <3>2. at[s].op \notin DeviceOps
      BY <1>1, <2>2, AloneAbout DEF DeviceOps
    <3>3. at[s].op = "unclient_free" => HandleTable'[at[s].h] = "CLIENT"
      BY <1>2, <1>7, <3>1 DEF ActorOK
    <3> QED BY <1>1, <1>2, <3>1, <3>2, <3>3 DEF ActorOK, DeviceOps
  <2> QED BY <2>1, <2>2 DEF ActorsOK
<1> QED BY <1>4, <1>6, <1>8, <1>9 DEF ApiInv

\* A handle is freed: the step itself, for a device or a client.
LEMMA HandleFreed ==
  ASSUME ApiInv, NEW k \in Handles, NEW type \in {"DEVICE", "CLIENT"}, HandleTable[k] = type,
         HandleTable' = [HandleTable EXCEPT ![k] = NULL]
  PROVE  /\ HandleTable' \in [Handles -> {NULL, "DEVICE", "CLIENT"}]
         /\ ~Has(type)' /\ \A other \in {"DEVICE", "CLIENT"} : other # type => (Has(other)' <=> Has(other))
         /\ \A g, h \in Handles : HandleTable'[g] = HandleTable'[h] /\ HandleTable'[g] # NULL => g = h
         /\ \A h \in Handles : HandleTable'[h] # NULL => h \in {1, 2}
         /\ \A h \in Handles : HandleTable[h] \in {"DEVICE", "CLIENT"} \ {type} => HandleTable'[h] = HandleTable[h]
<1>1. /\ HandleTable \in [Handles -> {NULL, "DEVICE", "CLIENT"}] /\ NULL \notin {"DEVICE", "CLIENT"}
      /\ \A g, h \in Handles : HandleTable[g] = HandleTable[h] /\ HandleTable[g] # NULL => g = h
      /\ \A h \in Handles : HandleTable[h] # NULL => h \in {1, 2}
  BY ApiAssumption DEF ApiInv, TypesOK, TableOK
<1>2. HandleTable'[k] = NULL /\ \A h \in Handles : h # k => HandleTable'[h] = HandleTable[h] /\ HandleTable[h] # type
  BY <1>1
<1>3. HandleTable' \in [Handles -> {NULL, "DEVICE", "CLIENT"}]
  BY <1>1
<1>4. ~Has(type)' /\ \A other \in {"DEVICE", "CLIENT"} : other # type => (Has(other)' <=> Has(other))
  <2>1. ~Has(type)'
    BY <1>1, <1>2 DEF Has
  <2>2. ASSUME NEW other \in {"DEVICE", "CLIENT"}, other # type PROVE Has(other)' <=> Has(other)
    BY <1>1, <1>2, <2>2 DEF Has
  <2> QED BY <2>1, <2>2
<1> QED BY <1>1, <1>2, <1>3, <1>4

LEMMA UnregisterFrees == ASSUME OneRegistrar, ApiInv, NEW t \in Threads, UnRegisterFree(t) \/ UnClientFree(t) PROVE ApiInv'
<1> DEFINE k == at[t].h
<1>a. PICK type \in {"DEVICE", "CLIENT"} :
        /\ at[t].op = IF type = "DEVICE" THEN "unreg_free" ELSE "unclient_free"
        /\ type = "DEVICE" => UnRegisterFree(t)
        /\ type = "CLIENT" => UnClientFree(t)
  BY DEF UnRegisterFree, UnClientFree
<1>1. ActorOK(t) /\ TypesOK /\ Main \in Threads /\ NULL \notin {"DEVICE", "CLIENT"}
  BY ApiAssumption DEF ApiInv, ActorsOK, Threads
<1>2. k \in Handles /\ HandleTable[k] = type
  BY <1>a, <1>1 DEF ActorOK
<1>3. /\ LockFree /\ HandleTable' = [HandleTable EXCEPT ![k] = NULL]
      /\ Resume(t, IF type = "DEVICE" THEN "fin_client" ELSE "fin_timer")
      /\ dlnaSdkDeviceRegistered' = IF type = "DEVICE" THEN 0 ELSE dlnaSdkDeviceRegistered
      /\ dlnaSdkClientRegistered' = IF type = "CLIENT" THEN 0 ELSE dlnaSdkClientRegistered
      /\ UNCHANGED <<lifeVars, lock, serverVars, jobVars>>
  BY <1>a, <1>1, <1>2 DEF UnRegisterFree, UnClientFree, GetHandleInfo, FreeHandle
<1>4. at[t].op \in EarlyOps /\ at[t].op \in (DeviceOps \ {"download"}) \cup ClientOps /\ at[t].op \in Ops /\ at[t].h \in Nat
  BY <1>a, <1>1 DEF EarlyOps, DeviceOps, ClientOps, TypesOK
<1>5. /\ HandleTable' \in [Handles -> {NULL, "DEVICE", "CLIENT"}]
      /\ ~Has(type)' /\ \A other \in {"DEVICE", "CLIENT"} : other # type => (Has(other)' <=> Has(other))
      /\ \A g, h \in Handles : HandleTable'[g] = HandleTable'[h] /\ HandleTable'[g] # NULL => g = h
      /\ \A h \in Handles : HandleTable'[h] # NULL => h \in {1, 2}
      /\ \A h \in Handles : HandleTable[h] \in {"DEVICE", "CLIENT"} \ {type} => HandleTable'[h] = HandleTable[h]
  BY <1>2, <1>3, HandleFreed
<1>6. dlnaSdkDeviceRegistered' \in {0, 1} /\ dlnaSdkClientRegistered' \in {0, 1} /\ LockFree'
  BY <1>1, <1>3 DEF TypesOK, LockFree
<1>7. TableOK'
  <2>1. Has("CLIENT")' <=> dlnaSdkClientRegistered' = 1
    BY <1>3, <1>5 DEF ApiInv, TableOK
  <2>2. Has("DEVICE")' <=> dlnaSdkDeviceRegistered' = 1
    BY <1>3, <1>5 DEF ApiInv, TableOK
  <2> QED BY <1>5, <1>6, <2>1, <2>2 DEF TableOK
\* The other threads are about something else.
<1>8. ASSUME NEW s \in Threads, s # t, at'[s] = at[s] PROVE ActorOK(s)'
  <2>1. ActorOK(s) /\ finishing' = finishing /\ lock' = lock
    BY <1>3 DEF ApiInv, ActorsOK, lifeVars
  <2>2. type = "DEVICE" => at[s].op \notin DeviceOps
    BY <1>a, <1>8, AloneAbout DEF DeviceOps
  <2>3. type = "CLIENT" => at[s].op \notin ClientOps
    BY <1>a, <1>8, AloneAbout DEF ClientOps
  <2>4. CASE type = "DEVICE"
    BY <1>5, <1>8, <2>1, <2>2, <2>4 DEF ActorOK, DeviceOps
  <2>5. CASE type = "CLIENT"
    BY <1>5, <1>8, <2>1, <2>3, <2>5 DEF ActorOK, ClientOps
  <2> QED BY <2>4, <2>5
<1>9. CASE ~Closed
  <2>1. at' = [at EXCEPT ![t] = Idle]
    BY <1>3, <1>9 DEF Resume, Return, Closed
  <2>2. UNCHANGED <<dlnaSdkInit, timer, finishing, pool, serverVars, call, connection, lock>>
    BY <1>3 DEF lifeVars, jobVars, serverVars
  <2>3. /\ at' \in [Threads -> [op : Ops, h : Nat]]
        /\ LifeOK' /\ EmptyOK' /\ TimerOK' /\ ServerOK' /\ ConnectionsOK' /\ JobsOK'
    <3>1. Idle \in [op : Ops \ (InitOps \cup FinOps), h : Nat]
      BY <1>1, Moves
    <3> QED BY <1>9, <2>1, <2>2, <3>1, OpenStep
  <2>4. TypesOK'
    BY <1>1, <1>5, <1>6, <2>2, <2>3 DEF TypesOK
  <2>5. ActorsOK'
    <3>1. at'[t].op = "idle"
      BY <1>1, <2>1 DEF TypesOK, Idle
    <3>2. ActorOK(t)'
      BY <3>1 DEF ActorOK, DeviceOps, ClientOps
    <3>3. \A s \in Threads : s # t => at'[s] = at[s]
      BY <1>1, <2>1 DEF TypesOK
    <3> QED BY <1>8, <3>2, <3>3 DEF ActorsOK
  <2> QED BY <1>7, <2>3, <2>4, <2>5 DEF ApiInv
<1>10. CASE Closed
  <2>1. t = Main /\ finishing # "nobody"
    BY <1>4, <1>10, InsideClosed
  <2> DEFINE r == [op |-> IF type = "DEVICE" THEN "fin_client" ELSE "fin_timer", h |-> at[t].h]
  <2>2. r \in [op : EarlyOps, h : Nat] /\ r.op = IF type = "DEVICE" THEN "fin_client" ELSE "fin_timer"
    BY <1>4 DEF EarlyOps
  <2>3. at' = [at EXCEPT ![Main] = r]
    <3>1. Goto(t, IF type = "DEVICE" THEN "fin_client" ELSE "fin_timer")
      BY <1>3, <2>1 DEF Resume
    <3>2. (IF type = "DEVICE" THEN "fin_client" ELSE "fin_timer") \in Ops
      BY DEF Ops, FinOps, AfterDevice, AfterClient
    <3> QED BY <1>1, <2>1, <3>1, <3>2, Moves
  <2> HIDE DEF r
  <2>4. /\ TypesOK' /\ LifeOK' /\ TimerOK' /\ ServerOK' /\ ConnectionsOK' /\ JobsOK'
        /\ MainOp' = r.op /\ at'[Main] = r /\ Up'
    <3>1. MainOp \in EarlyOps
      BY <1>4, <2>1 DEF MainOp
    <3> QED BY <1>3, <1>5, <1>6, <2>1, <2>2, <2>3, <3>1, FinishMoves
  <2>5. EmptyOK'
    <3>1. type = "CLIENT" => ~Has("DEVICE")'
      <4>1. type = "CLIENT" => ~Has("DEVICE")
        BY <1>a, <2>1 DEF ApiInv, EmptyOK, MainOp, ClientOps
      <4> QED BY <1>5, <4>1
    <3> QED BY <1>5, <2>2, <2>4, <3>1 DEF EmptyOK, InitOps, ClientOps, AfterDevice, AfterClient, AfterTimer
  <2>6. ActorsOK'
    <3>1. at'[t].op \notin DeviceOps \cup ClientOps
      BY <2>1, <2>2, <2>4 DEF DeviceOps, ClientOps
    <3>2. ActorOK(t)'
      BY <3>1 DEF ActorOK, DeviceOps, ClientOps
    <3>3. \A s \in Threads : s # t => at'[s] = at[s]
      BY <1>1, <2>1, <2>3 DEF TypesOK
    <3> QED BY <1>8, <3>2, <3>3 DEF ActorsOK
  <2> QED BY <1>7, <2>4, <2>5, <2>6 DEF ApiInv
<1> QED BY <1>9, <1>10

-----------------------------------------------------------------------------
(* Jobs, advertisements and connections. *)

CallStates == {"none", "gena_queued", "soap_queued", "lost", "running", "answered", "discarded"}

LEMMA JobsOnly ==
  ASSUME ApiInv, UNCHANGED <<lifeVars, tableVars, serverVars, at>>,
         call' \in [Calls -> CallStates], TimerOK', JobsOK'
  PROVE  ApiInv'
<1>1. UNCHANGED <<dlnaSdkInit, finishing, tableVars, at, pool, timer, gMServState, server, sockets, connection,
                  HandleTable, lock, dlnaSdkDeviceRegistered, dlnaSdkClientRegistered>>
  BY DEF lifeVars, serverVars, tableVars
<1>2. LifeOK' /\ TableOK' /\ ActorsOK' /\ EmptyOK'
  BY <1>1, Undisturbed
<1>3. TypesOK'
  BY <1>1 DEF ApiInv, TypesOK, CallStates
<1>4. ServerOK' /\ ConnectionsOK'
  BY <1>1 DEF ApiInv, ServerOK, ConnectionsOK, MainOp, Up, Unheard
<1> QED BY <1>2, <1>3, <1>4 DEF ApiInv

\* The events of the timer as they were, or changed while no device is known to be gone.
LEMMA TimerKeeps ==
  ASSUME ApiInv, UNCHANGED <<lifeVars, at>>,
         ads' # ads => Up /\ MainOp \notin InitOps \cup AfterTimer
  PROVE  TimerOK'
<1>1. UNCHANGED <<timer, at, dlnaSdkInit>> /\ MainOp' = MainOp /\ Up' = Up
  BY DEF lifeVars, MainOp, Up
<1> QED BY <1>1 DEF ApiInv, TimerOK

LEMMA ScheduledEvents == ASSUME ApiInv, NEW h, Scheduled(h), ads' # ads PROVE Up /\ MainOp \notin InitOps \cup AfterTimer
<1>1. Has("DEVICE")
  BY ApiAssumption DEF Scheduled, GetHandleInfo, Has
<1> QED BY <1>1 DEF ApiInv, EmptyOK, AfterDevice, AfterClient

LEMMA JobsStep ==
  ASSUME ApiInv, NEW w \in Workers, Working(w)
  PROVE  ApiInv'
<1>a. /\ call \in [Calls -> CallStates] /\ TimerOK /\ JobsOK
      /\ pool["send"] = "up" => pool["send"] # "stopping"
      /\ Nothing.step = "none"
  BY DEF ApiInv, TypesOK, CallStates, Nothing
<1>b. ASSUME UNCHANGED <<lifeVars, at>> PROVE UNCHANGED <<pool, timer, dlnaSdkInit>> /\ MainOp' = MainOp /\ Up' = Up
  BY <1>b DEF lifeVars, MainOp, Up
<1>1. ASSUME NEW c \in Calls, TakeCall(w, c) PROVE ApiInv'
  <2>1. UNCHANGED <<lifeVars, tableVars, serverVars, ads, adJobs, at>> /\ pool["send"] = "up" /\ c \in Queued
    BY <1>1 DEF TakeCall
  <2>2. call' \in [Calls -> CallStates]
    BY <1>a, <1>1 DEF TakeCall, CallStates
  <2>3. JobsOK'
    BY <1>a, <1>b, <2>1 DEF JobsOK, NoJobs
  <2>4. TimerOK'
    BY <2>1, TimerKeeps
  <2> QED BY <2>1, <2>2, <2>3, <2>4, JobsOnly
<1>2. CASE dlnaThreadDistribution(w)
  <2>1. UNCHANGED <<lifeVars, tableVars, serverVars, call, ads, adJobs, at>> /\ work[w] # Nothing
    BY <1>a, <1>2 DEF dlnaThreadDistribution
  <2>2. call' \in [Calls -> CallStates] /\ NoJobs' = NoJobs
    BY <1>a, <2>1 DEF NoJobs, Queued
  <2>3. JobsOK'
    BY <1>a, <1>b, <2>1, <2>2 DEF JobsOK
  <2>4. TimerOK'
    BY <2>1, TimerKeeps
  <2> QED BY <2>1, <2>2, <2>3, <2>4, JobsOnly
<1>3. CASE CallbackReturns(w)
  <2>1. UNCHANGED <<lifeVars, tableVars, serverVars, ads, adJobs, at>> /\ work[w] # Nothing
    BY <1>a, <1>3 DEF CallbackReturns
  <2>2. call' \in [Calls -> CallStates] /\ \A c \in Calls : call'[c] \in {call[c], "answered"}
    BY <1>a, <1>3 DEF CallbackReturns, CallStates
  <2>3. NoJobs => NoJobs'
    BY <2>1, <2>2 DEF NoJobs, Queued
  <2>4. JobsOK'
    BY <1>a, <1>b, <2>1, <2>3 DEF JobsOK
  <2>5. TimerOK'
    BY <2>1, TimerKeeps
  <2> QED BY <2>1, <2>2, <2>4, <2>5, JobsOnly
<1>4. ASSUME NEW h \in Handles, AutoAdvertise(w, h) PROVE ApiInv'
  <2>1. UNCHANGED <<lifeVars, tableVars, serverVars, call, ads, at>> /\ pool["send"] = "up" /\ adJobs[h] > 0
    BY <1>4 DEF AutoAdvertise
  <2>2. call' \in [Calls -> CallStates] /\ ~NoJobs
    BY <1>a, <2>1 DEF NoJobs, NoAds
  <2>3. JobsOK'
    BY <1>a, <1>b, <2>1, <2>2 DEF JobsOK
  <2>4. TimerOK'
    BY <2>1, TimerKeeps
  <2> QED BY <2>1, <2>2, <2>3, <2>4, JobsOnly
<1>5. CASE AutoAdvertised(w)
  <2>1. UNCHANGED <<lifeVars, tableVars, serverVars, call, adJobs, at>> /\ work[w] # Nothing /\ Scheduled(work[w].h)
    BY <1>a, <1>5 DEF AutoAdvertised
  <2>2. call' \in [Calls -> CallStates] /\ NoJobs' = NoJobs
    BY <1>a, <2>1 DEF NoJobs, Queued
  <2>3. JobsOK'
    BY <1>a, <1>b, <2>1, <2>2 DEF JobsOK
  <2>4. TimerOK'
    BY <2>1, TimerKeeps, ScheduledEvents
  <2> QED BY <2>1, <2>2, <2>3, <2>4, JobsOnly
<1> QED BY <1>1, <1>2, <1>3, <1>4, <1>5 DEF Working

LEMMA TimerStep == ASSUME ApiInv, NEW h \in Handles, TimerFires(h) PROVE ApiInv'
<1>1. UNCHANGED <<lifeVars, tableVars, serverVars, call, work, at>> /\ ads[h] > 0
  BY DEF TimerFires
<1>2. ads # NoAds
  BY <1>1 DEF NoAds
<1>3. Up /\ MainOp \notin InitOps \cup AfterTimer
  BY <1>2 DEF ApiInv, TimerOK
<1>4. TimerOK'
  BY <1>1, <1>3, TimerKeeps
<1>5. call' \in [Calls -> CallStates] /\ Up' = Up /\ MainOp' = MainOp /\ pool' = pool
  BY <1>1 DEF ApiInv, TypesOK, CallStates, Up, MainOp, lifeVars
<1>6. JobsOK'
  BY <1>3, <1>5 DEF ApiInv, JobsOK, AfterTimer
<1> QED BY <1>1, <1>4, <1>5, <1>6, JobsOnly

LEMMA AsyncStep ==
  ASSUME InOrder, ApiInv, NEW t \in Threads, NEW c \in Calls, NEW queued \in {"gena_queued", "soap_queued"}, Async(t, c, queued)
  PROVE  ApiInv'
<1>1. UNCHANGED <<lifeVars, tableVars, serverVars, work, ads, adJobs, at>> /\ ~Closed
  BY CallsWhenOpen DEF Async
<1>2. call' \in [Calls -> CallStates]
  BY DEF Async, ApiInv, TypesOK, CallStates
<1>3. Up /\ MainOp \notin InitOps /\ MainOp \notin FinOps
  BY <1>1 DEF Closed, ApiInv, LifeOK
<1>4. Up' = Up /\ MainOp' = MainOp /\ pool' = pool
  BY <1>1 DEF Up, MainOp, lifeVars
<1>5. JobsOK'
  BY <1>3, <1>4 DEF ApiInv, JobsOK, FinOps, AfterDevice, AfterClient, AfterTimer
<1>6. TimerOK'
  BY <1>1, TimerKeeps
<1> QED BY <1>1, <1>2, <1>5, <1>6, JobsOnly

LEMMA AdvertisedStep == ASSUME ApiInv, NEW t \in Threads, AdvertisementSent(t) PROVE ApiInv'
<1>1. /\ at[t].op = "advertise" /\ at' = [at EXCEPT ![t] = Idle]
      /\ UNCHANGED <<dlnaSdkInit, timer, finishing, pool, serverVars, tableVars, call, HandleTable, lock, connection,
                     dlnaSdkDeviceRegistered, dlnaSdkClientRegistered>>
  BY DEF AdvertisementSent, Return, lifeVars, tableVars, serverVars
<1>2. ~Closed
  BY <1>1, InsideClosed DEF DeviceOps, ClientOps
<1>3. Idle.op = "idle" /\ Idle \in [op : Ops \ (InitOps \cup FinOps), h : Nat]
  BY Moves DEF ApiInv
<1>4. /\ at' \in [Threads -> [op : Ops, h : Nat]]
      /\ LifeOK' /\ EmptyOK' /\ TimerOK' /\ ServerOK' /\ ConnectionsOK' /\ JobsOK'
  BY <1>1, <1>2, <1>3, OpenStep
<1>5. TypesOK'
  BY <1>1, <1>4 DEF ApiInv, TypesOK
<1>6. TableOK'
  BY <1>1, TableStays
<1>7. ActorsOK'
  <2>1. at'[t] = Idle
    BY <1>1 DEF ApiInv, TypesOK
  <2>2. ActorOK(t)'
    BY <1>3, <2>1 DEF ActorOK, DeviceOps, ClientOps
  <2> QED BY <1>1, <2>2, ActorsStay
<1> QED BY <1>4, <1>5, <1>6, <1>7 DEF ApiInv

\* The server and its connections.
LEMMA ServingStep == ASSUME ApiInv, Serving PROVE ApiInv'
<1>1. UNCHANGED <<lifeVars, tableVars, jobVars, at>>
  BY DEF Serving, RunMiniServer, ServerStops, schedule_request_job, handle_request, dispatch_request, handle_error, RequestDone
<1>2. /\ UNCHANGED <<dlnaSdkInit, finishing, tableVars, at, pool, timer, call, work, ads, adJobs,
                     HandleTable, lock, dlnaSdkDeviceRegistered, dlnaSdkClientRegistered>>
      /\ MainOp' = MainOp /\ Up' = Up
  BY <1>1 DEF lifeVars, jobVars, tableVars, MainOp, Up
<1>3. LifeOK' /\ TableOK' /\ ActorsOK' /\ EmptyOK'
  BY <1>2, Undisturbed
<1>4. TimerOK' /\ JobsOK'
  BY <1>2 DEF ApiInv, TimerOK, JobsOK, NoJobs, Queued
<1>5. connection \in [Requests -> {"none", "queued", "read", "callback", "closed"}] /\ ServerOK /\ ConnectionsOK
  BY DEF ApiInv, TypesOK
<1>6. CASE RunMiniServer \/ ServerStops
  <2>1. connection' = connection
    BY <1>6 DEF RunMiniServer, ServerStops
  <2>2. TypesOK'
    BY <1>2, <2>1 DEF ApiInv, TypesOK
  <2>5. pool["mini"] # "stopping"
    BY <1>5, <1>6 DEF ConnectionsOK, ServerOK, RunMiniServer, ServerStops
  <2>3. ConnectionsOK'
    BY <1>2, <2>1, <2>5 DEF ApiInv, ConnectionsOK
  <2>4. ServerOK'
    BY <1>2, <1>5, <1>6 DEF ServerOK, RunMiniServer, ServerStops, NotServing, Stopped, Unheard
  <2> QED BY <1>3, <1>4, <2>2, <2>3, <2>4 DEF ApiInv
<1>7. ASSUME NEW r \in Requests,
             schedule_request_job(r) \/ handle_request(r) \/ dispatch_request(r) \/ handle_error(r) \/ RequestDone(r)
      PROVE  ApiInv'
  <2>1. UNCHANGED <<server, gMServState, sockets>>
    BY <1>7 DEF schedule_request_job, handle_request, dispatch_request, handle_error, RequestDone
  <2>2. PICK x \in {"queued", "read", "callback", "closed"} : connection' = [connection EXCEPT ![r] = x]
    BY <1>7 DEF schedule_request_job, handle_request, dispatch_request, handle_error, RequestDone
  <2>3. TypesOK'
    <3>1. connection' \in [Requests -> {"none", "queued", "read", "callback", "closed"}]
      BY <1>5, <2>2
    <3> QED BY <1>2, <3>1 DEF ApiInv, TypesOK
  <2>4. ServerOK'
    BY <1>2, <1>5, <2>1 DEF ServerOK, Unheard
  <2>5. ConnectionsOK'
    <3>1. x = "queued" => server \in {"loop", "told"}
      BY <1>5, <1>7, <2>2 DEF schedule_request_job, handle_request, dispatch_request, handle_error, RequestDone
    <3>2. x = "queued" \/ connection[r] \in {"queued", "read", "callback"} \/ x = "closed"
      BY <1>5, <1>7, <2>2 DEF schedule_request_job, handle_request, dispatch_request, handle_error, RequestDone
    <3>3. (~Up \/ MainOp \in NotServing \cup {"fin_recv", "fin_send", "fin_done"}) => server = "none"
      BY <1>5 DEF ServerOK, Stopped
    <3>4. \A q \in Requests : connection'[q] \in {connection[q], IF q = r THEN x ELSE connection[q]}
      BY <1>5, <2>2
    <3>5. connection'[r] = x /\ \A q \in Requests : q # r => connection'[q] = connection[q]
      BY <1>5, <2>2
    <3>6. ASSUME ~Up \/ MainOp \in NotServing \cup {"fin_recv", "fin_send", "fin_done"}
          PROVE  \A q \in Requests : connection'[q] \in {"none", "closed"}
      BY <1>5, <3>1, <3>2, <3>3, <3>5, <3>6 DEF ConnectionsOK
    <3>7. ASSUME pool["mini"] = "stopping"
          PROVE  MainOp = "fin_mini" /\ (server = "none" => \A q \in Requests : connection'[q] # "queued")
      BY <1>5, <3>1, <3>5, <3>7 DEF ConnectionsOK
    <3> QED BY <1>2, <2>1, <3>6, <3>7 DEF ConnectionsOK
  <2> QED BY <1>3, <1>4, <2>3, <2>4, <2>5 DEF ApiInv
<1> QED BY <1>6, <1>7 DEF Serving

-----------------------------------------------------------------------------
(* dlnaInit and dlnaFinish. *)

LifeOps == InitOps \cup FinOps \cup {"idle"}
PoolStates == [{"send", "recv", "mini"} -> {"none", "up", "stopping", "down"}]

LEMMA LifeOpsHere == LifeOps \subseteq Ops /\ LifeOps \cap (DeviceOps \cup ClientOps) = {}
<1> QED BY DEF LifeOps, Ops, InitOps, FinOps, AfterDevice, AfterClient, AfterTimer, DeviceOps, ClientOps

\* dlnaInit or dlnaFinish goes from op to next, with nobody else in the library.
LEMMA MainStep ==
  ASSUME ApiInv, \A t \in Threads : t # Main => at[t] = Idle, MainOp \in LifeOps,
         NEW next, next \in LifeOps, Goto(Main, next) \/ (next = "idle" /\ Return(Main)), UNCHANGED tableVars,
         dlnaSdkInit' \in {0, 1}, pool' \in PoolStates, call' \in [Calls -> CallStates],
         connection' \in [Requests -> {"none", "queued", "read", "callback", "closed"}]
  PROVE  /\ TypesOK' /\ TableOK' /\ ActorsOK'
         /\ MainOp' = next /\ \A t \in Threads : t # Main => at'[t] = Idle
         /\ \A type : Has(type)' = Has(type)
<1>a. /\ at \in [Threads -> [op : Ops, h : Nat]] /\ Main \in Threads /\ next \in Ops /\ next \notin DeviceOps \cup ClientOps
      /\ MainOp \notin DeviceOps \cup ClientOps /\ Idle.op = "idle" /\ Idle \in [op : Ops, h : Nat]
  <2>1. Idle.op = "idle" /\ Idle \in [op : Ops, h : Nat]
    BY Moves DEF ApiInv, Idle, Ops
  <2> QED BY <2>1, LifeOpsHere DEF ApiInv, TypesOK, Threads
<1>1. PICK r \in [op : Ops, h : Nat] : at' = [at EXCEPT ![Main] = r] /\ r.op = next
  <2>1. CASE Goto(Main, next)
    <3>1. at' = [at EXCEPT ![Main] = [op |-> next, h |-> at[Main].h]]
      BY <1>a, <2>1, Moves DEF ApiInv
    <3> DEFINE r == [op |-> next, h |-> at[Main].h]
    <3>2. r \in [op : Ops, h : Nat] /\ r.op = next
      BY <1>a
    <3> HIDE DEF r
    <3> QED BY <3>1, <3>2 DEF r
  <2>2. CASE next = "idle" /\ Return(Main)
    BY <1>a, <2>2 DEF Return
  <2> QED BY <2>1, <2>2
<1>2. at' \in [Threads -> [op : Ops, h : Nat]] /\ at'[Main] = r /\ \A t \in Threads : t # Main => at'[t] = Idle
  BY <1>a, <1>1
<1>3. UNCHANGED <<HandleTable, lock, dlnaSdkDeviceRegistered, dlnaSdkClientRegistered>>
  BY DEF tableVars
<1>4. TypesOK'
  BY <1>2, <1>3 DEF ApiInv, TypesOK, CallStates, PoolStates
<1>5. TableOK'
  <2>1. at[Main].op # "download"
    BY <1>a DEF MainOp, DeviceOps
  <2> QED BY <1>a, <1>1, <2>1, TableStays
<1>6. ActorsOK'
  <2>1. \A t \in Threads : at'[t].op \notin DeviceOps \cup ClientOps
    BY <1>a, <1>1, <1>2 DEF DeviceOps, ClientOps
  <2> QED BY <2>1 DEF ActorsOK, ActorOK, DeviceOps, ClientOps
<1> QED BY <1>1, <1>2, <1>3, <1>4, <1>5, <1>6 DEF MainOp, Has

LEMMA InitBegins == ASSUME ApiInv, dlnaInit PROVE ApiInv'
<1>1. /\ ~Up /\ MainOp = "idle" /\ Goto(Main, "init_send") /\ InitHandleList
      /\ UNCHANGED <<dlnaSdkInit, pool, timer, finishing, dlnaSdkDeviceRegistered, dlnaSdkClientRegistered, lock,
                     gMServState, server, sockets, connection, call, work, ads, adJobs>>
  BY DEF dlnaInit, Up, MainOp, Idle, serverVars, jobVars
<1>2. UNCHANGED tableVars
  <2>1. \A h \in Handles : HandleTable[h] = NULL
    BY <1>1 DEF ApiInv, EmptyOK, Has, TypesOK
  <2>2. HandleTable' = HandleTable
    BY <1>1, <2>1 DEF InitHandleList, ApiInv, TypesOK
  <2> QED BY <1>1, <2>2 DEF tableVars
<1>3. /\ "init_send" \in LifeOps /\ MainOp \in LifeOps
      /\ \A t \in Threads : t # Main => at[t] = Idle
  BY <1>1, ClosedAlone DEF LifeOps, InitOps, Closed
<1>4. /\ TypesOK' /\ TableOK' /\ ActorsOK'
      /\ MainOp' = "init_send" /\ \A t \in Threads : t # Main => at'[t] = Idle
      /\ \A type : Has(type)' = Has(type)
  <2>1. /\ dlnaSdkInit' \in {0, 1} /\ pool' \in PoolStates /\ call' \in [Calls -> CallStates]
        /\ connection' \in [Requests -> {"none", "queued", "read", "callback", "closed"}]
    BY <1>1 DEF ApiInv, TypesOK, CallStates, PoolStates
  <2> QED BY <1>1, <1>2, <1>3, <2>1, MainStep
<1>5. ~Up' /\ finishing = "nobody" /\ finishing' = "nobody"
  BY <1>1 DEF Up, ApiInv, LifeOK
<1>6. LifeOK' /\ EmptyOK'
  BY <1>1, <1>4, <1>5 DEF ApiInv, LifeOK, EmptyOK, FinOps, AfterDevice, AfterClient, AfterTimer
<1>7. TimerOK' /\ ServerOK'
  BY <1>1, <1>4, <1>5 DEF ApiInv, TimerOK, ServerOK, NotServing, Stopped
<1>8. ConnectionsOK' /\ JobsOK'
  BY <1>1, <1>4, <1>5 DEF ApiInv, ConnectionsOK, JobsOK, NoJobs, Queued, NotServing
<1> QED BY <1>4, <1>6, <1>7, <1>8 DEF ApiInv

\* What dlnaInit and dlnaFinish do not touch, and where they go.
LEMMA LifeStep ==
  ASSUME ApiInv, \A t \in Threads : t # Main => at[t] = Idle, MainOp \in LifeOps,
         NEW next, next \in LifeOps, Goto(Main, next) \/ (next = "idle" /\ Return(Main)), UNCHANGED tableVars,
         dlnaSdkInit' \in {0, 1}, pool' \in PoolStates, UNCHANGED call, UNCHANGED connection
  PROVE  /\ TypesOK' /\ TableOK' /\ ActorsOK'
         /\ MainOp' = next /\ \A t \in Threads : t # Main => at'[t] = Idle
         /\ \A type : Has(type)' = Has(type)
<1>1. /\ call' \in [Calls -> CallStates]
      /\ connection' \in [Requests -> {"none", "queued", "read", "callback", "closed"}]
  BY DEF ApiInv, TypesOK, CallStates
<1> QED BY <1>1, MainStep

LEMMA InitGoesOn ==
  ASSUME ApiInv, InitPools \/ InitTimer \/ StartMiniServer \/ StartMiniServerWaits \/ dlnaEnableWebserver
  PROVE  ApiInv'
<1>a. /\ UNCHANGED <<tableVars, call, connection, gMServState, work, ads, adJobs>> /\ MainOp \in InitOps
      /\ dlnaSdkInit' = dlnaSdkInit \/ (dlnaSdkInit' = 0 /\ Return(Main)) \/ (dlnaSdkInit' = 1 /\ MainOp = "init_mini")
      /\ pool \in PoolStates /\ dlnaSdkInit \in {0, 1}
  BY DEF InitPools, InitPool, InitTimer, StartMiniServer, StartMiniServerWaits, dlnaEnableWebserver, lifeVars,
         serverVars, jobVars, MainOp, InitOps, ApiInv, TypesOK, PoolStates
<1>b. /\ \A t \in Threads : t # Main => at[t] = Idle
      /\ dlnaSdkInit' \in {0, 1} /\ MainOp \in LifeOps
  BY <1>a, ClosedAlone DEF Closed, LifeOps
<1>c. /\ finishing = "nobody" /\ ~Has("DEVICE") /\ ~Has("CLIENT") /\ ads = NoAds
      /\ NoJobs /\ \A w \in Workers : work[w] = Nothing
      /\ Up <=> MainOp \notin {"init_send", "init_recv", "init_mini"}
      /\ pool["send"] # "stopping" /\ pool["mini"] # "stopping" /\ MainOp \notin FinOps
  BY <1>a DEF ApiInv, LifeOK, EmptyOK, TimerOK, JobsOK, ConnectionsOK, InitOps, FinOps, AfterDevice, AfterClient, AfterTimer,
              DeviceOps, ClientOps
<1>d. NoJobs' /\ ads' = NoAds /\ \A w \in Workers : work'[w] = Nothing
  BY <1>a, <1>c DEF NoJobs, Queued
<1>e. ASSUME NEW next, next \in InitOps \cup {"idle", "fin_device"}, Goto(Main, next) \/ (next = "idle" /\ Return(Main)),
             finishing' = (IF next = "fin_device" THEN "dlnaInit" ELSE "nobody"),
             Up' \/ next \in {"idle", "init_recv", "init_mini"},
             next \in {"init_send", "init_recv", "init_mini"} => ~Up',
             pool' \in PoolStates, pool'["send"] # "stopping", pool'["mini"] # "stopping",
             timer' = "down" => ~Up' \/ next = "init_timer",
             ServerOK',
             ~Up' \/ next \in NotServing => \A r \in Requests : connection[r] \in {"none", "closed"}
      PROVE  ApiInv'
  <2>1. next \in LifeOps
    BY <1>e DEF LifeOps, FinOps
  <2>2. /\ TypesOK' /\ TableOK' /\ ActorsOK'
        /\ MainOp' = next /\ \A t \in Threads : t # Main => at'[t] = Idle
        /\ \A type : Has(type)' = Has(type)
    BY <1>a, <1>b, <1>e, <2>1, LifeStep
  <2>3. next \notin AfterDevice /\ next \notin DeviceOps \cup ClientOps /\ (next \in FinOps => next = "fin_device")
    BY <1>e DEF InitOps, FinOps, AfterDevice, AfterClient, AfterTimer, DeviceOps, ClientOps
  <2>4. LifeOK' /\ EmptyOK'
    BY <1>c, <1>e, <2>2, <2>3 DEF LifeOK, EmptyOK, FinOps
  <2>5. TimerOK' /\ JobsOK'
    BY <1>d, <1>e, <2>2, <2>3 DEF TimerOK, JobsOK
  <2>6. ConnectionsOK'
    <3>1. next \notin {"fin_recv", "fin_send", "fin_done", "fin_mini"}
      BY <1>e DEF InitOps
    <3> QED BY <1>a, <1>e, <2>2, <3>1 DEF ConnectionsOK
  <2> QED BY <1>e, <2>2, <2>4, <2>5, <2>6 DEF ApiInv
<1>f. MainOp \in NotServing => server = "none" /\ sockets = {} /\ gMServState = "IDLE" /\ \A r \in Requests : connection[r] \in {"none", "closed"}
  BY DEF ApiInv, ServerOK, ConnectionsOK
<1>1. CASE InitPools
  <2>1. PICK p \in {"send", "recv", "mini"}, next \in {"init_recv", "init_mini", "init_timer"} :
           InitPool(p, MainOp, next) /\ MainOp \in {"init_send", "init_recv", "init_mini"} /\ (p = "mini" <=> next = "init_timer")
    BY <1>1 DEF InitPools, InitPool, MainOp
  <2>2. UNCHANGED <<timer, finishing, server, sockets, gMServState>> /\ MainOp \in NotServing /\ ~Up
    BY <1>c, <2>1 DEF InitPool, serverVars, NotServing
  <2>3. server' = "none" /\ sockets' = {} /\ gMServState' = "IDLE" /\ \A r \in Requests : connection[r] \in {"none", "closed"}
    BY <1>f, <2>2
  <2>4. CASE Return(Main) /\ dlnaSdkInit' = 0 /\ UNCHANGED pool
    <3>1. ~Up' /\ MainOp' = "idle"
      BY <2>4 DEF Up, MainOp, Return, Idle, ApiInv, TypesOK, Threads
    <3>2. ServerOK'
      BY <2>3, <3>1 DEF ServerOK
    <3> QED BY <1>a, <1>c, <1>e, <2>2, <2>3, <2>4, <3>1, <3>2
  <2>5. CASE pool' = [pool EXCEPT ![p] = "up"] /\ Goto(Main, next) /\ dlnaSdkInit' = IF p = "mini" THEN 1 ELSE dlnaSdkInit
    <3>1. MainOp' = next
      BY <2>5 DEF MainOp, Goto, ApiInv, TypesOK, Threads
    <3>2. ServerOK'
      BY <2>1, <2>3, <3>1 DEF ServerOK
    <3>3. Up' <=> next = "init_timer"
      BY <1>a, <2>1, <2>2, <2>5 DEF Up
    <3>4. pool' \in PoolStates /\ pool'["send"] # "stopping" /\ pool'["mini"] # "stopping" /\ next \in InitOps
      BY <1>a, <1>c, <2>5 DEF PoolStates, InitOps
    <3> QED BY <1>c, <1>e, <2>2, <2>3, <2>5, <3>2, <3>3, <3>4
  <2> QED BY <2>1, <2>4, <2>5 DEF InitPool
<1>2. CASE InitTimer
  <2>1. UNCHANGED <<pool, finishing, server, sockets, gMServState>> /\ MainOp = "init_timer" /\ MainOp \in NotServing /\ Up
    BY <1>2, <1>c DEF InitTimer, serverVars, NotServing, MainOp
  <2>2. server' = "none" /\ sockets' = {} /\ gMServState' = "IDLE" /\ \A r \in Requests : connection[r] \in {"none", "closed"}
    BY <1>f, <2>1
  <2>3. CASE Return(Main) /\ dlnaSdkInit' = 0
    <3>1. ~Up' /\ MainOp' = "idle"
      BY <2>3 DEF Up, MainOp, Return, Idle, ApiInv, TypesOK, Threads
    <3>2. ServerOK'
      BY <2>2, <3>1 DEF ServerOK
    <3> QED BY <1>a, <1>c, <1>e, <2>1, <2>2, <2>3, <3>1, <3>2
  <2>4. CASE timer' = "up" /\ Goto(Main, "init_server") /\ UNCHANGED dlnaSdkInit
    <3>1. Up' /\ MainOp' = "init_server"
      BY <2>1, <2>4 DEF MainOp, Goto, ApiInv, TypesOK, Threads, Up
    <3>2. ServerOK'
      BY <2>2, <3>1 DEF ServerOK
    <3> QED BY <1>a, <1>c, <1>e, <2>1, <2>2, <2>4, <3>1, <3>2 DEF InitOps
  <2> QED BY <1>2, <2>3, <2>4 DEF InitTimer
<1>g. MainOp \in {"init_server", "init_wait", "init_web"} => timer # "down"
  BY <1>c DEF ApiInv, TimerOK, AfterTimer
<1>3. CASE StartMiniServer
  <2>1. UNCHANGED <<pool, timer, dlnaSdkInit, gMServState>> /\ MainOp = "init_server" /\ MainOp \in NotServing /\ Up
    BY <1>3, <1>c DEF StartMiniServer, NotServing, MainOp
  <2>2. timer' # "down" /\ Up'
    BY <1>g, <2>1 DEF Up
  <2>3. CASE server' = "queued" /\ Goto(Main, "init_wait") /\ gMServState = "IDLE" /\ UNCHANGED finishing
    <3>1. MainOp' = "init_wait"
      BY <2>3 DEF MainOp, Goto, ApiInv, TypesOK, Threads
    <3>2. ServerOK'
      BY <2>1, <2>2, <2>3, <3>1 DEF ServerOK, NotServing, Stopped
    <3> QED BY <1>a, <1>c, <1>e, <1>f, <2>1, <2>2, <2>3, <3>2 DEF InitOps
  <2>4. CASE Give("dlnaInit") /\ UNCHANGED <<server, sockets>>
    <3>1. MainOp' = "fin_device" /\ finishing' = "dlnaInit" /\ Goto(Main, "fin_device")
      BY <2>4 DEF MainOp, Goto, Give, ApiInv, TypesOK, Threads
    <3>2. ServerOK'
      BY <1>f, <2>1, <2>2, <2>4, <3>1 DEF ServerOK, NotServing, Stopped
    <3> QED BY <1>a, <1>c, <1>e, <1>f, <2>1, <2>2, <3>1, <3>2
  <2> QED BY <1>3, <2>3, <2>4 DEF StartMiniServer
<1>4. CASE StartMiniServerWaits
  <2>1. /\ UNCHANGED <<pool, timer, dlnaSdkInit, gMServState, server, sockets, finishing>> /\ MainOp = "init_wait"
        /\ Up /\ gMServState = "RUNNING" /\ Goto(Main, "init_web")
    BY <1>4, <1>c DEF StartMiniServerWaits, lifeVars, serverVars, MainOp
  <2>2. timer' # "down" /\ Up' /\ MainOp' = "init_web"
    BY <1>g, <2>1 DEF Up, MainOp, Goto, ApiInv, TypesOK, Threads
  <2>3. ServerOK'
    BY <2>1, <2>2 DEF ApiInv, ServerOK, NotServing, Stopped
  <2> QED BY <1>a, <1>c, <1>e, <2>1, <2>2, <2>3 DEF InitOps, NotServing
<1>5. CASE dlnaEnableWebserver
  <2>1. /\ UNCHANGED <<pool, timer, dlnaSdkInit, gMServState, server, sockets>> /\ MainOp = "init_web" /\ Up
    BY <1>5, <1>c DEF dlnaEnableWebserver, serverVars, MainOp
  <2>2. timer' # "down" /\ Up'
    BY <1>g, <2>1 DEF Up
  <2>3. CASE Return(Main) /\ UNCHANGED finishing
    <3>1. MainOp' = "idle"
      BY <2>3 DEF MainOp, Return, Idle, ApiInv, TypesOK, Threads
    <3>2. ServerOK'
      BY <2>1, <2>2, <3>1 DEF ApiInv, ServerOK, NotServing, Stopped
    <3> QED BY <1>a, <1>c, <1>e, <2>1, <2>2, <2>3, <3>2 DEF NotServing
  <2>4. CASE Give("dlnaInit")
    <3>1. MainOp' = "fin_device" /\ finishing' = "dlnaInit" /\ Goto(Main, "fin_device")
      BY <2>4 DEF MainOp, Goto, Give, ApiInv, TypesOK, Threads
    <3>2. ServerOK'
      BY <2>1, <2>2, <3>1 DEF ApiInv, ServerOK, NotServing, Stopped
    <3> QED BY <1>a, <1>c, <1>e, <2>1, <2>2, <3>1, <3>2 DEF NotServing
  <2> QED BY <1>5, <2>3, <2>4 DEF dlnaEnableWebserver
<1> QED BY <1>1, <1>2, <1>3, <1>4, <1>5

LEMMA FinishBegins == ASSUME InOrder, ApiInv, dlnaFinish PROVE ApiInv'
<1>1. /\ Up /\ MainOp = "idle" /\ Goto(Main, "fin_device") /\ finishing' = "application"
      /\ \A t \in Threads : t # Main => at[t] = Idle
      /\ UNCHANGED <<dlnaSdkInit, pool, timer, tableVars, gMServState, server, sockets, connection, call, work, ads, adJobs>>
  BY DEF dlnaFinish, Up, MainOp, Idle, Threads, serverVars, jobVars
<1>2. "fin_device" \in LifeOps /\ MainOp \in LifeOps
  BY <1>1 DEF LifeOps, FinOps
<1>3. /\ TypesOK' /\ TableOK' /\ ActorsOK'
      /\ MainOp' = "fin_device" /\ \A t \in Threads : t # Main => at'[t] = Idle
  <2>1. dlnaSdkInit' \in {0, 1} /\ pool' \in PoolStates
    BY <1>1 DEF ApiInv, TypesOK, PoolStates
  <2> QED BY <1>1, <1>2, <2>1, LifeStep
<1>4. Up' /\ timer # "down" /\ pool["send"] # "stopping" /\ pool["mini"] # "stopping" /\ server \notin {"queued", "told"}
  BY <1>1 DEF Up, ApiInv, TimerOK, JobsOK, ConnectionsOK, ServerOK, AfterTimer
<1>5. LifeOK' /\ EmptyOK'
  BY <1>1, <1>3, <1>4 DEF LifeOK, EmptyOK, FinOps, InitOps, AfterDevice, AfterClient, AfterTimer, ClientOps
<1>6. TimerOK' /\ ServerOK'
  BY <1>1, <1>3, <1>4 DEF ApiInv, TimerOK, ServerOK, InitOps, AfterTimer, NotServing, Stopped
<1>7. ConnectionsOK' /\ JobsOK'
  BY <1>1, <1>3, <1>4 DEF ConnectionsOK, JobsOK, InitOps, NotServing
<1> QED BY <1>3, <1>5, <1>6, <1>7 DEF ApiInv

\* In dlnaFinish, from the timer on, the table is empty and nobody else is inside.
LEMMA FinishStep ==
  ASSUME ApiInv, MainOp \in AfterClient, UNCHANGED <<tableVars, finishing, dlnaSdkInit>>,
         NEW next \in AfterTimer, Goto(Main, next), pool' \in PoolStates, UNCHANGED <<call, connection>>
  PROVE  TypesOK' /\ LifeOK' /\ TableOK' /\ ActorsOK' /\ EmptyOK' /\ MainOp' = next /\ Up'
<1>1. /\ finishing # "nobody" /\ Up /\ ~Has("DEVICE") /\ ~Has("CLIENT")
      /\ MainOp \in LifeOps /\ next \in LifeOps /\ next \in FinOps
  BY DEF ApiInv, LifeOK, EmptyOK, LifeOps, FinOps, AfterDevice, AfterClient, AfterTimer
<1>2. \A t \in Threads : t # Main => at[t] = Idle
  BY <1>1, ClosedAlone DEF Closed
<1>3. dlnaSdkInit' \in {0, 1} /\ Up'
  BY <1>1 DEF Up
<1>4. /\ TypesOK' /\ TableOK' /\ ActorsOK'
      /\ MainOp' = next /\ \A t \in Threads : t # Main => at'[t] = Idle
      /\ \A type : Has(type)' = Has(type)
  BY <1>1, <1>2, <1>3, LifeStep
<1>5. next \notin {"init_send", "init_recv", "init_mini"}
  BY DEF AfterTimer
<1>6. LifeOK'
  BY <1>1, <1>3, <1>4, <1>5 DEF LifeOK
<1>7. EmptyOK'
  BY <1>1, <1>4 DEF EmptyOK
<1> QED BY <1>3, <1>4, <1>6, <1>7

LEMMA FinishGoesOn ==
  ASSUME ApiInv, FinishTimer \/ StopMiniServer \/ StopMiniServerWaits \/ FinishWeb
  PROVE  ApiInv'
<1>a. /\ MainOp \in {"fin_timer", "fin_server", "fin_stop", "fin_web"}
      /\ UNCHANGED <<tableVars, finishing, dlnaSdkInit, pool, call, connection, sockets, work, adJobs>>
      /\ MainOp \in AfterClient /\ pool \in PoolStates /\ TimerOK /\ ServerOK /\ ConnectionsOK /\ JobsOK
  BY DEF FinishTimer, StopMiniServer, StopMiniServerWaits, FinishWeb, MainOp, AfterClient, AfterTimer, ApiInv,
         TypesOK, PoolStates, lifeVars, serverVars, jobVars
<1>b. pool["send"] # "stopping" /\ pool["mini"] # "stopping"
  BY <1>a DEF JobsOK, ConnectionsOK
<1>c. ASSUME NEW next \in {"fin_server", "fin_stop", "fin_web", "fin_mini"}, Goto(Main, next), ads' = NoAds,
             MainOp' = next /\ Up' => ServerOK'
      PROVE  ApiInv'
  <2>1. next \in AfterTimer
    BY <1>c DEF AfterTimer
  <2>2. TypesOK' /\ LifeOK' /\ TableOK' /\ ActorsOK' /\ EmptyOK' /\ MainOp' = next /\ Up'
    BY <1>a, <1>c, <2>1, FinishStep
  <2>3. TimerOK'
    BY <1>c, <2>1, <2>2 DEF TimerOK
  <2>4. ConnectionsOK' /\ JobsOK'
    BY <1>a, <1>b, <1>c, <2>2 DEF ConnectionsOK, JobsOK, NotServing, InitOps
  <2> QED BY <1>c, <2>2, <2>3, <2>4 DEF ApiInv
<1>1. CASE FinishTimer
  <2>1. /\ MainOp = "fin_timer" /\ Goto(Main, "fin_server") /\ ads' = NoAds
        /\ UNCHANGED <<gMServState, server, sockets>>
    BY <1>1 DEF FinishTimer, MainOp, serverVars
  <2>2. ASSUME MainOp' = "fin_server", Up' PROVE ServerOK'
    BY <1>a, <2>1, <2>2 DEF ServerOK, NotServing, Stopped
  <2> QED BY <1>c, <2>1, <2>2
<1>d. MainOp # "fin_timer" => ads = NoAds
  BY <1>a DEF TimerOK, AfterTimer
<1>2. CASE StopMiniServer
  <2>1. MainOp = "fin_server" /\ UNCHANGED <<sockets, ads>>
    BY <1>2 DEF StopMiniServer, MainOp, jobVars
  <2>2. CASE gMServState' = "STOPPING" /\ server' = "told" /\ Goto(Main, "fin_stop")
    <3>2. ASSUME MainOp' = "fin_stop", Up' PROVE ServerOK'
      BY <2>2, <3>2 DEF ServerOK, NotServing, Stopped
    <3> QED BY <1>c, <1>d, <2>1, <2>2, <3>2
  <2>4. CASE gMServState = "RUNNING" /\ gMServState' = "STOPPING" /\ Goto(Main, "fin_web") /\ UNCHANGED server
    <3>1. server = "loop"
      BY <1>a, <2>1, <2>4 DEF ServerOK
    <3>2. ASSUME MainOp' = "fin_web", Up' PROVE ServerOK'
      BY <2>4, <3>1, <3>2 DEF ServerOK, NotServing, Stopped, Unheard
    <3> QED BY <1>c, <1>d, <2>1, <2>4, <3>2
  <2>3. CASE gMServState # "RUNNING" /\ Goto(Main, "fin_web") /\ UNCHANGED <<gMServState, server>>
    <3>2. server = "none"
      BY <1>a, <2>1, <2>3 DEF ServerOK
    <3>3. ASSUME MainOp' = "fin_web", Up' PROVE ServerOK'
      BY <1>a, <2>1, <2>3, <3>2, <3>3 DEF ServerOK
    <3> QED BY <1>c, <1>d, <2>1, <2>3, <3>3
  <2> QED BY <1>2, <2>2, <2>3, <2>4 DEF StopMiniServer
<1>3. CASE StopMiniServerWaits
  <2>1. /\ MainOp = "fin_stop" /\ gMServState = "IDLE" /\ Goto(Main, "fin_web")
        /\ UNCHANGED <<gMServState, server, sockets, ads>>
    BY <1>3 DEF StopMiniServerWaits, MainOp, serverVars, jobVars
  <2>2. server = "none"
    BY <1>a, <2>1 DEF ServerOK
  <2>3. ASSUME MainOp' = "fin_web", Up' PROVE ServerOK'
    BY <1>a, <2>1, <2>2, <2>3 DEF ServerOK
  <2> QED BY <1>c, <1>d, <2>1, <2>3
<1>4. CASE FinishWeb
  <2>1. /\ MainOp = "fin_web" /\ Goto(Main, "fin_mini") /\ UNCHANGED <<gMServState, server, sockets, ads>>
    BY <1>4 DEF FinishWeb, MainOp, serverVars, jobVars
  <2>2. server = "none" \/ Unheard
    BY <1>a, <2>1 DEF ServerOK
  <2>3. ASSUME MainOp' = "fin_mini", Up' PROVE ServerOK'
    BY <1>a, <2>1, <2>2, <2>3 DEF ServerOK, Unheard, NotServing, Stopped
  <2> QED BY <1>c, <1>d, <2>1, <2>3
<1> QED BY <1>1, <1>2, <1>3, <1>4

\* A pool begins to shut down: what waits in it is discarded.
LEMMA PoolStops ==
  ASSUME ApiInv, NEW p \in {"send", "recv", "mini"}, NEW this \in {"fin_mini", "fin_recv", "fin_send"},
         p = "mini" <=> this = "fin_mini", p = "send" <=> this = "fin_send", FinishPool(p, this)
  PROVE  ApiInv'
<1>1. /\ UNCHANGED <<dlnaSdkInit, finishing, tableVars, at, timer, ads, gMServState, server, sockets, work,
                     dlnaSdkDeviceRegistered, dlnaSdkClientRegistered, HandleTable, lock>>
      /\ MainOp = this /\ pool' = [pool EXCEPT ![p] = "stopping"] /\ Discarded(p)
      /\ adJobs' = IF p = "send" THEN NoAds ELSE adJobs
  BY DEF FinishPool, MainOp, tableVars
<1>2. LifeOK' /\ TableOK' /\ ActorsOK' /\ EmptyOK'
  BY <1>1, Undisturbed
<1>3. MainOp' = MainOp /\ Up' = Up /\ Up /\ MainOp \notin InitOps
  BY <1>1 DEF ApiInv, LifeOK, MainOp, Up, InitOps
<1>4. /\ call \in [Calls -> CallStates] /\ pool \in PoolStates
      /\ connection \in [Requests -> {"none", "queued", "read", "callback", "closed"}]
      /\ ServerOK /\ TimerOK /\ ConnectionsOK /\ JobsOK
  BY DEF ApiInv, TypesOK, CallStates, PoolStates
<1>5. /\ call' \in [Calls -> CallStates] /\ pool' \in PoolStates
      /\ connection' \in [Requests -> {"none", "queued", "read", "callback", "closed"}]
  <2>1. pool' \in PoolStates
    BY <1>1, <1>4 DEF PoolStates
  <2>2. call' \in [Calls -> CallStates]
    BY <1>1, <1>4 DEF Discarded, CallStates
  <2>3. connection' \in [Requests -> {"none", "queued", "read", "callback", "closed"}]
    BY <1>1, <1>4 DEF Discarded
  <2> QED BY <2>1, <2>2, <2>3
<1>6. TypesOK'
  BY <1>1, <1>5 DEF ApiInv, TypesOK, CallStates, PoolStates
<1>7. TimerOK' /\ ServerOK'
  BY <1>1, <1>3, <1>4 DEF TimerOK, ServerOK, Unheard
<1>8. ConnectionsOK'
  <2>1. \A r \in Requests : connection'[r] \in {connection[r], "closed"}
    BY <1>1 DEF Discarded
  <2>6. p = "mini" => \A r \in Requests : connection'[r] # "queued"
    BY <1>1 DEF Discarded
  <2>2. ASSUME MainOp \in {"fin_recv", "fin_send", "fin_done"} PROVE \A r \in Requests : connection'[r] \in {"none", "closed"}
    <3>1. \A r \in Requests : connection[r] \in {"none", "closed"}
      BY <1>4, <2>2 DEF ConnectionsOK
    <3> QED BY <2>1, <3>1
  <2>3. p # "mini" => pool'["mini"] # "stopping"
    BY <1>1, <1>4 DEF ConnectionsOK, PoolStates
  <2>4. Up' /\ MainOp' = MainOp /\ MainOp \notin NotServing
    BY <1>1, <1>3 DEF NotServing
  <2>5. ASSUME pool'["mini"] = "stopping" PROVE MainOp' = "fin_mini" /\ \A r \in Requests : connection'[r] # "queued"
    <3>1. p = "mini"
      BY <2>3, <2>5
    <3> QED BY <1>1, <2>4, <2>6, <3>1
  <2> QED BY <2>2, <2>4, <2>5 DEF ConnectionsOK
<1>9. JobsOK'
  <2>1. p # "send" => pool'["send"] # "stopping"
    BY <1>1, <1>4 DEF JobsOK, PoolStates
  <2>2. p = "send" => NoJobs'
    <3>1. p = "send" => \A c \in Calls : call'[c] \notin {"gena_queued", "soap_queued"}
      BY <1>1 DEF Discarded, Queued
    <3> QED BY <1>1, <3>1 DEF NoJobs, Queued
  <2> QED BY <1>1, <1>3, <2>1, <2>2 DEF JobsOK
<1> QED BY <1>2, <1>6, <1>7, <1>8, <1>9 DEF ApiInv

\* A pool has shut down.
LEMMA PoolDone ==
  ASSUME ApiInv, NEW p \in {"send", "recv", "mini"}, NEW this \in {"fin_mini", "fin_recv", "fin_send"},
         NEW next \in {"fin_recv", "fin_send", "fin_done"},
         p = "mini" <=> this = "fin_mini", p = "send" <=> this = "fin_send", next = "fin_done" <=> this = "fin_send",
         FinishPoolDone(p, this, next)
  PROVE  ApiInv'
<1>1. /\ UNCHANGED <<dlnaSdkInit, finishing, tableVars, timer, ads, adJobs, gMServState, server, sockets, work, call, connection>>
      /\ MainOp = this /\ pool[p] = "stopping" /\ pool' = [pool EXCEPT ![p] = "down"] /\ ~Busy(p) /\ Goto(Main, next)
      /\ MainOp \in AfterClient /\ MainOp \in AfterTimer /\ next \in AfterTimer
  BY DEF FinishPoolDone, MainOp, serverVars, jobVars, AfterClient, AfterTimer
<1>2. pool \in PoolStates /\ ServerOK /\ TimerOK /\ ConnectionsOK /\ JobsOK
  BY DEF ApiInv, TypesOK, PoolStates
<1>3. pool' \in PoolStates /\ pool'[p] = "down" /\ \A q \in {"send", "recv", "mini"} : q # p => pool'[q] = pool[q]
  BY <1>1, <1>2 DEF PoolStates
<1>4. TypesOK' /\ LifeOK' /\ TableOK' /\ ActorsOK' /\ EmptyOK' /\ MainOp' = next /\ Up'
  BY <1>1, <1>3, FinishStep
<1>5. TimerOK'
  BY <1>1, <1>2, <1>4 DEF TimerOK
<1>6. ServerOK'
  <2>1. server = "none"
    BY <1>1, <1>2 DEF ServerOK, Stopped, Busy
  <2> QED BY <1>1, <1>2, <1>4, <2>1 DEF ServerOK
<1>7. ConnectionsOK'
  <2>1. \A r \in Requests : connection[r] \in {"none", "closed"}
    <3>1. CASE p = "mini"
      <4>1. \A r \in Requests : connection[r] \notin {"read", "callback"}
        BY <1>1, <3>1 DEF Busy
      <4>2. \A r \in Requests : connection[r] # "queued"
        BY <1>1, <1>2, <3>1 DEF ConnectionsOK, Busy
      <4>3. connection \in [Requests -> {"none", "queued", "read", "callback", "closed"}]
        BY DEF ApiInv, TypesOK
      <4> QED BY <4>1, <4>2, <4>3
    <3>2. CASE p # "mini"
      BY <1>1, <1>2, <3>2 DEF ConnectionsOK
    <3> QED BY <3>1, <3>2
  <2>2. pool'["mini"] # "stopping"
    BY <1>1, <1>2, <1>3 DEF ConnectionsOK
  <2> QED BY <1>1, <2>1, <2>2 DEF ConnectionsOK
<1>8. JobsOK'
  <2>1. pool'["send"] # "stopping"
    BY <1>1, <1>2, <1>3 DEF JobsOK
  <2>2. p = "send" => NoJobs' /\ \A w \in Workers : work'[w] = Nothing
    BY <1>1, <1>2 DEF JobsOK, NoJobs, Queued, Busy
  <2> QED BY <1>4, <2>1, <2>2 DEF JobsOK, InitOps
<1> QED BY <1>4, <1>5, <1>6, <1>7, <1>8 DEF ApiInv

LEMMA PoolsStep == ASSUME ApiInv, FinishPools PROVE ApiInv'
<1>1. CASE FinishPool("mini", "fin_mini") \/ FinishPoolDone("mini", "fin_mini", "fin_recv")
  BY <1>1, PoolStops, PoolDone
<1>2. CASE FinishPool("recv", "fin_recv") \/ FinishPoolDone("recv", "fin_recv", "fin_send")
  BY <1>2, PoolStops, PoolDone
<1>3. CASE FinishPool("send", "fin_send") \/ FinishPoolDone("send", "fin_send", "fin_done")
  BY <1>3, PoolStops, PoolDone
<1> QED BY <1>1, <1>2, <1>3 DEF FinishPools

LEMMA FinishEnds == ASSUME ApiInv, FinishDone PROVE ApiInv'
<1>1. /\ MainOp = "fin_done" /\ dlnaSdkInit' = 0 /\ finishing' = "nobody" /\ Return(Main) /\ UNCHANGED tableVars
      /\ UNCHANGED <<pool, timer, gMServState, server, sockets, connection, call, work, ads, adJobs>>
  BY DEF FinishDone, MainOp, serverVars, jobVars
<1>2. /\ ~Has("DEVICE") /\ ~Has("CLIENT") /\ "idle" \in LifeOps /\ MainOp \in LifeOps
      /\ \A t \in Threads : t # Main => at[t] = Idle
  <2>1. MainOp \in FinOps /\ MainOp \in AfterClient /\ MainOp \in AfterDevice
    BY <1>1 DEF FinOps, AfterDevice, AfterClient, AfterTimer
  <2>2. finishing # "nobody" /\ Closed
    BY <2>1 DEF ApiInv, LifeOK, Closed
  <2> QED BY <2>1, <2>2, ClosedAlone DEF ApiInv, EmptyOK, LifeOps
<1>3. /\ TypesOK' /\ TableOK' /\ ActorsOK'
      /\ MainOp' = "idle" /\ \A t \in Threads : t # Main => at'[t] = Idle
      /\ \A type : Has(type)' = Has(type)
  <2>1. pool' \in PoolStates
    BY <1>1 DEF ApiInv, TypesOK, PoolStates
  <2> QED BY <1>1, <1>2, <2>1, LifeStep
<1>4. ~Up'
  BY <1>1 DEF Up
<1>5. LifeOK' /\ EmptyOK'
  BY <1>1, <1>2, <1>3, <1>4 DEF LifeOK, EmptyOK, FinOps, AfterDevice, AfterClient, AfterTimer
<1>6. TimerOK' /\ ServerOK'
  <2>1. server = "none" /\ ads = NoAds
    BY <1>1 DEF ApiInv, ServerOK, TimerOK, Stopped, AfterTimer
  <2> QED BY <1>1, <1>3, <1>4, <2>1 DEF ApiInv, TimerOK, ServerOK
<1>7. ConnectionsOK' /\ JobsOK'
  BY <1>1, <1>3, <1>4 DEF ApiInv, ConnectionsOK, JobsOK, NoJobs, Queued
<1> QED BY <1>3, <1>5, <1>6, <1>7 DEF ApiInv

-----------------------------------------------------------------------------
(* The steps together, and the theorems. *)

LEMMA LifecycleStep == ASSUME InOrder, ApiInv, Lifecycle PROVE ApiInv'
<1> QED BY InitBegins, InitGoesOn, FinishBegins, FinishLooks, FinishGoesOn, PoolsStep, FinishEnds DEF Lifecycle

LEMMA RegistrationStep == ASSUME InOrder, OneRegistrar, ApiInv, NEW t \in Threads, Registration(t) PROVE ApiInv'
<1>1. ASSUME NEW h \in Handles, dlnaUnRegisterRootDevice(t, h) PROVE ApiInv'
  <2>1. MayCall(t) /\ t \in DeviceThreads /\ OnlyAt /\ at' = [at EXCEPT ![t] = [op |-> "unreg_gena", h |-> h]]
    BY <1>1 DEF dlnaUnRegisterRootDevice, OnlyAt
  <2> QED BY <2>1, BeginUnregister
<1>2. ASSUME NEW h \in Handles, dlnaUnRegisterClient(t, h) PROVE ApiInv'
  <2>1. MayCall(t) /\ t \in ClientThreads /\ OnlyAt /\ at' = [at EXCEPT ![t] = [op |-> "unclient_gena", h |-> h]]
    BY <1>2 DEF dlnaUnRegisterClient, OnlyAt
  <2> QED BY <2>1, BeginUnregister
<1>3. CASE dlnaRegisterRootDevice(t) \/ dlnaRegisterRootDevice2(t)
  BY <1>3, BeginRegister DEF dlnaRegisterRootDevice2
<1> QED BY <1>1, <1>2, <1>3, RegisterEnds, ClientRegisters, UnregisterLooks, UnregisterFrees DEF Registration

LEMMA CallingStep == ASSUME InOrder, ApiInv, NEW t \in Threads, Calling(t) PROVE ApiInv'
<1>1. ASSUME NEW type \in {"DEVICE", "CLIENT"}, NEW op \in {"gena", "request", "advertise"}, Checked(t, type, op) PROVE ApiInv'
  BY <1>1, CheckedCall
<1>2. CASE \/ dlnaSubscribe(t) \/ dlnaUnSubscribe(t) \/ dlnaNotify(t) \/ dlnaNotifyExt(t)
           \/ dlnaAcceptSubscription(t) \/ dlnaAcceptSubscriptionExt(t) \/ dlnaSendAction(t)
           \/ dlnaSendActionEx(t) \/ dlnaGetServiceVarStatus(t) \/ dlnaSearchAsync(t) \/ dlnaSendAdvertisement(t)
  BY <1>1, <1>2 DEF dlnaSubscribe, dlnaUnSubscribe, dlnaNotify, dlnaNotifyExt, dlnaAcceptSubscription,
     dlnaAcceptSubscriptionExt, dlnaSendAction, dlnaSendActionEx, dlnaGetServiceVarStatus, dlnaSearchAsync, dlnaSendAdvertisement
<1>3. ASSUME NEW c \in Calls,
             \/ dlnaSubscribeAsync(t, c) \/ dlnaUnSubscribeAsync(t, c)
             \/ dlnaRenewSubscriptionAsync(t, c) \/ dlnaSendActionAsync(t, c)
             \/ dlnaSendActionExAsync(t, c) \/ dlnaGetServiceVarStatusAsync(t, c)
      PROVE  ApiInv'
  <2>1. Async(t, c, "gena_queued") \/ Async(t, c, "soap_queued")
    BY <1>3 DEF dlnaSubscribeAsync, dlnaUnSubscribeAsync, dlnaRenewSubscriptionAsync, dlnaSendActionAsync,
       dlnaSendActionExAsync, dlnaGetServiceVarStatusAsync
  <2> QED BY <2>1, AsyncStep
<1> QED BY <1>2, <1>3, CallEnds, AdvertisedStep DEF Calling

LEMMA StutterApi == ASSUME ApiInv, UNCHANGED vars PROVE ApiInv'
<1>1. UNCHANGED <<lifeVars, tableVars, serverVars, jobVars, at>>
  BY DEF vars
<1>2. call' \in [Calls -> CallStates]
  BY <1>1 DEF ApiInv, TypesOK, CallStates, jobVars
<1>3. UNCHANGED <<dlnaSdkInit, timer, pool, at, ads, adJobs, work, call>>
  BY <1>1 DEF lifeVars, jobVars
<1>4. TimerOK' /\ JobsOK'
  BY <1>3 DEF ApiInv, TimerOK, JobsOK, NoJobs, Queued, MainOp, Up
<1> QED BY <1>1, <1>2, <1>4, JobsOnly

LEMMA StepApi == ASSUME InOrder, OneRegistrar, ApiInv, [Next]_vars PROVE ApiInv'
<1> QED BY LifecycleStep, RegistrationStep, CallingStep, JobsStep, TimerStep, ServingStep, StutterApi DEF Next

LEMMA ApiInvariant == InOrder /\ OneRegistrar => (Spec => []ApiInv)
<1> SUFFICES ASSUME InOrder, OneRegistrar PROVE Spec => []ApiInv
  OBVIOUS
<1>1. Init => ApiInv
  BY InitApi
<1>2. ApiInv /\ [Next]_vars => ApiInv'
  BY StepApi
<1> QED BY <1>1, <1>2, PTL DEF Spec

\* A type is in the table as often as its flag says, if it is there once at most.
LEMMA CountedByFlag ==
  ASSUME TableOK, NEW type \in {"DEVICE", "CLIENT"}, NEW flag \in {0, 1}, Has(type) <=> flag = 1
  PROVE  Cardinality({h \in Handles : HandleTable[h] = type}) = flag
<1>1. type # NULL
  BY ApiAssumption
<1>2. CASE Has(type)
  <2>1. PICK k \in Handles : HandleTable[k] = type
    BY <1>2 DEF Has
  <2>2. {h \in Handles : HandleTable[h] = type} = {k}
    BY <1>1, <2>1 DEF TableOK
  <2> QED BY <1>2, <2>2, FS_Singleton
<1>3. CASE ~Has(type)
  <2>1. {h \in Handles : HandleTable[h] = type} = {}
    BY <1>3 DEF Has
  <2> QED BY <1>3, <2>1, FS_EmptySet
<1> QED BY <1>2, <1>3

(***************************************************************************)
(* The two flags say what the handle table holds, whatever the threads     *)
(* call and however their calls interleave (upnpapi.c:126).  It takes an   *)
(* application that makes no call before dlnaInit has returned and after   *)
(* dlnaFinish has begun, since the calls are kept out by dlnaSdkInit alone *)
(* and dlnaInit sets it before it is done (upnpapi.c:275); and one thread  *)
(* that registers and unregisters devices and one that does so for         *)
(* clients, since dlnaUnRegisterRootDevice lets go of the lock between the *)
(* lookup of its handle and its end (upnpapi.c:840), and frees by then     *)
(* whatever another thread has registered under the same handle.           *)
(***************************************************************************)
THEOREM TableHoldsWhatIsRegistered == InOrder /\ OneRegistrar => (Spec => []RegistrationMatchesTable)
<1> SUFFICES ASSUME InOrder, OneRegistrar PROVE Spec => []RegistrationMatchesTable
  OBVIOUS
<1>1. ApiInv => RegistrationMatchesTable
  <2> SUFFICES ASSUME ApiInv, LockFree
               PROVE  /\ Cardinality({h \in Handles : HandleTable[h] = "DEVICE"}) = dlnaSdkDeviceRegistered
                      /\ Cardinality({h \in Handles : HandleTable[h] = "CLIENT"}) = dlnaSdkClientRegistered
    BY DEF RegistrationMatchesTable
  <2>1. TableOK /\ dlnaSdkDeviceRegistered \in {0, 1} /\ dlnaSdkClientRegistered \in {0, 1}
    BY DEF ApiInv, TypesOK
  <2>2. (Has("DEVICE") <=> dlnaSdkDeviceRegistered = 1) /\ (Has("CLIENT") <=> dlnaSdkClientRegistered = 1)
    BY <2>1 DEF TableOK
  <2> QED BY <2>1, <2>2, CountedByFlag
<1> QED BY <1>1, ApiInvariant, PTL

(***************************************************************************)
(* Nothing is put into the timer once dlnaFinish has shut it down          *)
(* (upnpapi.c:432): an advertisement that is being sent then looks its     *)
(* device up again, and dlnaFinish has unregistered it before.             *)
(***************************************************************************)
THEOREM NoEventForDeadTimer == InOrder /\ OneRegistrar => (Spec => []TimerStaysEmpty)
<1> SUFFICES ASSUME InOrder, OneRegistrar PROVE Spec => []TimerStaysEmpty
  OBVIOUS
<1>1. ApiInv => TimerStaysEmpty
  <2> SUFFICES ASSUME ApiInv, timer = "down" PROVE ads = NoAds
    BY DEF TimerStaysEmpty
  <2>1. TimerOK
    BY DEF ApiInv
  <2> QED BY <2>1 DEF TimerOK, InitOps
<1> QED BY <1>1, ApiInvariant, PTL

(***************************************************************************)
(* Once dlnaFinish has returned, or a dlnaInit that failed, no job is at   *)
(* work, the server has stopped, and no socket of the library and no       *)
(* connection is open (upnpapi.c:433-441).                                 *)
(***************************************************************************)
THEOREM NothingRunsWhenDown == InOrder /\ OneRegistrar => (Spec => []QuietWhenDown)
<1> SUFFICES ASSUME InOrder, OneRegistrar PROVE Spec => []QuietWhenDown
  OBVIOUS
<1>1. ApiInv => QuietWhenDown
  <2> SUFFICES ASSUME ApiInv, dlnaSdkInit = 0
               PROVE  /\ \A w \in Workers : work[w] = Nothing
                      /\ server = "none" /\ sockets = {}
                      /\ \A r \in Requests : connection[r] \in {"none", "closed"}
    BY DEF QuietWhenDown
  <2>1. ~Up /\ ServerOK /\ ConnectionsOK /\ JobsOK
    BY DEF ApiInv, Up
  <2> QED BY <2>1 DEF ServerOK, ConnectionsOK, JobsOK
<1> QED BY <1>1, ApiInvariant, PTL
=============================================================================
