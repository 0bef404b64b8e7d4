-------------------------------- MODULE Ssdp --------------------------------
(***************************************************************************)
(* upnp/ssdp_server.c, ssdp_device.c and ssdp_ctrlpt.c: a host that is     *)
(* root device and control point at once.  Datagrams to the multicast      *)
(* group come back to it; other hosts may send theirs.                     *)
(*                                                                         *)
(* A name is the sequence of its parts between colons, a USN the name of a *)
(* device, an empty part, and what it is the USN of.  The read lock is     *)
(* held while AdvertiseAndReply sends one datagram after the other, so     *)
(* that several senders interleave, and whoever needs the write lock waits.*)
(* The timer and the pools promise what TimerThread and JobPool say.       *)
(***************************************************************************)
EXTENDS Integers, FiniteSets, SequencesExt

CONSTANTS
  Desc,             \* the root device and those in it: [type, udn, services]
  Targets,          \* what the application searches for
  Foreign,          \* datagrams of other hosts
  Mxs,              \* the waiting times it asks for
  MIN_SEARCH_TIME, MAX_SEARCH_TIME,
  Apps,             \* application threads that announce and unregister
  Workers,          \* threads of gSendThreadPool
  MaxSearches,      \* bound on searches
  MaxCalls,         \* bound on registrations, announcements and what others send
  MaxFlight,        \* bound on the announcements on their way: a pause follows each
  MaxTime,          \* bound on the clock
  Lossy,            \* datagrams may be lost, and gRecvThreadPool may refuse a job
  Full,             \* gSendThreadPool may refuse a job of the timer
  Prompt,           \* time passes only when there is nothing to do
  NULL

ASSUME SsdpAssumption ==
  /\ Len(Desc) > 0
  /\ MIN_SEARCH_TIME \in Nat /\ MAX_SEARCH_TIME \in Nat
  /\ 0 < MIN_SEARCH_TIME /\ MIN_SEARCH_TIME <= MAX_SEARCH_TIME /\ Mxs \subseteq Int
  /\ Lossy \in BOOLEAN /\ Full \in BOOLEAN /\ Prompt \in BOOLEAN

VARIABLES
  registered,   \* whether the device has its handle
  client,       \* whether the control point has its handle
  sending,      \* per thread what it has still to send, and for whom
  byebye,       \* per application thread whether it unregisters the device
  network,      \* datagrams on their way to a thread of gRecvThreadPool
  results,      \* its jobs that report results
  timers,       \* events of gTimerThread with the time they are due
  expired,      \* jobs the timer gave to gSendThreadPool
  SsdpSearchList,
  now,
  started,      \* searches begun so far, which are also their timeoutEventId
  calls,        \* those of MaxCalls so far
  owed,         \* searches the device is to answer
  found,        \* searches with a result
  timedOut      \* searches reported as timed out

deviceVars == <<registered, sending, byebye>>
clientVars == <<client, SsdpSearchList, started>>
jobVars == <<network, results, timers, expired>>
historyVars == <<owed, found, timedOut>>
vars == <<deviceVars, clientVars, jobVars, historyVars, now, calls>>

Senders == Apps \cup Workers

-----------------------------------------------------------------------------
(* Names *)

Root == <<"dlna", "rootdevice">>
All == <<"ssdp", "all">>
Has(cmd, part) == \E i \in 2..Len(cmd) : cmd[i] = part
Holds(cmd, part) == \E i \in 1..Len(cmd) : cmd[i] = part
From(cmd, part) == SubSeq(cmd, SelectInSeq(cmd, LAMBDA p : p = part), Len(cmd))
Usn(udn, nt) == udn \o <<"">> \o nt

ssdp_request_type1(cmd) ==
  IF Has(cmd, "all") THEN "ALL"
  ELSE IF Has(cmd, "rootdevice") THEN "ROOTDEVICE"
  ELSE IF Holds(cmd, "uuid") THEN "DEVICEUDN"
  ELSE IF Holds(cmd, "urn") /\ Has(cmd, "device") THEN "DEVICETYPE"
  ELSE IF Holds(cmd, "urn") /\ Has(cmd, "service") THEN "SERVICE"
  ELSE "SERROR"

\* The old form uuid:schemas:device:<type>:<id> names the device last.
IsOldForm(cmd) == Len(cmd) > 1 /\ cmd[1] = "uuid" /\ cmd[2] = "schemas"
OldForm(cmd) ==
  LET d == SelectInSeq(cmd, LAMBDA p : p = "device")
  IN  [ok |-> d > 0 /\ d + 1 < Len(cmd),
       udn |-> <<"uuid">> \o SubSeq(cmd, d + 2, Len(cmd)),
       deviceType |-> <<"urn">> \o SubSeq(cmd, 2, d + 1), serviceType |-> <<>>]

unique_service_name(cmd) ==
  LET gap == SelectInSeq(cmd, LAMBDA p : p = "")
      udn == From(SubSeq(cmd, 1, IF gap = 0 THEN Len(cmd) ELSE gap - 1), "uuid")
      urn == From(cmd, "urn")
      of(kind) == IF Holds(cmd, "urn") /\ Has(cmd, kind) THEN urn ELSE <<>>
  IN  IF IsOldForm(cmd) THEN OldForm(cmd)
      ELSE [ok |-> Holds(cmd, "uuid") \/ of("service") # <<>> \/ of("device") # <<>>,
            udn |-> IF Holds(cmd, "uuid") THEN udn ELSE <<>>,
            deviceType |-> of("device"), serviceType |-> of("service")]

ssdp_request_type(cmd) ==
  [type |-> ssdp_request_type1(cmd), names |-> unique_service_name(cmd)]

-----------------------------------------------------------------------------
(* Datagrams of the device *)

CreateServicePacket(msg_type, nt, usn) ==
  [kind |-> msg_type, nt |-> nt, usn |-> usn, located |-> TRUE, expires |-> 1, ok |-> TRUE]

DeviceMessages(msg_type, d, root) ==
  (IF root THEN <<CreateServicePacket(msg_type, Root, Usn(d.udn, Root))>> ELSE <<>>)
    \o <<CreateServicePacket(msg_type, d.udn, d.udn),
         CreateServicePacket(msg_type, d.type, Usn(d.udn, d.type))>>
DeviceAdvertisement(d, root) == DeviceMessages("alive", d, root)
DeviceShutdown(d, root) == DeviceMessages("byebye", d, root)
DeviceReply(d, root) == DeviceMessages("reply", d, root)

ServiceMessage(msg_type, udn, s) == <<CreateServicePacket(msg_type, s, Usn(udn, s))>>
ServiceAdvertisement(udn, s) == ServiceMessage("alive", udn, s)
ServiceShutdown(udn, s) == ServiceMessage("byebye", udn, s)
ServiceReply(udn, s) == ServiceMessage("reply", udn, s)

SendReply(d, root, byType) ==
  IF root THEN <<CreateServicePacket("reply", Root, Usn(d.udn, Root))>>
  ELSE IF byType THEN <<CreateServicePacket("reply", d.type, Usn(d.udn, d.type))>>
  ELSE <<CreateServicePacket("reply", d.udn, d.udn)>>

\* The answer of one device to a search, and that of one of its services.
DeviceAnswer(d, root, search) ==
  LET byUdn == search.type = "DEVICEUDN" /\ search.names.udn # <<>>
      byType == search.type \in {"DEVICEUDN", "DEVICETYPE"} /\ ~byUdn
  IN  CASE search.type = "ALL" -> DeviceReply(d, root)
        [] search.type = "ROOTDEVICE" /\ root -> SendReply(d, TRUE, FALSE)
        [] byUdn /\ search.names.udn = d.udn -> SendReply(d, FALSE, FALSE)
        [] byType /\ IsPrefix(search.names.deviceType, d.type) -> SendReply(d, FALSE, TRUE)
        [] OTHER -> <<>>

ServiceAnswer(udn, s, search) ==
  IF search.type = "ALL" \/ (search.type = "SERVICE" /\ IsPrefix(search.names.serviceType, s))
    THEN ServiceReply(udn, s)
    ELSE <<>>

\* The i-th list of services goes with the i-th device, whichever device it is of.
ServiceLists == SelectSeq([i \in DOMAIN Desc |-> Desc[i].services], LAMBDA l : l # NULL)
ServicesAt(i) == IF i <= Len(ServiceLists) THEN ServiceLists[i] ELSE <<>>

\* All AdvertiseAndReply sends, in its order.  AdFlag is 1, -1, or 0 for the answer to search.
ToSend(AdFlag, search) ==
  LET device(i) ==
        LET d == Desc[i]  root == i = 1
        IN  CASE AdFlag = 1 -> DeviceAdvertisement(d, root)
              [] AdFlag = -1 -> DeviceShutdown(d, root)
              [] AdFlag = 0 -> DeviceAnswer(d, root, search)
      service(i, s) ==
        LET udn == Desc[i].udn
        IN  CASE AdFlag = 1 -> ServiceAdvertisement(udn, s)
              [] AdFlag = -1 -> ServiceShutdown(udn, s)
              [] AdFlag = 0 -> ServiceAnswer(udn, s, search)
      part(i) == device(i) \o
        FlattenSeq([j \in DOMAIN ServicesAt(i) |-> service(i, ServicesAt(i)[j])])
  IN  FlattenSeq([i \in DOMAIN Desc |-> part(i)])

NoSearch == ssdp_request_type(All)

-----------------------------------------------------------------------------
(* Locks, pools and timer *)

Readers == {t \in Senders : sending[t] # <<>>}
CanWrite_Always == TRUE
CanWrite == Readers = {}

\* Events are told apart by what they are for; equal ones are told apart by nothing.
TimerThreadSchedule(after, event) ==
  timers' = timers \cup {[due |-> now + after, for |-> event]}

-----------------------------------------------------------------------------
(* The device *)

\* Under the read lock from here until the last datagram is sent.
AdvertiseAndReply(t, AdFlag, search) ==
  sending' = [sending EXCEPT ![t] = IF registered THEN ToSend(AdFlag, search) ELSE <<>>]

Announcements == {m \in network : m.kind \in {"alive", "byebye"}}

\* One datagram leaves.
NewRequestHandler(t) ==
  /\ sending[t] # <<>> /\ Cardinality(Announcements) < MaxFlight
  /\ network' = network \cup {Head(sending[t])}
  /\ sending' = [sending EXCEPT ![t] = Tail(@)]
  /\ UNCHANGED <<registered, byebye, clientVars, results, timers, expired, historyVars, now, calls>>

dlnaRegisterRootDevice(t) ==
  /\ ~registered /\ CanWrite /\ calls < MaxCalls /\ ~byebye[t]
  /\ registered' = TRUE /\ calls' = calls + 1
  /\ UNCHANGED <<sending, byebye, clientVars, jobVars, historyVars, now>>

dlnaSendAdvertisement(t) ==
  /\ registered /\ calls < MaxCalls /\ sending[t] = <<>> /\ ~byebye[t]
  /\ AdvertiseAndReply(t, 1, NoSearch)
  /\ calls' = calls + 1
  /\ UNCHANGED <<registered, byebye, clientVars, jobVars, historyVars, now>>

dlnaUnRegisterRootDevice(t) ==
  /\ registered /\ sending[t] = <<>> /\ ~byebye[t]
  /\ AdvertiseAndReply(t, -1, NoSearch)
  /\ byebye' = [byebye EXCEPT ![t] = TRUE]
  /\ UNCHANGED <<registered, clientVars, jobVars, historyVars, now, calls>>

\* The handle goes once the byebyes have been sent.  No search need be answered any more.
UnRegistered(t) ==
  /\ byebye[t] /\ sending[t] = <<>> /\ CanWrite
  /\ registered' = FALSE /\ owed' = {}
  /\ byebye' = [byebye EXCEPT ![t] = FALSE]
  /\ UNCHANGED <<sending, clientVars, jobVars, found, timedOut, now, calls>>

\* The delays a device may choose, which are less than the time the searcher waits.
ReplyTimes_Whole(mx) == 0..mx
ReplyTimes(mx) ==
  LET reduced == IF mx < 2 THEN mx ELSE mx - (IF mx \div 10 > 1 THEN mx \div 10 ELSE 1)
  IN  0..((IF reduced < 1 THEN 1 ELSE reduced) - 1)

\* A search that asks properly is answered through the timer.
ssdp_handle_device_request(m) ==
  /\ m \in network /\ m.kind = "search" /\ CanWrite
  /\ network' = network \ {m}
  /\ LET search == ssdp_request_type(m.st)
     IN  IF m.discover /\ m.mx >= 0 /\ search.type # "SERROR" /\ registered
           THEN \E delay \in ReplyTimes(m.mx) :
                  TimerThreadSchedule(delay, [do |-> "reply", search |-> search])
           ELSE UNCHANGED timers
  /\ UNCHANGED <<deviceVars, clientVars, results, expired, historyVars, now, calls>>

advertiseAndReplyThread(w, e) ==
  /\ e \in expired /\ e.do = "reply" /\ sending[w] = <<>>
  /\ expired' = expired \ {e}
  /\ AdvertiseAndReply(w, 0, e.search)
  /\ UNCHANGED <<registered, byebye, clientVars, network, results, timers, historyVars, now, calls>>

-----------------------------------------------------------------------------
(* The control point *)

dlnaRegisterClient ==
  /\ ~client /\ CanWrite /\ calls < MaxCalls
  /\ client' = TRUE /\ calls' = calls + 1
  /\ UNCHANGED <<deviceVars, SsdpSearchList, started, jobVars, historyVars, now>>

\* The searches go with the handle; their events stay in the timer.
dlnaUnRegisterClient ==
  /\ client /\ CanWrite
  /\ client' = FALSE /\ SsdpSearchList' = <<>> /\ owed' = {}
  /\ UNCHANGED <<deviceVars, started, jobVars, found, timedOut, now, calls>>

TimeTillRead(Mx) ==
  IF Mx < MIN_SEARCH_TIME THEN MIN_SEARCH_TIME
  ELSE IF Mx > MAX_SEARCH_TIME THEN MAX_SEARCH_TIME ELSE Mx

CreateClientRequestPacket(Mx, St) ==
  [kind |-> "search", st |-> St, mx |-> Mx, discover |-> TRUE]

\* What the device of this host is to be found by.
Named(target) ==
  \/ target \in {All, Root}
  \/ \E i \in DOMAIN Desc :
       target \in {Desc[i].udn, Desc[i].type} \cup ToSet(ServicesAt(i))

\* The datagram is sent NUM_SSDP_COPY times after the lock is let go: see Arrives.
SearchByTarget(target, Mx) ==
  /\ client /\ CanWrite /\ started < MaxSearches /\ now + TimeTillRead(Mx) <= MaxTime
  /\ ssdp_request_type1(target) # "SERROR"
  /\ LET id == started + 1
     IN  /\ started' = id
         /\ TimerThreadSchedule(TimeTillRead(Mx), [do |-> "expire", id |-> id])
         /\ SsdpSearchList' = Append(SsdpSearchList, [timeoutEventId |-> id, searchTarget |-> target])
         /\ owed' = IF registered /\ Named(target) THEN owed \cup {id} ELSE owed
  /\ network' = network \cup {CreateClientRequestPacket(TimeTillRead(Mx), target)}
  /\ UNCHANGED <<deviceVars, client, results, expired, found, timedOut, now, calls>>

Expiring_Head(id) ==
  IF SsdpSearchList # <<>> /\ SsdpSearchList[1].timeoutEventId = id THEN 1 ELSE 0

\* The search whose event it is, looked for in the whole list.
Expiring(id) == SelectInSeq(SsdpSearchList, LAMBDA s : s.timeoutEventId = id)

searchExpired(e) ==
  /\ e \in expired /\ e.do = "expire" /\ CanWrite
  /\ expired' = expired \ {e}
  /\ IF client /\ Expiring(e.id) # 0
       THEN /\ SsdpSearchList' = RemoveAt(SsdpSearchList, Expiring(e.id))
            /\ timedOut' = timedOut \cup {e.id}
       ELSE UNCHANGED <<SsdpSearchList, timedOut>>
  /\ UNCHANGED <<deviceVars, client, started, network, results, timers, owed, found, now, calls>>

\* What makes a datagram of a device worth reporting.
Reported(m) ==
  LET named == ssdp_request_type1(m.nt) # "SERROR"
      unique == unique_service_name(m.usn).ok
  IN  CASE m.kind = "byebye" -> named /\ unique
        [] m.kind = "alive" -> named /\ unique /\ m.located /\ m.expires > 0
        [] m.kind = "reply" -> m.ok /\ m.expires > 0 /\ m.located /\ unique /\ named

\* Whether an answer is one to a search.  The shorter of two types is enough to match.
Matched(target, m) ==
  CASE ssdp_request_type1(target) = "ALL" -> TRUE
    [] ssdp_request_type1(target) = "ROOTDEVICE" -> ssdp_request_type1(m.nt) = "ROOTDEVICE"
    [] ssdp_request_type1(target) = "DEVICEUDN" -> IsPrefix(m.nt, target)
    [] OTHER -> IsPrefix(m.nt, target) \/ IsPrefix(target, m.nt)

\* A job per search that is answered.  The result of ThreadPoolAdd is ignored.
Results(m) ==
  {SsdpSearchList[i].timeoutEventId :
     i \in {j \in DOMAIN SsdpSearchList : Matched(SsdpSearchList[j].searchTarget, m)}}

\* An announcement is a callback at once.
ssdp_handle_ctrlpt_msg(m) ==
  /\ m \in network /\ m.kind \in {"alive", "byebye", "reply"}
  /\ m.kind = "reply" => CanWrite
  /\ network' = network \ {m}
  /\ LET all == IF m.kind = "reply" /\ client /\ Reported(m) THEN Results(m) ELSE {}
     IN  \E kept \in IF Lossy THEN SUBSET all ELSE {all} :
           results' = results \cup kept /\ owed' = owed \ (all \ kept)
  /\ UNCHANGED <<deviceVars, clientVars, timers, expired, found, timedOut, now, calls>>

send_search_result(id) ==
  /\ id \in results
  /\ results' = results \ {id}
  /\ found' = found \cup {id}
  /\ UNCHANGED <<deviceVars, clientVars, network, timers, expired, owed, timedOut, now, calls>>

-----------------------------------------------------------------------------
(* Sockets, timer and time *)

\* A datagram may be lost on its way, or here, when the pool refuses its job.
readFromSSDPSocket(m) ==
  /\ Lossy /\ m \in network
  /\ network' = network \ {m} /\ owed' = {}
  /\ UNCHANGED <<deviceVars, clientVars, results, timers, expired, found, timedOut, now, calls>>

\* Whatever another host sends, or one more copy of what this one has sent.
Arrives(m) ==
  /\ calls < MaxCalls
  /\ network' = network \cup {m} /\ calls' = calls + 1
  /\ UNCHANGED <<deviceVars, clientVars, results, timers, expired, historyVars, now>>

\* TimerThreadWorker: an event that is due becomes a job, or is dropped when the pool refuses it.
TimerFires(e) ==
  /\ e \in timers /\ e.due <= now
  /\ timers' = timers \ {e}
  /\ \E refused \in {FALSE, Full} :
       /\ expired' = IF refused THEN expired ELSE expired \cup {e.for}
       /\ owed' = IF refused THEN {} ELSE owed
  /\ UNCHANGED <<deviceVars, clientVars, network, results, found, timedOut, now, calls>>

NothingToDo ==
  /\ network = {} /\ results = {} /\ expired = {} /\ Readers = {}
  /\ \A e \in timers : e.due > now

Tick ==
  /\ now < MaxTime /\ (Prompt => NothingToDo)
  /\ now' = now + 1
  /\ UNCHANGED <<deviceVars, clientVars, jobVars, historyVars, calls>>

-----------------------------------------------------------------------------
Init ==
  /\ registered = FALSE /\ client = FALSE
  /\ sending = [t \in Senders |-> <<>>] /\ byebye = [t \in Apps |-> FALSE]
  /\ network = {} /\ results = {} /\ timers = {} /\ expired = {}
  /\ SsdpSearchList = <<>> /\ now = 0 /\ started = 0 /\ calls = 0
  /\ owed = {} /\ found = {} /\ timedOut = {}

Device(t) ==
  \/ dlnaRegisterRootDevice(t) \/ dlnaSendAdvertisement(t) \/ dlnaUnRegisterRootDevice(t)

Client ==
  \/ dlnaRegisterClient \/ dlnaUnRegisterClient
  \/ \E target \in Targets, Mx \in Mxs : SearchByTarget(target, Mx)

Jobs ==
  \/ \E t \in Senders : NewRequestHandler(t)
  \/ \E t \in Apps : UnRegistered(t)
  \/ \E m \in network : ssdp_handle_device_request(m) \/ ssdp_handle_ctrlpt_msg(m)
  \/ \E id \in results : send_search_result(id)
  \/ \E e \in expired : searchExpired(e) \/ \E w \in Workers : advertiseAndReplyThread(w, e)
  \/ \E e \in timers : TimerFires(e)

Network ==
  \/ \E m \in network : readFromSSDPSocket(m)
  \/ \E m \in Foreign \cup network : Arrives(m)

Next == (\E t \in Apps : Device(t)) \/ Client \/ Jobs \/ Network \/ Tick

Spec == Init /\ [][Next]_vars

\* Threads and network go on, and so does the clock up to its bound.
FairSpec ==
  /\ Spec
  /\ \A t \in Senders : WF_vars(NewRequestHandler(t))
  /\ \A t \in Apps : WF_vars(UnRegistered(t))
  /\ WF_vars(Jobs) /\ WF_vars(Tick)

-----------------------------------------------------------------------------
\* While the host is not registered as a device it sends nothing about it
\* (upnpapi.c:846-852 against the datagrams of ssdp_server.c:124-392).
SilentWithoutDevice ==
  [][\A t \in Senders : sending'[t] # sending[t] /\ sending[t] # <<>> => registered]_vars

\* What the control point takes for an answer to a search.
Answer(target, m) == m.kind = "reply" /\ Reported(m) /\ Matched(target, m)

\* Device and control point read the names alike: a search for something the device has
\* makes it send an answer to that search.
NamesAgree ==
  \A target \in Targets : Named(target) /\ ssdp_request_type1(target) # "SERROR" =>
    LET s == ToSend(0, ssdp_request_type(target))
    IN  s \in Seq(Range(s)) /\ \E i \in DOMAIN s : Answer(target, s[i])

\* A search for something the device of this host has, lossless network and pools with room
\* granted, has a result before its time is over: the device waits less than the searcher
\* (ssdp_device.c:181-189 against ssdp_ctrlpt.c:503-541), and both read the names alike.
FoundInTime == timedOut \cap owed \subseteq found

\* Every search ends: with its time-out or with the client (ssdp_ctrlpt.c:406).
SearchEnds ==
  \A id \in 1..MaxSearches :
    (\E i \in DOMAIN SsdpSearchList : SsdpSearchList[i].timeoutEventId = id) ~>
      ~(\E i \in DOMAIN SsdpSearchList : SsdpSearchList[i].timeoutEventId = id)
=============================================================================
