----------------------------- MODULE SsdpProofs -----------------------------
(***************************************************************************)
(* Proofs about Ssdp, for any description, any number of threads and any   *)
(* bounds.                                                                 *)
(***************************************************************************)
EXTENDS Ssdp, TLAPS

\* Whatever has still to be sent about the device is sent under the read lock that the
\* thread which unregisters it waits for.
SendersHoldHandle ==
  /\ sending = [t \in Senders |-> sending[t]]
  /\ registered \/ Readers = {}

LEMMA InitHolds == Init => SendersHoldHandle
<1> QED BY DEF Init, SendersHoldHandle, Readers

\* The handle goes only while nobody sends, and sending begins only with the handle.
LEMMA StepHolds == SendersHoldHandle /\ [Next]_vars => SendersHoldHandle'
<1> SUFFICES ASSUME SendersHoldHandle, [Next]_vars PROVE SendersHoldHandle'
  OBVIOUS
<1> USE DEF SendersHoldHandle, Readers
<1>1. ASSUME UNCHANGED <<registered, sending>> PROVE SendersHoldHandle'
  BY <1>1
<1>2. ASSUME NEW t, NEW AdFlag, NEW search, AdvertiseAndReply(t, AdFlag, search), UNCHANGED registered
      PROVE  SendersHoldHandle'
  BY <1>2 DEF AdvertiseAndReply
<1>3. ASSUME NEW t \in Senders, NewRequestHandler(t) PROVE SendersHoldHandle'
  BY <1>3 DEF NewRequestHandler
<1>4. ASSUME NEW t \in Apps, Device(t) PROVE SendersHoldHandle'
  <2>1. CASE dlnaRegisterRootDevice(t)
    BY <2>1 DEF dlnaRegisterRootDevice
  <2>2. CASE dlnaSendAdvertisement(t)
    BY <1>2, <2>2 DEF dlnaSendAdvertisement
  <2>3. CASE dlnaUnRegisterRootDevice(t)
    BY <1>2, <2>3 DEF dlnaUnRegisterRootDevice
  <2> QED BY <1>4, <2>1, <2>2, <2>3 DEF Device
<1>5. ASSUME NEW t \in Apps, UnRegistered(t) PROVE SendersHoldHandle'
  BY <1>5 DEF UnRegistered, CanWrite
<1>6. ASSUME NEW w, NEW e, advertiseAndReplyThread(w, e) PROVE SendersHoldHandle'
  BY <1>2, <1>6 DEF advertiseAndReplyThread
<1>7. CASE Client
  BY <1>1, <1>7 DEF Client, dlnaRegisterClient, dlnaUnRegisterClient, SearchByTarget, deviceVars
<1>8. CASE Network
  BY <1>1, <1>8 DEF Network, readFromSSDPSocket, Arrives, deviceVars
<1>9. CASE Jobs
  <2>1. CASE \E m \in network : ssdp_handle_device_request(m) \/ ssdp_handle_ctrlpt_msg(m)
    BY <1>1, <2>1 DEF ssdp_handle_device_request, ssdp_handle_ctrlpt_msg, deviceVars
  <2>2. CASE \E id \in results : send_search_result(id)
    BY <1>1, <2>2 DEF send_search_result, deviceVars
  <2>3. CASE \E e \in expired : searchExpired(e)
    BY <1>1, <2>3 DEF searchExpired, deviceVars
  <2>4. CASE \E e \in timers : TimerFires(e)
    BY <1>1, <2>4 DEF TimerFires, deviceVars
  <2> QED BY <1>3, <1>5, <1>6, <1>9, <2>1, <2>2, <2>3, <2>4 DEF Jobs
<1>10. CASE Tick \/ UNCHANGED vars
  BY <1>1, <1>10 DEF Tick, vars, deviceVars
<1> QED BY <1>4, <1>7, <1>8, <1>9, <1>10 DEF Next

\* A host that is not registered as a device sends nothing about it, however many threads
\* announce, answer and unregister (upnpapi.c:846-852 against ssdp_server.c:124-392).
THEOREM NothingSentWithoutDevice == Spec => SilentWithoutDevice
<1>1. SendersHoldHandle /\ [Next]_vars =>
        [\A t \in Senders : sending'[t] # sending[t] /\ sending[t] # <<>> => registered]_vars
  BY DEF SendersHoldHandle, Readers
<1> QED BY <1>1, InitHolds, StepHolds, PTL DEF Spec, SilentWithoutDevice
-----------------------------------------------------------------------------
(* An answer in time.  A search the device owes a result is always in one of  *)
(* the places below, and time passes only when it waits in the timer, where   *)
(* its answer comes before the time-out of the search.                        *)

\* The entry of a search in the list of the client.
InList(id, target) ==
  \E i \in DOMAIN SsdpSearchList :
    SsdpSearchList[i].timeoutEventId = id /\ SsdpSearchList[i].searchTarget = target

\* The datagram of the search is on its way, with the time the device may take,
Asked(target, due) ==
  \E m \in network :
    /\ m.kind = "search" /\ m.st = target /\ m.discover
    /\ m.mx \in Nat /\ m.mx > 0 /\ now + m.mx <= due

\* or the answer waits in the timer,
Delayed(target, due) ==
  \E e \in timers : e.for.do = "reply" /\ e.for.search = ssdp_request_type(target) /\ e.due < due

\* or it is a job, is being sent, is on its way, or is a result to report.
Answering(id, target) ==
  \/ \E e \in expired : e.do = "reply" /\ e.search = ssdp_request_type(target)
  \/ \E t \in Senders : /\ sending[t] \in Seq(Range(sending[t]))
                        /\ \E i \in DOMAIN sending[t] : Answer(target, sending[t][i])
  \/ \E m \in network : Answer(target, m)
  \/ id \in results

InTime(id, target, due) == Asked(target, due) \/ Delayed(target, due) \/ (Answering(id, target) /\ now < due)

TimesOK ==
  /\ now \in Nat /\ started \in Nat
  /\ SsdpSearchList \in Seq([timeoutEventId : 1..started, searchTarget : Targets])
  /\ \A i, j \in DOMAIN SsdpSearchList :
       SsdpSearchList[i].timeoutEventId = SsdpSearchList[j].timeoutEventId => i = j
  /\ timedOut \subseteq 1..started
  /\ \A e \in timers : /\ e.due \in Nat /\ now <= e.due
                       /\ e.for.do = "reply" \/ (e.for.do = "expire" /\ e.for.id \in 1..started)
  /\ \A e \in expired : e.do = "expire" => e.id \in 1..started

\* A search that is owed a result, has none, and so has not timed out.
Pending(id) ==
  /\ id \in 1..started /\ id \notin timedOut /\ registered /\ client
  /\ \A e \in expired : ~(e.do = "expire" /\ e.id = id)
  /\ \E target \in Targets :
       /\ InList(id, target) /\ Named(target) /\ ssdp_request_type1(target) # "SERROR"
       /\ \A e \in timers : e.for.do = "expire" /\ e.for.id = id => InTime(id, target, e.due)

OwedArePending == \A id \in owed \ found : Pending(id)

SearchInv == SendersHoldHandle /\ TimesOK /\ OwedArePending

-----------------------------------------------------------------------------
(* What each action does to the list, the clock and the events.            *)

LEMMA TimesHold == Init => TimesOK
<1> QED BY DEF Init, TimesOK

\* An entry is found at its place, as the numbers of searches are distinct.
LEMMA RemoveSearch ==
  ASSUME NEW S, NEW s \in Seq(S), NEW k \in 1..Len(s)
  PROVE  /\ RemoveAt(s, k) \in Seq(S)
         /\ Len(RemoveAt(s, k)) = Len(s) - 1
         /\ \A i \in 1..(Len(s) - 1) : RemoveAt(s, k)[i] = IF i < k THEN s[i] ELSE s[i + 1]
<1> DEFINE a == SubSeq(s, 1, k - 1)
           b == SubSeq(s, k + 1, Len(s))
<1>1. /\ a \in Seq(S) /\ Len(a) = k - 1 /\ \A i \in 1..(k - 1) : a[i] = s[i]
  OBVIOUS
<1>2. /\ b \in Seq(S) /\ Len(b) = Len(s) - k /\ \A i \in 1..(Len(s) - k) : b[i] = s[i + k]
  OBVIOUS
<1>3. RemoveAt(s, k) = a \o b
  BY DEF RemoveAt
<1> HIDE DEF a, b
<1>0. a \in Seq(S) /\ b \in Seq(S)
  BY <1>1, <1>2
<1>4. a \o b \in Seq(S)
  BY <1>0
<1>5. Len(a \o b) = Len(a) + Len(b)
  BY <1>0
<1>6. Len(a) + Len(b) = Len(s) - 1
  BY <1>1, <1>2
<1>7. ASSUME NEW i \in 1..(Len(s) - 1) PROVE (a \o b)[i] = IF i < k THEN s[i] ELSE s[i + 1]
  BY <1>1, <1>2
<1> QED BY <1>3, <1>4, <1>5, <1>6, <1>7

LEMMA SearchPlace ==
  ASSUME TimesOK, NEW id, Expiring(id) # 0
  PROVE  Expiring(id) \in 1..Len(SsdpSearchList) /\ SsdpSearchList[Expiring(id)].timeoutEventId = id
<1> DEFINE I == {j \in 1..Len(SsdpSearchList) : SsdpSearchList[j].timeoutEventId = id}
<1>1. DOMAIN SsdpSearchList = 1..Len(SsdpSearchList) /\ Len(SsdpSearchList) \in Nat
  BY DEF TimesOK
<1>2. ASSUME NEW i \in 1..Len(SsdpSearchList), SsdpSearchList[i].timeoutEventId = id
      PROVE  Expiring(id) = i
  <2>1. I = {i}
    BY <1>1, <1>2 DEF TimesOK
  <2>2. Min({i}) = i
    BY DEF Min
  <2> QED BY <2>1, <2>2 DEF Expiring, SelectInSeq
<1>3. ASSUME ~\E i \in 1..Len(SsdpSearchList) : SsdpSearchList[i].timeoutEventId = id
      PROVE  Expiring(id) = 0
  <2>1. I = {}
    BY <1>3
  <2> QED BY <2>1 DEF Expiring, SelectInSeq
<1> QED BY <1>2, <1>3

\* The search whose event it is leaves the list, and no other.
LEMMA ExpiringLeaves ==
  ASSUME TimesOK, NEW id \in 1..started, Expiring(id) # 0
  PROVE  LET s == RemoveAt(SsdpSearchList, Expiring(id))
         IN  /\ s \in Seq([timeoutEventId : 1..started, searchTarget : Targets])
             /\ \A i, j \in DOMAIN s : s[i].timeoutEventId = s[j].timeoutEventId => i = j
             /\ \A i \in DOMAIN SsdpSearchList : SsdpSearchList[i].timeoutEventId # id =>
                  \E j \in DOMAIN s : s[j] = SsdpSearchList[i]
<1> DEFINE S == [timeoutEventId : 1..started, searchTarget : Targets]
           k == Expiring(id)
           s == RemoveAt(SsdpSearchList, k)
<1>1. SsdpSearchList \in Seq(S) /\ DOMAIN SsdpSearchList = 1..Len(SsdpSearchList)
  BY DEF TimesOK
<1>2. \A i, j \in 1..Len(SsdpSearchList) :
        SsdpSearchList[i].timeoutEventId = SsdpSearchList[j].timeoutEventId => i = j
  BY <1>1 DEF TimesOK
<1>3. k \in 1..Len(SsdpSearchList) /\ SsdpSearchList[k].timeoutEventId = id
  BY SearchPlace
<1> HIDE DEF S, k
<1>4. /\ s \in Seq(S)
      /\ Len(s) = Len(SsdpSearchList) - 1
      /\ \A i \in 1..(Len(SsdpSearchList) - 1) :
           s[i] = IF i < k THEN SsdpSearchList[i] ELSE SsdpSearchList[i + 1]
  BY <1>1, <1>3, RemoveSearch
<1>5. DOMAIN s = 1..(Len(SsdpSearchList) - 1)
  BY <1>4
<1>6. k \in Nat /\ Len(SsdpSearchList) \in Nat
  BY <1>1, <1>3
<1> HIDE DEF s
<1>7. ASSUME NEW i \in DOMAIN s, NEW j \in DOMAIN s, s[i].timeoutEventId = s[j].timeoutEventId
      PROVE  i = j
  BY <1>2, <1>3, <1>4, <1>5, <1>6, <1>7
<1>8. ASSUME NEW i \in DOMAIN SsdpSearchList, SsdpSearchList[i].timeoutEventId # id
      PROVE  \E j \in DOMAIN s : s[j] = SsdpSearchList[i]
  <2>1. CASE i < k
    <3>1. i \in DOMAIN s /\ s[i] = SsdpSearchList[i]
      BY <1>1, <1>3, <1>4, <1>5, <1>6, <2>1
    <3> QED BY <3>1
  <2>2. CASE ~(i < k)
    <3>1. i - 1 \in DOMAIN s /\ s[i - 1] = SsdpSearchList[i]
      BY <1>1, <1>3, <1>4, <1>5, <1>6, <1>8, <2>2
    <3> QED BY <3>1
  <2> QED BY <2>1, <2>2
<1> QED BY <1>4, <1>7, <1>8 DEF s, S, k

LEMMA ElementOf == ASSUME NEW S, NEW s \in Seq(S), NEW i \in DOMAIN s PROVE s[i] \in S
<1> QED OBVIOUS

\* A number of milliseconds till the searcher stops waiting is always positive.
LEMMA ReadTime == ASSUME NEW Mx \in Mxs PROVE TimeTillRead(Mx) \in Nat /\ TimeTillRead(Mx) > 0
<1> QED BY SsdpAssumption DEF TimeTillRead

\* A device waits less than the searcher.
LEMMA ReplyBefore ==
  ASSUME NEW mx \in Nat, mx > 0 PROVE \A delay \in ReplyTimes(mx) : delay \in Nat /\ delay < mx
<1>1. CASE mx < 2
  BY <1>1 DEF ReplyTimes
<1>2. CASE mx >= 2
  BY <1>2 DEF ReplyTimes
<1> QED BY <1>1, <1>2

LEMMA TimesStep == Prompt /\ TimesOK /\ [Next]_vars => TimesOK'
<1> SUFFICES ASSUME Prompt, TimesOK, [Next]_vars PROVE TimesOK'
  OBVIOUS
<1>1. ASSUME UNCHANGED <<now, started, SsdpSearchList, timedOut, timers, expired>> PROVE TimesOK'
  BY <1>1 DEF TimesOK
<1>2. ASSUME NEW t \in Apps, Device(t) \/ UnRegistered(t) PROVE TimesOK'
  BY <1>1, <1>2 DEF Device, dlnaRegisterRootDevice, dlnaSendAdvertisement, dlnaUnRegisterRootDevice,
                    UnRegistered, clientVars, jobVars, historyVars
<1>3. CASE dlnaRegisterClient
  BY <1>1, <1>3 DEF dlnaRegisterClient, jobVars, historyVars
<1>4. CASE dlnaUnRegisterClient
  BY <1>4 DEF TimesOK, dlnaUnRegisterClient, jobVars
<1>5. ASSUME NEW target \in Targets, NEW Mx \in Mxs, SearchByTarget(target, Mx) PROVE TimesOK'
  <2> DEFINE id == started + 1
             new == [timeoutEventId |-> id, searchTarget |-> target]
             e0 == [due |-> now + TimeTillRead(Mx), for |-> [do |-> "expire", id |-> id]]
  <2>1. /\ now' = now /\ started' = id /\ timedOut' = timedOut /\ expired' = expired
        /\ SsdpSearchList' = Append(SsdpSearchList, new)
        /\ timers' = timers \cup {e0}
    BY <1>5 DEF SearchByTarget, TimerThreadSchedule
  <2>2. SsdpSearchList \in Seq([timeoutEventId : 1..id, searchTarget : Targets])
    <3> DEFINE S == [timeoutEventId : 1..started, searchTarget : Targets]
               T == [timeoutEventId : 1..id, searchTarget : Targets]
    <3>1. S \subseteq T /\ SsdpSearchList \in Seq(S)
      BY DEF TimesOK
    <3> HIDE DEF S, T
    <3>2. SsdpSearchList \in Seq(T)
      BY <3>1
    <3> QED BY <3>2 DEF T
  <2>3. new \in [timeoutEventId : 1..id, searchTarget : Targets]
    BY DEF TimesOK
  <2>4. SsdpSearchList' \in Seq([timeoutEventId : 1..started', searchTarget : Targets])
    BY <2>1, <2>2, <2>3
  <2>5. \A i, j \in DOMAIN SsdpSearchList' :
          SsdpSearchList'[i].timeoutEventId = SsdpSearchList'[j].timeoutEventId => i = j
    <3>1. ASSUME NEW i \in DOMAIN SsdpSearchList PROVE SsdpSearchList[i].timeoutEventId # id
      <4>1. SsdpSearchList[i] \in [timeoutEventId : 1..started, searchTarget : Targets]
        BY ElementOf DEF TimesOK
      <4> QED BY <4>1 DEF TimesOK
    <3>2. DOMAIN SsdpSearchList' = 1..(Len(SsdpSearchList) + 1) /\ Len(SsdpSearchList) \in Nat
      BY <2>1 DEF TimesOK
    <3>3. \A i \in DOMAIN SsdpSearchList' :
            \/ i \in DOMAIN SsdpSearchList /\ SsdpSearchList'[i] = SsdpSearchList[i]
            \/ i = Len(SsdpSearchList) + 1 /\ SsdpSearchList'[i] = new
      BY <2>1, <3>2 DEF TimesOK
    <3> QED BY <3>1, <3>3 DEF TimesOK
  <2>6. e0.due \in Nat /\ now <= e0.due /\ e0.for.do = "expire" /\ e0.for.id = id /\ id \in Nat /\ id > started
    BY ReadTime DEF TimesOK
  <2> HIDE DEF e0, new
  <2> QED BY <2>1, <2>4, <2>5, <2>6 DEF TimesOK
<1>6. ASSUME NEW t \in Senders, NewRequestHandler(t) PROVE TimesOK'
  BY <1>1, <1>6 DEF NewRequestHandler, clientVars, historyVars
<1>7. ASSUME NEW m \in network, ssdp_handle_device_request(m) PROVE TimesOK'
  <2>1. CASE timers' = timers
    BY <1>1, <1>7, <2>1 DEF ssdp_handle_device_request, clientVars, historyVars
  <2>2. ASSUME NEW search, NEW delay \in Nat,
               timers' = timers \cup {[due |-> now + delay, for |-> [do |-> "reply", search |-> search]]}
        PROVE  TimesOK'
    BY <1>7, <2>2 DEF TimesOK, ssdp_handle_device_request, clientVars, historyVars
  <2>3. CASE m.mx >= 0 /\ \E delay \in ReplyTimes(m.mx) :
               TimerThreadSchedule(delay, [do |-> "reply", search |-> ssdp_request_type(m.st)])
    <3>1. PICK delay \in ReplyTimes(m.mx) :
            TimerThreadSchedule(delay, [do |-> "reply", search |-> ssdp_request_type(m.st)])
      BY <2>3
    <3>2. delay \in Nat
      BY DEF ReplyTimes
    <3> QED BY <2>2, <3>1, <3>2 DEF TimerThreadSchedule
  <2> QED BY <1>7, <2>1, <2>3 DEF ssdp_handle_device_request
<1>8. ASSUME NEW m \in network, ssdp_handle_ctrlpt_msg(m) \/ readFromSSDPSocket(m) PROVE TimesOK'
  BY <1>1, <1>8 DEF ssdp_handle_ctrlpt_msg, readFromSSDPSocket, clientVars
<1>9. ASSUME NEW id, send_search_result(id) PROVE TimesOK'
  BY <1>1, <1>9 DEF send_search_result, clientVars
<1>10. ASSUME NEW m, Arrives(m) PROVE TimesOK'
  BY <1>1, <1>10 DEF Arrives, clientVars, historyVars
<1>11. ASSUME NEW e \in expired, searchExpired(e) PROVE TimesOK'
  <2>1. e.id \in 1..started /\ UNCHANGED <<now, started, timers>> /\ expired' = expired \ {e}
    BY <1>11 DEF searchExpired, TimesOK
  <2>2. CASE UNCHANGED <<SsdpSearchList, timedOut>>
    BY <2>1, <2>2 DEF TimesOK
  <2>3. CASE Expiring(e.id) # 0 /\ SsdpSearchList' = RemoveAt(SsdpSearchList, Expiring(e.id))
               /\ timedOut' = timedOut \cup {e.id}
    <3>1. /\ SsdpSearchList' \in Seq([timeoutEventId : 1..started, searchTarget : Targets])
          /\ \A i, j \in DOMAIN SsdpSearchList' :
               SsdpSearchList'[i].timeoutEventId = SsdpSearchList'[j].timeoutEventId => i = j
      BY <2>1, <2>3, ExpiringLeaves
    <3> QED BY <2>1, <2>3, <3>1 DEF TimesOK
  <2> QED BY <1>11, <2>2, <2>3 DEF searchExpired
<1>12. ASSUME NEW w, NEW e, advertiseAndReplyThread(w, e) PROVE TimesOK'
  BY <1>12 DEF TimesOK, advertiseAndReplyThread, clientVars, historyVars
<1>13. ASSUME NEW e \in timers, TimerFires(e) PROVE TimesOK'
  <2>1. UNCHANGED <<now, started, SsdpSearchList, timedOut>> /\ timers' \subseteq timers
          /\ expired' \subseteq expired \cup {e.for}
    BY <1>13 DEF TimerFires, clientVars
  <2> QED BY <2>1 DEF TimesOK
<1>14. CASE Tick
  BY <1>14 DEF TimesOK, Tick, NothingToDo, clientVars, jobVars, historyVars
<1>15. CASE UNCHANGED vars
  BY <1>1, <1>15 DEF vars, clientVars, jobVars, historyVars
<1> QED BY <1>2, <1>3, <1>4, <1>5, <1>6, <1>7, <1>8, <1>9, <1>10, <1>11, <1>12, <1>13, <1>14, <1>15
        DEF Next, Client, Jobs, Network

-----------------------------------------------------------------------------
(* What each action does to a search that is owed its result.              *)

\* A search stays pending when its entry stays, its answer moves on towards it, and no
\* event of its own comes up.
LEMMA StaysPending ==
  ASSUME NEW id, Pending(id),
         registered', client', started' >= started, started \in Nat, started' \in Nat,
         id \notin timedOut', \A e \in timers : e.due \in Nat,
         \A e \in expired' : ~(e.do = "expire" /\ e.id = id),
         \A target \in Targets : InList(id, target) => InList(id, target)',
         \A e \in timers' : e.for.do = "expire" /\ e.for.id = id => e \in timers,
         \A target \in Targets : \A due \in Nat :
           /\ Named(target) /\ ssdp_request_type1(target) # "SERROR"
           /\ InList(id, target) /\ InTime(id, target, due)
           => InTime(id, target, due)'
  PROVE  Pending(id)'
<1>1. PICK target \in Targets :
        /\ InList(id, target) /\ Named(target) /\ ssdp_request_type1(target) # "SERROR"
        /\ \A e \in timers : e.for.do = "expire" /\ e.for.id = id => InTime(id, target, e.due)
  BY DEF Pending
<1>2. InList(id, target)'
  BY <1>1
<1>3. \A e \in timers' : e.for.do = "expire" /\ e.for.id = id => InTime(id, target, e.due)'
  BY <1>1
<1>4. id \in 1..started'
  BY DEF Pending
<1> QED BY <1>1, <1>2, <1>3, <1>4 DEF Pending

\* What a sender still holds of an answer, once the first datagram has left.
LEMMA TailHolds ==
  ASSUME NEW s, s \in Seq(Range(s)), s # <<>>
  PROVE  /\ Tail(s) \in Seq(Range(Tail(s)))
         /\ \A i \in DOMAIN s : i = 1 \/ (i - 1 \in DOMAIN Tail(s) /\ Tail(s)[i - 1] = s[i])
         /\ 1 \in DOMAIN s /\ Head(s) = s[1]
<1> DEFINE S == Range(s)
           r == Tail(s)
<1>1. s \in Seq(S)
  OBVIOUS
<1> HIDE DEF S
<1>2. /\ r \in Seq(S) /\ Len(r) \in Nat /\ DOMAIN r = 1..Len(r)
      /\ \A i \in DOMAIN s : i = 1 \/ (i - 1 \in DOMAIN r /\ r[i - 1] = s[i])
      /\ 1 \in DOMAIN s /\ Head(s) = s[1]
  BY <1>1
<1>3. r \in Seq(Range(r))
  <2> HIDE DEF r
  <2>1. r = [i \in 1..Len(r) |-> r[i]]
    BY <1>2
  <2>2. \A i \in 1..Len(r) : r[i] \in Range(r)
    BY <1>2 DEF Range
  <2> QED BY <1>2, <2>1, <2>2
<1> QED BY <1>2, <1>3

LEMMA PendingHolds == Init => OwedArePending
<1> QED BY DEF Init, OwedArePending

\* In these steps nothing of a search changes but the threads that send.
LEMMA SendingStep ==
  ASSUME NamesAgree, SearchInv, NEW id, Pending(id), NEW t \in Senders, sending[t] = <<>>,
         NEW AdFlag, NEW search, AdvertiseAndReply(t, AdFlag, search),
         UNCHANGED <<registered, clientVars, network, results, timers, now, timedOut>>,
         \/ expired' = expired
         \/ \E e \in expired : e.do = "reply" /\ AdFlag = 0 /\ search = e.search /\ expired' = expired \ {e}
  PROVE  Pending(id)'
<1>1. registered /\ sending' = [sending EXCEPT ![t] = ToSend(AdFlag, search)]
  BY DEF AdvertiseAndReply, Pending
<1>2. DOMAIN sending = Senders /\ DOMAIN sending[t] = {}
  BY DEF SearchInv, SendersHoldHandle
<1>3. ASSUME NEW target \in Targets, NEW due \in Nat, Named(target), ssdp_request_type1(target) # "SERROR",
             InTime(id, target, due)
      PROVE  InTime(id, target, due)'
  <2>1. CASE Asked(target, due)
    BY <2>1 DEF InTime, Asked
  <2>2. CASE Delayed(target, due)
    BY <2>2 DEF InTime, Delayed
  <2>3. CASE Answering(id, target) /\ now < due
    <3>1. CASE \E e \in expired : e.do = "reply" /\ e.search = ssdp_request_type(target)
      <4>1. PICK e \in expired : e.do = "reply" /\ e.search = ssdp_request_type(target)
        BY <3>1
      <4>2. CASE e \in expired'
        BY <2>3, <4>1, <4>2 DEF InTime, Answering
      <4>3. CASE e \notin expired'
        <5>1. AdFlag = 0 /\ search = ssdp_request_type(target)
          BY <4>1, <4>3
        <5>2. PICK i \in DOMAIN ToSend(0, search) : Answer(target, ToSend(0, search)[i])
          BY <1>3, <5>1 DEF NamesAgree
        <5>3. ToSend(0, search) \in Seq(Range(ToSend(0, search)))
          BY <1>3, <5>1 DEF NamesAgree
        <5>4. sending'[t] = ToSend(0, search)
          BY <1>1, <1>2, <5>1
        <5>5. sending'[t] \in Seq(Range(sending'[t])) /\ i \in DOMAIN sending'[t] /\ Answer(target, sending'[t][i])
          BY <5>2, <5>3, <5>4
        <5> QED BY <2>3, <5>5 DEF InTime, Answering
      <4> QED BY <4>2, <4>3
    <3>2. CASE \E u \in Senders : /\ sending[u] \in Seq(Range(sending[u]))
                                  /\ \E i \in DOMAIN sending[u] : Answer(target, sending[u][i])
      <4>1. PICK u \in Senders : /\ sending[u] \in Seq(Range(sending[u]))
                                 /\ \E i \in DOMAIN sending[u] : Answer(target, sending[u][i])
        BY <3>2
      <4>2. u # t
        BY <1>2, <4>1
      <4>3. sending'[u] = sending[u]
        BY <1>1, <1>2, <4>2
      <4> QED BY <2>3, <4>1, <4>3 DEF InTime, Answering
    <3>3. CASE (\E m \in network : Answer(target, m)) \/ id \in results
      BY <2>3, <3>3 DEF InTime, Answering
    <3> QED BY <2>3, <3>1, <3>2, <3>3 DEF Answering
  <2> QED BY <1>3, <2>1, <2>2, <2>3 DEF InTime
<1>4. \A e \in expired' : ~(e.do = "expire" /\ e.id = id)
  BY DEF Pending
<1>5. /\ registered' /\ client' /\ id \notin timedOut' /\ started' = started /\ started \in Nat
      /\ \A e \in timers : e.due \in Nat
  BY DEF Pending, SearchInv, TimesOK, clientVars
<1>6. \A target \in Targets : InList(id, target) => InList(id, target)'
  BY DEF InList, clientVars
<1> QED BY <1>3, <1>4, <1>5, <1>6, StaysPending

\* Every step either keeps a search pending, gives it its result, or loses its answer.
LEMMA PendingStep ==
  Prompt /\ NamesAgree /\ SearchInv /\ [Next]_vars => OwedArePending'
<1> SUFFICES ASSUME Prompt, NamesAgree, SearchInv, [Next]_vars, NEW id \in owed' \ found'
             PROVE  Pending(id)'
  BY DEF OwedArePending
<1>a. /\ now \in Nat /\ started \in Nat
      /\ \A e \in timers : e.due \in Nat /\ now <= e.due
  BY DEF SearchInv, TimesOK
<1>b. ASSUME id \in owed \ found PROVE Pending(id)
  BY <1>b DEF SearchInv, OwedArePending
<1>c. ASSUME id \in owed \ found, UNCHANGED <<registered, client, started, timedOut, timers, SsdpSearchList>>,
             expired' \subseteq expired,
             \A target \in Targets : \A due \in Nat :
               /\ Named(target) /\ ssdp_request_type1(target) # "SERROR"
               /\ InList(id, target) /\ InTime(id, target, due)
               => InTime(id, target, due)'
      PROVE  Pending(id)'
  <2>1. Pending(id)
    BY <1>b, <1>c
  <2>2. registered' /\ client' /\ started' >= started /\ started' \in Nat /\ id \notin timedOut'
    BY <1>a, <1>c, <2>1 DEF Pending
  <2>3. \A e \in expired' : ~(e.do = "expire" /\ e.id = id)
    BY <1>c, <2>1 DEF Pending
  <2>4. \A target \in Targets : InList(id, target) => InList(id, target)'
    BY <1>c DEF InList
  <2>5. \A e \in timers' : e.for.do = "expire" /\ e.for.id = id => e \in timers
    BY <1>c
  <2> QED BY <1>a, <1>c, <2>1, <2>2, <2>3, <2>4, <2>5, StaysPending
\* Nothing is lost from the network, and what an answer may be leaves no other place.
<1>d. ASSUME id \in owed \ found, UNCHANGED <<deviceVars, clientVars, timedOut, timers, expired, now>>,
             network \subseteq network', results \subseteq results'
      PROVE  Pending(id)'
  <2>1. ASSUME NEW target, NEW due \in Nat, InTime(id, target, due) PROVE InTime(id, target, due)'
    BY <1>d, <2>1 DEF InTime, Asked, Delayed, Answering, deviceVars
  <2> QED BY <1>c, <1>d, <2>1 DEF deviceVars, clientVars
<1>1. ASSUME NEW t \in Apps, dlnaRegisterRootDevice(t) PROVE Pending(id)'
  <2>1. id \in owed \ found /\ ~registered
    BY <1>1 DEF dlnaRegisterRootDevice, historyVars
  <2> QED BY <1>b, <2>1 DEF Pending
<1>2. ASSUME NEW t \in Apps, dlnaSendAdvertisement(t) \/ dlnaUnRegisterRootDevice(t) PROVE Pending(id)'
  <2>1. id \in owed \ found /\ t \in Senders /\ sending[t] = <<>>
    BY <1>2 DEF dlnaSendAdvertisement, dlnaUnRegisterRootDevice, historyVars, Senders
  <2>2. UNCHANGED <<registered, clientVars, network, results, timers, expired, now, timedOut>>
    BY <1>2 DEF dlnaSendAdvertisement, dlnaUnRegisterRootDevice, historyVars, jobVars
  <2>3. PICK AdFlag : AdvertiseAndReply(t, AdFlag, NoSearch)
    BY <1>2 DEF dlnaSendAdvertisement, dlnaUnRegisterRootDevice
  <2> QED BY <1>b, <2>1, <2>2, <2>3, SendingStep
<1>3. ASSUME NEW t \in Apps, UnRegistered(t) PROVE Pending(id)'
  BY <1>3 DEF UnRegistered
<1>4. CASE dlnaUnRegisterClient
  BY <1>4 DEF dlnaUnRegisterClient
<1>5. CASE dlnaRegisterClient
  <2>1. id \in owed \ found /\ ~client
    BY <1>5 DEF dlnaRegisterClient, historyVars
  <2> QED BY <1>b, <2>1 DEF Pending
<1>6. ASSUME NEW t \in Senders, NewRequestHandler(t) PROVE Pending(id)'
  <2>1. /\ id \in owed \ found /\ sending[t] # <<>>
        /\ UNCHANGED <<registered, client, started, timedOut, timers, SsdpSearchList, expired, results, now>>
        /\ network' = network \cup {Head(sending[t])}
        /\ sending' = [sending EXCEPT ![t] = Tail(@)]
    BY <1>6 DEF NewRequestHandler, clientVars, historyVars
  <2>2. ASSUME NEW target, NEW due \in Nat, InTime(id, target, due) PROVE InTime(id, target, due)'
    <3>1. CASE Asked(target, due) \/ Delayed(target, due)
      BY <2>1, <3>1 DEF InTime, Asked, Delayed
    <3>2. CASE now < due /\ \E u \in Senders : /\ sending[u] \in Seq(Range(sending[u]))
                                               /\ \E i \in DOMAIN sending[u] : Answer(target, sending[u][i])
      <4>1. PICK u \in Senders : /\ sending[u] \in Seq(Range(sending[u]))
                                 /\ \E i \in DOMAIN sending[u] : Answer(target, sending[u][i])
        BY <3>2
      <4>2. CASE u # t
        <5>1. sending'[u] = sending[u]
          BY <2>1, <4>2 DEF SearchInv, SendersHoldHandle
        <5> QED BY <2>1, <3>2, <4>1, <5>1 DEF InTime, Answering
      <4>3. CASE u = t
        <5>1. sending'[t] = Tail(sending[t])
          BY <2>1 DEF SearchInv, SendersHoldHandle
        <5>2. PICK i \in DOMAIN sending[t] : Answer(target, sending[t][i])
          BY <4>1, <4>3
        <5>3. CASE i = 1
          <6>1. Answer(target, Head(sending[t])) /\ Head(sending[t]) \in network'
            BY <2>1, <4>1, <4>3, <5>2, <5>3, TailHolds
          <6> QED BY <2>1, <3>2, <6>1 DEF InTime, Answering
        <5>4. CASE i # 1
          <6>1. /\ sending'[t] \in Seq(Range(sending'[t]))
                /\ i - 1 \in DOMAIN sending'[t] /\ Answer(target, sending'[t][i - 1])
            <7>1. /\ Tail(sending[t]) \in Seq(Range(Tail(sending[t])))
                  /\ i - 1 \in DOMAIN Tail(sending[t]) /\ Tail(sending[t])[i - 1] = sending[t][i]
              BY <2>1, <4>1, <4>3, <5>4, TailHolds
            <7> QED BY <5>1, <5>2, <7>1
          <6> QED BY <2>1, <3>2, <6>1 DEF InTime, Answering
        <5> QED BY <5>3, <5>4
      <4> QED BY <4>2, <4>3
    <3>3. CASE now < due /\ ~\E u \in Senders : /\ sending[u] \in Seq(Range(sending[u]))
                                                /\ \E i \in DOMAIN sending[u] : Answer(target, sending[u][i])
      BY <2>1, <2>2, <3>1, <3>3 DEF InTime, Answering
    <3> QED BY <2>2, <3>1, <3>2, <3>3 DEF InTime
  <2> QED BY <1>c, <2>1, <2>2
<1>7. ASSUME NEW w \in Workers, NEW e \in expired, advertiseAndReplyThread(w, e) PROVE Pending(id)'
  <2>1. /\ id \in owed \ found /\ w \in Senders /\ sending[w] = <<>>
        /\ AdvertiseAndReply(w, 0, e.search)
        /\ UNCHANGED <<registered, clientVars, network, results, timers, now, timedOut>>
        /\ e.do = "reply" /\ expired' = expired \ {e}
    BY <1>7 DEF advertiseAndReplyThread, historyVars, Senders
  <2> QED BY <1>b, <2>1, SendingStep
<1>8. ASSUME NEW m, Arrives(m) PROVE Pending(id)'
  BY <1>d, <1>8 DEF Arrives, historyVars
<1>9. ASSUME NEW m, readFromSSDPSocket(m) PROVE Pending(id)'
  BY <1>9 DEF readFromSSDPSocket
<1>10. CASE UNCHANGED vars
  BY <1>d, <1>10 DEF vars, jobVars, historyVars
<1>11. ASSUME NEW target \in Targets, NEW Mx \in Mxs, SearchByTarget(target, Mx) PROVE Pending(id)'
  <2> DEFINE new == started + 1
             e0 == [due |-> now + TimeTillRead(Mx), for |-> [do |-> "expire", id |-> new]]
             m0 == CreateClientRequestPacket(TimeTillRead(Mx), target)
             entry == [timeoutEventId |-> new, searchTarget |-> target]
  <2>1. /\ timers' = timers \cup {e0} /\ network' = network \cup {m0} /\ started' = new
        /\ SsdpSearchList' = Append(SsdpSearchList, entry)
        /\ UNCHANGED <<registered, sending, client, results, expired, found, timedOut, now>>
        /\ ssdp_request_type1(target) # "SERROR" /\ client
        /\ owed' = IF registered /\ Named(target) THEN owed \cup {new} ELSE owed
    BY <1>11 DEF SearchByTarget, TimerThreadSchedule, deviceVars
  <2>2. SsdpSearchList \in Seq([timeoutEventId : 1..started, searchTarget : Targets])
    BY DEF SearchInv, TimesOK
  <2>3. /\ \A i \in DOMAIN SsdpSearchList : i \in DOMAIN SsdpSearchList' /\ SsdpSearchList'[i] = SsdpSearchList[i]
        /\ Len(SsdpSearchList) + 1 \in DOMAIN SsdpSearchList'
        /\ SsdpSearchList'[Len(SsdpSearchList) + 1] = entry
    BY <2>1, <2>2
  <2>4. CASE id \in owed \ found
    <3>1. Pending(id) /\ id # new
      BY <1>a, <1>b, <2>4 DEF Pending
    <3>2. ASSUME NEW any \in Targets, InList(id, any) PROVE InList(id, any)'
      BY <2>3, <3>2 DEF InList
    <3>3. ASSUME NEW any, NEW due \in Nat, InTime(id, any, due) PROVE InTime(id, any, due)'
      <4> HIDE DEF e0, m0
      <4> QED BY <2>1, <3>3 DEF InTime, Asked, Delayed, Answering
    <3>4. \A e \in timers' : e.for.do = "expire" /\ e.for.id = id => e \in timers
      BY <2>1, <3>1
    <3>5. registered' /\ client' /\ id \notin timedOut' /\ \A e \in expired' : ~(e.do = "expire" /\ e.id = id)
      BY <2>1, <3>1 DEF Pending
    <3>6. started' >= started /\ started' \in Nat
      BY <1>a, <2>1
    <3> HIDE DEF new, e0
    <3> QED BY <1>a, <3>1, <3>2, <3>3, <3>4, <3>5, <3>6, StaysPending
  <2>5. CASE id \notin owed \ found
    <3>1. id = new /\ registered /\ Named(target)
      BY <2>1, <2>5
    <3>2. id \in 1..started' /\ id \notin timedOut' /\ registered' /\ client'
      BY <1>a, <2>1, <3>1 DEF SearchInv, TimesOK
    <3>3. \A e \in expired' : ~(e.do = "expire" /\ e.id = id)
      BY <1>a, <2>1, <3>1 DEF SearchInv, TimesOK
    <3>4. InList(id, target)'
      BY <2>3, <3>1 DEF InList
    <3>5. ASSUME NEW e \in timers', e.for.do = "expire", e.for.id = id PROVE InTime(id, target, e.due)'
      <4>1. e = e0
        BY <1>a, <2>1, <3>1, <3>5 DEF SearchInv, TimesOK
      <4>2. e.due = now' + TimeTillRead(Mx)
        BY <2>1, <4>1
      <4>3. m0.kind = "search" /\ m0.st = target /\ m0.discover /\ m0.mx = TimeTillRead(Mx) /\ m0 \in network'
        BY <2>1 DEF CreateClientRequestPacket
      <4>4. m0.mx \in Nat /\ m0.mx > 0 /\ now' + m0.mx <= e.due
        BY <1>a, <2>1, <4>2, <4>3, ReadTime
      <4> HIDE DEF m0
      <4> QED BY <4>3, <4>4 DEF InTime, Asked
    <3> QED BY <2>1, <3>1, <3>2, <3>3, <3>4, <3>5 DEF Pending
  <2> QED BY <2>4, <2>5
<1>12. ASSUME NEW m \in network, ssdp_handle_device_request(m) PROVE Pending(id)'
  <2>1. /\ id \in owed \ found /\ m.kind = "search" /\ network' = network \ {m}
        /\ UNCHANGED <<registered, sending, client, SsdpSearchList, started, results, expired, timedOut, now>>
    BY <1>12 DEF ssdp_handle_device_request, deviceVars, clientVars, historyVars
  <2>2. Pending(id) /\ registered
    BY <1>b, <2>1 DEF Pending
  <2>3. /\ timers \subseteq timers'
        /\ \A e \in timers' : e \in timers \/ e.for.do = "reply"
    BY <1>12 DEF ssdp_handle_device_request, TimerThreadSchedule
  <2>4. ASSUME NEW target, NEW due \in Nat, ssdp_request_type1(target) # "SERROR", InTime(id, target, due)
        PROVE  InTime(id, target, due)'
    <3>1. CASE Delayed(target, due)
      BY <2>3, <3>1 DEF InTime, Delayed
    <3>2. CASE Answering(id, target) /\ now < due
      <4>1. \A n \in network : Answer(target, n) => n \in network'
        BY <2>1 DEF Answer
      <4> QED BY <2>1, <3>2, <4>1 DEF InTime, Answering
    <3>3. CASE Asked(target, due)
      <4>1. PICK n \in network : /\ n.kind = "search" /\ n.st = target /\ n.discover
                                 /\ n.mx \in Nat /\ n.mx > 0 /\ now + n.mx <= due
        BY <3>3 DEF Asked
      <4>2. CASE n # m
        BY <2>1, <4>1, <4>2 DEF InTime, Asked
      <4>3. CASE n = m
        <5>1. ssdp_request_type(m.st).type # "SERROR"
          BY <2>4, <4>1, <4>3 DEF ssdp_request_type
        <5>2. PICK delay \in ReplyTimes(m.mx) :
                TimerThreadSchedule(delay, [do |-> "reply", search |-> ssdp_request_type(target)])
          BY <1>12, <2>2, <4>1, <4>3, <5>1 DEF ssdp_handle_device_request
        <5>3. delay \in Nat /\ delay < m.mx
          BY <4>1, <4>3, ReplyBefore
        <5> DEFINE e == [due |-> now + delay, for |-> [do |-> "reply", search |-> ssdp_request_type(target)]]
        <5>4. e \in timers' /\ e.for.do = "reply" /\ e.for.search = ssdp_request_type(target)
          BY <5>2 DEF TimerThreadSchedule
        <5>5. e.due < due
          BY <1>a, <4>1, <4>3, <5>3
        <5> HIDE DEF e
        <5> QED BY <5>4, <5>5 DEF InTime, Delayed
      <4> QED BY <4>2, <4>3
    <3> QED BY <2>4, <3>1, <3>2, <3>3 DEF InTime
  <2>5. \A e \in timers' : e.for.do = "expire" /\ e.for.id = id => e \in timers
    BY <2>3
  <2>6. \A target \in Targets : InList(id, target) => InList(id, target)'
    BY <2>1 DEF InList
  <2>7. registered' /\ client' /\ started' = started /\ id \notin timedOut'
          /\ \A e \in expired' : ~(e.do = "expire" /\ e.id = id)
    BY <2>1, <2>2 DEF Pending
  <2> QED BY <1>a, <2>2, <2>4, <2>5, <2>6, <2>7, StaysPending
<1>13. ASSUME NEW m \in network, ssdp_handle_ctrlpt_msg(m) PROVE Pending(id)'
  <2>1. /\ m.kind # "search" /\ network' = network \ {m} /\ results \subseteq results'
        /\ UNCHANGED <<registered, sending, client, SsdpSearchList, started, timers, expired, found, timedOut, now>>
        /\ id \in owed \ found
    BY <1>13 DEF ssdp_handle_ctrlpt_msg, deviceVars, clientVars
  <2>2. client
    BY <1>b, <2>1 DEF Pending
  <2>3. ASSUME NEW target \in Targets, NEW due \in Nat, InList(id, target), InTime(id, target, due)
        PROVE  InTime(id, target, due)'
    <3>1. CASE Asked(target, due)
      BY <2>1, <3>1 DEF InTime, Asked
    <3>2. CASE Delayed(target, due)
      BY <2>1, <3>2 DEF InTime, Delayed
    <3>3. CASE Answering(id, target) /\ now < due /\ ~Answer(target, m)
      <4>1. \A n \in network : Answer(target, n) => n \in network'
        BY <2>1, <3>3
      <4> QED BY <2>1, <3>3, <4>1 DEF InTime, Answering
    <3>4. CASE Answer(target, m) /\ now < due
      <4>1. m.kind = "reply" /\ Reported(m) /\ id \in Results(m)
        BY <2>3, <3>4 DEF Answer, InList, Results
      <4>2. id \in results'
        BY <1>13, <2>1, <2>2, <4>1 DEF ssdp_handle_ctrlpt_msg
      <4> QED BY <2>1, <3>4, <4>2 DEF InTime, Answering
    <3> QED BY <2>3, <3>1, <3>2, <3>3, <3>4 DEF InTime
  <2> QED BY <1>c, <2>1, <2>3
<1>14. ASSUME NEW other \in results, send_search_result(other) PROVE Pending(id)'
  <2>1. /\ id \in owed \ found /\ id # other /\ results' = results \ {other}
        /\ UNCHANGED <<deviceVars, clientVars, network, timers, expired, timedOut, now>>
    BY <1>14 DEF send_search_result
  <2>2. ASSUME NEW target, NEW due, InTime(id, target, due) PROVE InTime(id, target, due)'
    BY <2>1, <2>2 DEF InTime, Asked, Delayed, Answering, deviceVars
  <2> QED BY <1>c, <2>1, <2>2 DEF deviceVars, clientVars
<1>15. ASSUME NEW e \in expired, searchExpired(e) PROVE Pending(id)'
  <2>1. /\ id \in owed \ found /\ e.do = "expire" /\ expired' = expired \ {e}
        /\ UNCHANGED <<registered, sending, client, started, network, results, timers, now>>
    BY <1>15 DEF searchExpired, deviceVars
  <2>2. Pending(id) /\ e.id # id /\ e.id \in 1..started
    BY <1>b, <2>1 DEF Pending, SearchInv, TimesOK
  <2>3. id \notin timedOut'
    BY <1>15, <2>2 DEF searchExpired, Pending
  <2>4. ASSUME NEW target \in Targets, InList(id, target) PROVE InList(id, target)'
    <3>1. CASE SsdpSearchList' = SsdpSearchList
      BY <2>4, <3>1 DEF InList
    <3>2. CASE Expiring(e.id) # 0 /\ SsdpSearchList' = RemoveAt(SsdpSearchList, Expiring(e.id))
      <4>1. \A i \in DOMAIN SsdpSearchList : SsdpSearchList[i].timeoutEventId # e.id =>
              \E j \in DOMAIN SsdpSearchList' : SsdpSearchList'[j] = SsdpSearchList[i]
        BY <2>2, <3>2, ExpiringLeaves DEF SearchInv
      <4>2. PICK i \in DOMAIN SsdpSearchList :
              SsdpSearchList[i].timeoutEventId = id /\ SsdpSearchList[i].searchTarget = target
        BY <2>4 DEF InList
      <4>3. PICK j \in DOMAIN SsdpSearchList' : SsdpSearchList'[j] = SsdpSearchList[i]
        BY <2>2, <4>1, <4>2
      <4> QED BY <4>2, <4>3 DEF InList
    <3> QED BY <1>15, <3>1, <3>2 DEF searchExpired
  <2>5. ASSUME NEW target, NEW due, InTime(id, target, due) PROVE InTime(id, target, due)'
    <3>1. \A f \in expired : f.do = "reply" => f \in expired'
      BY <2>1
    <3> QED BY <2>1, <2>5, <3>1 DEF InTime, Asked, Delayed, Answering
  <2>6. registered' /\ client' /\ started' = started /\ \A f \in expired' : ~(f.do = "expire" /\ f.id = id)
    BY <2>1, <2>2 DEF Pending
  <2> QED BY <1>a, <2>1, <2>2, <2>3, <2>4, <2>5, <2>6, StaysPending
<1>16. ASSUME NEW e \in timers, TimerFires(e) PROVE Pending(id)'
  <2>1. /\ id \in owed \ found /\ e.due <= now /\ timers' = timers \ {e} /\ expired' = expired \cup {e.for}
        /\ UNCHANGED <<registered, sending, client, SsdpSearchList, started, network, results, timedOut, now>>
    BY <1>16 DEF TimerFires, deviceVars, clientVars
  <2>2. Pending(id)
    BY <1>b, <2>1
  <2>3. ASSUME NEW target, NEW due \in Nat, InTime(id, target, due) PROVE now < due
    BY <1>a, <2>3 DEF InTime, Asked, Delayed
  <2>4. ~(e.for.do = "expire" /\ e.for.id = id)
    BY <1>a, <2>1, <2>2, <2>3 DEF Pending
  <2>5. ASSUME NEW target, NEW due \in Nat, InTime(id, target, due) PROVE InTime(id, target, due)'
    <3>1. now' < due
      BY <2>1, <2>3, <2>5
    <3>2. CASE Asked(target, due)
      BY <2>1, <3>2 DEF InTime, Asked
    <3>3. CASE Delayed(target, due)
      <4>1. PICK f \in timers : f.for.do = "reply" /\ f.for.search = ssdp_request_type(target) /\ f.due < due
        BY <3>3 DEF Delayed
      <4>2. CASE f = e
        BY <2>1, <3>1, <4>1, <4>2 DEF InTime, Answering
      <4>3. CASE f # e
        BY <2>1, <4>1, <4>3 DEF InTime, Delayed
      <4> QED BY <4>2, <4>3
    <3>4. CASE Answering(id, target)
      BY <2>1, <3>1, <3>4 DEF InTime, Answering
    <3> QED BY <2>5, <3>2, <3>3, <3>4 DEF InTime
  <2>6. /\ registered' /\ client' /\ started' = started /\ id \notin timedOut'
        /\ \A f \in expired' : ~(f.do = "expire" /\ f.id = id)
        /\ \A target \in Targets : InList(id, target) => InList(id, target)'
    BY <2>1, <2>2, <2>4 DEF Pending, InList
  <2> QED BY <1>a, <2>1, <2>2, <2>5, <2>6, StaysPending
<1>17. CASE Tick
  <2>1. /\ id \in owed \ found /\ NothingToDo
        /\ UNCHANGED <<registered, client, SsdpSearchList, started, network, results, timers, expired, timedOut>>
    BY <1>17 DEF Tick, historyVars, deviceVars, clientVars, jobVars
  <2>2. ASSUME NEW target, NEW due, InTime(id, target, due) PROVE InTime(id, target, due)'
    <3>1. ~Asked(target, due)
      BY <2>1 DEF NothingToDo, Asked
    <3>2. ~Answering(id, target)
      BY <2>1 DEF NothingToDo, Answering, Readers
    <3>3. Delayed(target, due)'
      BY <2>1, <2>2, <3>1, <3>2 DEF InTime, Delayed
    <3> QED BY <3>3 DEF InTime
  <2> QED BY <1>c, <2>1, <2>2
<1>18. CASE Jobs
  BY <1>3, <1>6, <1>7, <1>12, <1>13, <1>14, <1>15, <1>16, <1>18 DEF Jobs
<1> QED BY <1>1, <1>2, <1>4, <1>5, <1>8, <1>9, <1>10, <1>11, <1>17, <1>18 DEF Next, Device, Client, Network

LEMMA SearchInvHolds == Prompt /\ NamesAgree => (Spec => []SearchInv)
<1> SUFFICES ASSUME Prompt, NamesAgree PROVE Spec => []SearchInv
  OBVIOUS
<1>1. Init => SearchInv
  BY InitHolds, TimesHold, PendingHolds DEF SearchInv
<1>2. SearchInv /\ [Next]_vars => SearchInv'
  BY StepHolds, TimesStep, PendingStep DEF SearchInv
<1> QED BY <1>1, <1>2, PTL DEF Spec

\* Where time passes only when there is nothing to do, and device and control point read
\* the names alike, a search for something the device of this host has is answered before
\* its time is over, whatever else the threads, the network and other hosts do
\* (ssdp_device.c:181-189 against ssdp_ctrlpt.c:503-541).
THEOREM AnswersComeInTime == Prompt /\ NamesAgree => (Spec => []FoundInTime)
<1> SUFFICES ASSUME Prompt, NamesAgree PROVE Spec => []FoundInTime
  OBVIOUS
<1>1. SearchInv => FoundInTime
  BY DEF SearchInv, OwedArePending, Pending, FoundInTime
<1> QED BY <1>1, SearchInvHolds, PTL

=============================================================================
