-------------------------- MODULE MediaDeviceProofs --------------------------
(***************************************************************************)
(* Theorems about MediaDevice, for all files, scenarios, control points    *)
(* and players.  A player's thread leaves a paused or stopped player so.   *)
(* A resource is what its file is, in every life of the process over one   *)
(* data base: the invariant says what the rows and the items are made of,  *)
(* also between the inserts that store one resource.                       *)
(***************************************************************************)
EXTENDS MediaDevice, SequenceTheorems, FiniteSetTheorems, WellFoundedInduction, TLAPS

-----------------------------------------------------------------------------
(* Sequences of what has no type. *)

IsSequence(s) == s \in Seq(Range(s))

LEMMA SequenceFacts ==
  ASSUME NEW s, IsSequence(s)
  PROVE  Len(s) \in Nat /\ DOMAIN s = 1..Len(s)
BY DEF IsSequence

LEMMA AFunctionIsOne ==
  ASSUME NEW s, NEW n \in Nat, DOMAIN s = 1..n, s = [i \in 1..n |-> s[i]]
  PROVE  IsSequence(s) /\ Len(s) = n
<1>1. \A i \in 1..n : s[i] \in Range(s)
  BY DEF Range
<1>2. s \in [1..n -> Range(s)]
  BY <1>1
<1> QED BY <1>2 DEF IsSequence

LEMMA PutOne ==
  ASSUME NEW s, IsSequence(s), NEW p, NEW x, NEW t, t = [s EXCEPT ![p] = x]
  PROVE  /\ IsSequence(t) /\ DOMAIN t = DOMAIN s
         /\ \A q \in DOMAIN s : t[q] = IF q = p THEN x ELSE s[q]
<1>1. Len(s) \in Nat /\ DOMAIN s = 1..Len(s)
  BY SequenceFacts
<1>2. DOMAIN t = 1..Len(s) /\ t = [q \in 1..Len(s) |-> t[q]] /\ \A q \in DOMAIN s : t[q] = IF q = p THEN x ELSE s[q]
  BY <1>1
<1> QED BY <1>1, <1>2, AFunctionIsOne

LEMMA AppendOne ==
  ASSUME NEW s, IsSequence(s), NEW x, NEW t, t = Append(s, x)
  PROVE  /\ IsSequence(t) /\ Len(t) = Len(s) + 1 /\ DOMAIN t = 1..(Len(s) + 1)
         /\ \A q \in DOMAIN s : t[q] = s[q]
         /\ t[Len(s) + 1] = x
<1>1. Len(s) \in Nat /\ DOMAIN s = 1..Len(s)
  BY SequenceFacts
<1>2. s \in Seq(Range(s) \cup {x}) /\ x \in Range(s) \cup {x}
  <2>1. \A i \in 1..Len(s) : s[i] \in Range(s) \cup {x}
    BY <1>1 DEF Range
  <2>2. s \in Seq(Range(s))
    BY DEF IsSequence
  <2> QED BY <2>1, <2>2
<1> DEFINE Values == Range(s) \cup {x}
<1>3. s \in Seq(Values) /\ x \in Values
  BY <1>2
<1> HIDE DEF Values
<1>4. t \in Seq(Values) /\ Len(t) = Len(s) + 1 /\ (\A q \in 1..Len(s) : t[q] = s[q]) /\ t[Len(s) + 1] = x
  BY <1>3
<1>5. DOMAIN t = 1..Len(t) /\ t = [q \in 1..Len(t) |-> t[q]] /\ Len(t) \in Nat
  <2>1. t \in [1..Len(t) -> Values] /\ Len(t) \in Nat
    BY <1>4, LenProperties
  <2> QED BY <2>1
<1>6. IsSequence(t)
  BY <1>5, AFunctionIsOne
<1> QED BY <1>1, <1>4, <1>5, <1>6

-----------------------------------------------------------------------------
(* Numbers, counted up to. *)

LEMMA Smallest ==
  ASSUME NEW T, T \subseteq Nat, T # {}
  PROVE  \E m \in T : \A k \in T : m <= k
<1> DEFINE less == OpToRel(<, Nat)
<1>1. IsWellFoundedOn(less, Nat)
  BY NatLessThanWellFounded
<1> HIDE DEF less
<1>2. PICK m \in T : \A k \in T : ~(<<k, m>> \in less)
  BY <1>1, WFMin
<1>3. ASSUME NEW k \in T
      PROVE  m <= k
  <2>1. ~(<<k, m>> \in less)
    BY <1>2
  <2>2. ~(k < m)
    BY <2>1 DEF less, OpToRel
  <2> QED BY <2>2
<1> QED BY <1>3

-----------------------------------------------------------------------------
(* Players. *)

IsJob(j) ==
  j = [event |-> j.event, service |-> j.service, at |-> j.at, p |-> j.p, from |-> j.from, answer |-> j.answer]

IsPlayer(player) ==
  player = [id |-> player.id, listed |-> player.listed, playlist |-> player.playlist,
            current_item |-> player.current_item, state |-> player.state, thread |-> player.thread,
            joined |-> player.joined]

\* What jobs and players are made of.
JobsOK ==
  /\ DOMAIN job = ControlPoints
  /\ \A c \in ControlPoints : job[c] # NULL => IsJob(job[c])

PlayersOK == IsSequence(dmp) /\ \A p \in DOMAIN dmp : IsPlayer(dmp[p])

\* That a player is as it was asked to be by the last request.
Unmoved(p) == job' = job /\ dmp'[p].state # dmp[p].state => dmp[p].state = "E_PLAYING"

LEMMA PlayerFields ==
  ASSUME NEW player, IsPlayer(player), NEW x
  PROVE  /\ IsPlayer([player EXCEPT !.thread = x]) /\ [player EXCEPT !.thread = x].state = player.state
         /\ IsPlayer([player EXCEPT !.playlist = x]) /\ [player EXCEPT !.playlist = x].state = player.state
         /\ IsPlayer([player EXCEPT !.listed = x]) /\ [player EXCEPT !.listed = x].state = player.state
         /\ IsPlayer([player EXCEPT !.current_item = x]) /\ [player EXCEPT !.current_item = x].state = player.state
         /\ IsPlayer([player EXCEPT !.joined = x]) /\ [player EXCEPT !.joined = x].state = player.state
BY DEF IsPlayer

LEMMA StateChanges ==
  ASSUME NEW player, IsPlayer(player), NEW state
  PROVE  /\ IsPlayer(instance_change_state(player, state))
         /\ state = "E_TRANSITIONING" /\ player.state # "E_PLAYING" =>
              instance_change_state(player, state).state = player.state
<1> DEFINE at == IF player.thread = "asleep" THEN "look" ELSE player.thread
           other == [player EXCEPT !.state = state, !.thread = at]
<1>2. instance_change_state(player, state) \in {player, other}
  BY DEF instance_change_state
<1> HIDE DEF at
<1>1. IsPlayer(other)
  <2> DEFINE mid == [player EXCEPT !.state = state]
  <2>1. IsPlayer(mid)
    BY DEF IsPlayer
  <2>2. other = [mid EXCEPT !.thread = at]
    OBVIOUS
  <2> HIDE DEF mid, other
  <2> QED BY <2>1, <2>2, PlayerFields
<1> HIDE DEF other
<1>3. IsPlayer(instance_change_state(player, state))
  BY <1>1, <1>2
<1>4. state = "E_TRANSITIONING" /\ player.state # "E_PLAYING" => instance_change_state(player, state) = player
  BY DEF instance_change_state
<1> QED BY <1>3, <1>4

JobsFine(jobs) ==
  /\ DOMAIN jobs = ControlPoints
  /\ \A c \in ControlPoints : jobs[c] # NULL => IsJob(jobs[c])

LEMMA JobPut ==
  ASSUME JobsOK, NEW c \in ControlPoints, NEW j, j # NULL => IsJob(j), NEW jobs, jobs = [job EXCEPT ![c] = j]
  PROVE  JobsFine(jobs) /\ jobs[c] = j
BY DEF JobsOK, JobsFine

\* What a job that goes on, and is now at x, can be.
Moved(j, x, y) ==
  {[j EXCEPT !.at = x], [j EXCEPT !.at = x, !.p = y], [j EXCEPT !.at = x, !.from = y], [j EXCEPT !.at = x, !.answer = y]}

LEMMA JobFields ==
  ASSUME NEW j, IsJob(j), NEW x, NEW y, NEW k \in Moved(j, x, y)
  PROVE  IsJob(k) /\ k.at = x
<1> DEFINE h == [j EXCEPT !.at = x]
<1>1. IsJob(h) /\ h.at = x
  BY DEF IsJob
<1>2. k \in {h, [h EXCEPT !.p = y], [h EXCEPT !.from = y], [h EXCEPT !.answer = y]}
  BY DEF Moved
<1> HIDE DEF h
<1>3. CASE k = h
  BY <1>1, <1>3
<1>4. CASE k = [h EXCEPT !.p = y]
  BY <1>1, <1>4 DEF IsJob
<1>5. CASE k = [h EXCEPT !.from = y]
  BY <1>1, <1>5 DEF IsJob
<1>6. CASE k = [h EXCEPT !.answer = y]
  BY <1>1, <1>6 DEF IsJob
<1> QED BY <1>2, <1>3, <1>4, <1>5, <1>6

\* A job that goes on is a job still, and is elsewhere.
LEMMA JobGoesOn ==
  ASSUME JobsOK, NEW c \in ControlPoints, job[c] # NULL, NEW x, NEW y, NEW jobs,
         \/ jobs = [job EXCEPT ![c].at = x]
         \/ jobs = [job EXCEPT ![c].at = x, ![c].p = y]
         \/ jobs = [job EXCEPT ![c].at = x, ![c].from = y]
         \/ jobs = [job EXCEPT ![c].at = x, ![c].answer = y]
  PROVE  JobsFine(jobs) /\ (job[c].at # x => jobs # job)
<1> DEFINE j == job[c]
<1>1. IsJob(j)
  BY DEF JobsOK
<1>2. PICK k \in Moved(j, x, y) : jobs = [job EXCEPT ![c] = k]
  <2>1. CASE jobs = [job EXCEPT ![c].at = x]
    <3>1. jobs = [job EXCEPT ![c] = [j EXCEPT !.at = x]]
      BY <2>1
    <3> QED BY <3>1 DEF Moved
  <2>2. CASE jobs = [job EXCEPT ![c].at = x, ![c].p = y]
    <3>1. jobs = [job EXCEPT ![c] = [j EXCEPT !.at = x, !.p = y]]
      BY <2>2 DEF JobsOK
    <3> QED BY <3>1 DEF Moved
  <2>3. CASE jobs = [job EXCEPT ![c].at = x, ![c].from = y]
    <3>1. jobs = [job EXCEPT ![c] = [j EXCEPT !.at = x, !.from = y]]
      BY <2>3 DEF JobsOK
    <3> QED BY <3>1 DEF Moved
  <2>4. CASE jobs = [job EXCEPT ![c].at = x, ![c].answer = y]
    <3>1. jobs = [job EXCEPT ![c] = [j EXCEPT !.at = x, !.answer = y]]
      BY <2>4 DEF JobsOK
    <3> QED BY <3>1 DEF Moved
  <2> QED BY <2>1, <2>2, <2>3, <2>4
<1> HIDE DEF j
<1>3. IsJob(k) /\ k.at = x
  BY <1>1, <1>2, JobFields
<1>4. JobsFine(jobs) /\ jobs[c] = k
  BY <1>2, <1>3, JobPut
<1> QED BY <1>3, <1>4

LEMMA Answering ==
  ASSUME JobsOK, NEW c \in ControlPoints, job[c] # NULL, NEW status, NEW answer, NEW jobs, jobs = AnsweredWith(c, status, answer)
  PROVE  JobsFine(jobs) /\ (job[c].at # "done" => jobs # job)
<1> DEFINE x == Finished(job[c].event, job[c].service, status, answer)
<1>1. jobs = [job EXCEPT ![c].at = "done", ![c].answer = x]
  BY DEF AnsweredWith
<1> HIDE DEF x
<1> QED BY <1>1, JobGoesOn

PlayersFine(players) == IsSequence(players) /\ \A p \in DOMAIN players : IsPlayer(players[p])

\* No player of players has another state than it had.
StaysPut(players) == \A p \in DOMAIN dmp \cap DOMAIN players : players[p].state = dmp[p].state

LEMMA OnePlayer ==
  ASSUME PlayersOK, NEW p, NEW x, p \in DOMAIN dmp => IsPlayer(x), NEW players, players = [dmp EXCEPT ![p] = x]
  PROVE  /\ PlayersFine(players) /\ DOMAIN players = DOMAIN dmp
         /\ \A q \in DOMAIN dmp : players[q] = IF q = p THEN x ELSE dmp[q]
<1>1. IsSequence(players) /\ DOMAIN players = DOMAIN dmp /\ \A q \in DOMAIN dmp : players[q] = IF q = p THEN x ELSE dmp[q]
  BY PutOne DEF PlayersOK
<1> QED BY <1>1 DEF PlayersOK, PlayersFine

LEMMA OneStaysPut ==
  ASSUME PlayersOK, NEW p, NEW x, p \in DOMAIN dmp => IsPlayer(x) /\ x.state = dmp[p].state,
         NEW players, players = [dmp EXCEPT ![p] = x]
  PROVE  PlayersFine(players) /\ StaysPut(players)
<1>1. PlayersFine(players) /\ DOMAIN players = DOMAIN dmp /\ \A q \in DOMAIN dmp : players[q] = IF q = p THEN x ELSE dmp[q]
  BY OnePlayer
<1> QED BY <1>1 DEF StaysPut

\* What a request comes to that no player hears of.
Reported(c) ==
  /\ UNCHANGED dmp
  /\ job[c] # NULL
  /\ UNCHANGED job \/ \E status, answer : job' = AnsweredWith(c, status, answer)

\* The steps of the players' requests make no player move and leave the job where it is.
LEMMA RequestsMove ==
  ASSUME JobsOK, PlayersOK, NEW c \in ControlPoints, AvtsStep(c)
  PROVE  JobsFine(job') /\ PlayersFine(dmp') /\ (job' = job => StaysPut(dmp'))
<1> DEFINE Goal == JobsFine(job') /\ PlayersFine(dmp') /\ (job' = job => StaysPut(dmp'))
<1> SUFFICES Goal
  OBVIOUS
<1>f. JobsFine(job) /\ PlayersFine(dmp) /\ StaysPut(dmp)
  BY DEF JobsOK, JobsFine, PlayersOK, PlayersFine, StaysPut
<1>r. ASSUME Reported(c) PROVE Goal
  <2>1. dmp' = dmp /\ job[c] # NULL
    BY <1>r DEF Reported
  <2>2. JobsFine(job')
    <3>1. CASE UNCHANGED job
      BY <3>1, <1>f
    <3>2. CASE \E status, answer : job' = AnsweredWith(c, status, answer)
      <4>1. PICK status, answer : job' = AnsweredWith(c, status, answer)
        BY <3>2
      <4> QED BY <4>1, <2>1, Answering
    <3> QED BY <3>1, <3>2, <1>r DEF Reported
  <2>3. PlayersFine(dmp') /\ StaysPut(dmp')
    BY <2>1, <1>f
  <2> QED BY <2>2, <2>3
<1>i. ASSUME InvalidInstance(c), job[c] # NULL PROVE Goal
  <2>1. Reported(c)
    BY <1>i DEF InvalidInstance, Reported
  <2> QED BY <2>1, <1>r
<1>b. ASSUME Breaks, job[c] # NULL PROVE Goal
  <2>1. Reported(c)
    BY <1>b DEF Breaks, Reported
  <2> QED BY <2>1, <1>r
<1>t. ASSUME NEW state, Called(c, "Play") \/ Called(c, "Pause") \/ Called(c, "Next"), Turns(c, state) PROVE Goal
  <2>1. job[c] # NULL /\ job[c].at = "call"
    BY <1>t DEF Called
  <2> DEFINE p == AskedPlayer(c)
  <2>2. CASE p = NULL
    BY <2>1, <2>2, <1>t, <1>i DEF Turns
  <2>3. CASE p # NULL
    <3>1. dmp' = [dmp EXCEPT ![p] = instance_change_state(dmp[p], state)] /\ job' = AnsweredWith(c, 1, Unfinished)
      BY <1>t, <2>3 DEF Turns
    <3>2. p \in DOMAIN dmp => IsPlayer(instance_change_state(dmp[p], state))
      BY StateChanges DEF PlayersOK
    <3>3. JobsFine(job') /\ job' # job
      BY <3>1, <2>1, Answering
    <3> HIDE DEF p
    <3>4. PlayersFine(dmp')
      BY <3>1, <3>2, OnePlayer
    <3> QED BY <3>3, <3>4
  <2> QED BY <2>2, <2>3
<1> HIDE DEF Goal
<1>1. CASE avts_set_thread(c)
  <2>1. job[c] # NULL
    BY <1>1 DEF avts_set_thread, Called
  <2>2. CASE AskedPlayer(c) # NULL
    <3>1. job' = [job EXCEPT ![c].at = "add", ![c].p = AskedPlayer(c)] /\ dmp' = dmp
      BY <1>1, <2>2 DEF avts_set_thread
    <3> QED BY <3>1, <2>1, <1>f, JobGoesOn DEF Goal
  <2>3. CASE AskedPlayer(c) = NULL
    <3> DEFINE new == NewPlayer(upnp_get_ui4(job[c].event, "InstanceID"))
    <3>1. dmp' = Append(dmp, new) /\ job' = [job EXCEPT ![c].at = "create", ![c].p = Len(dmp) + 1]
      BY <1>1, <2>3 DEF avts_set_thread
    <3>2. IsPlayer(new)
      BY DEF NewPlayer, IsPlayer
    <3> HIDE DEF new
    <3>3. IsSequence(dmp') /\ Len(dmp) \in Nat /\ DOMAIN dmp = 1..Len(dmp) /\ DOMAIN dmp' = 1..(Len(dmp) + 1)
            /\ (\A q \in DOMAIN dmp : dmp'[q] = dmp[q]) /\ dmp'[Len(dmp) + 1] = new
      <4>1. IsSequence(dmp) /\ Len(dmp) \in Nat /\ DOMAIN dmp = 1..Len(dmp)
        BY SequenceFacts DEF PlayersOK
      <4>2. dmp' = Append(dmp, new)
        BY <3>1
      <4>3. IsSequence(dmp') /\ Len(dmp') = Len(dmp) + 1 /\ DOMAIN dmp' = 1..(Len(dmp) + 1)
              /\ (\A q \in DOMAIN dmp : dmp'[q] = dmp[q]) /\ dmp'[Len(dmp) + 1] = new
        <5>1. \A x : LET t == Append(dmp, x)
                     IN  /\ IsSequence(t) /\ Len(t) = Len(dmp) + 1 /\ DOMAIN t = 1..(Len(dmp) + 1)
                         /\ \A q \in DOMAIN dmp : t[q] = dmp[q]
                         /\ t[Len(dmp) + 1] = x
          BY <4>1, AppendOne
        <5> QED BY <5>1, <4>2
      <4> QED BY <4>1, <4>3
    <3>4. PlayersFine(dmp') /\ StaysPut(dmp')
      BY <3>2, <3>3 DEF PlayersFine, PlayersOK, StaysPut
    <3>5. JobsFine(job')
      BY <3>1, <2>1, JobGoesOn
    <3> QED BY <3>4, <3>5 DEF Goal
  <2> QED BY <2>2, <2>3
<1>2. CASE CreateThread(c)
  <2>1. job[c] # NULL /\ dmp' = [dmp EXCEPT ![job[c].p].thread = "start"] /\ job' = [job EXCEPT ![c].at = "add"]
    BY <1>2 DEF CreateThread, Continues
  <2> DEFINE p == job[c].p
             x == [dmp[p] EXCEPT !.thread = "start"]
  <2>2. dmp' = [dmp EXCEPT ![p] = x]
    BY <2>1
  <2>3. p \in DOMAIN dmp => IsPlayer(x) /\ x.state = dmp[p].state
    BY PlayerFields DEF PlayersOK
  <2> HIDE DEF p, x
  <2>4. PlayersFine(dmp') /\ StaysPut(dmp')
    BY <2>2, <2>3, OneStaysPut
  <2>5. JobsFine(job')
    BY <2>1, JobGoesOn
  <2> QED BY <2>4, <2>5 DEF Goal
<1>3. CASE avts_set_uri(c) \/ avts_set_next_uri(c)
  <2>1. job[c] # NULL
    BY <1>3 DEF avts_set_uri, avts_set_next_uri, Called, Continues
  <2>2. \/ Breaks \/ InvalidInstance(c)
        \/ \E p, playlist : dmp' = [dmp EXCEPT ![p].playlist = playlist] /\ job' = AnsweredWith(c, 1, Unfinished)
    <3>1. CASE avts_set_uri(c)
      BY <3>1 DEF avts_set_uri
    <3>2. CASE avts_set_next_uri(c)
      <4> DEFINE p == AskedPlayer(c)
      <4>1. CASE p = NULL
        BY <3>2, <4>1 DEF avts_set_next_uri
      <4>2. CASE p # NULL
        <5>1. PICK playlist : \/ Breaks
                              \/ /\ dmp' = [dmp EXCEPT ![p].playlist = IF @ = <<>> THEN @ ELSE playlist]
                                 /\ job' = AnsweredWith(c, 1, Unfinished)
          BY <3>2, <4>2 DEF avts_set_next_uri
        <5> HIDE DEF p
        <5>2. [dmp EXCEPT ![p].playlist = IF @ = <<>> THEN @ ELSE playlist] =
                [dmp EXCEPT ![p].playlist = IF dmp[p].playlist = <<>> THEN dmp[p].playlist ELSE playlist]
          OBVIOUS
        <5> QED BY <5>1, <5>2
      <4> QED BY <4>1, <4>2
    <3> QED BY <3>1, <3>2, <1>3
  <2>3. ASSUME NEW p, NEW playlist, dmp' = [dmp EXCEPT ![p].playlist = playlist], job' = AnsweredWith(c, 1, Unfinished)
        PROVE  Goal
    <3> DEFINE x == [dmp[p] EXCEPT !.playlist = playlist]
    <3>1. dmp' = [dmp EXCEPT ![p] = x]
      BY <2>3
    <3>2. p \in DOMAIN dmp => IsPlayer(x) /\ x.state = dmp[p].state
      BY PlayerFields DEF PlayersOK
    <3> HIDE DEF x
    <3>3. PlayersFine(dmp') /\ StaysPut(dmp')
      BY <3>1, <3>2, OneStaysPut
    <3>4. JobsFine(job')
      BY <2>1, <2>3, Answering
    <3> QED BY <3>3, <3>4 DEF Goal
  <2> QED BY <2>1, <2>2, <2>3, <1>b, <1>i
<1>4. CASE \/ avts_get_minfo(c) \/ avts_get_minfo_ext(c) \/ avts_get_info(c) \/ avts_get_pos_info(c)
           \/ avts_get_dev_caps(c) \/ avts_get_settings(c) \/ avts_previous(c)
  <2>1. CASE avts_get_minfo(c)
    BY <2>1, <1>r DEF avts_get_minfo, Called, Report, Reported, InvalidInstance, Breaks
  <2>2. CASE avts_get_minfo_ext(c)
    BY <2>2, <1>r DEF avts_get_minfo_ext, Called, Report, Reported, InvalidInstance, Breaks
  <2>3. CASE avts_get_info(c)
    BY <2>3, <1>r DEF avts_get_info, Called, Report, Reported, InvalidInstance, Breaks
  <2>4. CASE avts_get_pos_info(c)
    BY <2>4, <1>r DEF avts_get_pos_info, Called, Report, Reported, InvalidInstance, Breaks
  <2>5. CASE avts_get_dev_caps(c)
    BY <2>5, <1>r DEF avts_get_dev_caps, Called, Report, Reported, InvalidInstance, Breaks
  <2>6. CASE avts_get_settings(c)
    BY <2>6, <1>r DEF avts_get_settings, Called, Report, Reported, InvalidInstance, Breaks
  <2>7. CASE avts_previous(c)
    BY <2>7, <1>r DEF avts_previous, Called, Report, Reported, InvalidInstance, Breaks
  <2> QED BY <1>4, <2>1, <2>2, <2>3, <2>4, <2>5, <2>6, <2>7
<1>5. CASE avts_play(c) \/ avts_pause(c) \/ avts_next(c)
  BY <1>5, <1>t DEF avts_play, avts_pause, avts_next
<1>6. CASE avts_stop(c)
  <2>1. job[c] # NULL /\ job[c].at = "call"
    BY <1>6 DEF avts_stop, Called
  <2> DEFINE p == AskedPlayer(c)
  <2>2. CASE p = NULL \/ dmp[p].thread = NULL \/ dmp[p].joined
    BY <2>1, <2>2, <1>6, <1>i, <1>b DEF avts_stop
  <2>3. CASE ~(p = NULL \/ dmp[p].thread = NULL \/ dmp[p].joined)
    <3> DEFINE x == [instance_change_state(dmp[p], "E_STOPPED") EXCEPT !.joined = TRUE]
    <3>1. dmp' = [dmp EXCEPT ![p] = x] /\ job' = [job EXCEPT ![c].at = "join", ![c].p = p]
      BY <1>6, <2>3 DEF avts_stop
    <3>2. p \in DOMAIN dmp => IsPlayer(x)
      BY StateChanges, PlayerFields DEF PlayersOK
    <3> HIDE DEF p, x
    <3>3. job[c].at # "join"
      BY <2>1
    <3>4. JobsFine(job') /\ job' # job
      BY <3>1, <3>3, <2>1, JobGoesOn, Zenon
    <3>5. PlayersFine(dmp')
      BY <3>1, <3>2, OnePlayer
    <3> QED BY <3>4, <3>5 DEF Goal
  <2> QED BY <2>2, <2>3
<1>7. CASE Joined(c)
  <2>1. job[c] # NULL /\ dmp' = [dmp EXCEPT ![job[c].p].listed = FALSE] /\ job' = AnsweredWith(c, 1, Unfinished)
    BY <1>7 DEF Joined, Continues
  <2> DEFINE p == job[c].p
             x == [dmp[p] EXCEPT !.listed = FALSE]
  <2>2. dmp' = [dmp EXCEPT ![p] = x]
    BY <2>1
  <2>3. p \in DOMAIN dmp => IsPlayer(x) /\ x.state = dmp[p].state
    BY PlayerFields DEF PlayersOK
  <2> HIDE DEF p, x
  <2>4. PlayersFine(dmp') /\ StaysPut(dmp')
    BY <2>2, <2>3, OneStaysPut
  <2>5. JobsFine(job')
    BY <2>1, Answering
  <2> QED BY <2>4, <2>5 DEF Goal
<1> QED BY <1>1, <1>2, <1>3, <1>4, <1>5, <1>6, <1>7 DEF AvtsStep

\* Nor does any other work on a job.
LEMMA WorkMoves ==
  ASSUME JobsOK, PlayersOK, NEW c \in ControlPoints, Works(c)
  PROVE  JobsFine(job') /\ PlayersFine(dmp') /\ (job' = job => StaysPut(dmp'))
<1> DEFINE Goal == JobsFine(job') /\ PlayersFine(dmp') /\ (job' = job => StaysPut(dmp'))
<1> SUFFICES Goal
  OBVIOUS
<1>f. JobsFine(job) /\ PlayersFine(dmp) /\ StaysPut(dmp)
  BY DEF JobsOK, JobsFine, PlayersOK, PlayersFine, StaysPut
<1>d. ASSUME dmp' = dmp, JobsFine(job') PROVE Goal
  BY <1>d, <1>f
<1>j. job[c] # NULL
  BY DEF Works, Working
<1>1. CASE AvtsStep(c)
  BY <1>1, RequestsMove
<1> HIDE DEF Goal
<1>b. ASSUME Breaks PROVE Goal
  <2>1. dmp' = dmp /\ job' = job
    BY <1>b DEF Breaks
  <2> QED BY <2>1, <1>f, <1>d
<1>2. CASE RunAction(c)
  <2>1. \/ Breaks
        \/ dmp' = dmp /\ \E status, answer : job' = AnsweredWith(c, status, answer)
    BY <1>2 DEF RunAction
  <2> QED BY <2>1, <1>b, <1>d, <1>j, Answering
<1>3. CASE BrowseFind(c)
  <2>1. dmp' = dmp
    BY <1>3 DEF BrowseFind
  <2>2. \/ job' = job
        \/ \E answer : job' = AnsweredWith(c, 0, answer)
        \/ \E x, p : job' = [job EXCEPT ![c].at = x, ![c].p = p]
    <3>1. PICK asked, p : IF asked.code # 0 THEN job' = AnsweredWith(c, 0, Fails(asked.code)) /\ UNCHANGED v
       ELSE IF p = NULL \/ (~asked.meta /\ v.mem[p].type # "CONTAINER") THEN v' = Broken(v) /\ UNCHANGED job
       ELSE job' = [job EXCEPT ![c].at = IF asked.meta THEN "metadata" ELSE "children", ![c].p = p] /\ UNCHANGED v
      BY <1>3 DEF BrowseFind
    <3> QED BY <3>1
  <2>3. CASE job' = job
    BY <2>1, <2>3, <1>f, <1>d
  <2>4. CASE \E answer : job' = AnsweredWith(c, 0, answer)
    BY <2>1, <2>4, <1>d, <1>j, Answering
  <2>5. CASE \E x, p : job' = [job EXCEPT ![c].at = x, ![c].p = p]
    BY <2>1, <2>5, <1>d, <1>j, JobGoesOn
  <2> QED BY <2>2, <2>3, <2>4, <2>5
<1>4. CASE BrowseMetadata(c)
  <2>1. \/ Breaks
        \/ dmp' = dmp /\ \E answer : job' = AnsweredWith(c, 1, answer)
    BY <1>4 DEF BrowseMetadata
  <2> QED BY <2>1, <1>b, <1>d, <1>j, Answering
<1>5. CASE BrowseChildren(c)
  <2>1. \/ Breaks
        \/ dmp' = dmp /\ \E entries : job' = [job EXCEPT ![c].at = "counts", ![c].from = entries]
    BY <1>5 DEF BrowseChildren
  <2>2. CASE \E entries : job' = [job EXCEPT ![c].at = "counts", ![c].from = entries]
    <3>1. JobsFine(job')
      BY <2>2, <1>j, JobGoesOn
    <3> QED BY <2>1, <3>1, <1>b, <1>d
  <2> QED BY <2>1, <2>2, <1>b
<1>6. CASE BrowseCounts(c)
  <2>1. dmp' = dmp /\ \E answer : job' = AnsweredWith(c, 1, answer)
    BY <1>6 DEF BrowseCounts
  <2> QED BY <2>1, <1>d, <1>j, Answering
<1> QED BY <1>1, <1>2, <1>3, <1>4, <1>5, <1>6 DEF Works

\* A player's thread makes it leave E_PLAYING, and no other state.
LEMMA ThreadMoves ==
  ASSUME PlayersOK, NEW p \in DOMAIN dmp, avts_thread_play(p)
  PROVE  /\ PlayersFine(dmp') /\ DOMAIN dmp' = DOMAIN dmp
         /\ \A q \in DOMAIN dmp : dmp'[q].state # dmp[q].state => dmp[q].state = "E_PLAYING"
<1> DEFINE Fit(x) == IsPlayer(x) /\ (x.state # dmp[p].state => dmp[p].state = "E_PLAYING")
<1>p. IsPlayer(dmp[p])
  BY DEF PlayersOK
<1>1. \E x : dmp' = [dmp EXCEPT ![p] = x] /\ Fit(x)
  <2>1. CASE ThreadStart(p)
    <3> DEFINE first == playlist_next(dmp[p].playlist, 0)
               at == IF first = NULL THEN "ended" ELSE "look"
               a == [dmp[p] EXCEPT !.current_item = first]
               b == [a EXCEPT !.thread = at]
    <3>1. dmp' = [dmp EXCEPT ![p] = b]
      BY <2>1 DEF ThreadStart, instance_change_current_item
    <3> HIDE DEF first, at
    <3>2. IsPlayer(a) /\ a.state = dmp[p].state
      BY <1>p, PlayerFields
    <3> HIDE DEF a
    <3>3. IsPlayer(b) /\ b.state = a.state
      BY <3>2, PlayerFields
    <3> QED BY <3>1, <3>2, <3>3
  <2>2. CASE ThreadLook(p)
    <3> DEFINE at == Look(dmp[p].state)
               b == [dmp[p] EXCEPT !.thread = at]
    <3>1. dmp' = [dmp EXCEPT ![p] = b]
      BY <2>2 DEF ThreadLook
    <3> HIDE DEF at
    <3>3. IsPlayer(b) /\ b.state = dmp[p].state
      BY <1>p, PlayerFields
    <3> QED BY <3>1, <3>3
  <2>3. CASE ThreadFrame(p)
    <3> DEFINE shown == [dmp[p] EXCEPT !.thread = "look"]
               x == instance_change_state(shown, "E_TRANSITIONING")
    <3>1. dmp' = [dmp EXCEPT ![p] = IF playitem_decodeframe(shown.current_item) = 0 THEN x ELSE shown]
      BY <2>3 DEF ThreadFrame
    <3>2. playitem_decodeframe(shown.current_item) = 0
      BY DEF playitem_decodeframe
    <3>3. IsPlayer(shown) /\ shown.state = dmp[p].state
      BY <1>p, PlayerFields
    <3> HIDE DEF shown
    <3>4. IsPlayer(x) /\ (shown.state # "E_PLAYING" => x.state = shown.state)
      BY <3>3, StateChanges
    <3> HIDE DEF x
    <3> QED BY <3>1, <3>2, <3>3, <3>4
  <2>4. CASE ThreadSleep(p)
    <3> DEFINE b == [dmp[p] EXCEPT !.thread = "asleep"]
    <3>1. dmp' = [dmp EXCEPT ![p] = b]
      BY <2>4 DEF ThreadSleep
    <3>3. IsPlayer(b) /\ b.state = dmp[p].state
      BY <1>p, PlayerFields
    <3> QED BY <3>1, <3>3
  <2> QED BY <2>1, <2>2, <2>3, <2>4 DEF avts_thread_play
<1>2. PICK x : dmp' = [dmp EXCEPT ![p] = x] /\ Fit(x)
  BY <1>1
<1>3. PlayersFine(dmp') /\ DOMAIN dmp' = DOMAIN dmp /\ \A q \in DOMAIN dmp : dmp'[q] = IF q = p THEN x ELSE dmp[q]
  BY <1>2, OnePlayer
<1> QED BY <1>2, <1>3

LEMMA OwnerMoves ==
  ASSUME Owner
  PROVE  UNCHANGED <<dmp, job>>
<1>1. CASE dlna_init \/ dlna_set_capability_mode \/ Sets \/ dlna_dms_set_vfs_storage_type \/ AddContainer
  BY <1>1 DEF dlna_init, dlna_set_capability_mode, Sets, dlna_dms_set_vfs_storage_type, AddContainer
<1>2. CASE MakeResource \/ StoreItem \/ StoreMetadata \/ StoreProperties \/ PublishResource \/ LinkResource \/ RemoveItem
  BY <1>2 DEF MakeResource, StoreItem, StoreMetadata, StoreProperties, Stores, PublishResource, LinkResource, RemoveItem
<1>3. CASE dlna_dms_init \/ dlna_dmr_init \/ upnp_init \/ Unregister \/ RegisterAgain
  BY <1>3 DEF dlna_dms_init, dlna_dmr_init, upnp_init, Unregister, RegisterAgain
<1>4. CASE dlna_dms_uninit \/ upnp_uninit \/ dlna_uninit
  BY <1>4 DEF dlna_dms_uninit, upnp_uninit, dlna_uninit
<1> QED BY <1>1, <1>2, <1>3, <1>4 DEF Owner

LEMMA NewJobs ==
  ASSUME JobsOK, NEW c \in ControlPoints, ControlPoint(c)
  PROVE  JobsFine(job') /\ dmp' = dmp
<1>f. JobsFine(job)
  BY DEF JobsOK, JobsFine
<1>1. CASE Send(c)
  <2>1. dmp' = dmp
    BY <1>1 DEF Send
  <2>2. job' = job \/ \E event : \E j \in device_callback_event_handler(event) : job' = [job EXCEPT ![c] = j]
    BY <1>1 DEF Send
  <2>3. ASSUME NEW event, NEW j \in device_callback_event_handler(event) PROVE IsJob(j)
    <3>1. \E service, at, answer : j = Job(event, service, at, answer)
      BY <2>3 DEF device_callback_event_handler, upnp_action_request_handler
    <3> QED BY <3>1 DEF Job, IsJob
  <2>4. CASE \E event : \E j \in device_callback_event_handler(event) : job' = [job EXCEPT ![c] = j]
    <3>1. PICK event : \E j \in device_callback_event_handler(event) : job' = [job EXCEPT ![c] = j]
      BY <2>4
    <3>2. PICK j \in device_callback_event_handler(event) : job' = [job EXCEPT ![c] = j]
      BY <3>1
    <3>3. IsJob(j)
      BY <2>3
    <3> QED BY <3>2, <3>3, <2>1, JobPut
  <2> QED BY <2>1, <2>2, <2>4, <1>f
<1>2. CASE Receive(c)
  <2>1. dmp' = dmp /\ job' = [job EXCEPT ![c] = NULL]
    BY <1>2 DEF Receive, Delivers
  <2> QED BY <2>1, JobPut
<1>3. CASE Subscribe(c) \/ GetInfo(c)
  <2>1. dmp' = dmp /\ job' = job
    BY <1>3 DEF Subscribe, GetInfo
  <2> QED BY <2>1, <1>f
<1> QED BY <1>1, <1>2, <1>3 DEF ControlPoint

LEMMA EmptySequence == IsSequence(<<>>) /\ DOMAIN <<>> = {}
BY DEF IsSequence

LEMMA Moves ==
  ASSUME JobsOK, PlayersOK, [Next]_vars
  PROVE  /\ JobsFine(job') /\ PlayersFine(dmp')
         /\ \A p \in DOMAIN dmp \cap DOMAIN dmp' :
              job' = job /\ dmp'[p].state # dmp[p].state => dmp[p].state = "E_PLAYING"
<1> DEFINE Goal == /\ JobsFine(job') /\ PlayersFine(dmp')
                   /\ \A p \in DOMAIN dmp \cap DOMAIN dmp' :
                        job' = job /\ dmp'[p].state # dmp[p].state => dmp[p].state = "E_PLAYING"
<1> SUFFICES Goal
  OBVIOUS
<1>f. JobsFine(job) /\ PlayersFine(dmp)
  BY DEF JobsOK, JobsFine, PlayersOK, PlayersFine
<1>d. ASSUME JobsFine(job'), PlayersFine(dmp'), job' = job => StaysPut(dmp') PROVE Goal
  BY <1>d DEF StaysPut
<1>s. StaysPut(dmp)
  BY DEF StaysPut
<1>u. ASSUME dmp' = dmp, JobsFine(job') PROVE Goal
  BY <1>u, <1>d, <1>f, <1>s
<1> HIDE DEF Goal
<1>1. CASE Owner
  BY <1>1, <1>u, <1>f, OwnerMoves
<1>2. CASE Ends
  <2>1. dmp' = <<>> /\ job' = [c \in ControlPoints |-> NULL]
    BY <1>2 DEF Ends
  <2>2. JobsFine(job')
    BY <2>1 DEF JobsFine
  <2>3. PlayersFine(dmp') /\ StaysPut(dmp')
    BY <2>1, EmptySequence DEF PlayersFine, StaysPut
  <2> QED BY <2>2, <2>3, <1>d
<1>3. ASSUME NEW c \in ControlPoints, Works(c) PROVE Goal
  BY <1>3, <1>d, WorkMoves
<1>4. ASSUME NEW c \in ControlPoints, ControlPoint(c) PROVE Goal
  BY <1>4, <1>u, NewJobs
<1>5. ASSUME NEW p \in DOMAIN dmp, Player(p) PROVE Goal
  <2>1. avts_thread_play(p) /\ job' = job
    BY <1>5 DEF Player, avts_thread_play, ThreadStart, ThreadLook, ThreadFrame, ThreadSleep
  <2>2. /\ PlayersFine(dmp') /\ DOMAIN dmp' = DOMAIN dmp
        /\ \A q \in DOMAIN dmp : dmp'[q].state # dmp[q].state => dmp[q].state = "E_PLAYING"
    BY <2>1, ThreadMoves
  <2> QED BY <2>1, <2>2, <1>f DEF Goal
<1>6. CASE UNCHANGED vars
  BY <1>6, <1>u, <1>f DEF vars
<1> QED BY <1>1, <1>2, <1>3, <1>4, <1>5, <1>6 DEF Next

\* A player that is paused or stopped is set going by a request and never by its own thread (avts.c).
THEOREM PlayersStayAsAsked == Spec => StaysAsAsked
<1>1. Init => JobsOK /\ PlayersOK
  BY EmptySequence DEF Init, JobsOK, PlayersOK
<1>2. JobsOK /\ PlayersOK /\ [Next]_vars => (JobsOK /\ PlayersOK)'
  BY Moves DEF JobsFine, PlayersFine, JobsOK, PlayersOK
<1>3. JobsOK /\ PlayersOK /\ [Next]_vars =>
        [\A p \in DOMAIN dmp \cap DOMAIN dmp' :
           job' = job /\ dmp'[p].state # dmp[p].state => dmp[p].state = "E_PLAYING"]_vars
  BY Moves
<1> QED BY <1>1, <1>2, <1>3, PTL DEF Spec, StaysAsAsked

-----------------------------------------------------------------------------
(* The file system: what its calls leave of the items there are. *)

IsItem(r) ==
  r = [id |-> r.id, title |-> r.title, type |-> r.type, parent |-> r.parent, children |-> r.children,
       children_count |-> r.children_count, updateID |-> r.updateID, item |-> r.item, freed |-> r.freed]

IsVfs(w) ==
  /\ w = [mem |-> w.mem, root |-> w.root, count |-> w.count, db |-> w.db, lpcm |-> w.lpcm, mode |-> w.mode,
          broken |-> w.broken]
  /\ IsSequence(w.mem) /\ \A p \in DOMAIN w.mem : IsItem(w.mem[p])

Alike(r, s) == IsItem(s) /\ s.id = r.id /\ s.title = r.title /\ s.type = r.type /\ s.item = r.item

\* x has the items of w, each with what it is called by and what it holds.
Keeps(w, x) ==
  /\ IsVfs(x) /\ x.db = w.db /\ DOMAIN x.mem = DOMAIN w.mem
  /\ \A p \in DOMAIN w.mem : Alike(w.mem[p], x.mem[p])

LEMMA KeepsItself ==
  ASSUME NEW w, IsVfs(w)
  PROVE  Keeps(w, w)
BY DEF IsVfs, Keeps, Alike

LEMMA KeepsOn ==
  ASSUME NEW w, NEW x, NEW y, Keeps(w, x), Keeps(x, y)
  PROVE  Keeps(w, y)
BY DEF Keeps, Alike

LEMMA KeepsRest ==
  ASSUME NEW w, IsVfs(w), NEW a
  PROVE  /\ Keeps(w, [w EXCEPT !.root = a]) /\ Keeps(w, [w EXCEPT !.count = a]) /\ Keeps(w, [w EXCEPT !.lpcm = a])
         /\ Keeps(w, [w EXCEPT !.mode = a]) /\ Keeps(w, [w EXCEPT !.broken = a])
<1>1. ASSUME NEW x, x.mem = w.mem, x.db = w.db,
             x = [mem |-> x.mem, root |-> x.root, count |-> x.count, db |-> x.db, lpcm |-> x.lpcm, mode |-> x.mode,
                  broken |-> x.broken]
      PROVE  Keeps(w, x)
  BY <1>1 DEF IsVfs, Keeps, Alike
<1>2. Keeps(w, [w EXCEPT !.root = a])
  BY <1>1 DEF IsVfs
<1>3. Keeps(w, [w EXCEPT !.count = a])
  BY <1>1 DEF IsVfs
<1>4. Keeps(w, [w EXCEPT !.lpcm = a])
  BY <1>1 DEF IsVfs
<1>5. Keeps(w, [w EXCEPT !.mode = a])
  BY <1>1 DEF IsVfs
<1>6. Keeps(w, [w EXCEPT !.broken = a])
  BY <1>1 DEF IsVfs
<1> QED BY <1>2, <1>3, <1>4, <1>5, <1>6

LEMMA KeepsMem ==
  ASSUME NEW w, IsVfs(w), NEW mem, IsSequence(mem), DOMAIN mem = DOMAIN w.mem,
         \A p \in DOMAIN mem : Alike(w.mem[p], mem[p]), NEW x, x = [w EXCEPT !.mem = mem]
  PROVE  Keeps(w, x)
<1>1. x.mem = mem /\ x.db = w.db
        /\ x = [mem |-> x.mem, root |-> x.root, count |-> x.count, db |-> x.db, lpcm |-> x.lpcm, mode |-> x.mode,
                broken |-> x.broken]
  BY DEF IsVfs
<1> QED BY <1>1 DEF IsVfs, Keeps, Alike

LEMMA KeepsOne ==
  ASSUME NEW w, IsVfs(w), NEW p, NEW r, p \in DOMAIN w.mem => Alike(w.mem[p], r), NEW x, x = [w EXCEPT !.mem[p] = r]
  PROVE  Keeps(w, x)
<1> DEFINE mem == [w.mem EXCEPT ![p] = r]
<1>1. x = [w EXCEPT !.mem = mem]
  OBVIOUS
<1>2. IsSequence(mem) /\ DOMAIN mem = DOMAIN w.mem /\ \A q \in DOMAIN w.mem : mem[q] = IF q = p THEN r ELSE w.mem[q]
  BY PutOne DEF IsVfs
<1>3. \A q \in DOMAIN w.mem : Alike(w.mem[q], w.mem[q])
  BY DEF IsVfs, Alike
<1> HIDE DEF mem
<1> QED BY <1>1, <1>2, <1>3, KeepsMem

LEMMA ItemFields ==
  ASSUME NEW r, IsItem(r), NEW a, NEW b
  PROVE  /\ Alike(r, [r EXCEPT !.parent = a]) /\ Alike(r, [r EXCEPT !.updateID = a]) /\ Alike(r, [r EXCEPT !.freed = a])
         /\ Alike(r, [r EXCEPT !.children = a]) /\ Alike(r, [r EXCEPT !.children_count = a])
BY DEF IsItem, Alike

LEMMA AlikeOn ==
  ASSUME NEW r, NEW s, NEW t, Alike(r, s), Alike(s, t)
  PROVE  Alike(r, t)
BY DEF Alike

LEMMA BrokenKeeps ==
  ASSUME NEW w, IsVfs(w)
  PROVE  Keeps(w, Broken(w))
BY KeepsRest DEF Broken

LEMMA CloseKeeps ==
  ASSUME NEW w, IsVfs(w)
  PROVE  LET x == dms_db_close(w)
         IN  IsVfs(x) /\ x.mem = w.mem /\ x.db \in {w.db, "closed"}
BY DEF dms_db_close, IsVfs

LEMMA OpenKeeps ==
  ASSUME NEW w, IsVfs(w), NEW d, NEW name
  PROVE  LET x == dms_db_open(w, d, name)
         IN  IsVfs(x) /\ x.mem = w.mem /\ x.db \in {w.db} \cup DOMAIN d
BY DEF dms_db_open, IsVfs

LEMMA AddChildKeeps ==
  ASSUME NEW w, IsVfs(w), NEW p, NEW child
  PROVE  Keeps(w, vfs_item_add_child(w, p, child))
<1>1. CASE child \in Range(w.mem[p].children)
  BY <1>1, KeepsItself DEF vfs_item_add_child
<1>2. CASE child \notin Range(w.mem[p].children)
  <2> DEFINE a == Append(w.mem[p].children, child)
             b == w.mem[p].children_count + 1
             k == w.count + 1
             r == [w.mem[p] EXCEPT !.children = a]
             s == [r EXCEPT !.children_count = b]
             x == [w EXCEPT !.mem[p] = s]
  <2>1. vfs_item_add_child(w, p, child) = [w EXCEPT !.mem[p].children = a, !.mem[p].children_count = @ + 1, !.count = k]
    BY <1>2 DEF vfs_item_add_child
  <2>2. [w EXCEPT !.mem[p].children = a, !.mem[p].children_count = @ + 1, !.count = k] = [x EXCEPT !.count = k]
    <3>1. w.mem[p].children_count = [w.mem[p] EXCEPT !.children = a].children_count
      OBVIOUS
    <3> HIDE DEF a, k
    <3> QED BY <3>1
  <2> HIDE DEF a, b, k
  <2>3. p \in DOMAIN w.mem => Alike(w.mem[p], r)
    BY ItemFields DEF IsVfs
  <2>4. p \in DOMAIN w.mem => Alike(w.mem[p], s)
    <3> HIDE DEF r
    <3>1. p \in DOMAIN w.mem => Alike(r, s)
      BY <2>3, ItemFields DEF Alike
    <3> HIDE DEF s
    <3> QED BY <2>3, <3>1, AlikeOn
  <2> HIDE DEF s
  <2>5. Keeps(w, x)
    BY <2>4, KeepsOne
  <2> HIDE DEF x
  <2>6. Keeps(x, [x EXCEPT !.count = k])
    BY <2>5, KeepsRest DEF Keeps
  <2> QED BY <2>1, <2>2, <2>5, <2>6, KeepsOn
<1> QED BY <1>1, <1>2

LEMMA FreeKeeps ==
  ASSUME NEW w, IsVfs(w), NEW p
  PROVE  Keeps(w, vfs_item_free(w, p))
<1> DEFINE mem(gone) == [q \in DOMAIN w.mem |-> IF q \in gone THEN [w.mem[q] EXCEPT !.freed = TRUE, !.parent = NULL]
                                                ELSE w.mem[q]]
<1>1. \/ vfs_item_free(w, p) = w
      \/ \E root, count, gone, broken :
           vfs_item_free(w, p) = [w EXCEPT !.root = root, !.count = count, !.mem = mem(gone), !.broken = broken]
  <2> DEFINE order == Visited(w, p)
             done(i) == {order[j] : j \in 1..(i - 1)}
             breaks(item) == item.freed \/ (item.type = "RESOURCE" /\ item.item # NULL /\ ~CanFree(item.item))
             end == Min({i \in 1..(Len(order) + 1) :
                           i > Len(order) \/ Range(w.root) \subseteq done(i) \/ breaks(w.mem[order[i]])})
             gone == done(end)
             root == SelectSeq(w.root, LAMBDA q : q \notin gone)
             count == w.count - Cardinality(gone)
             broken == end <= Len(order) /\ ~(Range(w.root) \subseteq gone)
  <2>1. vfs_item_free(w, p) = IF p = NULL \/ w.root = <<>> THEN w
          ELSE [w EXCEPT !.root = root, !.count = count, !.mem = mem(gone), !.broken = broken]
    BY Zenon DEF vfs_item_free
  <2> HIDE DEF order, done, end, gone, root, count, broken, mem
  <2> QED BY <2>1
<1>2. ASSUME NEW root, NEW count, NEW gone, NEW broken
      PROVE  Keeps(w, [w EXCEPT !.root = root, !.count = count, !.mem = mem(gone), !.broken = broken])
  <2> DEFINE m == mem(gone)
             x == [w EXCEPT !.mem = m]
             y == [x EXCEPT !.root = root]
             z == [y EXCEPT !.count = count]
  <2>1. DOMAIN m = DOMAIN w.mem /\ \A q \in DOMAIN w.mem : Alike(w.mem[q], m[q])
    <3>1. ASSUME NEW q \in DOMAIN w.mem PROVE Alike(w.mem[q], m[q])
      <4> DEFINE r == [w.mem[q] EXCEPT !.freed = TRUE]
                 s == [r EXCEPT !.parent = NULL]
      <4>1. m[q] = IF q \in gone THEN s ELSE w.mem[q]
        OBVIOUS
      <4>2. Alike(w.mem[q], r) /\ Alike(w.mem[q], w.mem[q])
        BY ItemFields DEF IsVfs, Alike
      <4> HIDE DEF r
      <4>3. Alike(r, s)
        BY <4>2, ItemFields DEF Alike
      <4> HIDE DEF s, m
      <4> QED BY <4>1, <4>2, <4>3, AlikeOn
    <3> QED BY <3>1
  <2>2. IsSequence(m)
    <3>1. Len(w.mem) \in Nat /\ DOMAIN w.mem = 1..Len(w.mem)
      BY SequenceFacts DEF IsVfs
    <3>2. DOMAIN m = 1..Len(w.mem) /\ m = [q \in 1..Len(w.mem) |-> m[q]]
      BY <3>1
    <3> HIDE DEF m
    <3> QED BY <3>1, <3>2, AFunctionIsOne
  <2>3. [w EXCEPT !.root = root, !.count = count, !.mem = m, !.broken = broken] = [z EXCEPT !.broken = broken]
    <3> HIDE DEF m
    <3> QED BY DEF IsVfs
  <2> HIDE DEF m
  <2>4. Keeps(w, x)
    BY <2>1, <2>2, KeepsMem
  <2> HIDE DEF x
  <2>5. Keeps(x, y)
    BY <2>4, KeepsRest DEF Keeps
  <2> HIDE DEF y
  <2>6. Keeps(y, z)
    BY <2>5, KeepsRest DEF Keeps
  <2> HIDE DEF z
  <2>7. Keeps(z, [z EXCEPT !.broken = broken])
    BY <2>6, KeepsRest DEF Keeps
  <2>8. Keeps(w, [z EXCEPT !.broken = broken])
    BY <2>4, <2>5, <2>6, <2>7, KeepsOn
  <2> QED BY <2>3, <2>8 DEF m
<1> HIDE DEF mem
<1>3. CASE vfs_item_free(w, p) = w
  BY <1>3, KeepsItself
<1>4. CASE \E root, count, gone, broken :
             vfs_item_free(w, p) = [w EXCEPT !.root = root, !.count = count, !.mem = mem(gone), !.broken = broken]
  <2>1. PICK root, count, gone, broken :
             vfs_item_free(w, p) = [w EXCEPT !.root = root, !.count = count, !.mem = mem(gone), !.broken = broken]
    BY <1>4
  <2>2. Keeps(w, [w EXCEPT !.root = root, !.count = count, !.mem = mem(gone), !.broken = broken])
    BY <1>2
  <2> QED BY <2>1, <2>2
<1> QED BY <1>1, <1>3, <1>4

LEMMA RemovedKeeps ==
  ASSUME NEW w, IsVfs(w), NEW p
  PROVE  Keeps(w, Removed(w, p))
BY FreeKeeps, BrokenKeeps DEF Removed

\* x has the items of w and one more, which is r.
Adds(w, x, r) ==
  /\ IsVfs(x) /\ x.db = w.db /\ Len(w.mem) + 1 \notin DOMAIN w.mem
  /\ DOMAIN x.mem = DOMAIN w.mem \cup {Len(w.mem) + 1}
  /\ \A p \in DOMAIN w.mem : Alike(w.mem[p], x.mem[p])
  /\ Alike(r, x.mem[Len(w.mem) + 1])

LEMMA AddsOne ==
  ASSUME NEW w, IsVfs(w), NEW r, IsItem(r), NEW x, x = [w EXCEPT !.mem = Append(@, r)]
  PROVE  Adds(w, x, r) /\ Len(x.mem) = Len(w.mem) + 1
<1> DEFINE mem == Append(w.mem, r)
<1>1. Len(w.mem) \in Nat /\ DOMAIN w.mem = 1..Len(w.mem) /\ IsSequence(w.mem)
  BY SequenceFacts DEF IsVfs
<1>2. IsSequence(mem) /\ Len(mem) = Len(w.mem) + 1 /\ DOMAIN mem = 1..(Len(w.mem) + 1)
        /\ (\A q \in DOMAIN w.mem : mem[q] = w.mem[q]) /\ mem[Len(w.mem) + 1] = r
  <2> DEFINE s == w.mem
  <2>1. IsSequence(s)
    BY <1>1
  <2> HIDE DEF s
  <2>2. \A x_ : LET t == Append(s, x_)
                IN  /\ IsSequence(t) /\ Len(t) = Len(s) + 1 /\ DOMAIN t = 1..(Len(s) + 1)
                    /\ \A q \in DOMAIN s : t[q] = s[q]
                    /\ t[Len(s) + 1] = x_
    BY <2>1, AppendOne
  <2>3. mem = Append(s, r)
    BY DEF s
  <2> HIDE DEF mem
  <2>4. IsSequence(mem) /\ Len(mem) = Len(s) + 1 /\ DOMAIN mem = 1..(Len(s) + 1)
          /\ (\A q \in DOMAIN s : mem[q] = s[q]) /\ mem[Len(s) + 1] = r
    BY <2>2, <2>3
  <2> QED BY <2>4 DEF s
<1>3. x.mem = mem /\ x.db = w.db
        /\ x = [mem |-> x.mem, root |-> x.root, count |-> x.count, db |-> x.db, lpcm |-> x.lpcm, mode |-> x.mode,
                broken |-> x.broken]
  BY DEF IsVfs
<1> HIDE DEF mem
<1>4. \A p \in DOMAIN w.mem : IsItem(w.mem[p])
  BY DEF IsVfs
<1>5. DOMAIN mem = DOMAIN w.mem \cup {Len(w.mem) + 1} /\ Len(w.mem) + 1 \notin DOMAIN w.mem
  BY <1>1, <1>2
<1>6. \A p \in DOMAIN mem : IsItem(mem[p])
  BY <1>2, <1>4, <1>5
<1>7. IsVfs(x)
  BY <1>2, <1>3, <1>6 DEF IsVfs
<1>8. (\A p \in DOMAIN w.mem : Alike(w.mem[p], x.mem[p])) /\ Alike(r, x.mem[Len(w.mem) + 1])
  BY <1>2, <1>3, <1>4 DEF Alike
<1> QED BY <1>2, <1>3, <1>5, <1>7, <1>8 DEF Adds

LEMMA AddsOn ==
  ASSUME NEW w, NEW x, NEW y, NEW r, Adds(w, x, r), Keeps(x, y)
  PROVE  Adds(w, y, r)
BY AlikeOn DEF Adds, Keeps

LEMMA NewItem ==
  ASSUME NEW id, NEW title, NEW type
  PROVE  LET r == vfs_item(id, title, type)
         IN  IsItem(r) /\ r.id = id /\ r.title = title /\ r.type = type /\ r.item = NULL
BY DEF vfs_item, IsItem

LEMMA ContainerAdds ==
  ASSUME NEW w, IsVfs(w), NEW name, NEW object_id, NEW container_id
  PROVE  \E id : Adds(w, dlna_vfs_add_container(w, name, object_id, container_id).v, vfs_item(id, name, "CONTAINER"))
<1> DEFINE id == IF object_id = 0 \/ vfs_is_id_registered(w, object_id) THEN vfs_provide_next_id(w, NULL) ELSE object_id
           p == Len(w.mem) + 1
           r == vfs_item(id, name, "CONTAINER")
           a == [w EXCEPT !.mem = Append(@, r)]
           made == [w EXCEPT !.mem = Append(@, r), !.root = Append(@, p)]
           found == vfs_get_item_by_id(made, container_id)
           parent == IF found = NULL THEN Head(made.root) ELSE found
           placed == [made EXCEPT !.mem[p].parent = parent,
                                  !.mem[parent].updateID = IF found = NULL \/ parent = p THEN @ ELSE @ + 1]
           y == IF parent = p THEN placed ELSE vfs_item_add_child(placed, parent, p)
<1>1. dlna_vfs_add_container(w, name, object_id, container_id).v = y
  BY DEF dlna_vfs_add_container
<1>2. IsItem(r)
  BY NewItem
<1> HIDE DEF id, r
<1>3. Adds(w, a, r)
  BY <1>2, AddsOne
<1>4. Adds(w, made, r)
  <2> DEFINE root == Append(w.root, p)
  <2>1. made = [a EXCEPT !.root = root]
    OBVIOUS
  <2> HIDE DEF a, made, root
  <2>2. Keeps(a, made)
    BY <1>3, <2>1, KeepsRest DEF Adds
  <2> QED BY <1>3, <2>2, AddsOn
<1> HIDE DEF a, made, found, parent, p
<1>5. Keeps(made, placed)
  <2> DEFINE s == [made.mem[p] EXCEPT !.parent = parent]
             b == [made EXCEPT !.mem[p] = s]
             u == IF found = NULL \/ parent = p THEN b.mem[parent].updateID ELSE b.mem[parent].updateID + 1
             t == [b.mem[parent] EXCEPT !.updateID = u]
  <2>1. placed = [b EXCEPT !.mem[parent] = t]
    OBVIOUS
  <2>2. p \in DOMAIN made.mem => Alike(made.mem[p], s)
    BY <1>4, ItemFields DEF Adds, IsVfs
  <2> HIDE DEF s
  <2>3. Keeps(made, b)
    BY <1>4, <2>2, KeepsOne DEF Adds
  <2> HIDE DEF b, u
  <2>4. parent \in DOMAIN b.mem => Alike(b.mem[parent], t)
    BY <2>3, ItemFields DEF Keeps, IsVfs
  <2> HIDE DEF t, placed
  <2>5. IsVfs(b)
    BY <2>3 DEF Keeps
  <2>6. Keeps(b, placed)
    BY <2>1, <2>4, <2>5, KeepsOne
  <2> QED BY <2>3, <2>6, KeepsOn
<1> HIDE DEF placed
<1>6. Keeps(placed, y)
  BY <1>5, KeepsItself, AddChildKeeps DEF Keeps
<1> HIDE DEF y
<1>7. Adds(w, y, r)
  BY <1>4, <1>5, <1>6, AddsOn
<1> QED BY <1>1, <1>7 DEF r

LEMMA PublishKeeps ==
  ASSUME NEW w, IsVfs(w), NEW p, NEW container_id
  PROVE  Keeps(w, AddResource_Publish(w, p, container_id))
<1> DEFINE made == [w EXCEPT !.root = Append(@, p)]
           found == vfs_get_item_by_id(made, container_id)
           parent == IF found = NULL THEN Head(made.root) ELSE found
           u == IF found = NULL THEN made.mem[parent].updateID ELSE made.mem[parent].updateID + 1
           x == [made EXCEPT !.mem[p].parent = parent, !.mem[parent].updateID = IF found = NULL THEN @ ELSE @ + 1]
           s == [made.mem[p] EXCEPT !.parent = parent]
           b == [made EXCEPT !.mem[p] = s]
           k == IF found = NULL THEN b.mem[parent].updateID ELSE b.mem[parent].updateID + 1
           t == [b.mem[parent] EXCEPT !.updateID = k]
           f == [w.mem[p] EXCEPT !.freed = TRUE]
           g == [w EXCEPT !.mem[p] = f]
<1>1. AddResource_Publish(w, p, container_id) \in {[g EXCEPT !.count = g.count - 1], Broken(x), x}
  BY DEF AddResource_Publish
<1>2. Keeps(w, made)
  BY KeepsRest
<1> HIDE DEF made, found, parent
<1>3. x = [b EXCEPT !.mem[parent] = t]
  OBVIOUS
<1>4. p \in DOMAIN made.mem => Alike(made.mem[p], s)
  BY <1>2, ItemFields DEF Keeps, IsVfs
<1> HIDE DEF s
<1>5. Keeps(made, b)
  BY <1>2, <1>4, KeepsOne DEF Keeps
<1> HIDE DEF b, k
<1>6. parent \in DOMAIN b.mem => Alike(b.mem[parent], t)
  BY <1>5, ItemFields DEF Keeps, IsVfs
<1> HIDE DEF t, x
<1>7. Keeps(b, x)
  <2>1. IsVfs(b)
    BY <1>5 DEF Keeps
  <2> QED BY <1>3, <1>6, <2>1, KeepsOne
<1>8. Keeps(w, x)
  BY <1>2, <1>5, <1>7, KeepsOn
<1>9. Keeps(x, Broken(x))
  BY <1>8, BrokenKeeps DEF Keeps
<1>10. p \in DOMAIN w.mem => Alike(w.mem[p], f)
  BY ItemFields DEF IsVfs
<1> HIDE DEF f
<1>11. Keeps(w, g)
  BY <1>10, KeepsOne
<1> HIDE DEF g
<1>12. Keeps(g, [g EXCEPT !.count = g.count - 1])
  BY <1>11, KeepsRest DEF Keeps
<1> QED BY <1>1, <1>8, <1>9, <1>11, <1>12, KeepsOn

-----------------------------------------------------------------------------
(* The data base: what its rows and the resources made from them say. *)

\* The profiler knows the file, and gets through it.
Known(name) == dlna_item_new(name) \notin {NULL, CRASH}

ProfileId(profile) == IF profile.id = NULL THEN "(NULL)" ELSE profile.id

\* What is known of the streams of a file, as it was made or as it is kept: that of one without tags is not.
LikeProperties(properties, made) ==
  properties \in {NULL, made.properties} \/ (made.metadata # NULL /\ properties = ReadColumns(FitColumns(made.properties)))

\* What a resource called name may hold.
LikeMade(item, name) ==
  LET made == dlna_item_new(name)
  IN  /\ item.filename = made.filename /\ item.filesize = made.filesize /\ item.profile = made.profile
      /\ item.metadata \in {NULL, made.metadata} /\ LikeProperties(item.properties, made)

ResourceOK(r) ==
  r.type = "RESOURCE" => r.title \in DOMAIN Files /\ (r.item # NULL => LikeMade(r.item, r.title))

ResourcesOK(w) == \A p \in DOMAIN w.mem : ResourceOK(w.mem[p])

\* A row is that of a file the profiler knows, as it was made.
RowOK(row) ==
  /\ row.filename \in DOMAIN Files /\ Known(row.filename)
  /\ \A made \in {dlna_item_new(row.filename)} :
       row.filesize = made.filesize % UINT32 /\ row.profileid = ProfileId(made.profile)

\* What is stored of the streams of a file: nothing is of one whose tags are not known.
StoredOf(columns, made) == columns = FitColumns(made.properties) /\ made.metadata # NULL

DbOK(db) ==
  /\ db = [tables |-> db.tables, items |-> db.items, metadata |-> db.metadata, properties |-> db.properties]
  /\ \A id \in DOMAIN db.items : RowOK(db.items[id])
  /\ \A id \in DOMAIN db.metadata :
       id \in DOMAIN db.items /\ db.metadata[id] = dlna_item_new(db.items[id].filename).metadata
  /\ \A id \in DOMAIN db.properties :
       id \in DOMAIN db.items /\ StoredOf(db.properties[id], dlna_item_new(db.items[id].filename))

DbsOK(d) == \A name \in DOMAIN d : DbOK(d[name])

VfsOK(w, d) == IsVfs(w) /\ ResourcesOK(w) /\ w.db \in DOMAIN d \cup {NULL, "closed"}

\* What is known of a resource on its way into the data base of that name.
StoringOK(at, r, name, d) ==
  /\ r.type = "RESOURCE" /\ r.title \in DOMAIN Files /\ Known(r.title) /\ r.item = dlna_item_new(r.title)
  /\ name \in DOMAIN d
  /\ at = "item" => r.id \notin DOMAIN d[name].items
  /\ at # "item" => r.id \in DOMAIN d[name].items /\ d[name].items[r.id].filename = r.title

Storing == {"item", "metadata", "properties"}

OwnerOK(o, w, d) ==
  /\ o # NULL => "at" \in DOMAIN o
  /\ o # NULL /\ o.at \in Storing =>
       o = [at |-> o.at, p |-> o.p] /\ o.p \in DOMAIN w.mem /\ StoringOK(o.at, w.mem[o.p], w.db, d)

\* The calls of the scenarios that add a resource call it by the path of a file, those that there are.
AllCalls == UNION {UNION {Range(life) : life \in Range(s.lives)} : s \in Scenarios}
OwnerCalls == {call \in AllCalls : call.call = "resource" => call.name = call.path /\ call.path \in DOMAIN Files}

RestoreInv ==
  /\ VfsOK(v, dbs) /\ DbsOK(dbs) /\ OwnerOK(owner, v, dbs)
  /\ lives \in Seq(Seq(OwnerCalls)) /\ (owner # NULL => lives # <<>> /\ Head(lives) # <<>>)

(* What is granted. *)

\* The profile of a file is found again by its id, and the size of a file is stored whole.
FilesLeadBack ==
  /\ UINT32 \in Nat \ {0}
  /\ \A name \in DOMAIN Files : Known(name) =>
       \A made \in {dlna_item_new(name)} :
         dlna_get_media_profile(ProfileId(made.profile)) = made.profile /\ made.filesize \in 0..(UINT32 - 1)

\* In the scenarios a resource is called by the path of its file.
CalledByPath == \A s \in Scenarios : s.lives \in Seq(Seq(OwnerCalls))

\* The data bases there are at first hold what has been made, if anything.
DatabasesAsMade == DbsOK(Databases)

\* A row under the id that a resource about to be added is given is a row of its file.
OwnRow ==
  Calls("resource") /\ v.root # <<>> /\ v.db \in DOMAIN dbs =>
    \A id \in {vfs_provide_next_id(v, Call.path)} \ {NULL} :
      id \in DOMAIN dbs[v.db].items => dbs[v.db].items[id].filename = Call.path

-----------------------------------------------------------------------------

LEMMA AlikeResource ==
  ASSUME NEW r, NEW s, Alike(r, s), ResourceOK(r)
  PROVE  ResourceOK(s)
BY DEF Alike, ResourceOK

LEMMA KeepsResources ==
  ASSUME NEW w, NEW x, ResourcesOK(w), Keeps(w, x)
  PROVE  ResourcesOK(x)
<1>1. ASSUME NEW p \in DOMAIN x.mem PROVE ResourceOK(x.mem[p])
  <2>1. p \in DOMAIN w.mem /\ Alike(w.mem[p], x.mem[p])
    BY DEF Keeps
  <2> QED BY <2>1, AlikeResource DEF ResourcesOK
<1> QED BY <1>1 DEF ResourcesOK

LEMMA AddsResources ==
  ASSUME NEW w, NEW x, NEW r, ResourcesOK(w), Adds(w, x, r), ResourceOK(r)
  PROVE  ResourcesOK(x)
<1>1. ASSUME NEW p \in DOMAIN x.mem PROVE ResourceOK(x.mem[p])
  <2>1. CASE p \in DOMAIN w.mem
    <3>1. Alike(w.mem[p], x.mem[p])
      BY <2>1 DEF Adds
    <3> QED BY <2>1, <3>1, AlikeResource DEF ResourcesOK
  <2>2. CASE p = Len(w.mem) + 1
    <3>1. Alike(r, x.mem[p])
      BY <2>2 DEF Adds
    <3> QED BY <3>1, AlikeResource
  <2> QED BY <2>1, <2>2 DEF Adds
<1> QED BY <1>1 DEF ResourcesOK

LEMMA Remainder ==
  ASSUME NEW n \in Nat \ {0}, NEW k \in 0..(n - 1)
  PROVE  k % n = k
OBVIOUS

\* An item is made under the name it is asked for.
LEMMA MadeFrom ==
  ASSUME NEW name, Known(name)
  PROVE  dlna_item_new(name).filename = name
BY DEF Known, dlna_item_new, ItemOf

\* What comes out of a data base that holds a row of the file.
LEMMA RowIsLikeMade ==
  ASSUME FilesLeadBack, NEW w, NEW d, NEW id, NEW path \in DOMAIN Files, DbsOK(d), w.db \in DOMAIN d,
         id \in DOMAIN d[w.db].items => d[w.db].items[id].filename = path, dms_db_get(w, d, id) # NULL
  PROVE  LikeMade(dms_db_get(w, d, id), path)
<1> DEFINE db == d[w.db]
           row == db.items[id]
           item == dms_db_get(w, d, id)
           made == dlna_item_new(path)
<1>1. id \in DOMAIN db.items /\ DbOK(db)
  BY DEF dms_db_get, Row, DbsOK
<1>2. item = [dms_db_items_callback(row) EXCEPT !.metadata = dms_db_metadata_callback(db, id),
                                                !.properties = dms_db_properties_callback(db, id)]
  BY <1>1 DEF dms_db_get
<1>3. row.filename = path /\ RowOK(row)
  BY <1>1 DEF DbOK
<1>4. Known(path) /\ row.filesize = made.filesize % UINT32 /\ row.profileid = ProfileId(made.profile)
  BY <1>3 DEF RowOK
<1>5. row.filesize = made.filesize /\ dlna_get_media_profile(row.profileid) = made.profile
  <2>1. dlna_get_media_profile(ProfileId(made.profile)) = made.profile /\ made.filesize \in 0..(UINT32 - 1)
    BY <1>4 DEF FilesLeadBack
  <2> HIDE DEF made, row
  <2>2. made.filesize % UINT32 = made.filesize
    BY <2>1, Remainder DEF FilesLeadBack
  <2> QED BY <1>4, <2>1, <2>2
<1>6. dms_db_metadata_callback(db, id) \in {NULL, made.metadata}
  BY <1>1, <1>3 DEF dms_db_metadata_callback, DbOK
<1>7. LikeProperties(dms_db_properties_callback(db, id), made)
  BY <1>1, <1>3 DEF dms_db_properties_callback, DbOK, StoredOf, LikeProperties
<1>8. made.filename = path
  BY <1>4, MadeFrom
<1> HIDE DEF made, row, db
<1> DEFINE m == dms_db_metadata_callback(db, id)
           q == dms_db_properties_callback(db, id)
           g == dlna_get_media_profile(row.profileid)
<1>9. item = [NoContents EXCEPT !.filename = row.filename, !.filesize = row.filesize, !.profile = g,
                                !.metadata = m, !.properties = q]
  BY <1>2 DEF dms_db_items_callback
<1>a. m \in {NULL, made.metadata} /\ LikeProperties(q, made) /\ g = made.profile
  BY <1>5, <1>6, <1>7
<1> HIDE DEF m, q, g, item
<1>10. item.filename = row.filename /\ item.filesize = row.filesize /\ item.profile = g /\ item.metadata = m
         /\ item.properties = q
  BY <1>9 DEF NoContents
<1>11. LikeMade(item, path)
  BY <1>3, <1>5, <1>8, <1>10, <1>a DEF LikeMade, made
<1> QED BY <1>11 DEF item

\* A file is given a resource that holds what has been made of it, then or before.
LEMMA MakeAdds ==
  ASSUME FilesLeadBack, NEW w, NEW d, NEW path \in DOMAIN Files, VfsOK(w, d), DbsOK(d),
         vfs_provide_next_id(w, path) # NULL,
         w.root # <<>> /\ w.db \in DOMAIN d => \A id \in {vfs_provide_next_id(w, path)} \ {NULL} :
           id \in DOMAIN d[w.db].items => d[w.db].items[id].filename = path
  PROVE  LET made == AddResource_Make(w, d, path, path)
         IN  /\ VfsOK(made.v, d)
             /\ made.new => /\ made.p \in DOMAIN made.v.mem /\ StoringOK("item", made.v.mem[made.p], made.v.db, d)
                            /\ w.root # <<>> /\ made.v.mem[made.p].id = vfs_provide_next_id(w, path)
                            /\ made.v.mem[made.p].title = path
<1> DEFINE id == vfs_provide_next_id(w, path)
           stored == dms_db_get(w, d, id)
           item == IF stored # NULL THEN stored ELSE dlna_item_new(path)
           can_add == CanAdd(w, d, id)
           read == stored = NULL
           resource == vfs_item(id, path, "RESOURCE")
           r == [resource EXCEPT !.item = item]
           a == [w EXCEPT !.mem = Append(@, r)]
           y == IF read /\ item # NULL /\ Shared(item.profile) THEN [a EXCEPT !.lpcm = item.profile] ELSE a
           made == AddResource_Make(w, d, path, path)
           Goal == /\ VfsOK(made.v, d)
                   /\ made.new => /\ made.p \in DOMAIN made.v.mem /\ StoringOK("item", made.v.mem[made.p], made.v.db, d)
                                  /\ w.root # <<>> /\ made.v.mem[made.p].id = vfs_provide_next_id(w, path)
                                  /\ made.v.mem[made.p].title = path
           gone == w.db = "closed" \/ item = CRASH \/ (item = NULL /\ w.db # NULL)
           new == read /\ item # NULL /\ can_add
<1> SUFFICES Goal
  OBVIOUS
<1>1. made = IF w.root = <<>> THEN [v |-> w, p |-> NULL, new |-> FALSE]
             ELSE IF gone THEN [v |-> Broken(w), p |-> NULL, new |-> FALSE]
             ELSE [v |-> y, p |-> Len(a.mem), new |-> new]
  BY Zenon DEF AddResource_Make, Holding
<1>i. IsVfs(w) /\ ResourcesOK(w)
  BY DEF VfsOK
<1>r. IsItem(r) /\ r.id = id /\ r.title = path /\ r.type = "RESOURCE" /\ r.item = item
  <2> HIDE DEF id, item
  <2>1. IsItem(resource) /\ resource.id = id /\ resource.title = path /\ resource.type = "RESOURCE"
    BY NewItem
  <2> HIDE DEF resource
  <2> QED BY <2>1 DEF IsItem
<1>n. new => item = dlna_item_new(path)
  OBVIOUS
<1>c. can_add => w.db # NULL /\ id \notin DOMAIN d[w.db].items
  BY DEF CanAdd
<1>l. w.root # <<>> /\ w.db \in DOMAIN d /\ stored # NULL => LikeMade(item, path)
  <2>1. id \in {vfs_provide_next_id(w, path)} \ {NULL}
    OBVIOUS
  <2> HIDE DEF id
  <2>2. ASSUME w.root # <<>>, w.db \in DOMAIN d, stored # NULL PROVE LikeMade(stored, path)
    BY <2>1, <2>2, RowIsLikeMade
  <2> QED BY <2>2
<1>g. stored # NULL => w.db # NULL
  BY DEF dms_db_get
<1>h. stored = NULL => item = dlna_item_new(path)
  OBVIOUS
<1> HIDE DEF stored, can_add, id, resource, r, item, made
<1>2. CASE w.root = <<>>
  <2>1. made = [v |-> w, p |-> NULL, new |-> FALSE]
    BY <1>1, <1>2
  <2> QED BY <2>1
<1>3. CASE w.root # <<>> /\ gone
  <2>1. made = [v |-> Broken(w), p |-> NULL, new |-> FALSE]
    BY <1>1, <1>3
  <2>2. Keeps(w, Broken(w))
    BY <1>i, BrokenKeeps
  <2>3. VfsOK(Broken(w), d)
    BY <1>i, <2>2, KeepsResources DEF VfsOK, Keeps
  <2> QED BY <2>1, <2>3
<1>4. CASE w.root # <<>> /\ ~gone
  <2>1. made = [v |-> y, p |-> Len(a.mem), new |-> new]
    BY <1>1, <1>4
  <2>2. Adds(w, a, r) /\ Len(a.mem) = Len(w.mem) + 1
    BY <1>i, <1>r, AddsOne
  <2>3. Keeps(a, y)
    <3> DEFINE x == [a EXCEPT !.lpcm = item.profile]
    <3>1. IsVfs(a)
      BY <2>2 DEF Adds
    <3> HIDE DEF a
    <3>2. Keeps(a, x) /\ Keeps(a, a)
      BY <3>1, KeepsRest, KeepsItself
    <3> QED BY <3>2
  <2> HIDE DEF a, y
  <2>4. Adds(w, y, r)
    BY <2>2, <2>3, AddsOn
  <2>5. item # NULL => LikeMade(item, path)
    <3>1. CASE stored = NULL
      <4>1. item = dlna_item_new(path)
        BY <1>h, <3>1
      <4>2. item # NULL => dlna_item_new(path).filename = path
        BY <1>4, <4>1, MadeFrom DEF Known
      <4> QED BY <4>1, <4>2 DEF LikeMade, LikeProperties
    <3>2. CASE stored # NULL
      <4>1. w.db \in DOMAIN d
        BY <1>4, <3>2, <1>g DEF VfsOK
      <4> QED BY <1>l, <1>4, <4>1, <3>2
    <3> QED BY <3>1, <3>2
  <2>6. ResourceOK(r)
    BY <1>r, <2>5 DEF ResourceOK
  <2>7. VfsOK(y, d)
    BY <1>i, <2>4, <2>6, AddsResources DEF VfsOK, Adds
  <2>8. ASSUME new
        PROVE  /\ Len(a.mem) \in DOMAIN y.mem /\ StoringOK("item", y.mem[Len(a.mem)], y.db, d)
               /\ y.mem[Len(a.mem)].id = id /\ y.mem[Len(a.mem)].title = path
    <3>1. Len(a.mem) \in DOMAIN y.mem /\ Alike(r, y.mem[Len(a.mem)]) /\ y.db = w.db
      BY <2>2, <2>4 DEF Adds
    <3>2. item = dlna_item_new(path) /\ item # NULL /\ item # CRASH /\ w.db # "closed"
      BY <1>n, <1>4, <2>8
    <3>3. w.db \in DOMAIN d /\ id \notin DOMAIN d[w.db].items
      BY <1>c, <3>2, <2>8 DEF VfsOK
    <3>4. Known(path)
      BY <3>2 DEF Known
    <3> QED BY <1>r, <3>1, <3>2, <3>3, <3>4 DEF StoringOK, Alike
  <2> HIDE DEF new
  <2> QED BY <2>1, <2>7, <2>8, <1>4 DEF id
<1> QED BY <1>2, <1>3, <1>4

\* Each of the three inserts leaves the data bases as they are to be, and the call that makes them ready for the next.
LEMMA ItemStored ==
  ASSUME NEW w, NEW d, DbsOK(d), NEW r, StoringOK("item", r, w.db, d), NEW e, e = dms_db_add_item(w, d, r.id, r.item)
  PROVE  DbsOK(e) /\ DOMAIN e = DOMAIN d /\ StoringOK("metadata", r, w.db, e)
<1> DEFINE n == w.db
           id == r.id
           row == [filename |-> r.item.filename, filesize |-> r.item.filesize % UINT32, profileid |-> ProfileId(r.item.profile)]
           t == Stored(d[n].items, id, row)
           b == [d[n] EXCEPT !.items = t]
<1>1. e = [d EXCEPT ![n] = b]
  BY DEF dms_db_add_item, ProfileId
<1>2. n \in DOMAIN d /\ id \notin DOMAIN d[n].items /\ r.title \in DOMAIN Files /\ Known(r.title) /\ r.item = dlna_item_new(r.title)
  BY DEF StoringOK
<1>3. RowOK(row) /\ row.filename = r.title
  <2>1. r.item.filename = r.title
    BY <1>2, MadeFrom
  <2>2. row.filename = r.title
    BY <2>1
  <2>3. row.filesize = dlna_item_new(r.title).filesize % UINT32 /\ row.profileid = ProfileId(dlna_item_new(r.title).profile)
    BY <1>2
  <2> HIDE DEF row
  <2> QED BY <1>2, <2>2, <2>3 DEF RowOK
<1> HIDE DEF row
<1>4. DOMAIN t = DOMAIN d[n].items \cup {id} /\ (\A i \in DOMAIN d[n].items : t[i] = d[n].items[i]) /\ t[id] = row
  <2> DEFINE rows == d[n].items
  <2>1. t = Stored(rows, id, row)
    OBVIOUS
  <2> HIDE DEF t, rows, id, row
  <2>2. DOMAIN t = DOMAIN rows \cup {id} /\ (\A i \in DOMAIN rows : t[i] = rows[i]) /\ (id \notin DOMAIN rows => t[id] = row)
    BY <2>1 DEF Stored
  <2> QED BY <1>2, <2>2 DEF rows
<1> HIDE DEF t
<1>5. DbOK(d[n])
  BY <1>2 DEF DbsOK
<1>6. b = [tables |-> b.tables, items |-> b.items, metadata |-> b.metadata, properties |-> b.properties]
        /\ b.items = t /\ b.metadata = d[n].metadata /\ b.properties = d[n].properties
  BY <1>5 DEF DbOK
<1> HIDE DEF b, n, id
<1>7. DbOK(b)
  <2>1. \A i \in DOMAIN t : RowOK(t[i])
    BY <1>3, <1>4, <1>5 DEF DbOK
  <2>2. \A i \in DOMAIN b.metadata : i \in DOMAIN t /\ b.metadata[i] = dlna_item_new(t[i].filename).metadata
    BY <1>4, <1>5, <1>6 DEF DbOK
  <2>3. \A i \in DOMAIN b.properties : i \in DOMAIN t /\ StoredOf(b.properties[i], dlna_item_new(t[i].filename))
    BY <1>4, <1>5, <1>6 DEF DbOK
  <2> QED BY <1>6, <2>1, <2>2, <2>3 DEF DbOK
<1>8. DOMAIN e = DOMAIN d /\ e[n] = b /\ \A m \in DOMAIN d : m # n => e[m] = d[m]
  BY <1>1, <1>2
<1>9. DbsOK(e)
  BY <1>7, <1>8 DEF DbsOK
<1>10. StoringOK("metadata", r, n, e)
  BY <1>2, <1>3, <1>4, <1>6, <1>8 DEF StoringOK, id
<1> QED BY <1>8, <1>9, <1>10 DEF n

LEMMA MetadataStored ==
  ASSUME NEW w, NEW d, DbsOK(d), NEW r, StoringOK("metadata", r, w.db, d), NEW e, e = dms_db_add_metadata(w, d, r.id, r.item)
  PROVE  DbsOK(e) /\ DOMAIN e = DOMAIN d /\ StoringOK("properties", r, w.db, e)
<1> DEFINE n == w.db
           id == r.id
           row == r.item.metadata
           t == Stored(d[n].metadata, id, row)
           b == [d[n] EXCEPT !.metadata = t]
<1>1. e \in {d, [d EXCEPT ![n] = b]}
  BY DEF dms_db_add_metadata
<1>2. n \in DOMAIN d /\ id \in DOMAIN d[n].items /\ d[n].items[id].filename = r.title /\ r.item = dlna_item_new(r.title)
  BY DEF StoringOK
<1>3. row = dlna_item_new(d[n].items[id].filename).metadata
  BY <1>2
<1> HIDE DEF row
<1>4. DOMAIN t = DOMAIN d[n].metadata \cup {id} /\ (\A i \in DOMAIN d[n].metadata : t[i] = d[n].metadata[i])
        /\ (id \notin DOMAIN d[n].metadata => t[id] = row)
  <2> DEFINE rows == d[n].metadata
  <2>1. t = Stored(rows, id, row)
    OBVIOUS
  <2> HIDE DEF t, rows, id, row
  <2>2. DOMAIN t = DOMAIN rows \cup {id} /\ (\A i \in DOMAIN rows : t[i] = rows[i]) /\ (id \notin DOMAIN rows => t[id] = row)
    BY <2>1 DEF Stored
  <2> QED BY <2>2 DEF rows
<1> HIDE DEF t
<1>5. DbOK(d[n])
  BY <1>2 DEF DbsOK
<1>6. b = [tables |-> b.tables, items |-> b.items, metadata |-> b.metadata, properties |-> b.properties]
        /\ b.items = d[n].items /\ b.metadata = t /\ b.properties = d[n].properties
  BY <1>5 DEF DbOK
<1> HIDE DEF b, n, id
<1>7. DbOK(b)
  <2>1. \A i \in DOMAIN t : i \in DOMAIN b.items /\ t[i] = dlna_item_new(b.items[i].filename).metadata
    BY <1>2, <1>3, <1>4, <1>5, <1>6 DEF DbOK
  <2> QED BY <1>5, <1>6, <2>1 DEF DbOK
<1>8. DOMAIN e = DOMAIN d /\ e[n] \in {d[n], b} /\ \A m \in DOMAIN d : m # n => e[m] = d[m]
  BY <1>1, <1>2
<1>9. DbsOK(e)
  BY <1>7, <1>8 DEF DbsOK
<1>10. StoringOK("properties", r, n, e)
  <2>1. e[n].items = d[n].items
    BY <1>6, <1>8
  <2>2. StoringOK("metadata", r, n, d)
    BY DEF n
  <2> QED BY <1>8, <2>1, <2>2 DEF StoringOK
<1> QED BY <1>8, <1>9, <1>10 DEF n

LEMMA PropertiesStored ==
  ASSUME NEW w, NEW d, DbsOK(d), NEW r, StoringOK("properties", r, w.db, d), NEW e,
         e = dms_db_add_properties(w, d, r.id, r.item)
  PROVE  DbsOK(e) /\ DOMAIN e = DOMAIN d
<1> DEFINE n == w.db
           id == r.id
           row == FitColumns(r.item.properties)
           t == Stored(d[n].properties, id, row)
           b == [d[n] EXCEPT !.properties = t]
<1>1. e = d \/ (r.item.metadata # NULL /\ e = [d EXCEPT ![n] = b])
  BY DEF dms_db_add_properties
<1>2. n \in DOMAIN d /\ id \in DOMAIN d[n].items /\ d[n].items[id].filename = r.title /\ r.item = dlna_item_new(r.title)
  BY DEF StoringOK
<1>3. r.item.metadata # NULL => StoredOf(row, dlna_item_new(d[n].items[id].filename))
  BY <1>2 DEF StoredOf
<1> HIDE DEF row
<1>4. DOMAIN t = DOMAIN d[n].properties \cup {id} /\ (\A i \in DOMAIN d[n].properties : t[i] = d[n].properties[i])
        /\ (id \notin DOMAIN d[n].properties => t[id] = row)
  <2> DEFINE rows == d[n].properties
  <2>1. t = Stored(rows, id, row)
    OBVIOUS
  <2> HIDE DEF t, rows, id, row
  <2>2. DOMAIN t = DOMAIN rows \cup {id} /\ (\A i \in DOMAIN rows : t[i] = rows[i]) /\ (id \notin DOMAIN rows => t[id] = row)
    BY <2>1 DEF Stored
  <2> QED BY <2>2 DEF rows
<1> HIDE DEF t
<1>5. DbOK(d[n])
  BY <1>2 DEF DbsOK
<1>6. b = [tables |-> b.tables, items |-> b.items, metadata |-> b.metadata, properties |-> b.properties]
        /\ b.items = d[n].items /\ b.metadata = d[n].metadata /\ b.properties = t
  BY <1>5 DEF DbOK
<1> HIDE DEF b, n, id
<1>7. r.item.metadata # NULL => DbOK(b)
  <2> SUFFICES ASSUME r.item.metadata # NULL PROVE DbOK(b)
    OBVIOUS
  <2>1. \A i \in DOMAIN t : i \in DOMAIN b.items /\ StoredOf(t[i], dlna_item_new(b.items[i].filename))
    BY <1>2, <1>3, <1>4, <1>5, <1>6 DEF DbOK
  <2> QED BY <1>5, <1>6, <2>1 DEF DbOK
<1>8. DOMAIN e = DOMAIN d /\ (e[n] = d[n] \/ (r.item.metadata # NULL /\ e[n] = b)) /\ \A m \in DOMAIN d : m # n => e[m] = d[m]
  BY <1>1, <1>2
<1> QED BY <1>7, <1>8 DEF DbsOK

-----------------------------------------------------------------------------
(* What the steps do to the file system. *)

\* A request leaves the file system as it is, but for a process it breaks down.
LEMMA RequestsKeep ==
  ASSUME NEW c \in ControlPoints, Works(c)
  PROVE  v' \in {v, Broken(v)} /\ UNCHANGED <<dbs, lives, owner>>
<1>b. Breaks => v' = Broken(v)
  BY DEF Breaks
<1> DEFINE Goal == v' \in {v, Broken(v)}
<1>1. CASE AvtsStep(c)
  <2> SUFFICES Goal
    BY DEF Works
  <2>1. CASE avts_set_thread(c) \/ CreateThread(c) \/ Joined(c)
    BY <2>1 DEF avts_set_thread, CreateThread, Joined
  <2>2. CASE avts_set_uri(c)
    BY <2>2, <1>b DEF avts_set_uri
  <2>3. CASE avts_set_next_uri(c)
    BY <2>3, <1>b DEF avts_set_next_uri, InvalidInstance
  <2>4. CASE avts_play(c) \/ avts_pause(c) \/ avts_next(c)
    BY <2>4 DEF avts_play, avts_pause, avts_next, Turns, InvalidInstance
  <2>5. CASE avts_stop(c)
    BY <2>5, <1>b DEF avts_stop, InvalidInstance
  <2>6. CASE avts_get_minfo(c) \/ avts_get_minfo_ext(c) \/ avts_get_info(c) \/ avts_get_pos_info(c)
    BY <2>6, <1>b DEF avts_get_minfo, avts_get_minfo_ext, avts_get_info, avts_get_pos_info, Report, InvalidInstance
  <2>7. CASE avts_get_dev_caps(c) \/ avts_get_settings(c) \/ avts_previous(c)
    BY <2>7, <1>b DEF avts_get_dev_caps, avts_get_settings, avts_previous, Report, InvalidInstance
  <2> QED BY <1>1, <2>1, <2>2, <2>3, <2>4, <2>5, <2>6, <2>7 DEF AvtsStep, Works
<1>2. CASE RunAction(c) \/ BrowseMetadata(c) \/ BrowseChildren(c) \/ BrowseCounts(c)
  <2>1. v' \in {v, Broken(v)}
    BY <1>2, <1>b DEF RunAction, BrowseMetadata, BrowseChildren, BrowseCounts
  <2> QED BY <2>1 DEF Works
<1>3. CASE BrowseFind(c)
  <2>1. PICK asked, p : IF asked.code # 0 THEN job' = AnsweredWith(c, 0, Fails(asked.code)) /\ UNCHANGED v
       ELSE IF p = NULL \/ (~asked.meta /\ v.mem[p].type # "CONTAINER") THEN v' = Broken(v) /\ UNCHANGED job
       ELSE job' = [job EXCEPT ![c].at = IF asked.meta THEN "metadata" ELSE "children", ![c].p = p] /\ UNCHANGED v
    BY <1>3 DEF BrowseFind
  <2>2. v' \in {v, Broken(v)}
    BY <2>1
  <2> QED BY <2>2 DEF Works
<1> QED BY <1>1, <1>2, <1>3 DEF Works

LEMMA ControlPointsKeep ==
  ASSUME NEW c \in ControlPoints, ControlPoint(c)
  PROVE  v' \in {v, Broken(v)} /\ UNCHANGED <<dbs, lives, owner>>
<1>1. CASE Send(c)
  <2>1. v' \in {v, Broken(v)}
    BY <1>1 DEF Send
  <2> QED BY <1>1, <2>1 DEF Send
<1>2. CASE Receive(c) \/ Subscribe(c) \/ GetInfo(c)
  BY <1>2 DEF Receive, Subscribe, GetInfo
<1> QED BY <1>1, <1>2 DEF ControlPoint

LEMMA BrokenItself ==
  ASSUME NEW w, IsVfs(w)
  PROVE  Broken(w).mem = w.mem /\ Broken(w).db = w.db
BY DEF Broken, IsVfs

LEMMA VfsKept ==
  ASSUME NEW w, NEW x, NEW d, NEW e, VfsOK(w, d), Keeps(w, x), DOMAIN e = DOMAIN d
  PROVE  VfsOK(x, e)
BY KeepsResources DEF VfsOK, Keeps

LEMMA BrokenStays ==
  ASSUME RestoreInv, v' \in {v, Broken(v)}, UNCHANGED <<dbs, lives, owner>>
  PROVE  RestoreInv'
<1>1. Keeps(v, v') /\ v'.mem = v.mem /\ v'.db = v.db
  BY KeepsItself, BrokenKeeps, BrokenItself DEF RestoreInv, VfsOK
<1>2. VfsOK(v', dbs')
  BY <1>1, VfsKept DEF RestoreInv
<1>3. OwnerOK(owner', v', dbs')
  BY <1>1 DEF RestoreInv, OwnerOK
<1> QED BY <1>2, <1>3 DEF RestoreInv

\* The calls yet to be made are those of the scenarios.
LEMMA CallsLeft ==
  ASSUME NEW Values, NEW s \in Seq(Seq(Values)), s # <<>>
  PROVE  /\ Tail(s) \in Seq(Seq(Values)) /\ Head(s) \in Seq(Values)
         /\ Head(s) # <<>> => Head(Head(s)) \in Values /\ <<Tail(Head(s))>> \o Tail(s) \in Seq(Seq(Values))
<1>1. Tail(s) \in Seq(Seq(Values)) /\ Head(s) \in Seq(Values)
  BY HeadTailProperties
<1>2. ASSUME Head(s) # <<>> PROVE Head(Head(s)) \in Values /\ <<Tail(Head(s))>> \o Tail(s) \in Seq(Seq(Values))
  <2>1. Head(Head(s)) \in Values /\ Tail(Head(s)) \in Seq(Values)
    BY <1>1, <1>2, HeadTailProperties
  <2>2. <<Tail(Head(s))>> \in Seq(Seq(Values))
    BY <2>1
  <2> QED BY <1>1, <2>1, <2>2, ConcatProperties
<1> QED BY <1>1, <1>2

\* A call that returns, and one that has more steps to take.
LEMMA CallReturns ==
  ASSUME RestoreInv, VfsOK(v', dbs'), DbsOK(dbs'), lives # <<>>, Head(lives) # <<>>, Returns, owner' = NULL
  PROVE  RestoreInv'
<1>1. lives' \in Seq(Seq(OwnerCalls))
  BY CallsLeft DEF RestoreInv, Returns
<1>2. OwnerOK(owner', v', dbs')
  BY DEF OwnerOK
<1> QED BY <1>1, <1>2 DEF RestoreInv

LEMMA CallGoesOn ==
  ASSUME RestoreInv, VfsOK(v', dbs'), DbsOK(dbs'), lives # <<>>, Head(lives) # <<>>, UNCHANGED lives,
         OwnerOK(owner', v', dbs')
  PROVE  RestoreInv'
BY DEF RestoreInv

LEMMA OwnerKeeps ==
  ASSUME FilesLeadBack, RestoreInv, OwnRow, Owner
  PROVE  RestoreInv'
<1> DEFINE Goal == RestoreInv'
<1> SUFFICES Goal
  OBVIOUS
<1>v. VfsOK(v, dbs) /\ DbsOK(dbs) /\ IsVfs(v) /\ ResourcesOK(v)
  BY DEF RestoreInv, VfsOK
<1>k. ASSUME Keeps(v, v') PROVE VfsOK(v', dbs)
  BY <1>k, <1>v, VfsKept
<1>a. ASSUME NEW id, NEW name, Adds(v, v', vfs_item(id, name, "CONTAINER")) PROVE VfsOK(v', dbs)
  <2>1. ResourceOK(vfs_item(id, name, "CONTAINER"))
    BY NewItem DEF ResourceOK
  <2>2. ResourcesOK(v')
    BY <1>a, <1>v, <2>1, AddsResources
  <2> QED BY <1>a, <2>2, <1>v DEF Adds, VfsOK
<1>c. ASSUME NEW name, Calls(name) PROVE lives # <<>> /\ Head(lives) # <<>> /\ owner = NULL
  BY <1>c DEF Calls
<1>i. ASSUME NEW at, InCall(at) PROVE lives # <<>> /\ Head(lives) # <<>> /\ owner # NULL /\ owner.at = at
  BY <1>i DEF InCall, RestoreInv
<1>r. ASSUME VfsOK(v', dbs), dbs' = dbs, lives # <<>>, Head(lives) # <<>>, Returns, owner' = NULL PROVE Goal
  BY <1>r, <1>v, CallReturns
<1>g. ASSUME VfsOK(v', dbs), dbs' = dbs, lives # <<>>, Head(lives) # <<>>, UNCHANGED lives,
             "at" \in DOMAIN owner', owner'.at \notin Storing
      PROVE  Goal
  <2>1. OwnerOK(owner', v', dbs')
    BY <1>g DEF OwnerOK
  <2> QED BY <1>g, <1>v, <2>1, CallGoesOn
<1> HIDE DEF Goal
<1>1. CASE dlna_init
  <2>1. v' = dlna_vfs_add_container(NoVfs, "root", 0, 0).v /\ dbs' = dbs /\ owner' = owner /\ Returns /\ Calls("dlna_init")
    BY <1>1 DEF dlna_init
  <2>2. IsVfs(NoVfs) /\ ResourcesOK(NoVfs) /\ NoVfs.db = NULL
    BY EmptySequence DEF NoVfs, IsVfs, ResourcesOK
  <2>3. PICK id : Adds(NoVfs, v', vfs_item(id, "root", "CONTAINER"))
    <3> DEFINE new == NoVfs
    <3>1. IsVfs(new)
      BY <2>2
    <3> HIDE DEF new
    <3>2. \E id : Adds(new, dlna_vfs_add_container(new, "root", 0, 0).v, vfs_item(id, "root", "CONTAINER"))
      BY <3>1, ContainerAdds
    <3> QED BY <2>1, <3>2 DEF new
  <2>4. ResourceOK(vfs_item(id, "root", "CONTAINER"))
    BY NewItem DEF ResourceOK
  <2>5. ResourcesOK(v')
    BY <2>2, <2>3, <2>4, AddsResources
  <2>6. VfsOK(v', dbs)
    BY <2>2, <2>3, <2>5 DEF Adds, VfsOK
  <2> QED BY <2>1, <2>6, <1>c, <1>r
<1>2. CASE dlna_set_capability_mode
  <2>1. v' = [v EXCEPT !.mode = Call.mode] /\ dbs' = dbs /\ owner' = owner /\ Returns /\ Calls("mode")
    BY <1>2 DEF dlna_set_capability_mode
  <2>2. Keeps(v, v')
    <3> DEFINE a == Call.mode
    <3>1. v' = [v EXCEPT !.mode = a]
      BY <2>1
    <3> HIDE DEF a
    <3> QED BY <3>1, <1>v, KeepsRest
  <2> QED BY <2>1, <2>2, <1>k, <1>c, <1>r
<1>3. CASE Sets
  <2>1. v' = v /\ dbs' = dbs /\ owner' = owner /\ Returns /\ Calls("set")
    BY <1>3 DEF Sets
  <2> QED BY <2>1, <1>v, <1>c, <1>r
<1>4. CASE dlna_dms_set_vfs_storage_type
  <2> DEFINE n == v'.db
             b == dms_db_create(dbs[n])
  <2>1. /\ v' = dms_db_open(v, dbs, Call.data) /\ owner' = owner /\ Returns /\ Calls("storage")
        /\ dbs' \in {dbs, [dbs EXCEPT ![n] = b]}
    BY <1>4 DEF dlna_dms_set_vfs_storage_type
  <2>2. IsVfs(v') /\ v'.mem = v.mem /\ v'.db \in {v.db} \cup DOMAIN dbs
    <3> DEFINE name == Call.data
    <3>1. v' = dms_db_open(v, dbs, name)
      BY <2>1
    <3> HIDE DEF name
    <3> QED BY <3>1, <1>v, OpenKeeps
  <2>3. n \in DOMAIN dbs => DbOK(b)
    <3>1. ASSUME NEW db, DbOK(db) PROVE DbOK(dms_db_create(db))
      <4> DEFINE x == dms_db_create(db)
      <4>1. /\ x = [tables |-> x.tables, items |-> x.items, metadata |-> x.metadata, properties |-> x.properties]
            /\ x.items = db.items /\ x.metadata = db.metadata /\ x.properties = db.properties
        <5>1. db = [tables |-> db.tables, items |-> db.items, metadata |-> db.metadata, properties |-> db.properties]
          BY <3>1 DEF DbOK
        <5>2. x = [db EXCEPT !.tables = TRUE]
          BY DEF dms_db_create
        <5> HIDE DEF x
        <5> QED BY <5>1, <5>2
      <4> HIDE DEF x
      <4>2. DbOK(x)
        BY <3>1, <4>1 DEF DbOK
      <4> QED BY <4>2 DEF x
    <3> QED BY <3>1, <1>v DEF DbsOK
  <2> HIDE DEF n, b
  <2>4. DbsOK(dbs') /\ DOMAIN dbs' = DOMAIN dbs
    BY <2>1, <2>3, <1>v DEF DbsOK
  <2>5. VfsOK(v', dbs')
    BY <2>2, <2>4, <1>v DEF VfsOK, ResourcesOK
  <2> QED BY <2>1, <2>4, <2>5, <1>c, CallReturns DEF Goal
<1>5. CASE AddContainer
  <2>1. v' = dlna_vfs_add_container(v, Call.name, Call.id, Call.parent).v /\ dbs' = dbs /\ owner' = owner /\ Returns
          /\ Calls("container")
    BY <1>5 DEF AddContainer
  <2>2. \E id, name : Adds(v, v', vfs_item(id, name, "CONTAINER"))
    <3> DEFINE name == Call.name
               object_id == Call.id
               container_id == Call.parent
    <3>1. v' = dlna_vfs_add_container(v, name, object_id, container_id).v
      BY <2>1
    <3> HIDE DEF name, object_id, container_id
    <3>2. \E id : Adds(v, dlna_vfs_add_container(v, name, object_id, container_id).v, vfs_item(id, name, "CONTAINER"))
      BY <1>v, ContainerAdds
    <3> QED BY <3>1, <3>2
  <2> QED BY <2>1, <2>2, <1>a, <1>c, <1>r
<1>6. CASE MakeResource
  <2> DEFINE path == Call.path
             made == AddResource_Make(v, dbs, path, path)
  <2>1. Calls("resource") /\ dbs' = dbs /\ vfs_provide_next_id(v, path) # NULL
    BY <1>6 DEF MakeResource
  <2>2. Call.name = path /\ path \in DOMAIN Files
    <3>1. Call \in OwnerCalls
      BY <2>1, <1>c, CallsLeft DEF RestoreInv, Call
    <3> QED BY <2>1, <3>1 DEF Calls, OwnerCalls
  <2>3. /\ v' = made.v
        /\ IF made.p = NULL THEN Returns /\ UNCHANGED owner
           ELSE owner' = [at |-> IF made.new THEN "item" ELSE "publish", p |-> made.p] /\ UNCHANGED lives
    BY <1>6, <2>2 DEF MakeResource
  <2>4. v.root # <<>> /\ v.db \in DOMAIN dbs => \A id \in {vfs_provide_next_id(v, path)} \ {NULL} :
          id \in DOMAIN dbs[v.db].items => dbs[v.db].items[id].filename = path
    BY <2>1 DEF OwnRow
  <2> HIDE DEF path, made
  <2>5. VfsOK(v', dbs)
          /\ (made.new => made.p \in DOMAIN v'.mem /\ StoringOK("item", v'.mem[made.p], v'.db, dbs))
    BY <2>1, <2>2, <2>3, <2>4, <1>v, MakeAdds DEF made
  <2>6. CASE made.p = NULL
    BY <2>1, <2>3, <2>5, <2>6, <1>c, <1>r
  <2>7. CASE made.p # NULL /\ made.new
    <3> DEFINE o == [at |-> "item", p |-> made.p]
    <3>1. owner' = o /\ UNCHANGED lives
      BY <2>3, <2>7
    <3>2. OwnerOK(o, v', dbs')
      BY <2>1, <2>5, <2>7 DEF OwnerOK
    <3> QED BY <2>1, <2>5, <3>1, <3>2, <1>v, <1>c, CallGoesOn DEF Goal
  <2>8. CASE made.p # NULL /\ ~made.new
    <3>1. owner' = [at |-> "publish", p |-> made.p] /\ UNCHANGED lives
      BY <2>3, <2>8
    <3>2. "at" \in DOMAIN owner' /\ owner'.at \notin Storing
      BY <3>1 DEF Storing
    <3> QED BY <2>1, <2>5, <3>1, <3>2, <1>c, <1>g
  <2> QED BY <2>6, <2>7, <2>8
<1>s. ASSUME NEW at \in Storing, NEW next, NEW e, Stores(at, next, e),
             LET r == v.mem[owner.p]
             IN  StoringOK(at, r, v.db, dbs) =>
                   DbsOK(e) /\ DOMAIN e = DOMAIN dbs /\ (next \in Storing => StoringOK(next, r, v.db, e))
      PROVE  Goal
  <2>1. v' = v /\ dbs' = e /\ owner' = [owner EXCEPT !.at = next] /\ UNCHANGED lives /\ InCall(at)
    BY <1>s DEF Stores
  <2>2. owner = [at |-> owner.at, p |-> owner.p] /\ owner.p \in DOMAIN v.mem /\ StoringOK(at, v.mem[owner.p], v.db, dbs)
    BY <2>1, <1>i DEF RestoreInv, OwnerOK
  <2>3. DbsOK(e) /\ DOMAIN e = DOMAIN dbs /\ (next \in Storing => StoringOK(next, v.mem[owner.p], v.db, e))
    BY <1>s, <2>2
  <2>4. owner' = [at |-> next, p |-> owner.p]
    BY <2>1, <2>2
  <2>5. OwnerOK(owner', v', dbs')
    BY <2>1, <2>2, <2>3, <2>4 DEF OwnerOK
  <2>6. VfsOK(v', dbs')
    BY <2>1, <2>3, <1>v DEF VfsOK
  <2> QED BY <2>1, <2>3, <2>5, <2>6, <1>i, CallGoesOn DEF Goal
<1>7. CASE StoreItem
  <2> DEFINE r == v.mem[owner.p]
             e == dms_db_add_item(v, dbs, r.id, r.item)
  <2>1. Stores("item", "metadata", e)
    BY <1>7 DEF StoreItem
  <2>2. StoringOK("item", r, v.db, dbs) => DbsOK(e) /\ DOMAIN e = DOMAIN dbs /\ StoringOK("metadata", r, v.db, e)
    BY <1>v, ItemStored
  <2> HIDE DEF e
  <2> QED BY <2>1, <2>2, <1>s DEF Storing
<1>8. CASE StoreMetadata
  <2> DEFINE r == v.mem[owner.p]
             e == dms_db_add_metadata(v, dbs, r.id, r.item)
  <2>1. Stores("metadata", "properties", e)
    BY <1>8 DEF StoreMetadata
  <2>2. StoringOK("metadata", r, v.db, dbs) => DbsOK(e) /\ DOMAIN e = DOMAIN dbs /\ StoringOK("properties", r, v.db, e)
    BY <1>v, MetadataStored
  <2> HIDE DEF e
  <2> QED BY <2>1, <2>2, <1>s DEF Storing
<1>9. CASE StoreProperties
  <2> DEFINE r == v.mem[owner.p]
             e == dms_db_add_properties(v, dbs, r.id, r.item)
  <2>1. Stores("properties", "publish", e)
    BY <1>9 DEF StoreProperties
  <2>2. StoringOK("properties", r, v.db, dbs) => DbsOK(e) /\ DOMAIN e = DOMAIN dbs
    BY <1>v, PropertiesStored
  <2> HIDE DEF e
  <2> QED BY <2>1, <2>2, <1>s DEF Storing
<1>10. CASE PublishResource
  <2>1. /\ v' = AddResource_Publish(v, owner.p, Call.parent) /\ dbs' = dbs /\ InCall("publish")
        /\ \/ Returns /\ owner' = NULL
           \/ owner' = [owner EXCEPT !.at = "link"] /\ UNCHANGED lives
    BY <1>10 DEF PublishResource
  <2>2. Keeps(v, v')
    <3> DEFINE p == owner.p
               container_id == Call.parent
    <3>1. v' = AddResource_Publish(v, p, container_id)
      BY <2>1
    <3> HIDE DEF p, container_id
    <3> QED BY <3>1, <1>v, PublishKeeps
  <2>3. CASE Returns /\ owner' = NULL
    BY <2>1, <2>2, <2>3, <1>i, <1>k, <1>r
  <2>4. CASE owner' = [owner EXCEPT !.at = "link"] /\ UNCHANGED lives
    <3>1. "at" \in DOMAIN owner
      BY <2>1, <1>i DEF RestoreInv, OwnerOK
    <3>2. "at" \in DOMAIN owner' /\ owner'.at \notin Storing
      BY <2>4, <3>1 DEF Storing
    <3> QED BY <2>1, <2>2, <2>4, <3>2, <1>i, <1>k, <1>g
  <2> QED BY <2>1, <2>3, <2>4
<1>11. CASE LinkResource
  <2>1. v' = AddResource_Link(v, owner.p) /\ dbs' = dbs /\ InCall("link") /\ Returns /\ owner' = NULL
    BY <1>11 DEF LinkResource
  <2>2. Keeps(v, v')
    <3> DEFINE p == owner.p
               parent == v.mem[p].parent
    <3>1. v' = vfs_item_add_child(v, parent, p)
      BY <2>1 DEF AddResource_Link
    <3> HIDE DEF p, parent
    <3> QED BY <3>1, <1>v, AddChildKeeps
  <2> QED BY <2>1, <2>2, <1>i, <1>k, <1>r
<1>12. CASE RemoveItem
  <2>1. dbs' = dbs /\ owner' = owner /\ Returns /\ Calls("remove")
    BY <1>12 DEF RemoveItem
  <2>2. \E p : v' = Removed(v, p)
    BY <1>12 DEF RemoveItem, dlna_vfs_remove_item_by_id, dlna_vfs_remove_item_by_title
  <2>3. Keeps(v, v')
    BY <2>2, <1>v, RemovedKeeps
  <2> QED BY <2>1, <2>3, <1>c, <1>k, <1>r
<1>13. CASE dlna_dms_init \/ dlna_dmr_init
  <2>1. /\ v' = v /\ dbs' = dbs /\ UNCHANGED lives /\ (Calls("dms_init") \/ Calls("dmr_init"))
        /\ \E dms \in BOOLEAN : owner' = [at |-> "upnp_init", dms |-> dms]
    BY <1>13 DEF dlna_dms_init, dlna_dmr_init
  <2>2. "at" \in DOMAIN owner' /\ owner'.at \notin Storing
    BY <2>1 DEF Storing
  <2>3. lives # <<>> /\ Head(lives) # <<>>
    BY <2>1, <1>c
  <2> QED BY <2>1, <2>2, <2>3, <1>v, <1>g
<1>14. CASE upnp_init
  <2>1. /\ v' = v /\ dbs' = dbs /\ InCall("upnp_init")
        /\ \/ owner' = NULL /\ Returns
           \/ UNCHANGED lives /\ \E x : owner' = [at |-> "unregister", description |-> x]
    BY <1>14 DEF upnp_init
  <2>2. CASE owner' = NULL /\ Returns
    BY <2>1, <2>2, <1>i, <1>v, <1>r
  <2>3. CASE UNCHANGED lives /\ \E x : owner' = [at |-> "unregister", description |-> x]
    <3>1. "at" \in DOMAIN owner' /\ owner'.at \notin Storing
      BY <2>3 DEF Storing
    <3> QED BY <2>1, <2>3, <3>1, <1>i, <1>v, <1>g
  <2> QED BY <2>1, <2>2, <2>3
<1>15. CASE Unregister
  <2>1. v' = v /\ dbs' = dbs /\ InCall("unregister") /\ owner' = [owner EXCEPT !.at = "register"] /\ UNCHANGED lives
    BY <1>15 DEF Unregister
  <2>2. "at" \in DOMAIN owner
    BY <2>1, <1>i DEF RestoreInv, OwnerOK
  <2>3. "at" \in DOMAIN owner' /\ owner'.at \notin Storing
    BY <2>1, <2>2 DEF Storing
  <2> QED BY <2>1, <2>3, <1>i, <1>v, <1>g
<1>16. CASE RegisterAgain
  <2>1. v' = v /\ dbs' = dbs /\ InCall("register") /\ owner' = NULL /\ Returns
    BY <1>16 DEF RegisterAgain
  <2> QED BY <2>1, <1>i, <1>v, <1>r
<1>17. CASE dlna_dms_uninit
  <2>1. /\ v' \in {dms_db_close(v), v} /\ dbs' = dbs /\ UNCHANGED lives /\ (Calls("dms_uninit") \/ Calls("dmr_uninit"))
        /\ owner' = [at |-> "finish"]
    BY <1>17 DEF dlna_dms_uninit
  <2>2. VfsOK(v', dbs)
    <3>1. IsVfs(v') /\ v'.mem = v.mem /\ v'.db \in {v.db, "closed"}
      BY <2>1, <1>v, CloseKeeps
    <3> QED BY <3>1, <1>v DEF VfsOK, ResourcesOK
  <2>3. "at" \in DOMAIN owner' /\ owner'.at \notin Storing
    BY <2>1 DEF Storing
  <2>4. lives # <<>> /\ Head(lives) # <<>>
    BY <2>1, <1>c
  <2> QED BY <2>1, <2>2, <2>3, <2>4, <1>g
<1>18. CASE upnp_uninit
  <2>1. v' = v /\ dbs' = dbs /\ InCall("finish") /\ owner' = NULL /\ Returns
    BY <1>18 DEF upnp_uninit
  <2> QED BY <2>1, <1>i, <1>v, <1>r
<1>19. CASE dlna_uninit
  <2>1. v' = vfs_item_free(v, Head(v.root)) /\ dbs' = dbs /\ owner' = owner /\ Returns /\ Calls("dlna_uninit")
    BY <1>19 DEF dlna_uninit
  <2>2. Keeps(v, v')
    <3> DEFINE p == Head(v.root)
    <3>1. v' = vfs_item_free(v, p)
      BY <2>1
    <3> HIDE DEF p
    <3> QED BY <3>1, <1>v, FreeKeeps
  <2> QED BY <2>1, <2>2, <1>c, <1>k, <1>r
<1> QED BY <1>1, <1>2, <1>3, <1>4, <1>5, <1>6, <1>7, <1>8, <1>9, <1>10, <1>11, <1>12, <1>13, <1>14, <1>15, <1>16,
           <1>17, <1>18, <1>19 DEF Owner

LEMMA EndKeeps ==
  ASSUME RestoreInv, Ends
  PROVE  RestoreInv'
<1>1. v' = NoVfs /\ dbs' = dbs /\ owner' = NULL /\ lives' = Tail(lives) /\ Len(lives) > 1
  BY DEF Ends
<1>2. VfsOK(v', dbs')
  <2>1. IsVfs(NoVfs) /\ ResourcesOK(NoVfs) /\ NoVfs.db = NULL
    BY EmptySequence DEF NoVfs, IsVfs, ResourcesOK
  <2> QED BY <1>1, <2>1 DEF VfsOK
<1>3. lives' \in Seq(Seq(OwnerCalls))
  <2>1. lives # <<>>
    BY <1>1
  <2> QED BY <1>1, <2>1, CallsLeft DEF RestoreInv
<1> QED BY <1>1, <1>2, <1>3 DEF RestoreInv, OwnerOK

LEMMA RestoreKept ==
  ASSUME FilesLeadBack, RestoreInv, OwnRow, [Next]_vars
  PROVE  RestoreInv'
<1>1. CASE Owner
  BY <1>1, OwnerKeeps
<1>2. CASE Ends
  BY <1>2, EndKeeps
<1>3. ASSUME NEW c \in ControlPoints, Works(c) PROVE RestoreInv'
  BY <1>3, RequestsKeep, BrokenStays
<1>4. ASSUME NEW c \in ControlPoints, ControlPoint(c) PROVE RestoreInv'
  BY <1>4, ControlPointsKeep, BrokenStays
<1>5. ASSUME NEW p \in DOMAIN dmp, Player(p) PROVE RestoreInv'
  <2>1. v' = v /\ UNCHANGED <<dbs, lives, owner>>
    BY <1>5 DEF Player, avts_thread_play, ThreadStart, ThreadLook, ThreadFrame, ThreadSleep
  <2> QED BY <2>1, BrokenStays
<1>6. CASE UNCHANGED vars
  <2>1. v' = v /\ UNCHANGED <<dbs, lives, owner>>
    BY <1>6 DEF vars
  <2> QED BY <2>1, BrokenStays
<1> QED BY <1>1, <1>2, <1>3, <1>4, <1>5, <1>6 DEF Next

LEMMA RestoredFrom ==
  ASSUME RestoreInv
  PROVE  RestoredAsKept
<1>1. ASSUME NEW p \in DOMAIN v.mem, v.mem[p].type = "RESOURCE", v.mem[p].item # NULL
      PROVE  \A made \in {Made[v.mem[p].title]} :
               /\ v.mem[p].item.filename = made.filename /\ v.mem[p].item.filesize = made.filesize
               /\ v.mem[p].item.profile = made.profile
               /\ v.mem[p].item.metadata \in {NULL, made.metadata} /\ LikeProperties(v.mem[p].item.properties, made)
  <2>1. v.mem[p].title \in DOMAIN Files /\ LikeMade(v.mem[p].item, v.mem[p].title)
    BY <1>1 DEF RestoreInv, VfsOK, ResourcesOK, ResourceOK
  <2>2. Made[v.mem[p].title] = dlna_item_new(v.mem[p].title)
    BY <2>1 DEF Made
  <2> QED BY <2>1, <2>2 DEF LikeMade
<1> QED BY <1>1 DEF RestoredAsKept, LikeProperties

LEMMA InitRestored ==
  ASSUME CalledByPath, DatabasesAsMade, Init
  PROVE  RestoreInv
<1>1. IsVfs(NoVfs) /\ ResourcesOK(NoVfs) /\ NoVfs.db = NULL
  BY EmptySequence DEF NoVfs, IsVfs, ResourcesOK
<1> QED BY <1>1 DEF Init, RestoreInv, VfsOK, OwnerOK, CalledByPath, DatabasesAsMade

\* A resource is that of its own file, whether it has been read by this process or comes out of the data base another one
\* has left, maybe killed between two inserts, as long as no row of another file lies under the id that the file's
\* path is given (vfs.c:220-281, db_sqlite.c:194-333).  Name, size, profile and tags are those of the file; the duration
\* and the resolution are those of the file or what the columns keep of them (db_sqlite.c:64-66, 178-179, 188-189).
THEOREM ResourcesAreKept ==
  ASSUME FilesLeadBack, CalledByPath, DatabasesAsMade
  PROVE  Spec /\ []OwnRow => []RestoredAsKept
<1>1. Init => RestoreInv
  BY InitRestored
<1>2. RestoreInv /\ OwnRow /\ [Next]_vars => RestoreInv'
  BY RestoreKept
<1>3. RestoreInv => RestoredAsKept
  BY RestoredFrom
<1> QED BY <1>1, <1>2, <1>3, PTL DEF Spec

-----------------------------------------------------------------------------
(* Where the codes of two paths differ, every row is under its own. *)

\* The numbers a search for an id of this path comes to, as NextId has them.
Numbers(start, path) ==
  LET code(i) == IF path = NULL THEN i ELSE crc32(i, path)
      number[n \in Nat] == IF n = 0 THEN start ELSE code(number[n - 1]) + 1
  IN  number

Starts == {1, 1 + STARTING_ENTRY_ID_XBOX360}

\* The codes of a path that a search passes while there are at most so many items.
Codes(path, most) == {crc32(Numbers(start, path)[n], path) : start \in Starts, n \in 0..most}

\* No two files have a code in common, among those that are passed.
CodesTellApart(most) ==
  /\ most \in Nat /\ NULL \notin DOMAIN Files
  /\ \A path, other \in DOMAIN Files : path # other => Codes(path, most) \cap Codes(other, most) = {}

FewItems(most) == Len(v.root) <= most

CodeOf(id, path, most) == path \in DOMAIN Files /\ id \in Codes(path, most)

\* Every row is under a code of its file.
KeyedDbs(d, most) == \A name \in DOMAIN d : \A id \in DOMAIN d[name].items : CodeOf(id, d[name].items[id].filename, most)

KeyedInv(most) ==
  /\ KeyedDbs(dbs, most)
  /\ owner # NULL /\ owner.at = "item" => CodeOf(v.mem[owner.p].id, v.mem[owner.p].title, most)

DatabasesKeyed(most) == KeyedDbs(Databases, most)

\* An id is the code of one path.
LEMMA OnePath ==
  ASSUME NEW most, CodesTellApart(most), NEW id, NEW path, NEW other, CodeOf(id, path, most), CodeOf(id, other, most)
  PROVE  path = other
BY DEF CodesTellApart, CodeOf

\* The id a resource is given is a code of its path.
LEMMA GivenACode ==
  ASSUME NEW most \in Nat, NULL \notin DOMAIN Files, NEW w, w.root # <<>>, Len(w.root) \in Nat, Len(w.root) <= most,
         NEW path \in DOMAIN Files, vfs_provide_next_id(w, path) # NULL
  PROVE  CodeOf(vfs_provide_next_id(w, path), path, most)
<1> DEFINE start == StartId(w)
           code(i) == IF path = NULL THEN i ELSE crc32(i, path)
           number[n \in Nat] == IF n = 0 THEN start ELSE code(number[n - 1]) + 1
           free == {n \in 0..Len(w.root) : ~vfs_is_id_registered(w, code(number[n]))}
<1>1. start \in Starts
  BY DEF StartId, Starts, STARTING_ENTRY_ID_XBOX360
<1>2. vfs_provide_next_id(w, path) = NextId(w, start, path)
  BY DEF vfs_provide_next_id
<1>3. NextId(w, start, path) = code(number[Min(free)]) /\ free # {}
  <2> HIDE DEF start
  <2>1. NextId(w, start, path) = IF free = {} THEN NULL ELSE code(number[Min(free)])
    BY DEF NextId
  <2> QED BY <2>1, <1>2
<1>4. number = Numbers(start, path)
  <2> HIDE DEF start
  <2> QED BY DEF Numbers
<1>5. Min(free) \in 0..most
  <2> HIDE DEF number, code
  <2>1. free \subseteq 0..Len(w.root)
    OBVIOUS
  <2>2. free \subseteq Nat /\ free \subseteq 0..most /\ free # {}
    <3> DEFINE n == Len(w.root)
    <3> HIDE DEF free
    <3>1. n \in Nat /\ n <= most /\ free \subseteq 0..n
      BY <2>1
    <3> HIDE DEF n
    <3> QED BY <1>3, <3>1
  <2> HIDE DEF free
  <2>4. \E m \in free : \A k \in free : m <= k
    BY <2>2, Smallest
  <2>3. Min(free) \in free
    BY <2>4 DEF Min
  <2> QED BY <2>2, <2>3
<1>6. code(number[Min(free)]) = crc32(number[Min(free)], path)
  <2> HIDE DEF number, free
  <2> QED OBVIOUS
<1> HIDE DEF start, number, free, code
<1>7. vfs_provide_next_id(w, path) = crc32(Numbers(start, path)[Min(free)], path)
  BY <1>2, <1>3, <1>4, <1>6
<1> QED BY <1>1, <1>5, <1>7 DEF CodeOf, Codes

\* The call that adds a resource is for one of the files.
LEMMA CalledForAFile ==
  ASSUME RestoreInv, Calls("resource")
  PROVE  Call.name = Call.path /\ Call.path \in DOMAIN Files
<1>1. Call \in OwnerCalls
  BY CallsLeft DEF RestoreInv, Call, Calls
<1> QED BY <1>1 DEF Calls, OwnerCalls

LEMMA ItemsCounted == RestoreInv => Len(v.root) \in Nat
BY DEF RestoreInv, VfsOK

LEMMA KeyedRows ==
  ASSUME NEW most, CodesTellApart(most), RestoreInv, FewItems(most), KeyedInv(most)
  PROVE  OwnRow
<1> SUFFICES ASSUME Calls("resource"), v.root # <<>>, v.db \in DOMAIN dbs, vfs_provide_next_id(v, Call.path) # NULL,
                    vfs_provide_next_id(v, Call.path) \in DOMAIN dbs[v.db].items
             PROVE  dbs[v.db].items[vfs_provide_next_id(v, Call.path)].filename = Call.path
  BY DEF OwnRow
<1> DEFINE path == Call.path
           id == vfs_provide_next_id(v, path)
<1>1. path \in DOMAIN Files
  BY CalledForAFile
<1>2. id # NULL /\ id \in DOMAIN dbs[v.db].items
  OBVIOUS
<1> HIDE DEF path
<1>3. CodeOf(id, path, most)
  BY <1>1, <1>2, GivenACode, ItemsCounted DEF CodesTellApart, FewItems
<1> HIDE DEF id
<1>4. CodeOf(id, dbs[v.db].items[id].filename, most)
  BY <1>2 DEF KeyedInv, KeyedDbs
<1>5. dbs[v.db].items[id].filename = path
  BY <1>3, <1>4, OnePath
<1> QED BY <1>5 DEF id, path

LEMMA KeyedKept ==
  ASSUME FilesLeadBack, NEW most, CodesTellApart(most), RestoreInv, OwnRow, FewItems(most), KeyedInv(most), [Next]_vars
  PROVE  KeyedInv(most)'
<1> DEFINE Goal == KeyedInv(most)'
<1> SUFFICES Goal
  OBVIOUS
<1>q. ASSUME dbs' = dbs, owner' = NULL \/ owner'.at # "item" PROVE Goal
  BY <1>q DEF KeyedInv
<1>b. ASSUME v' \in {v, Broken(v)}, UNCHANGED <<dbs, lives, owner>> PROVE Goal
  <2>1. v'.mem = v.mem
    BY <1>b, BrokenItself DEF RestoreInv, VfsOK
  <2> QED BY <1>b, <2>1 DEF KeyedInv
<1> HIDE DEF Goal
<1>1. CASE dlna_init \/ dlna_set_capability_mode \/ Sets \/ AddContainer \/ RemoveItem \/ dlna_uninit
  <2>1. dbs' = dbs /\ owner' = owner /\ \E name : Calls(name)
    BY <1>1 DEF dlna_init, dlna_set_capability_mode, Sets, AddContainer, RemoveItem, dlna_uninit
  <2>2. owner' = NULL
    BY <2>1 DEF Calls
  <2> QED BY <2>1, <2>2, <1>q
<1>2. CASE dlna_dms_set_vfs_storage_type
  <2> DEFINE n == v'.db
             b == dms_db_create(dbs[n])
  <2>1. owner' = owner /\ Calls("storage") /\ dbs' \in {dbs, [dbs EXCEPT ![n] = b]}
    BY <1>2 DEF dlna_dms_set_vfs_storage_type
  <2>2. n \in DOMAIN dbs => b.items = dbs[n].items
    <3>1. ASSUME NEW db, DbOK(db) PROVE dms_db_create(db).items = db.items
      <4>1. db = [tables |-> db.tables, items |-> db.items, metadata |-> db.metadata, properties |-> db.properties]
        BY <3>1 DEF DbOK
      <4> DEFINE x == dms_db_create(db)
      <4>2. x = [db EXCEPT !.tables = TRUE]
        BY DEF dms_db_create
      <4> HIDE DEF x
      <4>3. x.items = db.items
        BY <4>1, <4>2
      <4> QED BY <4>3 DEF x
    <3> QED BY <3>1 DEF RestoreInv, DbsOK
  <2> HIDE DEF n, b
  <2>3. DOMAIN dbs' = DOMAIN dbs /\ \A name \in DOMAIN dbs : dbs'[name].items = dbs[name].items
    BY <2>1, <2>2
  <2>4. owner' = NULL
    BY <2>1 DEF Calls
  <2> QED BY <2>3, <2>4 DEF KeyedInv, KeyedDbs, Goal
<1>3. CASE MakeResource
  <2> DEFINE path == Call.path
             made == AddResource_Make(v, dbs, path, path)
  <2>1. Calls("resource") /\ dbs' = dbs /\ vfs_provide_next_id(v, path) # NULL /\ owner = NULL
    BY <1>3 DEF MakeResource, Calls
  <2>2. Call.name = path /\ path \in DOMAIN Files
    BY <2>1, CalledForAFile
  <2>3. /\ v' = made.v
        /\ \/ UNCHANGED owner
           \/ made.new /\ owner' = [at |-> "item", p |-> made.p]
           \/ owner' = [at |-> "publish", p |-> made.p]
    BY <1>3, <2>2 DEF MakeResource
  <2>4. v.root # <<>> /\ v.db \in DOMAIN dbs => \A id \in {vfs_provide_next_id(v, path)} \ {NULL} :
          id \in DOMAIN dbs[v.db].items => dbs[v.db].items[id].filename = path
    BY <2>1 DEF OwnRow
  <2> HIDE DEF path, made
  <2>5. CASE UNCHANGED owner \/ owner' = [at |-> "publish", p |-> made.p]
    BY <2>1, <2>5, <1>q
  <2>6. CASE made.new /\ owner' = [at |-> "item", p |-> made.p]
    <3>1. /\ StoringOK("item", v'.mem[made.p], v'.db, dbs) /\ v.root # <<>>
          /\ v'.mem[made.p].id = vfs_provide_next_id(v, path)
          /\ v'.mem[made.p].title = path
      BY <2>1, <2>2, <2>3, <2>4, <2>6, MakeAdds DEF made, RestoreInv
    <3>2. CodeOf(vfs_provide_next_id(v, path), path, most)
      BY <2>1, <2>2, <3>1, GivenACode, ItemsCounted DEF CodesTellApart, FewItems, path
    <3>3. owner'.p = made.p /\ owner'.at = "item"
      BY <2>6
    <3> QED BY <2>1, <3>1, <3>2, <3>3 DEF KeyedInv, Goal
  <2> QED BY <2>3, <2>5, <2>6
<1>4. CASE StoreItem
  <2> DEFINE n == v.db
             r == v.mem[owner.p]
             id == r.id
             row == [filename |-> r.item.filename, filesize |-> r.item.filesize % UINT32,
                     profileid |-> ProfileId(r.item.profile)]
             t == Stored(dbs[n].items, id, row)
             b == [dbs[n] EXCEPT !.items = t]
  <2>1. dbs' = [dbs EXCEPT ![n] = b] /\ owner' = [owner EXCEPT !.at = "metadata"] /\ InCall("item")
    BY <1>4 DEF StoreItem, Stores, dms_db_add_item, ProfileId
  <2>2. owner # NULL /\ owner.at = "item" /\ "at" \in DOMAIN owner /\ n \in DOMAIN dbs /\ StoringOK("item", r, n, dbs)
    BY <2>1 DEF InCall, RestoreInv, OwnerOK, StoringOK, Storing
  <2>3. CodeOf(id, row.filename, most)
    <3>1. row.filename = r.title
      BY <2>2, MadeFrom DEF StoringOK
    <3> QED BY <2>2, <3>1 DEF KeyedInv
  <2>4. b.items = t
    <3> DEFINE db == dbs[n]
    <3>1. db = [tables |-> db.tables, items |-> db.items, metadata |-> db.metadata, properties |-> db.properties]
      BY <2>2 DEF RestoreInv, DbsOK, DbOK
    <3> HIDE DEF t, db
    <3>2. b = [db EXCEPT !.items = t]
      BY DEF db
    <3> HIDE DEF b
    <3> QED BY <3>1, <3>2
  <2> HIDE DEF id, row, b
  <2>5. ASSUME NEW i \in DOMAIN t PROVE CodeOf(i, t[i].filename, most)
    BY <2>2, <2>3 DEF Stored, KeyedInv, KeyedDbs
  <2> HIDE DEF t, n
  <2>6. KeyedDbs(dbs', most)
    BY <2>1, <2>2, <2>4, <2>5 DEF KeyedInv, KeyedDbs
  <2> QED BY <2>1, <2>2, <2>6 DEF KeyedInv, Goal
<1>5. CASE StoreMetadata \/ StoreProperties
  <2> DEFINE n == v.db
             r == v.mem[owner.p]
  <2>1. /\ InCall("metadata") \/ InCall("properties")
        /\ \E next \in {"properties", "publish"} : owner' = [owner EXCEPT !.at = next]
        /\ \/ dbs' = dbs
           \/ \E t : dbs' = [dbs EXCEPT ![n].metadata = t]
           \/ \E t : dbs' = [dbs EXCEPT ![n].properties = t]
    BY <1>5 DEF StoreMetadata, StoreProperties, Stores, dms_db_add_metadata, dms_db_add_properties
  <2>2. owner # NULL /\ "at" \in DOMAIN owner
    BY <2>1 DEF InCall, RestoreInv, OwnerOK
  <2>3. owner'.at # "item"
    BY <2>1, <2>2
  <2>4. DOMAIN dbs' = DOMAIN dbs /\ \A name \in DOMAIN dbs : dbs'[name].items = dbs[name].items
    <3>1. ASSUME NEW db, DbOK(db), NEW t
          PROVE  [db EXCEPT !.metadata = t].items = db.items /\ [db EXCEPT !.properties = t].items = db.items
      <4>1. db = [tables |-> db.tables, items |-> db.items, metadata |-> db.metadata, properties |-> db.properties]
        BY <3>1 DEF DbOK
      <4> QED BY <4>1
    <3>2. \A name \in DOMAIN dbs : DbOK(dbs[name])
      BY DEF RestoreInv, DbsOK
    <3> HIDE DEF n
    <3>3. CASE \E t : dbs' = [dbs EXCEPT ![n].metadata = t]
      BY <3>1, <3>2, <3>3
    <3>4. CASE \E t : dbs' = [dbs EXCEPT ![n].properties = t]
      BY <3>1, <3>2, <3>4
    <3> QED BY <2>1, <3>3, <3>4
  <2> QED BY <2>3, <2>4 DEF KeyedInv, KeyedDbs, Goal
<1>6. CASE PublishResource \/ LinkResource \/ RegisterAgain \/ Unregister \/ upnp_uninit
  <2>1. dbs' = dbs /\ owner # NULL
    BY <1>6 DEF PublishResource, LinkResource, RegisterAgain, Unregister, upnp_uninit, InCall
  <2>2. "at" \in DOMAIN owner
    BY <2>1 DEF RestoreInv, OwnerOK
  <2>3. owner' = NULL \/ \E next \in {"link", "register"} : owner' = [owner EXCEPT !.at = next]
    BY <1>6 DEF PublishResource, LinkResource, RegisterAgain, Unregister, upnp_uninit
  <2>4. owner' = NULL \/ owner'.at # "item"
    BY <2>2, <2>3
  <2> QED BY <2>1, <2>4, <1>q
<1>7. CASE dlna_dms_init \/ dlna_dmr_init \/ upnp_init \/ dlna_dms_uninit
  <2>1. dbs' = dbs /\ (owner' = NULL \/ owner'.at # "item")
    BY <1>7 DEF dlna_dms_init, dlna_dmr_init, upnp_init, dlna_dms_uninit
  <2> QED BY <2>1, <1>q
<1>8. CASE Ends
  BY <1>8, <1>q DEF Ends
<1>9. ASSUME NEW c \in ControlPoints, Works(c) PROVE Goal
  BY <1>9, <1>b, RequestsKeep
<1>10. ASSUME NEW c \in ControlPoints, ControlPoint(c) PROVE Goal
  BY <1>10, <1>b, ControlPointsKeep
<1>11. ASSUME NEW p \in DOMAIN dmp, Player(p) PROVE Goal
  <2>1. v' = v /\ UNCHANGED <<dbs, lives, owner>>
    BY <1>11 DEF Player, avts_thread_play, ThreadStart, ThreadLook, ThreadFrame, ThreadSleep
  <2> QED BY <2>1, <1>b
<1>12. CASE UNCHANGED vars
  <2>1. v' = v /\ UNCHANGED <<dbs, lives, owner>>
    BY <1>12 DEF vars
  <2> QED BY <2>1, <1>b
<1> QED BY <1>1, <1>2, <1>3, <1>4, <1>5, <1>6, <1>7, <1>8, <1>9, <1>10, <1>11, <1>12 DEF Next, Owner

\* Where no two files have a code in common a resource is that of its own file, its duration and resolution as the columns
\* keep them, whatever processes came before and wherever they were killed: the rows of a data base lie under codes of their files' paths (vfs.c:81-163, 220-281).  The codes are
\* those of the first numbers that a search comes to, as many as there are items.
THEOREM TellingCodesKeep ==
  ASSUME FilesLeadBack, CalledByPath, DatabasesAsMade, NEW most, CodesTellApart(most), DatabasesKeyed(most)
  PROVE  Spec /\ []FewItems(most) => []RestoredAsKept
<1>1. Init => RestoreInv /\ KeyedInv(most)
  <2>1. Init => RestoreInv
    BY InitRestored
  <2>2. Init => KeyedInv(most)
    BY DEF Init, KeyedInv, DatabasesKeyed
  <2> QED BY <2>1, <2>2
<1>2. RestoreInv /\ KeyedInv(most) /\ FewItems(most) /\ [Next]_vars => (RestoreInv /\ KeyedInv(most))'
  <2> SUFFICES ASSUME RestoreInv, KeyedInv(most), FewItems(most), [Next]_vars PROVE RestoreInv' /\ KeyedInv(most)'
    OBVIOUS
  <2>1. OwnRow
    BY KeyedRows
  <2> QED BY <2>1, RestoreKept, KeyedKept
<1>3. RestoreInv => RestoredAsKept
  BY RestoredFrom
<1> QED BY <1>1, <1>2, <1>3, PTL DEF Spec
=============================================================================
