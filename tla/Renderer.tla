------------------------------ MODULE Renderer ------------------------------
(***************************************************************************)
(* avts.c: the players of a renderer.  A player is made by the first       *)
(* request that names it and has a thread of its own, which requests       *)
(* talk to through the player's state and a condition variable.            *)
(*                                                                         *)
(* A player has                                                            *)
(*   id            the instance it is asked for by                         *)
(*   listed        whether it is in the hash of players                    *)
(*   playlist      a sequence of [id, item]                                *)
(*   current_item  one of these, or NULL                                   *)
(*   state         what requests and the thread have agreed on             *)
(*   thread        NULL before it is created; then where it is: "start",   *)
(*                 "look", "frame", "sleep" (about to wait), "asleep" or   *)
(*                 "ended"                                                 *)
(*   joined        a request waits, or has waited, for its end             *)
(* A job is a request of a control point the device's code works on:       *)
(* [event, service, at, p, from, answer], with p the player, or the place  *)
(* of a container, it has found.                                           *)
(***************************************************************************)
EXTENDS ContentDirectory

CONSTANTS
  ControlPoints

VARIABLES
  v,        \* the process: its file system, and whether it has broken down
  dmp,      \* every player ever made
  job       \* control point -> the job its request is, or NULL

-----------------------------------------------------------------------------
(* The playlist *)

playlist_empty(playlist) == <<>>

\* A file that is none is left out.  The id stands for its path.
Added(playlist, uri, item) ==
  IF item = CRASH THEN CRASH
  ELSE IF item = NULL THEN playlist ELSE Append(playlist, [id |-> crc32(0, uri), item |-> item])

playlist_add_item(playlist, uri) == Added(playlist, uri, IF uri = NULL THEN NULL ELSE dlna_item_new(uri))

\* What follows an item; the first when it is not there, and NULL after the last.
playlist_next(playlist, id) ==
  LET at == First([i \in DOMAIN playlist |-> i], LAMBDA i : id # 0 /\ playlist[i].id = id)
  IN  IF playlist = <<>> \/ at = Len(playlist) THEN NULL
      ELSE IF at = NULL THEN playlist[1] ELSE playlist[at + 1]

\* The first is not counted; without a first there is nothing to read.
playlist_count(playlist) == Len(playlist) - 1

playlist_index(playlist, item) ==
  LET at == First([i \in DOMAIN playlist |-> i], LAMBDA i : playlist[i] = item) IN IF at = NULL THEN 0 ELSE at - 1

\* Nothing is decoded yet: a frame is always a whole one.
playitem_decodeframe(item) == 0

didl_add_short_item(p) ==
  LET metadata == p.item.metadata
  IN  [id |-> p.id, title |-> didl_add_tag(Described(metadata, "title"), p.item.filename),
       artist |-> Described(metadata, "author"), album |-> Described(metadata, "album")]

-----------------------------------------------------------------------------
(* State *)

\* A pause, or the move to the next item, is for a player that plays.
instance_change_state_Always(player, newstate) ==
  [player EXCEPT !.state = newstate, !.thread = IF @ = "asleep" THEN "look" ELSE @]

\* Whatever changes the state wakes the thread.  No player records or lacks a medium.
instance_change_state(player, newstate) ==
  IF newstate \in {"E_TRANSITIONING", "E_PAUSING"} /\ player.state # "E_PLAYING" THEN player
  ELSE [player EXCEPT !.state = newstate, !.thread = IF @ = "asleep" THEN "look" ELSE @]

instance_change_current_item(player, newitem) == [player EXCEPT !.current_item = newitem]

NewPlayer(id) ==
  [id |-> id, listed |-> TRUE, playlist |-> <<>>, current_item |-> NULL, state |-> "E_PAUSING", thread |-> NULL,
   joined |-> FALSE]

\* The last of those that have an id, or NULL.
PlayerOf(id) ==
  LET those == {p \in DOMAIN dmp : dmp[p].listed /\ dmp[p].id = id} IN IF those = {} THEN NULL ELSE Max(those)

-----------------------------------------------------------------------------
(* The thread *)

ThreadAt(p, at) == dmp[p].thread = at /\ ~v.broken

ThreadStart(p) ==
  /\ ThreadAt(p, "start")
  /\ LET first == playlist_next(dmp[p].playlist, 0)
     IN  dmp' = [dmp EXCEPT ![p] = [instance_change_current_item(@, first) EXCEPT
                                      !.thread = IF first = NULL THEN "ended" ELSE "look"]]
  /\ UNCHANGED <<v, job>>

\* What a look at the state leads to; while the state is E_TRANSITIONING the thread looks again and again.
Look_Deaf(state) == IF state = "E_PLAYING" THEN "frame" ELSE IF state = "E_PAUSING" THEN "sleep" ELSE "look"

Look(state) ==
  CASE state = "E_STOPPED" -> "ended"
    [] state = "E_PLAYING" -> "frame"
    [] state = "E_PAUSING" -> "sleep"
    [] OTHER -> "look"

ThreadLook(p) ==
  /\ ThreadAt(p, "look")
  /\ dmp' = [dmp EXCEPT ![p].thread = Look(dmp[p].state)]
  /\ UNCHANGED <<v, job>>

ThreadFrame(p) ==
  /\ ThreadAt(p, "frame")
  /\ LET shown == [dmp[p] EXCEPT !.thread = "look"]
     IN  dmp' = [dmp EXCEPT ![p] = IF playitem_decodeframe(shown.current_item) = 0
                                     THEN instance_change_state(shown, "E_TRANSITIONING") ELSE shown]
  /\ UNCHANGED <<v, job>>

\* The state is not looked at again under the lock: a change since is slept through.
ThreadSleep(p) ==
  /\ ThreadAt(p, "sleep")
  /\ dmp' = [dmp EXCEPT ![p].thread = "asleep"]
  /\ UNCHANGED <<v, job>>

avts_thread_play(p) == ThreadStart(p) \/ ThreadLook(p) \/ ThreadFrame(p) \/ ThreadSleep(p)

-----------------------------------------------------------------------------
(* Requests *)

Ask(c, key) == upnp_get_string(job[c].event, key)
AskedPlayer(c) == PlayerOf(upnp_get_ui4(job[c].event, "InstanceID"))

Called(c, name) == job[c] # NULL /\ job[c].at = "call" /\ job[c].event.name = name /\ ~v.broken
Continues(c, at) == job[c] # NULL /\ job[c].at = at /\ ~v.broken

\* The callback returns: the event is finished.
AnsweredWith(c, status, answer) ==
  [job EXCEPT ![c].at = "done", ![c].answer = Finished(job[c].event, job[c].service, status, answer)]

Breaks == v' = Broken(v) /\ UNCHANGED <<dmp, job>>

\* A request for a player there is not.
InvalidInstance(c) ==
  /\ job' = AnsweredWith(c, 0, [Unfinished EXCEPT !.code = AVTS_ERR_INVALID_INSTANCE])
  /\ UNCHANGED <<v, dmp>>

\* A player is in the hash before it has a thread.
avts_set_thread(c) ==
  /\ Called(c, "SetAVTransportURI")
  /\ IF AskedPlayer(c) # NULL
       THEN job' = [job EXCEPT ![c].at = "add", ![c].p = AskedPlayer(c)] /\ UNCHANGED dmp
       ELSE /\ dmp' = Append(dmp, NewPlayer(upnp_get_ui4(job[c].event, "InstanceID")))
            /\ job' = [job EXCEPT ![c].at = "create", ![c].p = Len(dmp) + 1]
  /\ UNCHANGED v

CreateThread(c) ==
  /\ Continues(c, "create")
  /\ dmp' = [dmp EXCEPT ![job[c].p].thread = "start"]
  /\ job' = [job EXCEPT ![c].at = "add"]
  /\ UNCHANGED v

avts_set_uri(c) ==
  /\ Continues(c, "add")
  /\ LET p == job[c].p
         kept == IF dmp[p].state = "E_STOPPED" THEN playlist_empty(dmp[p].playlist) ELSE dmp[p].playlist
     IN  \E playlist \in {playlist_add_item(kept, Ask(c, "CurrentURI"))} :
         IF playlist = CRASH THEN Breaks
         ELSE /\ dmp' = [dmp EXCEPT ![p].playlist = playlist]
              /\ job' = AnsweredWith(c, 1, Unfinished)
              /\ UNCHANGED v

\* The playlist with the new item is dropped where it has been empty before.
avts_set_next_uri(c) ==
  /\ Called(c, "SetNextAVTransportURI")
  /\ LET p == AskedPlayer(c)
     IN  IF p = NULL THEN InvalidInstance(c)
         ELSE \E playlist \in {playlist_add_item(dmp[p].playlist, Ask(c, "NextURI"))} :
              IF playlist = CRASH THEN Breaks
              ELSE /\ dmp' = [dmp EXCEPT ![p].playlist = IF @ = <<>> THEN @ ELSE playlist]
                   /\ job' = AnsweredWith(c, 1, Unfinished)
                   /\ UNCHANGED v

\* An answer of one piece, unless the player has nothing to read.
Report(c, possible(_), pairs(_)) ==
  LET p == AskedPlayer(c)
  IN  IF p = NULL THEN InvalidInstance(c)
      ELSE IF ~possible(dmp[p]) THEN Breaks
      ELSE /\ job' = AnsweredWith(c, 1, upnp_add_response(job[c].event, job[c].service, pairs(dmp[p])))
           /\ UNCHANGED <<v, dmp>>

avts_media(player) ==
  LET current == player.current_item
      next == IF playlist_index(player.playlist, current) + 2 > Len(player.playlist) THEN NULL
              ELSE player.playlist[playlist_index(player.playlist, current) + 2]
      of(item) == IF item = NULL THEN "" ELSE item.item.filename
      did(item) == IF item = NULL THEN "" ELSE didl_add_short_item(item)
  IN  <<<<"NrTracks", playlist_count(player.playlist)>>, <<"MediaDuration", 1>>, <<"CurrentURI", of(current)>>,
        <<"CurrentURIMetaData", did(current)>>, <<"NextURI", of(next)>>, <<"NextURIMetaData", did(next)>>,
        <<"PlayMedium", "NETWORK">>, <<"RecordMedium", "NOT_IMPLEMENTED">>, <<"WriteStatus", "NOT_IMPLEMENTED">>>>

\* What follows the current item is read whether or not there is one.
HasMedia(player) == player.playlist # <<>> /\ player.current_item # NULL

avts_get_minfo(c) == Called(c, "GetMediaInfo") /\ Report(c, HasMedia, avts_media)

avts_get_minfo_ext(c) ==
  /\ Called(c, "GetMediaInfo_Ext")
  /\ Report(c, HasMedia, LAMBDA player : <<<<"CurrentType", "TRACK_AWARE">>>> \o avts_media(player))

Always(player) == TRUE

avts_get_info(c) ==
  LET text == [E_STOPPED |-> "STOPPED", E_PLAYING |-> "PLAYING", E_TRANSITIONING |-> "TRANSITIONING",
               E_PAUSING |-> "PAUSED_PLAYBACK"]
  IN  /\ Called(c, "GetTransportInfo")
      /\ Report(c, Always, LAMBDA player : <<<<"CurrentTransportState", text[player.state]>>,
                                             <<"CurrentTransportStatus", "OK">>, <<"CurrentSpeed", 1>>>>)

\* The track is said twice, the second time to be nothing.
avts_get_pos_info(c) ==
  LET position(player) ==
        LET current == player.current_item
        IN  <<<<"Track", IF current = NULL THEN 0 ELSE playlist_index(player.playlist, current)>>, <<"Track", "">>,
              <<"TrackDuration", "">>, <<"TrackMetaData", "NOT_IMPLEMENTED">>,
              <<"TrackURI", IF current = NULL THEN "" ELSE current.item.filename>>, <<"RelTime", "NOT_IMPLEMENTED">>,
              <<"AbsTime", "NOT_IMPLEMENTED">>, <<"RelCount", "NOT_IMPLEMENTED">>, <<"AbsCount", "NOT_IMPLEMENTED">>>>
  IN  Called(c, "GetPositionInfo") /\ Report(c, Always, position)

avts_get_dev_caps(c) ==
  /\ Called(c, "GetDeviceCapabilities")
  /\ Report(c, Always, LAMBDA player : <<<<"PlayMedia", "NETWORK">>, <<"RecMedia", "NOT_IMPLEMENTED">>,
                                         <<"RecQualityModes", "NOT_IMPLEMENTED">>>>)

avts_get_settings(c) ==
  /\ Called(c, "GetTransportSettings")
  /\ Report(c, Always, LAMBDA player : <<<<"PlayMode", "NORMAL">>, <<"RecQualityMode", "NOT_IMPLEMENTED">>>>)

\* A request that does no more than ask for a state.
Turns(c, newstate) ==
  LET p == AskedPlayer(c)
  IN  IF p = NULL THEN InvalidInstance(c)
      ELSE /\ dmp' = [dmp EXCEPT ![p] = instance_change_state(@, newstate)]
           /\ job' = AnsweredWith(c, 1, Unfinished)
           /\ UNCHANGED v

avts_play(c) == Called(c, "Play") /\ Turns(c, "E_PLAYING")

avts_pause(c) == Called(c, "Pause") /\ Turns(c, "E_PAUSING")

avts_next(c) == Called(c, "Next") /\ Turns(c, "E_TRANSITIONING")

avts_previous(c) == Called(c, "Previous") /\ Report(c, Always, LAMBDA player : <<>>)

\* A thread that has not been created, or is waited for by another request, cannot be joined.
avts_stop(c) ==
  /\ Called(c, "Stop")
  /\ LET p == AskedPlayer(c)
     IN  IF p = NULL THEN InvalidInstance(c)
         ELSE IF dmp[p].thread = NULL \/ dmp[p].joined THEN Breaks
         ELSE /\ dmp' = [dmp EXCEPT ![p] = [instance_change_state(@, "E_STOPPED") EXCEPT !.joined = TRUE]]
              /\ job' = [job EXCEPT ![c].at = "join", ![c].p = p]
              /\ UNCHANGED v

Joined(c) ==
  /\ Continues(c, "join") /\ dmp[job[c].p].thread = "ended"
  /\ dmp' = [dmp EXCEPT ![job[c].p].listed = FALSE]
  /\ job' = AnsweredWith(c, 1, Unfinished)
  /\ UNCHANGED v

-----------------------------------------------------------------------------
AvtsStep(c) ==
  \/ avts_set_thread(c) \/ CreateThread(c) \/ avts_set_uri(c) \/ avts_set_next_uri(c)
  \/ avts_get_minfo(c) \/ avts_get_minfo_ext(c) \/ avts_get_info(c) \/ avts_get_pos_info(c)
  \/ avts_get_dev_caps(c) \/ avts_get_settings(c)
  \/ avts_play(c) \/ avts_pause(c) \/ avts_next(c) \/ avts_previous(c) \/ avts_stop(c) \/ Joined(c)

=============================================================================
