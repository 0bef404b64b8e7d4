---------------------------- MODULE MCMediaDevice ----------------------------
(* A media server with three files and a renderer, and two control points. *)
EXTENDS MediaDevice

Audio(codec) ==
  [type |-> "AUDIO", codec_id |-> codec, channels |-> 2, sample_rate |-> 44100, bit_rate |-> 128000, object_type |-> NULL]
Video(codec) ==
  [type |-> "VIDEO", codec_id |-> codec, width |-> 352, height |-> 288, bit_rate |-> 1150000, num |-> 25, den |-> 1]
Media(ext, iformat, duration, streams) ==
  [ext |-> ext, iformat |-> iformat, duration |-> duration, bit_rate |-> 128000, streams |-> streams, head |-> "pack", adts_type |-> 0,
   tags |-> "artist" :> "somebody"]
File(length, media) == [length |-> length, readable |-> TRUE, directory |-> FALSE, media |-> media]

\* "notes" is no media file, and "odd" one that no family knows.
MCFiles ==
  "song" :> File(3, Media("mp3", "mp3", 200, <<Audio("MP3")>>))
  @@ "tune" :> File(4, Media("ac3", "ac3", 3725, <<[Audio("AC3") EXCEPT !.sample_rate = 48000]>>))
  @@ "photo" :> File(5, Media("png", "image2", 0, <<[Video("PNG") EXCEPT !.width = 640, !.height = 480]>>))
  @@ "notes" :> File(1, Media("txt", NULL, 0, <<>>))
  @@ "odd" :> File(1, Media("odd", "avi", 60, <<Audio("MP3")>>))

\* Two of the files have the same code.
Code(path) == CASE path = "song" -> 20 [] path = "tune" -> 20 [] path = "photo" -> 30 [] path = "notes" -> 40 [] OTHER -> 50
MCHash == [x \in ((0..60) \cup (100001..100003)) \X DOMAIN MCFiles |-> Code(x[2]) + (IF x[1] > 1 THEN 1 ELSE 0)]

MCRegistered == <<2, 3, 7>>

MCInterfaces == "lo" :> "127.0.0.1" @@ "eth0" :> NULL
MCDatabases == "db" :> EmptyDb

(* What an owner does *)
C(call) == [call |-> call]
Container(name, id, parent) == [call |-> "container", name |-> name, id |-> id, parent |-> parent]
Resource(path, parent) == [call |-> "resource", name |-> path, path |-> path, parent |-> parent]
Storage(data) == [call |-> "storage", data |-> data]
Set(key, value) == [call |-> "set", key |-> key, value |-> value]
Mode(mode) == [call |-> "mode", mode |-> mode]
Taken(by, what) == [call |-> "remove", by |-> by, what |-> what]

Start == <<C("dlna_init"), Storage("db"), Container("music", 5, 0)>>
End == <<C("dms_uninit"), C("dlna_uninit")>>
Adds == <<Resource("song", 5), C("dms_init"), Resource("tune", 5), Resource("photo", 5)>>
Late == Start \o <<C("dms_init"), Resource("song", 5), Resource("notes", 5)>>
Xbox == <<C("dlna_init"), Mode("UPNP_AV_XBOX"), Container("music", 5, 0), Resource("notes", 5), Resource("song", 7),
          Container("more", 5, 5), C("dms_init")>>
Settings ==
  <<C("dlna_init"), Storage("none"), Set("interface", "eth0"), Set("interface", "eth1"), Set("port", 0),
    Set("port", 8080), Set("flags", 1), Set("check", 0), Set("uuid", "02"), Set("model_name", NULL), Mode("DLNA"),
    C("dms_init"), Set("interface", "lo"), C("dms_init")>>
Renders == <<C("dlna_init"), C("dmr_init")>>

(* What a control point asks for *)
NextPage(count) == [kind |-> "next", id |-> 5, count |-> count]
Info == [kind |-> "info"]
Described1 == [kind |-> "described"]
Query(service, name) == [kind |-> "query", service |-> service, name |-> name]
Subscription(service) == [kind |-> "subscribe", service |-> service]
Browsing(id, flag, index) ==
  AskFor(cds_service, "Browse", <<<<"ObjectID", id>>, <<"BrowseFlag", flag>>, <<"Filter", <<"res">>>>, <<"StartingIndex", index>>>>)
Searching(criteria) ==
  AskFor(cds_service, "Search", <<<<"ContainerID", 0>>, <<"SearchCriteria", criteria>>, <<"Filter", <<"*">>>>>>)
Clause(kind, keyword, closed) == [kind |-> kind, keyword |-> keyword, closed |-> closed]
Oddities == {
  Query(cms_service, "Nothing"), Query(cms_service, "GetProtocolInfo"), Query(cds_service, "Nothing"),
  Subscription(cds_service), Subscription(rcs_service),
  AskFor(cds_service, "CreateObject", <<>>), AskFor(cds_service, "Nothing", <<>>), AskFor(rcs_service, "GetVolume", <<>>),
  AskFor(cds_service, "Browse", <<>>), AskFor(cds_service, "Search", <<>>),
  Browsing(5, "BrowseMetadata", 0), Browsing(21, "BrowseMetadata", 0), Browsing(7, "BrowseMetadata", 1),
  Browsing(5, "Nothing", 0), Browsing(21, "BrowseDirectChildren", 0),
  [AskFor(cds_service, "GetSystemUpdateID", <<>>) EXCEPT !.kind = "headed"],
  [AskFor(cds_service, "GetSystemUpdateID", <<>>) EXCEPT !.kind = "mpost"],
  Searching(<<Clause("class", "object", FALSE), Clause("derived", "object", FALSE)>>),
  Searching(<<Clause("protocol", "audio/mpeg", TRUE)>>)}

Player1(name) == AskFor(avts_service, name, <<<<"InstanceID", 0>>>>)
SetURI(path) == AskFor(avts_service, "SetAVTransportURI", <<<<"InstanceID", 0>>, <<"CurrentURI", path>>>>)
SetNext(path) == AskFor(avts_service, "SetNextAVTransportURI", <<<<"InstanceID", 0>>, <<"NextURI", path>>>>)
PlayerReads ==
  {Player1(name) : name \in {"GetMediaInfo", "GetMediaInfo_Ext", "GetTransportInfo", "GetPositionInfo",
     "GetDeviceCapabilities", "GetTransportSettings", "Previous", "Seek"}}
PlayerChanges ==
  {Player1(name) : name \in {"Stop", "Play", "Pause", "Next"}} \cup {SetURI("song"), SetURI("odd"), SetNext("tune"), SetNext("notes")}
Plays == <<SetURI("song"), Player1("Play"), Player1("Pause")>>
Stops == <<SetURI("song"), Player1("Play"), Player1("Stop")>>

With(livings, a1, a2) == [lives |-> livings, asks |-> <<a1, a2>>]
MCServers ==
  {With(<<Start \o Adds \o End, Start \o Adds>>, <<NextPage(1), NextPage(1), Info>>, <<>>),
   With(<<Start \o Adds \o End>>, <<NextPage(1), NextPage(2), Info>>, <<NextPage(0)>>),
   With(<<Settings>>, <<Described1>>, <<>>),
   With(<<Start \o <<Resource("notes", 5)>>, <<C("dlna_init"), Resource("odd", 0)>>>>, <<>>, <<>>)}
  \cup {With(<<Late>>, <<ask>>, <<>>) : ask \in Oddities}
  \cup {With(<<Xbox>>, <<Described1>>, <<ask>>) : ask \in {NextPage(0), Browsing(5, "BrowseMetadata", 0)}}
  \cup {With(<<Start \o Adds \o <<remove>> \o End>>, <<NextPage(0), Info>>, <<>>) :
          remove \in {Taken("id", 21), Taken("title", "music"), Taken("id", 9)}}
MCRenderers ==
  {With(<<Renders>>, Plays, <<ask>>) : ask \in PlayerChanges}
  \cup {With(<<Renders>>, Stops, <<ask>>) : ask \in {Player1("Play"), Player1("Stop")}}
  \cup {With(<<Renders>>, <<SetURI("song"), Player1("Play")>>, <<ask>>) : ask \in PlayerReads}
  \cup {With(<<Renders \o <<C("dmr_uninit")>>>>, <<SetURI("song"), Player1("Stop")>>, <<>>),
        With(<<Renders>>, <<SetURI("song"), Described1>>, <<Player1("Stop")>>)}
MCScenarios == MCServers \cup MCRenderers
=============================================================================
