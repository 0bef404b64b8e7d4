----------------------------- MODULE MCWebServer -----------------------------
(* Two connections to a media server whose application is being set up.    *)
EXTENDS WebServer

File(length) == [length |-> length, directory |-> FALSE, readable |-> TRUE]
MCFiles == (<<>> :> [length |-> 0, directory |-> TRUE, readable |-> TRUE]) @@ (<<"index.html">> :> File(3))
MCVirtual ==
  [items |-> 0 :> [type |-> "CONTAINER", filename |-> NULL, mime |-> NULL]
          @@ 1 :> [type |-> "RESOURCE", filename |-> "film", mime |-> "video/mpeg"]
          @@ 2 :> [type |-> "RESOURCE", filename |-> "hidden", mime |-> "video/mpeg"],
   services |-> "cds.xml" :> 3,
   disk |-> "film" :> File(4) @@ "hidden" :> [File(4) EXCEPT !.readable = FALSE]]

Bytes(first, last) == [unit |-> "bytes", ranges |-> <<[first |-> first, last |-> last]>>]
Plain(via, path) ==
  [via |-> via, method |-> "GET", rooted |-> TRUE, path |-> path, te |-> FALSE, clen |-> NULL, chunked |-> FALSE,
   range |-> NULL, size |-> 3, body |-> 0]

Doc == <<"description.xml">>
Index == <<"index.html">>
Film == <<"web", "1">>
DocRequests == {
  Plain("Get", Doc), Plain("Download", Doc), [Plain("Foreign", Doc) EXCEPT !.method = "HEAD"],
  [Plain("Post", Doc) EXCEPT !.method = "POST"]}
IndexRequests == {
  Plain("Get", Index), [Plain("Post", Index) EXCEPT !.method = "POST", !.clen = 3, !.body = 3],
  [Plain("Post", Index) EXCEPT !.method = "POST", !.chunked = TRUE, !.body = 3, !.size = 2]}
OtherRequests == {
  [Plain("GetEx", Film) EXCEPT !.range = Bytes(1, 9), !.size = 2], Plain("Download", Film),
  [Plain("GetEx", Film) EXCEPT !.range = Bytes(3, 1)], [Plain("GetEx", Film) EXCEPT !.range = Bytes(4, 9)],
  [Plain("Foreign", Film) EXCEPT !.range = Bytes(-1, 3)], [Plain("Foreign", Film) EXCEPT !.te = TRUE],
  [Plain("Foreign", <<"services", "cds.xml">>) EXCEPT !.range = Bytes(1, -1)],
  [Plain("Foreign", Film) EXCEPT !.range = [unit |-> "lines", ranges |-> <<>>]],
  Plain("Get", <<"web", "2">>), Plain("Download", <<"web", "7">>),
  Plain("Get", <<"web", "..">>), [Plain("Foreign", <<"..">>) EXCEPT !.method = "SIMPLEGET"],
  [Plain("Foreign", <<"*">>) EXCEPT !.rooted = FALSE], [Plain("Post", Film) EXCEPT !.method = "POST"]}

\* upnp_init registers its device twice; an application may set up the rest.
Desc == [type |-> "BUF", name |-> <<>>, xml |-> FALSE, found |-> TRUE, urlbase |-> NULL]
Register(desc) == [call |-> "register", desc |-> desc, config_baseURL |-> TRUE]
Unregister == [call |-> "unregister", desc |-> Desc, config_baseURL |-> TRUE]
Dir(op, dir) == [call |-> "dir", op |-> op, dir |-> dir]
Enable(b) == [call |-> "enable", enable |-> b]
Dirs == <<Dir("add", <<"web">>), Dir("add", <<"services">>)>>
Starts == Dirs \o <<Register(Desc), Unregister, Register(Desc)>>
Changes ==
  Dirs \o <<Dir("remove", <<"web">>), Dir("all", <<>>), Register([Desc EXCEPT !.type = "FILE"]),
            Register([Desc EXCEPT !.type = "FILE", !.xml = TRUE, !.name = Doc, !.urlbase = <<>>])>>
Restarts ==
  Dirs \o <<Register(Desc), Enable(FALSE), Enable(TRUE), [call |-> "root"], [call |-> "length", length |-> 1]>>

\* Connections are 1 and 2; what they do to each other goes through the description and through files.
With(calls, r1, r2) == [calls |-> calls, asks |-> <<r1, r2>>]
MCScenarios ==
  {With(Starts, r1, r2) : r1, r2 \in DocRequests} \cup {With(<<>>, r1, r2) : r1, r2 \in IndexRequests}
  \cup {With(calls, r, NULL) : calls \in {Starts, Changes, Restarts}, r \in DocRequests \cup IndexRequests \cup OtherRequests}
=============================================================================
