------------------------------ MODULE WebServer ------------------------------
(***************************************************************************)
(* The web server of upnp/webserver.c, the calls of upnp/upnpapi.c that    *)
(* set it up, and the HTTP client of upnp/httpreadwrite.c that reads from  *)
(* it: every connection has a job that runs handle_request at one end and  *)
(* a caller of the client functions at the other.                          *)
(*                                                                         *)
(* A byte of content is its position in the resource, a message a head and *)
(* pieces of content.                                                       *)
(***************************************************************************)
EXTENDS WebRequest, FiniteSets

CONSTANTS
  Conns,            \* connections, one request each
  Scenarios,        \* the application's calls (see Owner), and what the client of each connection asks
                    \* for: NULL, or a request with via, size (of a read or write) and body
  Docs,             \* description documents, as numbers: a bound on those that are made
  DocLength,        \* their length
  InitialFiles,     \* what lies under the document root
  Virtual,          \* items, services and disk of HttpFiles
  WEB_SERVER_BUF_SIZE,
  MaxContentLength  \* g_maxContentLength at the start

ASSUME WebServerAssumption ==
  /\ IsFiniteSet(Conns)
  /\ Docs \subseteq Nat \ {0} /\ NULL \notin Docs

\* NULL is none of the values it stands in for the absence of.
ASSUME NullAssumption ==
  /\ NULL \notin Int /\ NULL \notin {"SUCCESS", "closed"} /\ NULL \notin Seq(STRING)
  /\ NULL \notin [status : Nat, clen : Nat \cup {NULL}, chunked : BOOLEAN]
  /\ NULL \notin [type : {"LOCAL", "MEMORY"}, name : Seq(STRING) \cup DOMAIN Virtual.disk \cup {NULL}, pos : Nat, len : Nat]

ASSUME ContentAssumption ==
  /\ DocLength \in Nat /\ WEB_SERVER_BUF_SIZE \in Nat \ {0} /\ "index.html" \in STRING
  /\ \A file \in DOMAIN InitialFiles : InitialFiles[file] \in [length : Nat, directory : BOOLEAN, readable : BOOLEAN]
  /\ \A file \in DOMAIN Virtual.disk : Virtual.disk[file].length \in Nat
  /\ \A url \in DOMAIN Virtual.services : Virtual.services[url] \in Nat

\* Who reads asks for a byte at least with every call; a range of bytes has numbers or leaves them out.
Requests == {s.asks[c] : s \in Scenarios, c \in Conns} \ {NULL}
ASSUME RequestsAssumption ==
  \A r \in Requests :
    /\ r.size \in Nat \ {0} /\ r.body \in Nat /\ r.clen \in Nat \cup {NULL} /\ r.te \in BOOLEAN
    /\ remove_dots(r.path) \in Seq(STRING) \cup {NULL}
    /\ (r.range # NULL /\ r.range.unit = "bytes") =>
         /\ r.range.ranges # <<>>
         /\ r.range.ranges \in Seq([first : Nat \cup {-1}, last : Nat \cup {-1}])

VARIABLES
  state,            \* "running", or stopped by a failed "assertion" or by the "heap"
  enabled,          \* bWebServerState and gGetCallback
  gAliasDoc,        \* [name, doc]: doc is NULL when doc.buf is
  ct,               \* the count of each document, which survives it as freed memory does
  freed,            \* documents whose memory was freed
  given,            \* how often the owner gave up each document
  pVirtualDirList,  \* paths
  gDocumentRootDir, \* whether a root directory is set
  files,            \* files under it
  g_maxContentLength,
  owner,            \* what is left of the application's calls, and the document it makes
  job,              \* the handler of each connection
  client,           \* the caller at its other end
  up,               \* what clients have sent: the head, bytes of the body, its end when chunked
  down,             \* what was answered: the head, the bytes, their end when chunked
  closed            \* the ends that closed each connection

vars == <<state, enabled, gAliasDoc, ct, freed, given, pVirtualDirList, gDocumentRootDir, files,
          g_maxContentLength, owner, job, client, up, down, closed>>
aliasVars == <<gAliasDoc, ct, freed, given>>
setupVars == <<enabled, pVirtualDirList, gDocumentRootDir, g_maxContentLength>>
wireVars == <<up, down, closed>>

NoAlias == [name |-> NULL, doc |-> NULL]
NoJob == [pc |-> "none", alias |-> NoAlias, stale |-> FALSE, virtual |-> FALSE, file |-> NULL,
          instr |-> NULL, fp |-> NULL, left |-> 0, have |-> 0, whole |-> FALSE]
NewClient(req) == [pc |-> IF req = NULL THEN "done" ELSE "start", req |-> req, entity |-> <<>>, complete |-> FALSE,
                   offset |-> 0, cancel |-> FALSE, ret |-> NULL]

Init ==
  /\ state = "running" /\ enabled = TRUE
  /\ gAliasDoc = NoAlias
  /\ ct = [d \in Docs |-> 0] /\ freed = {} /\ given = [d \in Docs |-> 0]
  /\ pVirtualDirList = <<>> /\ gDocumentRootDir = TRUE /\ files = InitialFiles
  /\ g_maxContentLength = MaxContentLength
  /\ \E s \in Scenarios :
       /\ owner = [calls |-> s.calls, releasing |-> FALSE, docs |-> 0, url |-> NULL]
       /\ client = [c \in Conns |-> NewClient(s.asks[c])]
  /\ job = [c \in Conns |-> NoJob]
  /\ up = [c \in Conns |-> [head |-> FALSE, bytes |-> 0, end |-> FALSE]]
  /\ down = [c \in Conns |-> [head |-> NULL, body |-> <<>>, end |-> FALSE]]
  /\ closed = [c \in Conns |-> {}]

fs(c) == IF job[c].virtual THEN Virtual ELSE [disk |-> files]

-----------------------------------------------------------------------------
(* The served document *)

\* The values of count, freed documents and whether all goes on after a document's count falls.
\* Freeing what is free is found out by the heap, or is not.
Released(d, count, gone, goesOn) ==
  /\ count = [ct EXCEPT ![d] = @ - 1]
  /\ gone = IF count[d] <= 0 THEN freed \cup {d} ELSE freed
  /\ goesOn \in IF d \in freed THEN BOOLEAN ELSE {TRUE}

\* alias_release(&gAliasDoc)
ReleaseGlobal ==
  IF gAliasDoc.doc = NULL THEN UNCHANGED <<aliasVars, state>>
  ELSE LET d == gAliasDoc.doc IN
    \E goesOn \in BOOLEAN :
      /\ Released(d, ct', freed', goesOn)
      /\ gAliasDoc' = IF ct'[d] <= 0 THEN NoAlias ELSE gAliasDoc
      /\ given' = [given EXCEPT ![d] = @ + 1]
      /\ state' = IF goesOn THEN state ELSE "heap"

\* alias_release of a job's copy.
ReleaseCopy(alias) ==
  IF alias.doc = NULL THEN UNCHANGED <<aliasVars, state>>
  ELSE \E goesOn \in BOOLEAN :
      /\ Released(alias.doc, ct', freed', goesOn)
      /\ state' = IF goesOn THEN state ELSE "heap"
      /\ UNCHANGED <<gAliasDoc, given>>

-----------------------------------------------------------------------------
(* The application: dlnaRegisterRootDevice2, dlnaUnRegisterRootDevice and the setters *)

Call == Head(owner.calls)
Returns(o) == owner' = [o EXCEPT !.calls = Tail(@), !.releasing = FALSE]

\* web_server_set_alias, first its release of the document before.
web_server_set_alias ==
  /\ owner.calls # <<>> /\ Call.call \in {"register", "unregister"} /\ ~owner.releasing
  /\ LET url == GetDescDocumentAndURL(Call.desc, Call.config_baseURL) IN
       IF Call.call = "register" /\ (url = NULL \/ ~Call.config_baseURL)
         THEN Returns([owner EXCEPT !.url = url]) /\ UNCHANGED <<aliasVars, state>>
         ELSE /\ ReleaseGlobal
              /\ IF Call.call = "unregister" THEN Returns([owner EXCEPT !.url = NULL])
                 ELSE owner' = [owner EXCEPT !.releasing = TRUE, !.url = url]
  /\ UNCHANGED <<setupVars, files, job, client, wireVars>>

AssignAlias ==
  /\ owner.releasing /\ owner.docs + 1 \in Docs
  /\ LET d == owner.docs + 1 IN
       /\ ct' = [ct EXCEPT ![d] = 1]
       /\ gAliasDoc' = [name |-> owner.url, doc |-> d]
       /\ Returns([owner EXCEPT !.docs = d])
  /\ UNCHANGED <<state, freed, given, setupVars, files, job, client, wireVars>>

\* The head of several directories is freed and stays the head: what is behind it is lost, or not.
dlnaRemoveVirtualDir(dir) ==
  IF Len(pVirtualDirList) > 1 /\ pVirtualDirList[1] = dir
    THEN pVirtualDirList' \in {pVirtualDirList, <<dir>>}
    ELSE pVirtualDirList' = SelectSeq(pVirtualDirList, LAMBDA d : d # dir)

dlnaAddVirtualDir(dir) ==
  pVirtualDirList' = IF Contains(pVirtualDirList, dir) THEN pVirtualDirList ELSE Append(pVirtualDirList, dir)

web_server_destroy ==
  IF ~enabled THEN UNCHANGED <<aliasVars, state, gDocumentRootDir>>
  ELSE \E goesOn \in BOOLEAN :
    /\ gDocumentRootDir' = FALSE /\ gAliasDoc' = NoAlias
    /\ IF gAliasDoc.doc = NULL THEN UNCHANGED <<ct, freed, given, state>>
       ELSE /\ Released(gAliasDoc.doc, ct', freed', goesOn)
            /\ given' = [given EXCEPT ![gAliasDoc.doc] = @ + 1]
            /\ state' = IF goesOn THEN state ELSE "heap"

web_server_init ==
  IF enabled THEN UNCHANGED <<gAliasDoc, pVirtualDirList, gDocumentRootDir>>
  ELSE gAliasDoc' = NoAlias /\ pVirtualDirList' = <<>> /\ gDocumentRootDir' = FALSE

dlnaEnableWebserver(enable) ==
  /\ enabled' = enable
  /\ IF enable THEN web_server_init /\ UNCHANGED <<ct, freed, given, state>>
     ELSE web_server_destroy /\ UNCHANGED pVirtualDirList

dlnaRemoveAllVirtualDirs == pVirtualDirList' = <<>>
dlnaSetWebServerRootDir == gDocumentRootDir' = TRUE
dlnaSetMaxContentLength(n) == g_maxContentLength' = n

Setup ==
  /\ owner.calls # <<>> /\ Call.call \notin {"register", "unregister"}
  /\ Returns(owner)
  /\ \/ Call.call = "enable" /\ dlnaEnableWebserver(Call.enable) /\ UNCHANGED g_maxContentLength
     \/ /\ Call.call = "dir"
        /\ \/ Call.op = "add" /\ dlnaAddVirtualDir(Call.dir)
           \/ Call.op = "remove" /\ dlnaRemoveVirtualDir(Call.dir)
           \/ Call.op = "all" /\ dlnaRemoveAllVirtualDirs
        /\ UNCHANGED <<aliasVars, state, enabled, gDocumentRootDir, g_maxContentLength>>
     \/ /\ Call.call = "root" /\ dlnaSetWebServerRootDir
        /\ UNCHANGED <<aliasVars, state, enabled, pVirtualDirList, g_maxContentLength>>
     \/ /\ Call.call = "length" /\ dlnaSetMaxContentLength(Call.length)
        /\ UNCHANGED <<aliasVars, state, enabled, pVirtualDirList, gDocumentRootDir>>
  /\ UNCHANGED <<files, job, client, wireVars>>

-----------------------------------------------------------------------------
(* The job of a connection *)

req(c) == client[c].req
Now(c, j) == job' = [job EXCEPT ![c] = j]

\* Writes may fail once the client has closed its end.
MayFail(c) == IF "client" \in closed[c] THEN BOOLEAN ELSE {FALSE}

Answers(c, head, body) ==
  down' = [down EXCEPT ![c].head = head, ![c].body = @ \o body]

\* handle_request returns, and the connection is closed.
Closes(c, j) ==
  /\ Now(c, [j EXCEPT !.pc = "done"])
  /\ closed' = [closed EXCEPT ![c] = @ \cup {"server"}]

http_SendStatusResponse(c, code) ==
  /\ Answers(c, [status |-> code, clen |-> 1, chunked |-> FALSE], <<0>>)
  /\ Closes(c, job[c])

\* process_request up to is_valid_alias, which it asks unlocked.
StartRequest(c) ==
  LET path == remove_dots(req(c).path)
      virtual == isFileInVirtualDir(pVirtualDirList, path)
  IN  IF path = NULL THEN http_SendStatusResponse(c, HTTP_FORBIDDEN)
      ELSE IF ~req(c).rooted THEN http_SendStatusResponse(c, HTTP_BAD_REQUEST)
      ELSE /\ Now(c, [job[c] EXCEPT !.virtual = virtual, !.file = path,
                         !.pc = IF ~virtual /\ gAliasDoc.doc # NULL THEN "grab" ELSE "resolve"])
           /\ UNCHANGED <<down, closed>>

dispatch_request(c) ==
  IF enabled THEN StartRequest(c) ELSE http_SendStatusResponse(c, HTTP_INTERNAL_SERVER_ERROR)

handle_request(c) ==
  /\ job[c].pc = "none" /\ up[c].head
  /\ dispatch_request(c)
  /\ UNCHANGED <<state, aliasVars, setupVars, files, owner, client, up>>

\* A bug: the copy is not counted.
alias_grab_Uncounted(c) ==
  /\ job[c].pc = "grab"
  /\ Now(c, [job[c] EXCEPT !.alias = gAliasDoc, !.pc = "resolve"])
  /\ UNCHANGED <<ct, state, gAliasDoc, freed, given, setupVars, files, owner, client, wireVars>>

\* gAliasDoc may point to a document that its last reader has freed: the assertion holds of it,
\* and the job counts itself in freed memory, which the heap finds out or does not.
alias_grab(c) ==
  /\ job[c].pc = "grab"
  /\ LET d == gAliasDoc.doc IN
       IF d = NULL
         THEN state' = "assertion" /\ UNCHANGED <<job, ct>>
         ELSE /\ ct' = [ct EXCEPT ![d] = @ + 1]
              /\ Now(c, [job[c] EXCEPT !.alias = gAliasDoc, !.stale = d \in freed, !.pc = "resolve"])
              /\ state' \in IF d \in freed THEN {state, "heap"} ELSE {state}
  /\ UNCHANGED <<gAliasDoc, freed, given, setupVars, files, owner, client, wireVars>>

\* A file and what is known of it; a directory stands for its index.html.
Lookup(virtual, path) ==
  LET info(p) == IF virtual THEN dlna_http_get_info(Virtual, p) ELSE get_file_info(files, p)
      index == Append(path, "index.html")
      dir == info(path) # NULL /\ info(path).is_directory
      file == IF dir THEN index ELSE path
      i == info(file)
  IN  IF i = NULL \/ i.is_directory THEN [code |-> HTTP_NOT_FOUND]
      ELSE IF ~i.is_readable THEN [code |-> HTTP_FORBIDDEN]
      ELSE [code |-> OK, file |-> file, length |-> i.file_length]

UsingAlias(c) == job[c].alias.doc # NULL /\ job[c].alias.name = job[c].file

Resolved(c) ==
  LET path == job[c].file
      post == req(c).method = "POST"
      found(file) == [code |-> OK, file |-> file, length |-> 0]
  IN  IF UsingAlias(c) THEN [code |-> OK, file |-> NULL, length |-> DocLength]
      ELSE IF job[c].virtual
        THEN IF post THEN found(path) ELSE Lookup(TRUE, path)
      ELSE IF ~gDocumentRootDir THEN [code |-> HTTP_INTERNAL_SERVER_ERROR]
      ELSE IF post THEN found(path)
      ELSE Lookup(FALSE, path)

\* The rest of process_request, and the head that http_SendMessage sends first.
process_request(c) ==
  /\ job[c].pc = "resolve"
  /\ \E found \in {Resolved(c)} :
     \E instr \in {IF found.code = OK THEN CheckOtherHTTPHeaders(req(c), found.length) ELSE found} :
     LET j == [job[c] EXCEPT !.file = found.file, !.instr = instr, !.left = instr.size]
         head == IF req(c).method = "SIMPLEGET" THEN NULL ELSE AnswerHead(instr)
     IN  IF instr.code # OK
           THEN http_SendStatusResponse(c, instr.code) /\ ReleaseCopy(job[c].alias)
         ELSE /\ UNCHANGED <<state, aliasVars>>
              /\ IF req(c).method = "POST"
                   THEN Now(c, [j EXCEPT !.pc = "post"]) /\ UNCHANGED <<down, closed>>
                   ELSE /\ Answers(c, head, <<>>)
                        /\ \E fails \in MayFail(c) :
                             IF req(c).method = "HEAD" \/ (fails /\ ~UsingAlias(c)) THEN Closes(c, j)
                             ELSE /\ Now(c, [j EXCEPT !.pc = IF UsingAlias(c) THEN "document" ELSE "open"])
                                  /\ UNCHANGED closed
  /\ UNCHANGED <<setupVars, files, owner, client, up>>

\* The document goes out whole, whatever the range; only here is a copy given back that was used.
SendDocument(c) ==
  /\ job[c].pc = "document"
  /\ Answers(c, down[c].head, [i \in 1..DocLength |-> i - 1])
  /\ ReleaseCopy(job[c].alias)
  /\ Closes(c, job[c])
  /\ UNCHANGED <<setupVars, files, owner, client, up>>

OpenFile(c) ==
  /\ job[c].pc = "open"
  /\ LET j == job[c]
         fp == IF j.virtual THEN dlna_http_open(Virtual, j.file, "READ")
               ELSE [type |-> "LOCAL", name |-> j.file, pos |-> 0, len |-> 0]
         at == IF fp = NULL \/ ~j.instr.active THEN fp ELSE dlna_http_seek(fs(c), fp, j.instr.offset, "CUR")
     IN  IF at = NULL THEN Closes(c, j)
         ELSE Now(c, [j EXCEPT !.fp = at, !.pc = "send"]) /\ UNCHANGED closed
  /\ UNCHANGED <<state, aliasVars, setupVars, files, owner, client, up, down>>

\* A bug: a read that returns nothing does not end the answer.
SendPiece_Goes(c) ==
  /\ job[c].pc = "send"
  /\ LET j == job[c]
         n == dlna_http_read(fs(c), j.fp, Min({j.left, j.instr.size, WEB_SERVER_BUF_SIZE}))
     IN  IF j.left = 0 THEN Closes(c, [j EXCEPT !.fp = NULL]) /\ UNCHANGED down
         ELSE /\ down' = [down EXCEPT ![c].body = @ \o [i \in 1..n |-> j.fp.pos + i - 1]]
              /\ Now(c, [j EXCEPT !.fp = Advanced(@, n), !.left = @ - n])
              /\ UNCHANGED closed
  /\ UNCHANGED <<state, aliasVars, setupVars, files, owner, client, up>>

\* One turn of the loop of http_SendMessage.
SendPiece(c) ==
  /\ job[c].pc = "send"
  /\ LET j == job[c]
         n == dlna_http_read(fs(c), j.fp, Min({j.left, j.instr.size, WEB_SERVER_BUF_SIZE}))
     IN  IF j.left = 0 THEN Closes(c, [j EXCEPT !.fp = NULL]) /\ UNCHANGED down
         ELSE IF n = 0 THEN /\ Closes(c, [j EXCEPT !.fp = NULL])
                            /\ down' = [down EXCEPT ![c].end = j.instr.chunked]
         ELSE /\ down' = [down EXCEPT ![c].body = @ \o [i \in 1..n |-> j.fp.pos + i - 1]]
              /\ \E fails \in MayFail(c) :
                   IF fails THEN Closes(c, [j EXCEPT !.fp = NULL])
                   ELSE /\ Now(c, [j EXCEPT !.fp = Advanced(@, n), !.left = @ - n])
                        /\ UNCHANGED closed
  /\ UNCHANGED <<state, aliasVars, setupVars, files, owner, client, up>>

\* What web_server_callback answers to a POST.
PostAnswer(c, code) == Answers(c, [status |-> code, clen |-> NULL, chunked |-> FALSE], <<>>)

\* The beginning of http_RecvPostMessage, which empties the file before it looks at the request.
OpenPost(c) ==
  /\ job[c].pc = "post"
  /\ LET file == job[c].file
         ok == ~job[c].virtual /\ file # NULL /\ (file \in DOMAIN files => ~files[file].directory)
     IN  IF ~ok
           THEN /\ PostAnswer(c, IF job[c].virtual THEN HTTP_INTERNAL_SERVER_ERROR ELSE HTTP_UNAUTHORIZED)
                /\ Closes(c, job[c]) /\ UNCHANGED files
         ELSE /\ files' = [f \in DOMAIN files \cup {file} |->
                           IF f = file THEN [length |-> 0, directory |-> FALSE, readable |-> TRUE] ELSE files[f]]
              /\ IF req(c).chunked \/ req(c).clen \notin {0, NULL}
                   THEN Now(c, [job[c] EXCEPT !.pc = "recv", !.left = 0]) /\ UNCHANGED <<down, closed>>
                   ELSE PostAnswer(c, HTTP_BAD_REQUEST) /\ Closes(c, job[c])
  /\ UNCHANGED <<state, aliasVars, setupVars, owner, client, up>>

\* In the loop of http_RecvPostMessage, have bytes are in the message and left of them are in the file.
Wanting(c) == ~job[c].whole /\ job[c].left + WEB_SERVER_BUF_SIZE > job[c].have

RecvPost(c) ==
  /\ job[c].pc = "recv" /\ Wanting(c)
  /\ LET have == IF req(c).chunked THEN up[c].bytes ELSE Min({up[c].bytes, req(c).clen})
         whole == IF req(c).chunked THEN up[c].end ELSE have = req(c).clen
     IN  \/ /\ have > job[c].have \/ whole
            /\ Now(c, [job[c] EXCEPT !.have = have, !.whole = whole])
            /\ UNCHANGED <<down, closed>>
         \/ /\ have = job[c].have /\ ~whole /\ "client" \in closed[c]
            /\ PostAnswer(c, HTTP_BAD_REQUEST) /\ Closes(c, job[c])
  /\ UNCHANGED <<state, aliasVars, setupVars, files, owner, client, up>>

WritePost(c) ==
  /\ job[c].pc = "recv" /\ ~Wanting(c)
  /\ LET n == Min({WEB_SERVER_BUF_SIZE, job[c].have - job[c].left})
         at == job[c].left + n
     IN  /\ files' = [files EXCEPT ![job[c].file].length = Max({@, at})]
         /\ IF job[c].whole /\ at = job[c].have
              THEN PostAnswer(c, OK) /\ Closes(c, [job[c] EXCEPT !.left = at])
              ELSE Now(c, [job[c] EXCEPT !.left = at]) /\ UNCHANGED <<down, closed>>
  /\ UNCHANGED <<state, aliasVars, setupVars, owner, client, up>>

-----------------------------------------------------------------------------
(* The caller at the other end *)

Ends(c, r) ==
  /\ client' = [client EXCEPT ![c] = [r EXCEPT !.pc = "done"]]
  /\ closed' = [closed EXCEPT ![c] = @ \cup {"client"}]
Goes(c, r) == client' = [client EXCEPT ![c] = r] /\ UNCHANGED closed

\* The connection is made and the request sent.
Sends(c, pc) == up' = [up EXCEPT ![c].head = TRUE] /\ Goes(c, [client[c] EXCEPT !.pc = pc])

http_OpenHttpGetProxy(c) == req(c).via = "Get" /\ Sends(c, "head")

http_OpenHttpGetEx(c) ==
  /\ req(c).via = "GetEx"
  /\ LET r == req(c).range.ranges[1]
     IN  IF r.first > r.last THEN Ends(c, [client[c] EXCEPT !.ret = "INTERNAL_ERROR"]) /\ UNCHANGED up
         ELSE Sends(c, "head")

http_Download(c) == req(c).via \in {"Download", "Foreign"} /\ Sends(c, "head")

http_OpenHttpPost(c) == req(c).via = "Post" /\ Sends(c, "write")

Opens(c) ==
  /\ client[c].pc = "start"
  /\ http_OpenHttpGetProxy(c) \/ http_OpenHttpGetEx(c) \/ http_Download(c) \/ http_OpenHttpPost(c)
  /\ UNCHANGED <<state, aliasVars, setupVars, files, owner, job, down>>

http_WriteHttpPost(c) ==
  /\ client[c].pc = "write" /\ up[c].bytes < req(c).body
  /\ up' = [up EXCEPT ![c].bytes = Min({@ + req(c).size, req(c).body})]
  /\ UNCHANGED <<state, aliasVars, setupVars, files, owner, job, client, down, closed>>

\* http_CloseHttpPost, up to its wait for an answer.
http_CloseHttpPost(c) ==
  /\ client[c].pc = "write" /\ up[c].bytes = req(c).body
  /\ up' = [up EXCEPT ![c].end = req(c).chunked]
  /\ client' = [client EXCEPT ![c].pc = "head"]
  /\ UNCHANGED <<state, aliasVars, setupVars, files, owner, job, down, closed>>

\* A process that posts may go.
Abort(c) ==
  /\ client[c].pc = "write"
  /\ Ends(c, [client[c] EXCEPT !.ret = "aborted"])
  /\ UNCHANGED <<state, aliasVars, setupVars, files, owner, job, up, down>>

Gone(c) == "server" \in closed[c]

\* What the parser makes of the answer as far as it has come.
Entity(c) ==
  LET head == down[c].head
  IN  IF head.clen = NULL THEN down[c].body ELSE SubSeq(down[c].body, 1, Min({head.clen, Len(down[c].body)}))
Complete(c) ==
  LET head == down[c].head
  IN  IF head.chunked THEN down[c].end ELSE head.clen # NULL /\ Len(down[c].body) >= head.clen
UntilClose(c) == down[c].head.clen = NULL /\ ~down[c].head.chunked
Bad(c) == down[c].head = NULL \/ down[c].head.clen = 0

\* ReadResponseLineAndHeaders and parser_get_entity_read_method, at the end of http_OpenHttpGet.
ReadResponseLineAndHeaders(c) ==
  /\ client[c].pc = "head" /\ req(c).via \in {"Get", "GetEx"}
  /\ down[c].head # NULL \/ Gone(c)
  /\ IF Bad(c) THEN Ends(c, [client[c] EXCEPT !.ret = "BAD_RESPONSE"])
     ELSE Goes(c, [client[c] EXCEPT !.pc = "read"])
  /\ UNCHANGED <<state, aliasVars, setupVars, files, owner, job, up, down>>

Needs(c) ==
  client[c].offset + req(c).size > Len(client[c].entity) /\ ~client[c].complete /\ ~client[c].cancel

\* The loop of http_ReadHttpGet.
ReadMore(c) ==
  /\ client[c].pc = "read" /\ Needs(c)
  /\ \/ /\ Entity(c) # client[c].entity \/ Complete(c)
        /\ Goes(c, [client[c] EXCEPT !.entity = Entity(c), !.complete = Complete(c)])
     \/ /\ Entity(c) = client[c].entity /\ ~Complete(c) /\ Gone(c)
        /\ IF UntilClose(c) THEN Goes(c, [client[c] EXCEPT !.complete = TRUE])
           ELSE Ends(c, [client[c] EXCEPT !.ret = "BAD_HTTPMSG"])
  /\ UNCHANGED <<state, aliasVars, setupVars, files, owner, job, up, down>>

\* The rest of it; the caller reads again, or closes after an empty read or a cancelled one.
http_ReadHttpGet(c) ==
  /\ client[c].pc = "read" /\ ~Needs(c)
  /\ LET n == Min({req(c).size, Len(client[c].entity) - client[c].offset})
         r == [client[c] EXCEPT !.offset = @ + n]
     IN  IF r.cancel THEN Ends(c, [r EXCEPT !.ret = "CANCELED"])
         ELSE IF n = 0 THEN Ends(c, [r EXCEPT !.ret = "SUCCESS"])
         ELSE Goes(c, r)
  /\ UNCHANGED <<state, aliasVars, setupVars, files, owner, job, up, down>>

http_CancelHttpGet(c) ==
  /\ client[c].pc = "read" /\ ~client[c].cancel
  /\ Goes(c, [client[c] EXCEPT !.cancel = TRUE])
  /\ UNCHANGED <<state, aliasVars, setupVars, files, owner, job, up, down>>

\* http_RecvMessage for http_Download and http_CloseHttpPost, whose status is never set.
http_RecvMessage(c) ==
  /\ client[c].pc = "head" /\ req(c).via \in {"Download", "Post", "Foreign"}
  /\ Gone(c) \/ (req(c).via = "Download" /\ down[c].head # NULL /\ Complete(c))
  /\ LET ended == Complete(c) \/ UntilClose(c)
         ret == IF Bad(c) \/ ~ended THEN "BAD_HTTPMSG"
                ELSE IF down[c].head.clen # NULL /\ down[c].head.clen > g_maxContentLength THEN "OUTOF_BOUNDS"
                ELSE IF req(c).via = "Download" /\ down[c].head.status # OK THEN "STATUS"
                ELSE "SUCCESS"
     IN  Ends(c, IF req(c).via = "Foreign" THEN [client[c] EXCEPT !.entity = down[c].body, !.ret = "closed"]
                 ELSE [client[c] EXCEPT !.ret = ret, !.entity = IF ret = "SUCCESS" THEN Entity(c) ELSE <<>>])
  /\ UNCHANGED <<state, aliasVars, setupVars, files, owner, job, up, down>>

-----------------------------------------------------------------------------
Serve(c) ==
  \/ handle_request(c) \/ alias_grab(c) \/ process_request(c) \/ SendDocument(c)
  \/ OpenFile(c) \/ SendPiece(c) \/ OpenPost(c) \/ RecvPost(c) \/ WritePost(c)

Ask(c) ==
  \/ Opens(c) \/ http_WriteHttpPost(c) \/ http_CloseHttpPost(c) \/ ReadResponseLineAndHeaders(c)
  \/ ReadMore(c) \/ http_ReadHttpGet(c) \/ http_RecvMessage(c)

Owner == web_server_set_alias \/ AssignAlias \/ Setup

Next ==
  /\ state = "running"
  /\ \/ Owner
     \/ \E c \in Conns : Serve(c) \/ Ask(c) \/ Abort(c) \/ http_CancelHttpGet(c)

\* Jobs and callers are threads; nothing makes a process abort or cancel.
Spec == Init /\ [][Next]_vars
FairSpec == Spec /\ \A c \in Conns : WF_vars(state = "running" /\ Serve(c)) /\ WF_vars(state = "running" /\ Ask(c))

-----------------------------------------------------------------------------
(* Properties *)

\* A job that counts itself while the document is in memory has it until it gives it back, also when
\* the owner gives the document up meanwhile, once (webserver.c:417-435, 467), and what the owner has
\* not given up is in memory to be counted.  Left out is the job that counts itself after the last
\* reader has freed a document that was given up (399-400): `stale` marks it, it reads freed
\* memory, and the property says nothing of it.
CountedDocumentStays ==
  /\ \A c \in Conns : LET d == job[c].alias.doc IN
       (job[c].pc \in {"resolve", "document"} /\ d # NULL /\ ~job[c].stale /\ given[d] <= 1) => d \notin freed
  /\ gAliasDoc.doc # NULL /\ given[gAliasDoc.doc] = 0 => gAliasDoc.doc \notin freed

Wanted(spec, length) ==
  LET r == spec.ranges[1]
      first == IF spec = NULL THEN 0 ELSE IF r.first = -1 THEN Max({0, length - r.last}) ELSE r.first
      last == IF spec = NULL \/ r.first = -1 \/ r.last = -1 THEN length - 1 ELSE Min({r.last, length - 1})
  IN  [i \in 1..(last - first + 1) |-> first + i - 1]

\* A call that succeeds has read the bytes it asked for, no more and no fewer, however the server
\* cut them (httpreadwrite.c:379, webserver.c:944).  Files that are posted to and ranges of the
\* description, which is sent whole, are left out; a freed description is taken to hold what it held.
DownloadIsWhole ==
  \A c \in Conns :
    LET file == job[c].file
        length == IF file = NULL THEN DocLength
                  ELSE IF job[c].virtual THEN dlna_http_get_info(Virtual, file).file_length
                  ELSE files[file].length
        changing == file # NULL /\ ~job[c].virtual
                    /\ \E b \in Conns : req(b) # NULL /\ req(b).method = "POST" /\ remove_dots(req(b).path) = file
        whole == client[c].ret = "SUCCESS" \/ (client[c].ret = "closed" /\ req(c).method = "GET")
    IN  (whole /\ down[c].head.status \in {OK, HTTP_PARTIAL_CONTENT} /\ req(c).method = "GET"
         /\ ~changing /\ (file = NULL => req(c).range = NULL))
        => client[c].entity = Wanted(req(c).range, length)

\* Every call of the client functions returns, without a time-out, while the server runs (httpreadwrite.c:1314,
\* webserver.c:1548).
EveryCallReturns == <>(state # "running" \/ \A c \in Conns : client[c].pc = "done")
=============================================================================
