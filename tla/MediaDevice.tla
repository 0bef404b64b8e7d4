----------------------------- MODULE MediaDevice -----------------------------
(***************************************************************************)
(* dlna.c, upnp.c, upnp_dms.c and upnp_dmr.c: a media server or renderer.  *)
(* Its owner sets it up, gives it files to offer, takes them away and shuts *)
(* it down, while control points ask it for the actions it has described.  *)
(* The process may be killed at any moment: its data base is what a next   *)
(* one finds.                                                              *)
(*                                                                         *)
(* A request is taken in when it is sent: what happens on its way could as *)
(* well have happened before.                                              *)
(***************************************************************************)
EXTENDS Renderer, HttpFiles

CONSTANTS
  Databases,     \* name -> the data bases there are at first
  Interfaces,    \* the network interfaces that are up: name -> address, or NULL
  AnyFile,       \* a file a control point asks a renderer to play
  MaxPlayers,    \* as many players as the scenarios make
  Scenarios      \* [lives, asks]: the owner's calls in each of the processes to come, and what each control
                 \* point asks for, one after the other

VARIABLES
  dbs,        \* the data bases
  services,   \* dlna->services
  device,     \* the other settings, and the services the library knows of while the device is registered
  lives,      \* the calls the owner has yet to make in this process and those to come
  owner,      \* NULL, or where the owner is in a call that takes several steps
  asks,       \* control point -> what it has yet to ask for
  answers,    \* control point -> the last answer it has, or NULL
  pages       \* control point -> the entries it has read, page by page

vars == <<v, dmp, job, dbs, services, device, lives, owner, asks, answers, pages>>
asking == <<asks, answers, pages>>

-----------------------------------------------------------------------------
(* dlna.c: settings *)

UnsetDevice ==
  [settings |-> [friendly_name |-> "libdlna", manufacturer |-> "Benjamin Zores",
                 manufacturer_url |-> "http://libdlna.geexbox.org/", model_description |-> "libdlna device",
                 model_name |-> "libdlna", model_number |-> "libdlna-001", model_url |-> "http://libdlna.geexbox.org/",
                 serial_number |-> "libdlna-001", uuid |-> "01:23:45:67:89",
                 presentation_url |-> <<SERVICES_VIRTUAL_DIR, "presentation.html">>],
   interface |-> "lo", port |-> 0, flags |-> 0, check_extensions |-> 1, up |-> FALSE, table |-> NULL]

\* One function for each of the settings.
dlna_device_set(d, key, str) == IF str = NULL THEN d ELSE [d EXCEPT !.settings[key] = str]

has_network_interface(itf) == itf \in DOMAIN Interfaces

dlna_set_interface(d, itf) == IF has_network_interface(itf) THEN [d EXCEPT !.interface = itf] ELSE d

dlna_set_port(d, port) == IF port <= 0 \/ port > 65535 THEN d ELSE [d EXCEPT !.port = port]

dlna_set_org_flags(d, flags) == [d EXCEPT !.flags = flags]

dlna_set_extension_check(d, level) == IF v.mode # "DLNA" THEN d ELSE [d EXCEPT !.check_extensions = level]

get_iface_address(itf) == IF has_network_interface(itf) THEN Interfaces[itf] ELSE NULL

-----------------------------------------------------------------------------
(* The description of the device *)

device_add_service(service) ==
  LET url(name) == <<SERVICES_VIRTUAL_DIR, name>>
  IN  Element(NULL, "service", NULL,
        <<Arg("serviceType", service.type), Arg("serviceId", service.id), Arg("SCPDURL", url(service.scpd_url)),
          Arg("controlURL", url(service.control_url)), Arg("eventSubURL", url(service.event_url))>>)

\* No capability mode has the bit that asks for an X_DLNADOC element: there is none.
Described_(kind) ==
  LET s == device.settings
      model == IF v.mode = "UPNP_AV_XBOX" THEN "Windows Media Connect Compatible (" \o s.model_name \o ")"
               ELSE s.model_name
      list == Element(NULL, "serviceList", NULL, [i \in DOMAIN services |-> device_add_service(services[i])])
      about == <<Arg("deviceType", kind), Arg("friendlyName", s.friendly_name), Arg("manufacturer", s.manufacturer),
                 Arg("manufacturerURL", s.manufacturer_url), Arg("modelDescription", s.model_description),
                 Arg("modelName", model), Arg("modelNumber", s.model_number), Arg("modelURL", s.model_url),
                 Arg("serialNumber", s.serial_number), Arg("UDN", "uuid:" \o s.uuid),
                 Arg("presentationURL", s.presentation_url)>>
      whole == IF services = <<>> THEN about ELSE Append(about, list)
  IN  Document(Element(NULL, "root", NULL,
        <<Element(NULL, "specVersion", NULL, <<Arg("major", 1), Arg("minor", 0)>>),
          Element(NULL, "device", NULL, whole)>>))

dlna_dms_description_get == Described_("urn:schemas-upnp-org:device:MediaServer:1")
dlna_dmr_description_get == Described_("urn:schemas-upnp-org:device:MediaRenderer:1")

-----------------------------------------------------------------------------
(* The owner *)

Call == Head(Head(lives))
Calls(name) == lives # <<>> /\ Head(lives) # <<>> /\ Call.call = name /\ owner = NULL /\ ~v.broken
InCall(at) == owner # NULL /\ owner.at = at /\ ~v.broken
Returns == lives' = <<Tail(Head(lives))>> \o Tail(lives)

dlna_init ==
  /\ Calls("dlna_init")
  /\ v' = dlna_vfs_add_container(NoVfs, "root", 0, 0).v
  /\ device' = UnsetDevice
  /\ Returns
  /\ UNCHANGED <<dmp, job, dbs, services, owner, asking>>

\* The root keeps the id it has been given before.
dlna_set_capability_mode ==
  /\ Calls("mode")
  /\ v' = [v EXCEPT !.mode = Call.mode]
  /\ device' = IF Call.mode # "DLNA" THEN [device EXCEPT !.check_extensions = 1] ELSE device
  /\ Returns
  /\ UNCHANGED <<dmp, job, dbs, services, owner, asking>>

Sets ==
  /\ Calls("set")
  /\ device' = CASE Call.key = "interface" -> dlna_set_interface(device, Call.value)
                 [] Call.key = "port" -> dlna_set_port(device, Call.value)
                 [] Call.key = "flags" -> dlna_set_org_flags(device, Call.value)
                 [] Call.key = "check" -> dlna_set_extension_check(device, Call.value)
                 [] OTHER -> dlna_device_set(device, Call.key, Call.value)
  /\ Returns
  /\ UNCHANGED <<v, dmp, job, dbs, services, owner, asking>>

\* The tables are made where there are none.  A data base that cannot be opened leaves the server without.
dlna_dms_set_vfs_storage_type ==
  /\ Calls("storage")
  /\ v' = dms_db_open(v, dbs, Call.data)
  /\ dbs' = IF v'.db = NULL \/ dms_db_check(dbs[v'.db]) THEN dbs ELSE [dbs EXCEPT ![v'.db] = dms_db_create(@)]
  /\ Returns
  /\ UNCHANGED <<dmp, job, services, device, owner, asking>>

AddContainer ==
  /\ Calls("container")
  /\ v' = dlna_vfs_add_container(v, Call.name, Call.id, Call.parent).v
  /\ Returns
  /\ UNCHANGED <<dmp, job, dbs, services, device, owner, asking>>

\* dlna_vfs_add_resource, from here to the child that its parent gets: each insert is a transaction.
\* The call does not get further than a search for an id that finds none.
MakeResource ==
  /\ Calls("resource") /\ vfs_provide_next_id(v, Call.path) # NULL
  /\ \E made \in {AddResource_Make(v, dbs, Call.name, Call.path)} :
         /\ v' = made.v
         /\ IF made.p = NULL THEN Returns /\ UNCHANGED owner
            ELSE owner' = [at |-> IF made.new THEN "item" ELSE "publish", p |-> made.p] /\ UNCHANGED lives
  /\ UNCHANGED <<dmp, job, dbs, services, device, asking>>

Stores(at, next, db) ==
  /\ InCall(at)
  /\ dbs' = db
  /\ owner' = [owner EXCEPT !.at = next]
  /\ UNCHANGED <<v, dmp, job, services, device, lives, asking>>

StoreItem == Stores("item", "metadata", dms_db_add_item(v, dbs, v.mem[owner.p].id, v.mem[owner.p].item))
StoreMetadata == Stores("metadata", "properties", dms_db_add_metadata(v, dbs, v.mem[owner.p].id, v.mem[owner.p].item))
StoreProperties == Stores("properties", "publish", dms_db_add_properties(v, dbs, v.mem[owner.p].id, v.mem[owner.p].item))

PublishResource ==
  /\ InCall("publish")
  /\ v' = AddResource_Publish(v, owner.p, Call.parent)
  /\ IF v'.mem[owner.p].freed THEN Returns /\ owner' = NULL
     ELSE owner' = [owner EXCEPT !.at = "link"] /\ UNCHANGED lives
  /\ UNCHANGED <<dmp, job, dbs, services, device, asking>>

LinkResource ==
  /\ InCall("link")
  /\ v' = AddResource_Link(v, owner.p)
  /\ owner' = NULL
  /\ Returns
  /\ UNCHANGED <<dmp, job, dbs, services, device, asking>>

RemoveItem ==
  /\ Calls("remove")
  /\ v' = IF Call.by = "id" THEN dlna_vfs_remove_item_by_id(v, Call.what) ELSE dlna_vfs_remove_item_by_title(v, Call.what)
  /\ Returns
  /\ UNCHANGED <<dmp, job, dbs, services, device, owner, asking>>

\* What is registered before the description is written.
dlna_dms_init ==
  /\ Calls("dms_init")
  /\ services' = FoldLeft(dlna_service_register, services,
                          <<cms_service, cds_service, avts_service>>
                          \o (IF v.mode = "UPNP_AV_XBOX" THEN <<msr_service>> ELSE <<>>))
  /\ owner' = [at |-> "upnp_init", dms |-> TRUE]
  /\ UNCHANGED <<v, dmp, job, dbs, device, lives, asking>>

dlna_dmr_init ==
  /\ Calls("dmr_init")
  /\ services' = FoldLeft(dlna_service_register, services, <<cms_service, rcs_service, avts_service>>)
  /\ owner' = [at |-> "upnp_init", dms |-> FALSE]
  /\ UNCHANGED <<v, dmp, job, dbs, device, lives, asking>>

Registered_(doc) == [device EXCEPT !.up = TRUE, !.table = getServiceTable(doc)]

\* The device is registered, and unregistered, and registered again: requests may fall in between.
upnp_init ==
  /\ InCall("upnp_init")
  /\ LET description == IF owner.dms THEN dlna_dms_description_get ELSE dlna_dmr_description_get
     IN  IF get_iface_address(device.interface) = NULL
           THEN owner' = NULL /\ Returns /\ UNCHANGED device
           ELSE /\ device' = Registered_(description)
                /\ owner' = [at |-> "unregister", description |-> description]
                /\ UNCHANGED lives
  /\ UNCHANGED <<v, dmp, job, dbs, services, asking>>

Unregister ==
  /\ InCall("unregister")
  /\ device' = [device EXCEPT !.table = NULL]
  /\ owner' = [owner EXCEPT !.at = "register"]
  /\ UNCHANGED <<v, dmp, job, dbs, services, lives, asking>>

RegisterAgain ==
  /\ InCall("register")
  /\ device' = Registered_(owner.description)
  /\ owner' = NULL
  /\ Returns
  /\ UNCHANGED <<v, dmp, job, dbs, services, asking>>

\* A server closes its data base first.
dlna_dms_uninit ==
  /\ Calls("dms_uninit") \/ Calls("dmr_uninit")
  /\ v' = IF Call.call = "dms_uninit" THEN dms_db_close(v) ELSE v
  /\ device' = [device EXCEPT !.table = NULL]
  /\ owner' = [at |-> "finish"]
  /\ UNCHANGED <<dmp, job, dbs, services, lives, asking>>

\* dlnaFinish waits for the jobs of its pools.
upnp_uninit ==
  /\ InCall("finish") /\ \A c \in ControlPoints : job[c] = NULL
  /\ device' = [device EXCEPT !.up = FALSE]
  /\ owner' = NULL
  /\ Returns
  /\ UNCHANGED <<v, dmp, job, dbs, services, asking>>

dlna_uninit ==
  /\ Calls("dlna_uninit")
  /\ v' = vfs_item_free(v, Head(v.root))
  /\ services' = dlna_service_unregister_all(services)
  /\ Returns
  /\ UNCHANGED <<dmp, job, dbs, device, owner, asking>>

\* The process ends: killed, broken down, or with nothing left to do.  A control point starts over with the next one.
Ends ==
  /\ Len(lives) > 1
  /\ v' = NoVfs /\ dmp' = <<>> /\ services' = <<>> /\ device' = UnsetDevice /\ owner' = NULL
  /\ lives' = Tail(lives)
  /\ job' = [c \in ControlPoints |-> NULL]
  /\ answers' = [c \in ControlPoints |->
       IF job[c] = NULL THEN NULL ELSE [code |-> DLNA_E_NETWORK, value |-> NULL, served |-> <<>>]]
  /\ pages' = [c \in ControlPoints |-> <<>>]
  /\ UNCHANGED <<dbs, asks>>

-----------------------------------------------------------------------------
(* upnp.c: the requests the library hands over *)

Job(event, service, at, answer) ==
  [event |-> event, service |-> service, at |-> at, p |-> NULL, from |-> NULL, answer |-> answer]

Ours(event) == event.DevUDN = "uuid:" \o device.settings.uuid

upnp_action_request_handler(event) ==
  LET service == dlna_service_find(services, event.ServiceID)
      action == upnp_find_service_action(services, event)
  IN  IF ~Ours(event) THEN Job(event, service, "done", Unfinished)
      ELSE IF action = NULL THEN Job(event, service, "done", UnknownAction)
      ELSE IF ~action.cb THEN Job(event, service, "done", Unfinished)
      ELSE Job(event, service, "call", Unfinished)

\* An action, or one of the answers a query may have.
device_callback_event_handler(event) ==
  IF event.type = "ACTION" THEN {upnp_action_request_handler(event)}
  ELSE {Job(event, NULL, "done", answer) :
          answer \in IF Ours(event) THEN upnp_var_request_handler(services, event) ELSE {Unfinished}}

\* The actions that take no more than a look.
SimpleActions == {"GetSearchCapabilities", "GetSortCapabilities", "GetSystemUpdateID", "Search", "GetProtocolInfo",
  "GetCurrentConnectionIDs", "GetCurrentConnectionInfo", "IsAuthorized", "RegisterDevice", "IsValidated"}

RunAction(c) ==
  /\ \E name \in SimpleActions : Called(c, name)
  /\ \E answer \in {Callback(v, job[c].event, job[c].service)} :
         IF answer.crash THEN Breaks
         ELSE /\ job' = AnsweredWith(c, IF answer.code = DLNA_E_SUCCESS THEN 1 ELSE 0, answer)
              /\ UNCHANGED <<v, dmp>>

\* An object that is not there, with a root that is not there, frees what it has freed already.
BrowseFind(c) ==
  /\ Called(c, "Browse")
  /\ \E asked \in {cds_browse(job[c].event)} :
     \E p \in {cds_browse_item(v, asked.id)} :
       IF asked.code # 0 THEN job' = AnsweredWith(c, 0, Fails(asked.code)) /\ UNCHANGED v
       ELSE IF p = NULL \/ (~asked.meta /\ v.mem[p].type # "CONTAINER") THEN v' = Broken(v) /\ UNCHANGED job
       ELSE job' = [job EXCEPT ![c].at = IF asked.meta THEN "metadata" ELSE "children", ![c].p = p] /\ UNCHANGED v
  /\ UNCHANGED dmp

BrowseMetadata(c) ==
  /\ Continues(c, "metadata")
  /\ \E answer \in {cds_browse_metadata(v, job[c].event, job[c].service, job[c].p, cds_browse(job[c].event).filter)} :
         IF answer.crash THEN Breaks
         ELSE job' = AnsweredWith(c, 1, answer) /\ UNCHANGED <<v, dmp>>

\* The children are walked first and counted afterwards.
BrowseChildren(c) ==
  /\ Continues(c, "children")
  /\ \E asked \in {cds_browse(job[c].event)} :
     \E entries \in {cds_browse_directchildren(v, job[c].p, asked.index, asked.count, asked.filter)} :
         IF NULL \in Range(entries) THEN Breaks
         ELSE job' = [job EXCEPT ![c].at = "counts", ![c].from = entries] /\ UNCHANGED <<v, dmp>>

BrowseCounts(c) ==
  /\ Continues(c, "counts")
  /\ job' = AnsweredWith(c, 1, cds_browse_counts(v, job[c].event, job[c].service, job[c].p, job[c].from))
  /\ UNCHANGED <<v, dmp>>

\* A job has a step to take: a stop waits for the player's thread.
Working(c) ==
  /\ job[c] # NULL /\ job[c].at # "done" /\ ~v.broken
  /\ job[c].at = "join" => dmp[job[c].p].thread = "ended"

Works(c) ==
  /\ Working(c)
  /\ AvtsStep(c) \/ RunAction(c) \/ BrowseFind(c) \/ BrowseMetadata(c) \/ BrowseChildren(c) \/ BrowseCounts(c)
  /\ UNCHANGED <<dbs, services, device, lives, owner, asking>>

-----------------------------------------------------------------------------
(* A control point *)

\* What a control point gives for the arguments it finds described.
Given(name) ==
  LET args == [ObjectID |-> 0, ContainerID |-> 0, BrowseFlag |-> "BrowseDirectChildren", Filter |-> <<"*">>,
               SearchCriteria |-> <<[kind |-> "class", keyword |-> "object", closed |-> FALSE]>>,
               CurrentURI |-> AnyFile, NextURI |-> AnyFile]
  IN  IF name \in DOMAIN args THEN args[name] ELSE 0

AskFor(service, name, args) == [kind |-> "action", service |-> service, name |-> name, args |-> args]

Page(id, index, count) ==
  AskFor(cds_service, "Browse",
         <<<<"ObjectID", id>>, <<"BrowseFlag", "BrowseDirectChildren">>, <<"Filter", <<"*">>>>,
           <<"StartingIndex", index>>, <<"RequestedCount", count>>>>)

\* The next page of a container, or any of the actions the device describes.
Asked(c) ==
  LET ask == Head(asks[c])
      with(a) == [i \in DOMAIN a.ins |-> <<a.ins[i], Given(a.ins[i])>>]
  IN  CASE ask.kind = "next" -> {Page(ask.id, Len(pages[c]), ask.count)}
        [] ask.kind = "described" ->
             UNION {{AskFor(s, a.name, with(a)) : a \in Range(dlna_service_get_description(s).actions)} :
                      s \in Range(services)}
        [] OTHER -> {ask}

ControlURL(service) == <<SERVICES_VIRTUAL_DIR, service.control_url>>

\* An action is sent as it is, with a header of the application's, or as the M-POST of another library's control point.
RequestOf(ask) ==
  LET url == ControlURL(ask.service)
      type == ask.service.type
      action == dlnaMakeAction(ask.name, type, ask.args)
  IN  CASE ask.kind = "query" -> SoapGetServiceVarStatus(url, ask.name)
        [] ask.kind = "headed" -> SoapSendActionEx(url, type, S("Note", <<>>), action)
        [] ask.kind = "mpost" -> [SoapSendAction(url, type, action) EXCEPT !.request = add_man_header(@)]
        [] OTHER -> SoapSendAction(url, type, action)

Result(ask, response) ==
  LET result == IF ask.kind = "query" THEN VarResult(response) ELSE ActionResult(ask.name, response)
  IN  [code |-> result.code, value |-> result.value, served |-> <<>>]

CanAsk(c, kinds) ==
  /\ asks[c] # <<>> /\ Head(asks[c]).kind \in kinds
  /\ job[c] = NULL /\ device.up /\ ~v.broken
Asks(c) == asks' = [asks EXCEPT ![c] = Tail(@)]

\* The request reaches the device: it is answered at once, or it is a job.
Send(c) ==
  /\ CanAsk(c, {"next", "described", "action", "query", "headed", "mpost"})
  /\ \E ask \in Asked(c) :
       \E got \in {soap_device_callback(RequestOf(ask).request, device.table)} :
           IF got.event = NULL
             THEN answers' = [answers EXCEPT ![c] = Result(ask, soap_request_and_response(<<got.response, NULL>>))]
                  /\ UNCHANGED <<v, job>>
             ELSE /\ \E j \in device_callback_event_handler(got.event) :
                       IF j.answer.crash THEN v' = Broken(v) /\ UNCHANGED job
                       ELSE job' = [job EXCEPT ![c] = j] /\ UNCHANGED v
                  /\ UNCHANGED answers
  /\ Asks(c)
  /\ UNCHANGED <<dmp, dbs, services, device, lives, owner, pages>>

Out(doc, key) == First(doc.kids[1].kids, LAMBDA n : n.local = key).kids[1].value

Delivers(c) == Continues(c, "done") /\ job' = [job EXCEPT ![c] = NULL]

\* The response to a job that is done reaches the control point.
Receive(c) ==
  /\ Delivers(c)
  /\ LET j == job[c]
         event == [j.event EXCEPT !.ErrCode = j.answer.code, !.ErrStr = j.answer.text, !.result = j.answer.result]
         ask == [kind |-> IF j.event.type = "ACTION" THEN "action" ELSE "query", name |-> j.event.name]
         response == IF ask.kind = "action" THEN ActionResponse(event) ELSE VarResponse(event)
     IN  \E result \in {Result(ask, response)} :
         LET read == result.code = DLNA_E_SUCCESS /\ event.name = "Browse" /\ ~cds_browse(event).meta
         IN  /\ answers' = [answers EXCEPT ![c] = result]
             /\ pages' = IF read THEN [pages EXCEPT ![c] = @ \o Out(result.value, "Result")] ELSE pages
  /\ UNCHANGED <<v, dmp, dbs, services, device, lives, owner, asks>>

\* A subscription's first event.
Subscribe(c) ==
  /\ CanAsk(c, {"subscribe"})
  /\ answers' = [answers EXCEPT ![c] =
        [code |-> DLNA_E_SUCCESS, value |-> upnp_subscription_request_handler(services, Head(asks[c]).service.id),
         served |-> <<>>]]
  /\ Asks(c)
  /\ UNCHANGED <<v, dmp, job, dbs, services, device, lives, owner, pages>>

\* What the web server sees of the process.
Served ==
  LET ids == {v.mem[p].id : p \in Range(v.root)}
      of(id) ==
        LET p == vfs_get_item_by_id(v, id)
            item == v.mem[p].item
        IN  [type |-> v.mem[p].type, filename |-> IF item = NULL THEN NULL ELSE item.filename,
             mime |-> IF item = NULL THEN NULL ELSE item.profile.mime]
      there == {name \in DOMAIN Files : Files[name].length # NULL}
  IN  [items |-> [id \in ids |-> of(id)], services |-> [url \in {} |-> 0],
       disk |-> [name \in there |-> [length |-> Files[name].length, directory |-> Files[name].directory,
                                      readable |-> Files[name].readable]]]

\* One of the files it has read of is asked for under its URL.
GetInfo(c) ==
  /\ CanAsk(c, {"info"})
  /\ answers' = [answers EXCEPT ![c] =
        [code |-> DLNA_E_SUCCESS, value |-> NULL,
         served |-> [i \in DOMAIN pages[c] |->
                       IF pages[c][i].res = NULL THEN NULL
                       ELSE dlna_http_get_info(Served, <<"web", ToString(pages[c][i].res.url)>>)]]]
  /\ Asks(c)
  /\ UNCHANGED <<v, dmp, job, dbs, services, device, lives, owner, pages>>

-----------------------------------------------------------------------------
Init ==
  \E s \in Scenarios :
    /\ v = NoVfs /\ dmp = <<>> /\ services = <<>> /\ device = UnsetDevice /\ owner = NULL
    /\ dbs = Databases
    /\ lives = s.lives
    /\ asks = s.asks
    /\ job = [c \in ControlPoints |-> NULL] /\ answers = [c \in ControlPoints |-> NULL]
    /\ pages = [c \in ControlPoints |-> <<>>]

Owner ==
  \/ dlna_init \/ dlna_set_capability_mode \/ Sets \/ dlna_dms_set_vfs_storage_type
  \/ AddContainer \/ MakeResource \/ StoreItem \/ StoreMetadata \/ StoreProperties
  \/ PublishResource \/ LinkResource \/ RemoveItem
  \/ dlna_dms_init \/ dlna_dmr_init \/ upnp_init \/ Unregister \/ RegisterAgain
  \/ dlna_dms_uninit \/ upnp_uninit \/ dlna_uninit

Player(p) == avts_thread_play(p) /\ UNCHANGED <<dbs, services, device, lives, owner, asking>>

ControlPoint(c) == Send(c) \/ Receive(c) \/ Subscribe(c) \/ GetInfo(c)

Next ==
  \/ Owner \/ Ends
  \/ \E c \in ControlPoints : Works(c) \/ ControlPoint(c)
  \/ \E p \in DOMAIN dmp : Player(p)

Spec == Init /\ [][Next]_vars

\* The device's threads go on; its owner and the control points need not.  That of a job does as with WF_vars(Works(c)),
\* which is enabled when Working(c) holds.
FairSpec ==
  /\ Spec
  /\ \A c \in ControlPoints :
       /\ []<>~Working(c) \/ []<><<job'[c] # job[c] \/ v'.broken>>_vars
       /\ WF_job(Delivers(c))
  /\ \A p \in 1..MaxPlayers : WF_dmp(p \in DOMAIN dmp /\ avts_thread_play(p))

-----------------------------------------------------------------------------
(* Properties.  In the scenarios a resource is called by the path of its file. *)

Made == [name \in DOMAIN Files |-> dlna_item_new(name)]

\* What a resource is taken to be is what its own file is, whether it was read now or comes out of the data base, which
\* a process that was killed between two inserts may have left without the tags (vfs.c:220-281, db_sqlite.c:194-333).
\* The duration and the resolution are not kept as they are: they come back behind blanks, 63 characters long, without
\* the last one (db_sqlite.c:64-66, 178-179, 188-189).
RestoredAsKept ==
  \A p \in DOMAIN v.mem : v.mem[p].type = "RESOURCE" /\ ~v.mem[p].freed /\ v.mem[p].item # NULL =>
    \A made \in {Made[v.mem[p].title]} :
      LET item == v.mem[p].item
      IN  /\ item.filename = made.filename /\ item.filesize = made.filesize /\ item.profile = made.profile
          /\ item.metadata \in {NULL, made.metadata}
          /\ \/ item.properties \in {NULL, made.properties}
             \/ made.metadata # NULL /\ item.properties = ReadColumns(FitColumns(made.properties))

\* A control point that reads a container page by page, each page starting where the one before has ended, neither
\* misses a child nor reads one twice, while the owner goes on adding (cds.c:230-294, vfs.c:142-163).
PagesCoverChildren ==
  \A c \in ControlPoints :
    LET container == vfs_get_item_by_id(v, pages[c][1].parentID)
        ids == [i \in DOMAIN v.mem[container].children |-> v.mem[v.mem[container].children[i]].id]
    IN  pages[c] # <<>> /\ container # NULL /\ ~v.broken =>
          IsPrefix([i \in DOMAIN pages[c] |-> pages[c][i].id], ids)

\* What the web server sends under the URL of an entry is of the type and of the size the entry says, and it is there
\* as long as the entry's item is (didl.c:214-252, http.c:95-166).
AnnouncedIsServed ==
  \A c \in ControlPoints : answers[c] # NULL =>
    \A i \in DOMAIN answers[c].served :
      LET res == pages[c][i].res
          info == answers[c].served[i]
      IN  res # NULL => IF info = NULL THEN ~vfs_is_id_registered(v, res.url)
                        ELSE info.content_type = res.info.mime /\ info.file_length = res.size

\* An action that the description of its service lists, called with the arguments it lists, is answered with a result;
\* that there is no such player is all that one of a player's can say instead (services.c:83-121, upnp.c:222-299).
DescribedAnswers ==
  \A c \in ControlPoints :
    LET j == job[c]
        described == dlna_service_get_description(j.service).actions
        action == First(described, LAMBDA a : a.name = j.event.name)
    IN  j # NULL /\ j.at = "done" /\ j.service # NULL =>
          \/ action = NULL \/ \E i \in DOMAIN action.ins : ArgNode(j.event, action.ins[i]) = NULL
          \/ j.answer.code = DLNA_E_SUCCESS /\ j.answer.result # NULL
          \/ j.answer.code = AVTS_ERR_INVALID_INSTANCE /\ j.service.id = avts_service.id

\* Every request is answered unless the process breaks down.  The one exception is a stop that the player's thread does
\* not hear of, because it was about to wait when it was signalled, or because another request has made the player go
\* on (avts.c:276-310, 319-391, 858-891).
EveryRequestEnds ==
  \A c \in ControlPoints :
    LET missed == job[c].at = "join" /\ (dmp[job[c].p].thread = "asleep" \/ dmp[job[c].p].state # "E_STOPPED")
    IN  job[c] # NULL ~> (job[c] = NULL \/ v.broken \/ missed)

\* A player that is paused or stopped, also while a frame is being decoded, is not set going again by its own thread:
\* only a request is (avts.c:276-310, 359-364).
StaysAsAsked ==
  [][\A p \in DOMAIN dmp \cap DOMAIN dmp' :
       job' = job /\ dmp'[p].state # dmp[p].state => dmp[p].state = "E_PLAYING"]_vars
=============================================================================
