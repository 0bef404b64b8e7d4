--------------------------- MODULE ContentDirectory ---------------------------
(***************************************************************************)
(* cds.c with didl.c, cms.c and msr.c: the code behind the actions of a    *)
(* media server.  A DIDL text is the sequence of the entries between its   *)
(* header and its footer; NULL stands for an entry that cannot be written: *)
(* the process ends there.                                                 *)
(***************************************************************************)
EXTENDS Services, Vfs

CDS_ERR_INVALID_ARGS == 402
CDS_ERR_ACTION_FAILED == 501
CDS_ERR_INVALID_CONTAINER == 710
CDS_ERR_PROCESS_REQUEST == 720

CDS_OBJECT_CONTAINER == "object.container.storageFolder"

Fails(code) == [Unfinished EXCEPT !.code = code]
Crashes == [Unfinished EXCEPT !.crash = TRUE]

-----------------------------------------------------------------------------
(* Writing an entry *)

\* The profile's name is said of devices that are not in DLNA mode.
dlna_write_protocol_info(v, profile) ==
  [mime |-> profile.mime, pn |-> IF v.mode # "DLNA" THEN profile.id ELSE NULL]

\* A filter is "*" or a sequence of names; the attributes are asked for by what follows their "@".
filter_has_val(filter, val) == filter = <<"*">> \/ val \in Range(filter)

ParentId(v, p) == IF v.mem[p].parent = NULL THEN 0 ELSE v.mem[v.mem[p].parent].id

\* What is in memory, or else in the data base: what is in the tree is in memory.
dlna_item_get(v, p) == v.mem[p].item

didl_add_tag(value, otherwise) == IF value \in {NULL, ""} THEN otherwise ELSE value

Described(metadata, tag) == IF metadata = NULL THEN NULL ELSE metadata[tag]

\* A resolution is one when its text has more than one character, whichever they are.
Announced(properties) ==
  IF properties = NULL THEN NULL
  ELSE [duration |-> properties.duration, bitrate |-> properties.bitrate, channels |-> properties.channels,
        resolution |-> IF TextLength(properties.resolution) > 1 THEN properties.resolution ELSE NULL]

\* The resource, where the filter asks for one.
Res(v, p, filter) ==
  LET item == dlna_item_get(v, p)
  IN  IF ~filter_has_val(filter, "res") THEN NULL
      ELSE [info |-> dlna_write_protocol_info(v, ProfileOf(v, item.profile)),
            size |-> IF item.filesize # 0 /\ filter_has_val(filter, "@size") THEN item.filesize ELSE NULL,
            properties |-> Announced(item.properties), url |-> v.mem[p].id]

didl_add_item(v, p, filter) ==
  LET item == dlna_item_get(v, p)
      profile == ProfileOf(v, item.profile)
  IN  IF profile = NULL \/ v.mem[p].freed THEN NULL
      ELSE IF profile.mime = NULL /\ filter_has_val(filter, "res") THEN NULL
      ELSE [kind |-> "item", id |-> v.mem[p].id, parentID |-> ParentId(v, p), childCount |-> 0,
            title |-> didl_add_tag(Described(item.metadata, "title"), v.mem[p].title),
            class |-> dlna_profile_upnp_object_item(profile),
            artist |-> Described(item.metadata, "author"), album |-> Described(item.metadata, "album"),
            res |-> Res(v, p, filter)]

didl_add_container(v, p) ==
  IF v.mem[p].freed THEN NULL
  ELSE [kind |-> "container", id |-> v.mem[p].id, parentID |-> ParentId(v, p),
        childCount |-> v.mem[p].children_count, title |-> v.mem[p].title, class |-> CDS_OBJECT_CONTAINER,
        artist |-> NULL, album |-> NULL, res |-> NULL]

DidlEntry(v, p, filter) ==
  IF v.mem[p].type = "CONTAINER" THEN didl_add_container(v, p) ELSE didl_add_item(v, p, filter)

\* The answer with a DIDL text, and the other results of its action.
Didl(event, service, entries, others) ==
  IF NULL \in Range(entries) THEN Crashes
  ELSE upnp_add_response(event, service, <<<<"Result", entries>>>> \o others)

-----------------------------------------------------------------------------
(* The actions with one value to answer *)

RootUpdateID(v) == v.mem[Head(v.root)].updateID

cds_get_search_capabilities(event, service) == upnp_add_response(event, service, <<<<"SearchCaps", "">>>>)

cds_get_sort_capabilities(event, service) == upnp_add_response(event, service, <<<<"SortCaps", "">>>>)

\* The name of the result is not the one the description gives it.
cds_get_system_update_id(v, event, service) == upnp_add_response(event, service, <<<<"UpdateID", RootUpdateID(v)>>>>)

cms_get_protocol_info(event, service) ==
  upnp_add_response(event, service,
    <<<<"Source", dlna_get_supported_mime_types>>, <<"Sink", dlna_get_supported_mime_types>>>>)

cms_get_current_connection_ids(event, service) == upnp_add_response(event, service, <<<<"ConnectionIDs", "">>>>)

\* One result for each type there is.
cms_get_current_connection_info(event, service) ==
  LET mimes == dlna_get_supported_mime_types
  IN  upnp_add_response(event, service,
        <<<<"ConnectionID", 0>>, <<"RcsID", -1>>, <<"AVTransportID", -1>>>>
        \o [i \in DOMAIN mimes |-> <<"ProtocolInfo", mimes[i]>>]
        \o <<<<"PeerConnectionManager", "">>, <<"PeerConnectionID", -1>>, <<"Direction", "Output">>,
             <<"Status", "OK">>>>)

msr_is_authorized(event, service) == upnp_add_response(event, service, <<<<"Result", 1>>>>)

msr_register_device(event, service) == Unfinished

msr_is_validated(event, service) == upnp_add_response(event, service, <<<<"Result", 1>>>>)

-----------------------------------------------------------------------------
(* Browse *)

\* What is asked for, or the code of the error the arguments are.
cds_browse(event) ==
  LET flag == upnp_get_string(event, "BrowseFlag")
      index == upnp_get_ui4(event, "StartingIndex")
      asked == [id |-> upnp_get_ui4(event, "ObjectID"), filter |-> upnp_get_string(event, "Filter"), index |-> index,
                count |-> upnp_get_ui4(event, "RequestedCount"), meta |-> flag = "BrowseMetadata", code |-> 0]
  IN  IF flag = NULL \/ asked.filter = NULL THEN [asked EXCEPT !.code = CDS_ERR_INVALID_ARGS]
      ELSE IF flag \notin {"BrowseMetadata", "BrowseDirectChildren"} \/ (asked.meta /\ index # 0)
        THEN [asked EXCEPT !.code = CDS_ERR_PROCESS_REQUEST]
      ELSE asked

\* What is not there is taken for the root.
cds_browse_item(v, id) ==
  LET item == vfs_get_item_by_id(v, id) IN IF item = NULL THEN vfs_get_item_by_id(v, 0) ELSE item

cds_browse_metadata(v, event, service, p, filter) ==
  LET updateID == IF v.mem[p].type = "RESOURCE" THEN RootUpdateID(v) ELSE v.mem[p].updateID
  IN  Didl(event, service, <<DidlEntry(v, p, filter)>>,
           <<<<"NumberReturned", 1>>, <<"TotalMatches", 1>>, <<"UpdateID", updateID>>>>)

\* The entries of a page.  No count is all that follows the index; at index 0 it is as many as there are.
cds_browse_directchildren(v, p, index, count, filter) ==
  LET children == v.mem[p].children
      most == IF index = 0 /\ count = 0 THEN v.mem[p].children_count ELSE count
      page == SubSeq(children, index + 1, IF most = 0 THEN Len(children) ELSE Min({index + most, Len(children)}))
  IN  [i \in DOMAIN page |-> DidlEntry(v, page[i], filter)]

\* The counts are read when the entries have been.
cds_browse_counts(v, event, service, p, entries) ==
  Didl(event, service, entries,
       <<<<"NumberReturned", Len(entries)>>, <<"TotalMatches", v.mem[p].children_count>>,
         <<"UpdateID", v.mem[p].updateID>>>>)

-----------------------------------------------------------------------------
(* Search *)

\* Criteria are a sequence of clauses [kind, keyword, closed]: a keyword is all that follows in the text, so one that
\* is closed or has another clause behind it never fits.  A single clause fits whatever it says.
cds_search_match(v, p, criteria) ==
  LET profile == ProfileOf(v, dlna_item_get(v, p).profile)
      class == dlna_profile_upnp_object_item(profile)
      fits(clause) ==
        CASE clause.kind = "class" -> class = clause.keyword
          [] clause.kind = "derived" -> class # NULL /\ clause.keyword \in {"object", class}
          [] clause.kind = "protocol" -> profile.mime = clause.keyword
          [] OTHER -> FALSE
      whole(i) == i = Len(criteria) /\ ~criteria[i].closed
  IN  \A i \in 1..(Len(criteria) - 1) : whole(i) /\ fits(criteria[i])

\* The entries that fit, depth first, as many as are wanted (0 for all).
cds_search_recursive(v, p, count, filter, criteria) ==
  LET entry(q) ==
        IF v.mem[q].freed THEN <<NULL>>
        ELSE IF v.mem[q].type = "CONTAINER" THEN <<>>
        ELSE IF ProfileOf(v, dlna_item_get(v, q).profile) = NULL THEN <<NULL>>
        ELSE IF cds_search_match(v, q, criteria) THEN <<didl_add_item(v, q, filter)>>
        ELSE <<>>
      items == Visited(v, p)
      all == FlattenSeq([i \in DOMAIN items |-> entry(items[i])])
  IN  IF v.mem[p].type # "CONTAINER" THEN <<>>
      ELSE IF count = 0 THEN all
      ELSE SubSeq(all, 1, Min({count, Len(all)}))

\* Without a count it is as many as there are directly below, however many lie deeper.
cds_search_directchildren(v, event, service, p, count, filter, criteria) ==
  LET most == IF count = 0 THEN v.mem[p].children_count ELSE count
      found == cds_search_recursive(v, p, most, filter, criteria)
  IN  Didl(event, service, found,
           <<<<"NumberReturned", Len(found)>>, <<"TotalMatches", Len(found)>>, <<"UpdateID", 0>>>>)

\* The starting index is read and ignored.
cds_search(v, event, service) ==
  LET criteria == upnp_get_string(event, "SearchCriteria")
      filter == upnp_get_string(event, "Filter")
      p == cds_browse_item(v, upnp_get_ui4(event, "ObjectID"))
  IN  IF NULL \in {criteria, filter} THEN Fails(CDS_ERR_INVALID_ARGS)
      ELSE IF p = NULL THEN Fails(CDS_ERR_INVALID_CONTAINER)
      ELSE IF v.mem[p].type # "CONTAINER" THEN Fails(CDS_ERR_ACTION_FAILED)
      ELSE cds_search_directchildren(v, event, service, p, upnp_get_ui4(event, "RequestedCount"), filter, criteria)

-----------------------------------------------------------------------------
\* The code of the actions that are done in one go.
Callback(v, event, service) ==
  CASE event.name = "GetSearchCapabilities" -> cds_get_search_capabilities(event, service)
    [] event.name = "GetSortCapabilities" -> cds_get_sort_capabilities(event, service)
    [] event.name = "GetSystemUpdateID" -> cds_get_system_update_id(v, event, service)
    [] event.name = "Search" -> cds_search(v, event, service)
    [] event.name = "GetProtocolInfo" -> cms_get_protocol_info(event, service)
    [] event.name = "GetCurrentConnectionIDs" -> cms_get_current_connection_ids(event, service)
    [] event.name = "GetCurrentConnectionInfo" -> cms_get_current_connection_info(event, service)
    [] event.name = "IsAuthorized" -> msr_is_authorized(event, service)
    [] event.name = "RegisterDevice" -> msr_register_device(event, service)
    [] event.name = "IsValidated" -> msr_is_validated(event, service)

=============================================================================
