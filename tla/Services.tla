------------------------------ MODULE Services ------------------------------
(***************************************************************************)
(* services.c, the tables of the services in cds.c, cms.c, msr.c, rcs.c    *)
(* and avts.c, and what upnp.c makes of a request before the service's own *)
(* code sees it.                                                           *)
(*                                                                         *)
(* An action is [name, ins, outs, cb]: the arguments the service's         *)
(* description lists, and whether there is code for it.  A variable is     *)
(* [name, eventing, get]; no service has code to read one.                 *)
(***************************************************************************)
EXTENDS Soap

AVTS_ERR_INVALID_INSTANCE == 718

Does(name, ins, outs) == [name |-> name, ins |-> ins, outs |-> outs, cb |-> TRUE]
Lacks(name, ins, outs) == [Does(name, ins, outs) EXCEPT !.cb = FALSE]

Variables(evented, names) ==
  [i \in DOMAIN names |-> [name |-> names[i], eventing |-> names[i] \in evented, get |-> NULL]]

dlna_service(id, type, url, actions, statevar) ==
  [typeid |-> 0, id |-> id, type |-> type, scpd_url |-> url[1], control_url |-> url[2], event_url |-> url[3],
   actions |-> actions, statevar |-> statevar, init |-> NULL]

-----------------------------------------------------------------------------
(* Content directory *)

PageArgs == <<"Filter", "StartingIndex", "RequestedCount", "SortCriteria">>
PageResults == <<"Result", "NumberReturned", "TotalMatches", "UpdateID">>

cds_service_actions == <<
  Does("GetSearchCapabilities", <<>>, <<"SearchCaps">>), Does("GetSortCapabilities", <<>>, <<"SortCaps">>),
  Does("GetSystemUpdateID", <<>>, <<"Id">>),
  Does("Browse", <<"ObjectID", "BrowseFlag">> \o PageArgs, PageResults),
  Does("Search", <<"ContainerID", "SearchCriteria">> \o PageArgs, PageResults)>>
  \o [i \in 1..9 |-> Lacks(<<"CreateObject", "DestroyObject", "UpdateObject", "ImportResource", "ExportResource",
                             "StopTransferResource", "GetTransferProgress", "DeleteResource", "CreateReference">>[i],
                           <<>>, <<>>)]

cds_service_variables ==
  Variables({"SystemUpdateID", "ContainerUpdateIDs", "LastChange", "TransferIDs", "DeviceMode"},
    <<"SearchCapabilities", "SortCapabilities", "SystemUpdateID", "ContainerUpdateIDs", "ServiceResetToken",
      "LastChange", "TransferIDs", "FeatureList", "DeviceMode", "A_ARG_TYPE_ObjectID", "A_ARG_TYPE_Result",
      "A_ARG_TYPE_SearchCriteria", "A_ARG_TYPE_BrowseFlag", "A_ARG_TYPE_Filter", "A_ARG_TYPE_SortCriteria",
      "A_ARG_TYPE_Index", "A_ARG_TYPE_Count", "A_ARG_TYPE_UpdateID", "A_ARG_TYPE_TransferID",
      "A_ARG_TYPE_TransferStatus", "A_ARG_TYPE_TransferLength", "A_ARG_TYPE_TransferTotal",
      "A_ARG_TYPE_TagValueList", "A_ARG_TYPE_URI">>)

cds_service ==
  dlna_service("urn:upnp-org:serviceId:ContentDirectory", "urn:schemas-upnp-org:service:ContentDirectory:1",
               <<"cds.xml", "cds_control", "cds_event">>, cds_service_actions, cds_service_variables)

-----------------------------------------------------------------------------
(* Connection manager, and the registrar the Xbox asks for *)

cms_service_actions == <<
  Does("GetProtocolInfo", <<>>, <<"Source", "Sink">>), Lacks("PrepareForConnection", <<>>, <<>>),
  Lacks("ConnectionComplete", <<>>, <<>>), Does("GetCurrentConnectionIDs", <<>>, <<"ConnectionIDs">>),
  Does("GetCurrentConnectionInfo", <<>>,
       <<"ConnectionID", "RcsID", "AVTransportID", "ProtocolInfo", "PeerConnectionManager", "PeerConnectionID",
         "Direction", "Status">>)>>

cms_service_variables ==
  Variables({"SourceProtocolInfo", "SinkProtocolInfo", "CurrentConnectionIDs"},
    <<"SourceProtocolInfo", "SinkProtocolInfo", "CurrentConnectionIDs", "FeatureList", "A_ARG_TYPE_ConnectionStatus",
      "A_ARG_TYPE_ConnectionManager", "A_ARG_TYPE_Direction", "A_ARG_TYPE_ProtocolInfo", "A_ARG_TYPE_ConnectionID",
      "A_ARG_TYPE_AVTransportID", "A_ARG_TYPE_RcsID">>)

cms_service ==
  dlna_service("urn:upnp-org:serviceId:ConnectionManager", "urn:schemas-upnp-org:service:ConnectionManager:1",
               <<"cms.xml", "cms_control", "cms_event">>, cms_service_actions, cms_service_variables)

msr_service_actions == <<
  Does("IsAuthorized", <<"DeviceID">>, <<"Result">>),
  Does("RegisterDevice", <<"RegistrationReqMsg">>, <<"RegistrationRespMsg">>),
  Does("IsValidated", <<"DeviceID">>, <<"Result">>)>>

msr_service ==
  dlna_service("urn:microsoft.com:serviceId:X_MS_MediaReceiverRegistrar",
               "urn:microsoft.com:service:X_MS_MediaReceiverRegistrar:1",
               <<"msr.xml", "msr_control", "msr_event">>, msr_service_actions, <<>>)

-----------------------------------------------------------------------------
(* Rendering control: all tables and no code *)

Rendered == <<"Brightness", "Contrast", "Sharpness", "RedVideoGain", "GreenVideoGain", "BlueVideoGain",
  "RedVideoBlackLevel", "GreenVideoBlackLevel", "BlueVideoBlackLevel", "ColorTemperature", "HorizontalKeystone",
  "VerticalKeystone", "Mute", "Volume", "VolumeDB", "Loudness">>

GetAndSet(var) == <<Lacks("Get" \o var, <<>>, <<"Current" \o var>>), Lacks("Set" \o var, <<"Desired" \o var>>, <<>>)>>

rcs_presets == <<Lacks("ListPresets", <<"InstanceID">>, <<"CurrentPresetNameList">>),
                 Lacks("SelectPreset", <<"InstanceID", "PresetName">>, <<>>)>>

rcs_volume_range == Lacks("GetVolumeDBRange", <<"InstanceID", "Channel">>, <<"MinValue", "MaxValue">>)

rcs_state_variables == <<
  Lacks("GetStateVariables", <<"InstanceID", "StateVariableList">>, <<"StateVariableValuePairs">>),
  Lacks("SetStateVariables",
        <<"InstanceID", "RenderingControlUDN", "ServiceType", "ServiceId", "StateVariableValuePairs">>,
        <<"StateVariableList">>)>>

rcs_transforms == <<
  Lacks("GetAllowedTransforms", <<"InstanceID">>, <<"CurrentAllowedTransformSettings">>),
  Lacks("GetTransforms", <<"InstanceID">>, <<"CurrentTransformValues">>),
  Lacks("SetTransforms", <<"InstanceID", "DesiredTransformValues">>, <<>>),
  Lacks("GetAllowedDefaultTransforms", <<"AllowedDefaultTransformSettings">>, <<>>),
  Lacks("GetDefaultTransforms", <<>>, <<"CurrentDefaultTransformSettings">>),
  Lacks("SetDefaultTransforms", <<>>, <<"DesiredDefaultTransformSettings">>),
  Lacks("GetAllAvailableTransforms", <<>>, <<"AllAllowedTransformSettings">>)>>

rcs_service_actions ==
  LET of(vars) == FlattenSeq([i \in DOMAIN vars |-> GetAndSet(vars[i])])
  IN  rcs_presets \o of(SubSeq(Rendered, 1, 15)) \o <<rcs_volume_range>> \o of(<<Rendered[16]>>)
      \o rcs_state_variables \o rcs_transforms

rcs_service_variables ==
  Variables({}, <<"LastChange", "PresetNameList">> \o Rendered \o
    <<"AllowedTransformSettings", "TransformSettings", "AllowedDefaultTransformSettings", "DefaultTransformSettings",
      "A_ARG_TYPE_Channel", "A_ARG_TYPE_InstanceID", "A_ARG_TYPE_PresetName", "A_ARG_TYPE_DeviceUDN",
      "A_ARG_TYPE_ServiceType", "A_ARG_TYPE_ServiceID", "A_ARG_TYPE_StateVariableValuePairs",
      "A_ARG_TYPE_StateVariableList">>)

rcs_service ==
  dlna_service("urn:upnp-org:serviceId:RenderingControl", "urn:schemas-upnp-org:service:RenderingControl:1",
               <<"rcs.xml", "rcs_control", "rcss_event">>, rcs_service_actions, rcs_service_variables)

-----------------------------------------------------------------------------
(* Transport of a renderer *)

avts_reports == <<
  Does("GetMediaInfo", <<"InstanceID">>,
       <<"NrTracks", "MediaDuration", "CurrentURI", "CurrentURIMetaData", "NextURI", "NextURIMetaData", "PlayMedium",
         "RecordMedium", "WriteStatus">>),
  Does("GetMediaInfo_Ext", <<"InstanceID">>,
       <<"CurrentType", "NrTracks", "MediaDuration", "CurrentURI", "CurrentURIMetaData", "NextURI", "NextURIMetaData",
         "PlayMedium", "RecordMedium", "WriteStatus">>),
  Does("GetTransportInfo", <<"InstanceID">>, <<"CurrentTransportState", "CurrentTransportStatus", "CurrentSpeed">>),
  Does("GetPositionInfo", <<"InstanceID">>,
       <<"Track", "TrackDuration", "TrackMetaData", "TrackURI", "RelTime", "AbsTime", "RelCount", "AbsCount">>),
  Does("GetDeviceCapabilities", <<"InstanceID">>, <<"PlayMedia", "RecMedia", "RecQualityModes">>),
  Does("GetTransportSettings", <<"InstanceID">>, <<"PlayMode", "RecQualityMode">>)>>

avts_service_actions ==
  <<Does("SetAVTransportURI", <<"InstanceID", "CurrentURI", "CurrentURIMetaData">>, <<>>),
    Does("SetNextAVTransportURI", <<"InstanceID", "NextURI", "NextURIMetaData">>, <<>>)>>
  \o avts_reports \o
  <<Does("Stop", <<"InstanceID">>, <<>>), Does("Play", <<"InstanceID", "Speed">>, <<>>),
    Does("Pause", <<"InstanceID">>, <<>>), Lacks("Record", <<>>, <<>>),
    Lacks("Seek", <<"InstanceID">>, <<"Unit", "Target">>), Does("Next", <<"InstanceID">>, <<>>),
    Does("Previous", <<"InstanceID">>, <<>>), Lacks("SetPlayMode", <<>>, <<>>),
    Lacks("SetRecordQualityMode", <<>>, <<>>), Lacks("GetCurrentTransportActions", <<>>, <<>>)>>

avts_service_variables ==
  Variables({},
    <<"TransportState", "TransportStatus", "CurrentMediaCategory", "PlaybackStorageMedium", "RecordStorageMedium",
      "PossiblePlaybackStorageMedia", "PossibleRecordStorageMedia", "CurrentPlayMode", "TransportPlaySpeed",
      "RecordMediumWriteStatus", "CurrentRecordQualityMode", "PossibleRecordQualityModes", "NumberOfTracks",
      "CurrentTrack", "CurrentTrackDuration", "CurrentMediaDuration", "CurrentTrackMetaData", "CurrentTrackURI",
      "AVTransportURI", "AVTransportURIMetaData", "NextAVTransportURI", "NextAVTransportURIMetaData",
      "RelativeTimePosition", "AbsoluteTimePosition", "RelativeCounterPosition", "AbsoluteCounterPosition",
      "CurrentTransportActions", "LastChange", "DRMState", "SyncOffset", "A_ARG_TYPE_SeekMode",
      "A_ARG_TYPE_SeekTarget", "A_ARG_TYPE_InstanceID">>)

avts_service ==
  dlna_service("urn:upnp-org:serviceId:AVTransport", "urn:schemas-upnp-org:service:AVTransport:1",
               <<"avts.xml", "avts_control", "avts_event">>, avts_service_actions, avts_service_variables)

-----------------------------------------------------------------------------
(* services.c: the services of a device, in the order they were registered *)

dlna_service_register(services, service) == Append(services, service)

dlna_service_find(services, id) == First(services, LAMBDA s : s.id = id)

dlna_service_unregister_all(services) == <<>>

\* The description lists the actions there is code for, and all variables.
dlna_service_get_description_All(service) == [actions |-> service.actions, statevar |-> service.statevar]

dlna_service_get_description(service) ==
  [actions |-> SelectSeq(service.actions, LAMBDA a : a.cb), statevar |-> service.statevar]

-----------------------------------------------------------------------------
(* upnp.c: the request an event of the library is about, and its answer *)

Unfinished == [code |-> DLNA_E_SUCCESS, text |-> NULL, result |-> NULL, crash |-> FALSE]

\* Whether the service or the action is missing cannot be told from the answer.
upnp_find_service_action(services, event) ==
  LET service == dlna_service_find(services, event.ServiceID)
  IN  IF service = NULL THEN NULL ELSE First(service.actions, LAMBDA a : a.name = event.name)

\* The answer when there is no such action.
UnknownAction == [Unfinished EXCEPT !.code = SOAP_INVALID_ACTION, !.text = "Unknown Service ID"]

\* An action that ends well without a result is given an empty one; the others leave the event as it is.
Finished(event, service, status, answer) ==
  IF status = 1 /\ answer.result = NULL
    THEN [answer EXCEPT !.code = DLNA_E_SUCCESS, !.result = dlnaMakeActionResponse(event.name, service.type, <<>>)]
  ELSE IF status = 1 THEN [answer EXCEPT !.code = DLNA_E_SUCCESS]
  ELSE answer

\* The names compared with are those of the actions, one for each variable; there may be fewer.
upnp_find_service_statevar(services, event) ==
  LET service == dlna_service_find(services, event.ServiceID)
      place == First([i \in DOMAIN service.statevar |-> i],
                     LAMBDA a : a > Len(service.actions) \/ service.actions[a].name = event.name)
  IN  IF service = NULL THEN NULL ELSE place

\* What may come of a query: a variable that is found is read through an uninitialised pointer, and one beyond the
\* actions through NULL.
upnp_var_request_handler(services, event) ==
  LET service == dlna_service_find(services, event.ServiceID)
      place == upnp_find_service_statevar(services, event)
      crash == [Unfinished EXCEPT !.crash = TRUE]
  IN  IF place = NULL THEN {Unfinished}
      ELSE IF place > Len(service.actions) THEN {crash}
      ELSE {crash, [Unfinished EXCEPT !.code = SOAP_INVALID_ACTION]}

\* The first event of a subscription says what the variables are that have code to read them: none.
upnp_subscription_request_handler(services, id) ==
  LET service == dlna_service_find(services, id)
  IN  IF service = NULL THEN NULL ELSE SelectSeq(service.statevar, LAMBDA s : s.eventing /\ s.get # NULL)

\* The results of an action that adds some, one after the other.
upnp_add_response(event, service, pairs) ==
  IF pairs = <<>> THEN Unfinished
  ELSE [Unfinished EXCEPT !.result = dlnaAddToActionResponse(NULL, event.name, service.type, pairs)]

\* The argument's element, or NULL.
ArgNode(event, key) == First(event.doc.kids[1].kids, LAMBDA n : n.kind = "ELEMENT" /\ n.local = key)

upnp_get_string(event, key) ==
  LET node == ArgNode(event, key)
  IN  IF node = NULL THEN NULL ELSE IF node.kids = <<>> THEN "" ELSE node.kids[1].value

\* 0 when there is no such argument or no text in it.
upnp_get_ui4(event, key) ==
  LET own == ArgNode(event, key)
      node == IF own = NULL /\ key = "ObjectID" THEN ArgNode(event, "ContainerID") ELSE own
  IN  IF node = NULL THEN 0 ELSE IF node.kids = <<>> THEN 0 ELSE node.kids[1].value

=============================================================================
