-------------------------------- MODULE Soap --------------------------------
(***************************************************************************)
(* soap_ctrlpt.c and soap_device.c: an action or a query travels in the    *)
(* body of an HTTP request, and its answer or a fault in the response.     *)
(*                                                                         *)
(* A request is [method, url, headers, xml, entity]: headers is a function *)
(* of their names, xml says whether the content type is XML, and entity is *)
(* the document, or NULL for text that is none.  The value of a SOAPACTION *)
(* header is [urn, action], what stands before and after its "#", or NULL  *)
(* where there is no "#".  A response is [status, xml, entity].            *)
(***************************************************************************)
EXTENDS ServiceTable

DLNA_E_SUCCESS == 0
DLNA_E_INVALID_URL == -108
DLNA_E_INVALID_SERVICE == -111
DLNA_E_BAD_RESPONSE == -113
DLNA_E_INVALID_ACTION == -115
DLNA_E_NETWORK == -200     \* the socket failed: no response

SOAP_INVALID_ACTION == 401
SOAP_INVALID_VAR == 404
SOAP_ACTION_FAILED == 501

SOAP_URN == "http://schemas.xmlsoap.org/soap/envelope/"
CONTROL_URN == "urn:schemas-dlna-org:control-1-0"

S(local, kids) == Element("s", local, SOAP_URN, kids)
Envelope(body) == Document(S("Envelope", <<S("Body", <<body>>)>>))

has_xml_content_type(msg) == msg.xml

-----------------------------------------------------------------------------
(* The control point *)

dom_cmp_name(name, node) == node.local = name

dom_find_node(name, start) == First(start.kids, LAMBDA n : dom_cmp_name(name, n))

\* The first name is not asked of the start node: a document of another name is searched all the same.
dom_find_deep_node(names, start) ==
  FoldLeft(LAMBDA node, name : IF node = NULL THEN NULL ELSE dom_find_node(name, node), start, Tail(names))

get_node_value(node) ==
  LET text == ixmlNode_getFirstChild(node) IN IF text = NULL THEN NULL ELSE text.value

get_host_and_path(url) == IF url = NULL THEN -1 ELSE 0

get_action_name(node) == IF node.prefix = NULL THEN NULL ELSE node.local

Post(url, urn, action, doc) ==
  [method |-> "POST", url |-> url, headers |-> [SOAPACTION |-> [urn |-> urn, action |-> action]], xml |-> TRUE,
   entity |-> doc]

\* The same message for peers that take M-POST only.
add_man_header(request) ==
  [request EXCEPT !.method = "M-POST", !.headers = [MAN |-> "01"] @@ ("01-SOAPACTION" :> @.SOAPACTION)]

\* answers: what the peer responds to the first request and, after "method not allowed", to the second.
\* The second is given its length for a method and a method for its length: it comes back as the first failed to.
soap_request_and_response(answers) ==
  IF answers[1] = NULL THEN NULL
  ELSE IF answers[1].status # 405 THEN answers[1]
  ELSE answers[2]

\* The detail of a fault: its code and its description.
FaultOf(root) == dom_find_deep_node(<<"Envelope", "Body", "Fault", "detail", "UPnPError">>, root)

FaultValue(root, name) ==
  LET node == IF FaultOf(root) = NULL THEN NULL ELSE dom_find_node(name, FaultOf(root))
  IN  IF node = NULL THEN NULL ELSE get_node_value(node)

BadResponse == [code |-> DLNA_E_BAD_RESPONSE, value |-> NULL]

\* What a fault says; a code below 400 comes without its detail.
FaultResult(root, variable) ==
  LET code == FaultValue(root, "errorCode")
      text == FaultValue(root, "errorDescription")
  IN  IF code = NULL \/ (variable /\ code >= 400 /\ text = NULL) THEN BadResponse
      ELSE [code |-> code,
            value |-> IF code < 400 THEN NULL ELSE IF variable THEN text ELSE Document(FaultOf(root))]

\* [code, value]: the value is the document of the answer, the text of the variable, or a fault's.
get_response_value(msg, path, variable) ==
  LET root == ixmlNode_getFirstChild(msg.entity)
      node == dom_find_deep_node(path, root)
      value == IF variable THEN get_node_value(node) ELSE Document(node)
  IN  IF msg.status \notin {200, 500} \/ ~has_xml_content_type(msg) \/ msg.entity = NULL THEN BadResponse
      ELSE IF node = NULL THEN FaultResult(root, variable)
      ELSE IF value = NULL THEN BadResponse
      ELSE [code |-> DLNA_E_SUCCESS, value |-> value]

Refused(code) == [code |-> code, request |-> NULL]
Sent(request) == [code |-> DLNA_E_SUCCESS, request |-> request]

SoapSendAction(url, type, action) ==
  LET name == get_action_name(action.kids[1])
  IN  IF name = NULL THEN Refused(DLNA_E_INVALID_ACTION)
      ELSE IF url = NULL THEN Refused(DLNA_E_INVALID_URL)
      ELSE Sent(Post(url, type, name, Envelope(action.kids[1])))

\* With a header of the application's before the body.
SoapSendActionEx(url, type, header, action) ==
  LET plain == SoapSendAction(url, type, action)
  IN  IF plain.request = NULL THEN plain
      ELSE [plain EXCEPT !.request.entity.kids[1].kids = <<S("Header", <<header>>)>> \o @]

SoapGetServiceVarStatus(url, name) ==
  LET u(local, kids) == Element("u", local, CONTROL_URN, kids)
      query == u("QueryStateVariable", <<u("varName", <<ixmlDocument_createTextNode(name)>>)>>)
  IN  IF get_host_and_path(url) = -1 THEN Refused(DLNA_E_INVALID_URL)
      ELSE Sent(Post(url, CONTROL_URN, "QueryStateVariable", Envelope(query)))

\* What the call returns of the response to an action of that name, or to a query; NULL is no response.
ActionResult(name, response) ==
  IF response = NULL THEN [code |-> DLNA_E_NETWORK, value |-> NULL]
  ELSE get_response_value(response, <<"Envelope", "Body", name \o "Response">>, FALSE)

VarResult(response) ==
  IF response = NULL THEN [code |-> DLNA_E_NETWORK, value |-> NULL]
  ELSE get_response_value(response, <<"Envelope", "Body", "QueryStateVariableResponse", "return">>, TRUE)

-----------------------------------------------------------------------------
(* The device *)

XmlResponse(status, body) == [status |-> status, xml |-> TRUE, entity |-> Envelope(body)]

send_error_response(code, text) ==
  LET leaf(name, value) == Arg(name, value)
      detail == Element(NULL, "UPnPError", CONTROL_URN, <<leaf("errorCode", code), leaf("errorDescription", text)>>)
  IN  XmlResponse(500, S("Fault", <<leaf("faultcode", "s:Client"), leaf("faultstring", "UPnPError"),
                                    Element(NULL, "detail", NULL, <<detail>>)>>))

send_var_query_response(value) ==
  XmlResponse(200, Element("u", "QueryStateVariableResponse", CONTROL_URN, <<Arg("return", value)>>))

send_action_response(doc) == XmlResponse(200, doc.kids[1])

\* [code, action]: the name in the header that carries it, "" for a query.
get_request_type(request) ==
  LET h == request.headers
      header == IF request.method = "POST" THEN "SOAPACTION" ELSE h.MAN \o "-SOAPACTION"
      found == (request.method = "POST" \/ "MAN" \in DOMAIN h) /\ header \in DOMAIN h
      action == IF h[header].action = "QueryStateVariable" THEN "" ELSE h[header].action
  IN  IF ~found \/ h[header] = NULL \/ h[header].action = NULL THEN [code |-> -1, action |-> NULL]
      ELSE [code |-> 0, action |-> action]

\* The first element in the first Body of any name space, as a document of its own.
get_action_node(doc, name) ==
  LET bodies == ixmlNode_getElementsByTagNameNS(ixmlNode_getFirstChild(doc), "*", "Body")
      node == IF bodies = <<>> THEN NULL ELSE ixmlNode_getFirstChild(Head(bodies))
  IN  IF node = NULL \/ node.local # name THEN NULL ELSE Document(node)

check_soap_body(doc, urn, action) ==
  LET bodies == ixmlNode_getElementsByTagNameNS(doc, SOAP_URN, "Body")
      node == IF bodies = <<>> THEN NULL ELSE ixmlNode_getFirstChild(Head(bodies))
  IN  IF node # NULL /\ node.local = action /\ node.ns = urn THEN DLNA_E_SUCCESS ELSE DLNA_E_INVALID_ACTION

\* [code, action]; the header of an M-POST request has another name and is not looked for.
check_soap_action_header(request, urn) ==
  LET header == IF "SOAPACTION" \in DOMAIN request.headers THEN request.headers.SOAPACTION ELSE NULL
  IN  IF header = NULL \/ header.urn # urn THEN [code |-> DLNA_E_INVALID_ACTION, action |-> NULL]
      ELSE [code |-> DLNA_E_SUCCESS, action |-> header.action]

\* [code, service]; table is that of the registered device, or NULL.
get_device_info(request, query, doc, table) ==
  LET service == IF table = NULL THEN NULL ELSE FindServiceControlURLPath(table, request.url)
      urn == IF query THEN CONTROL_URN ELSE service.serviceType
      header == check_soap_action_header(request, urn)
      body == check_soap_body(doc, urn, header.action)
      invalid == IF query THEN DLNA_E_INVALID_ACTION ELSE DLNA_E_INVALID_SERVICE
  IN  IF service = NULL THEN [code |-> -1, service |-> NULL]
      ELSE IF header.code # DLNA_E_SUCCESS \/ body # DLNA_E_SUCCESS THEN [code |-> invalid, service |-> NULL]
      ELSE [code |-> DLNA_E_SUCCESS, service |-> service]

\* The variable's name; what is not a query at the place of one has none.
get_var_name(doc) ==
  LET first(node) == IF node = NULL THEN NULL ELSE ixmlNode_getFirstChild(node)
      node == first(first(first(doc)))
  IN  IF node = NULL \/ node.local # "QueryStateVariable" \/ first(node) = NULL THEN NULL
      ELSE get_node_value(first(node))

\* What becomes of a request before the application hears of it: a response, or an event for its callback.
Answered(response) == [response |-> response, event |-> NULL]
Raised(event) == [response |-> NULL, event |-> event]

handle_query_variable(request, doc, table) ==
  LET name == get_var_name(doc)
      info == get_device_info(request, TRUE, doc, table)
  IN  IF name = NULL \/ info.service = NULL THEN Answered(send_error_response(SOAP_INVALID_VAR, "Invalid Var"))
      ELSE Raised([type |-> "GET_VAR", DevUDN |-> info.service.UDN, ServiceID |-> info.service.serviceId,
                   name |-> name, doc |-> NULL, ErrCode |-> DLNA_E_SUCCESS, ErrStr |-> NULL, result |-> NULL])

\* A request for no service is refused with a code of the library's in the place of one of SOAP's.
handle_invoke_action(request, action, doc, table) ==
  LET node == get_action_node(doc, action)
      info == get_device_info(request, FALSE, doc, table)
  IN  IF node = NULL THEN Answered(send_error_response(SOAP_INVALID_ACTION, "Invalid Action"))
      ELSE IF info.service = NULL THEN Answered(send_error_response(info.code, "Invalid Action"))
      ELSE Raised([type |-> "ACTION", DevUDN |-> info.service.UDN, ServiceID |-> info.service.serviceId,
                   name |-> action, doc |-> node, ErrCode |-> DLNA_E_SUCCESS, ErrStr |-> NULL, result |-> NULL])

soap_device_callback(request, table) ==
  LET type == get_request_type(request)
  IN  IF ~has_xml_content_type(request) \/ type.code # 0
        THEN Answered(send_error_response(SOAP_INVALID_ACTION, "Invalid Action"))
      ELSE IF request.entity = NULL THEN Answered(send_error_response(SOAP_ACTION_FAILED, "XML error"))
      ELSE IF type.action = "" THEN handle_query_variable(request, request.entity, table)
      ELSE handle_invoke_action(request, type.action, request.entity, table)

\* The response to an event the callback has returned from.  An error without a text is reported as 501.
ActionResponse(event) ==
  IF event.ErrCode # DLNA_E_SUCCESS /\ event.ErrStr # NULL THEN send_error_response(event.ErrCode, event.ErrStr)
  ELSE IF event.ErrCode # DLNA_E_SUCCESS \/ event.result = NULL
    THEN send_error_response(SOAP_ACTION_FAILED, "Action Failed")
  ELSE send_action_response(event.result)

\* The two texts of an error have changed places.
VarResponse(event) ==
  IF event.result = NULL THEN send_error_response(SOAP_INVALID_VAR, "Invalid Var")
  ELSE IF event.ErrCode = DLNA_E_SUCCESS THEN send_var_query_response(event.result)
  ELSE IF event.ErrStr # NULL THEN send_error_response(SOAP_INVALID_VAR, "Invalid Var")
  ELSE send_error_response(event.ErrCode, NULL)

=============================================================================
