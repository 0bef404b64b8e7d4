---------------------------- MODULE ServiceTable ----------------------------
(***************************************************************************)
(* service_table.c: the services of a device read from its description,    *)
(* and the service a request is for.  A URL is what is left of it when it  *)
(* is resolved against the device's address: its path.                     *)
(***************************************************************************)
EXTENDS XmlTree

\* The text an element begins with.
getElementValue(node) ==
  LET child == ixmlNode_getFirstChild(node)
  IN  IF child # NULL /\ child.kind = "TEXT" THEN child.value ELSE NULL

getSubElement(name, node) ==
  First(node.kids, LAMBDA n : n.kind = "ELEMENT" /\ n.prefix = NULL /\ n.local = name)

SubValue(name, node) ==
  LET sub == getSubElement(name, node) IN IF sub = NULL THEN NULL ELSE getElementValue(sub)

\* A service without an event URL is kept whatever else it lacks: what failed before is forgotten.
getServiceList(node) ==
  LET service(n) ==
        [UDN |-> SubValue("UDN", node), serviceType |-> SubValue("serviceType", n),
         serviceId |-> SubValue("serviceId", n), SCPDURL |-> SubValue("SCPDURL", n),
         controlURL |-> SubValue("controlURL", n), eventURL |-> SubValue("eventSubURL", n)]
      fails(s) ==
        /\ NULL \in {s.UDN, s.serviceType, s.serviceId, s.SCPDURL}
        /\ s.controlURL # NULL /\ s.eventURL # NULL
      found == ixmlNode_getElementsByTagName(getSubElement("serviceList", node), "service")
      services == [i \in DOMAIN found |-> service(found[i])]
  IN  IF NULL \in {getSubElement("UDN", node), getSubElement("serviceList", node)} THEN <<>>
      ELSE SelectSeq(services, LAMBDA s : ~fails(s))

getAllServiceList(node) ==
  LET devices == ixmlNode_getElementsByTagName(node, "device")
  IN  FlattenSeq([i \in DOMAIN devices |-> getServiceList(devices[i])])

getServiceTable(doc) ==
  LET root == getSubElement("root", doc) IN IF root = NULL THEN <<>> ELSE getAllServiceList(root)

FindServiceControlURLPath(table, path) ==
  First(table, LAMBDA s : s.controlURL # NULL /\ s.controlURL = path)

=============================================================================
