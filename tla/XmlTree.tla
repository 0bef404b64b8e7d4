------------------------------ MODULE XmlTree ------------------------------
(***************************************************************************)
(* Documents as the library builds, sends and searches them: ixml's nodes  *)
(* as values, and upnptools.c, which makes actions and property sets.      *)
(* Printing a document and parsing what was printed gives the document     *)
(* back, so a message carries the tree itself.                             *)
(***************************************************************************)
EXTENDS Options

Element(prefix, local, ns, kids) ==
  [kind |-> "ELEMENT", prefix |-> prefix, local |-> local, ns |-> ns, kids |-> kids, value |-> NULL]

ixmlDocument_createTextNode(value) ==
  [kind |-> "TEXT", prefix |-> NULL, local |-> NULL, ns |-> NULL, kids |-> <<>>, value |-> value]

Document(root) ==
  [kind |-> "DOCUMENT", prefix |-> NULL, local |-> NULL, ns |-> NULL, kids |-> <<root>>, value |-> NULL]

ixmlDocument_createElement(name) == Element(NULL, name, NULL, <<>>)

ixmlNode_getFirstChild(node) == IF node.kids = <<>> THEN NULL ELSE Head(node.kids)

ixmlNode_appendChild(node, child) == [node EXCEPT !.kids = Append(@, child)]

\* A node of a tree is where a path of places leads.
Elements(node) ==
  LET at[path \in Seq(Nat)] == IF path = <<>> THEN node ELSE at[Front(path)].kids[Last(path)]
      from[path \in Seq(Nat)] ==
        (IF at[path].kind = "ELEMENT" THEN <<at[path]>> ELSE <<>>)
        \o FlattenSeq([i \in DOMAIN at[path].kids |-> from[Append(path, i)]])
  IN  from[<<>>]

\* In the order of the document, the node itself included.
ixmlNode_getElementsByTagName(node, tagname) ==
  SelectSeq(Elements(node), LAMBDA n : n.prefix = NULL /\ n.local = tagname)

ixmlNode_getElementsByTagNameNS(node, ns, local) ==
  SelectSeq(Elements(node), LAMBDA n : n.ns # NULL /\ (ns = "*" \/ n.ns = ns) /\ n.local = local)

-----------------------------------------------------------------------------
(* upnptools.c.  A document that is not there yet is NULL *)

Arg(name, value) ==
  IF value = NULL THEN ixmlDocument_createElement(name)
  ELSE ixmlNode_appendChild(ixmlDocument_createElement(name), ixmlDocument_createTextNode(value))

Args(pairs) == [i \in DOMAIN pairs |-> Arg(pairs[i][1], pairs[i][2])]

\* The calls for some pairs of a name and a value, one after the other.
addToAction(response, doc, action, type, pairs) ==
  LET name == IF response THEN action \o "Response" ELSE action
  IN  IF doc = NULL THEN Document(Element("u", name, type, Args(pairs)))
      ELSE [doc EXCEPT !.kids[1].kids = @ \o Args(pairs)]

makeAction(response, action, type, args) == addToAction(response, NULL, action, type, args)

dlnaMakeAction(action, type, args) == makeAction(FALSE, action, type, args)

dlnaMakeActionResponse(action, type, args) == makeAction(TRUE, action, type, args)

dlnaAddToActionResponse(doc, action, type, pairs) == addToAction(TRUE, doc, action, type, pairs)

=============================================================================
