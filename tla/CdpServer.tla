----------------------------- MODULE CdpServer -------------------------------
(***************************************************************************)
(* The CDP side of the web interface (src/core/playwright.cpp): what a     *)
(* Playwright client does over its web socket to the one page of the       *)
(* server.  The tables of node and object ids belong to the server and     *)
(* outlive documents and connections; an Element keeps its node alive, so  *)
(* an element of an old document can still be resolved.                    *)
(*                                                                         *)
(* An element is its document and its place in document order.  Commands   *)
(* that only report constants are left out: they change nothing.           *)
(***************************************************************************)
EXTENDS Naturals, Sequences, Functions, Positions

CONSTANTS
  PageElements,    \* elements of every document
  MaxCdpDocs,      \* bound: documents installed
  MaxCdpCommands,  \* bound: commands
  MaxConnections   \* bound: connections

ASSUME CdpConstants == PageElements \in Nat \ {0}      \* a document has a root

VARIABLES
  socket,      \* the web socket: "none", "open", or "crashed": run() has ended
  sockets,     \* connections so far
  shown,       \* the document of the server's session
  installs,    \* documents installed so far
  nodes,       \* Impl::nodes: the element of every node id
  objects,     \* Impl::objects: the element of every object id
  commands,    \* commands so far
  told,        \* history: the ids the client has been told, and for what
  resolved     \* history: what ids were resolved to

CdpServerVars == <<socket, sockets, shown, installs, nodes, objects, commands, told, resolved>>

CdpServerInit ==
  /\ socket = "none" /\ sockets = 0 /\ shown = 1 /\ installs = 1
  /\ nodes = <<>> /\ objects = <<>> /\ commands = 0 /\ told = {} /\ resolved = {}

El(doc, place) == [doc |-> doc, place |-> place]
Named(table, id, element) == [table |-> table, id |-> id, element |-> element]

-----------------------------------------------------------------------------
(* handle_websocket: the handshake, then frames until one is a close, is   *)
(* too long or does not come.                                              *)

Handshake ==
  /\ socket = "none" /\ sockets < MaxConnections
  /\ socket' = "open" /\ sockets' = sockets + 1
  /\ UNCHANGED <<shown, installs, nodes, objects, commands, told, resolved>>
SocketEnds ==
  /\ socket = "open" /\ socket' = "none"
  /\ UNCHANGED <<sockets, shown, installs, nodes, objects, commands, told, resolved>>
CommandRead == socket = "open" /\ commands < MaxCdpCommands /\ commands' = commands + 1 /\ UNCHANGED sockets

(* Events and reply are written, or a write fails; the reply to a command  *)
(* inside Target.sendMessageToTarget is dropped.                           *)
RepliesWith(names) ==
  \/ UNCHANGED socket /\ told' = told \cup names
  \/ UNCHANGED socket /\ UNCHANGED told
  \/ socket' = "none" /\ UNCHANGED told
(* Nobody catches what a command throws: a failed navigation, a selector   *)
(* that does not parse.                                                    *)
CommandThrows ==
  /\ CommandRead /\ socket' = "crashed"
  /\ UNCHANGED <<shown, installs, nodes, objects, told, resolved>>

-----------------------------------------------------------------------------
(* The tables.                                                             *)

NodeIdIn(table, element) == CHOOSE i \in DOMAIN table : table[i] = element
(* node_id of one element after the other: the id it has, or the next.     *)
WithNodes(elements) == nodes \o AtPositions(elements, {i \in DOMAIN elements : elements[i] \notin Range(nodes)})
NodeNames(table, elements) == {Named("node", NodeIdIn(table, e), e) : e \in Range(elements)}
(* object_id: always the next.                                             *)
WithObject(element) == Append(objects, element)

(* Page.navigate and Page.reload; scripts that an expression runs can      *)
(* navigate too.  Ids of the old document stay.                            *)
IdsCleared(table) == <<>>
IdsAfterNavigation(table) == table
NewDocument ==
  /\ installs < MaxCdpDocs /\ installs' = installs + 1 /\ shown' = installs + 1
  /\ nodes' = IdsAfterNavigation(nodes) /\ objects' = IdsAfterNavigation(objects)
CdpNavigates ==
  /\ CommandRead /\ NewDocument
  /\ RepliesWith({}) /\ UNCHANGED resolved

(* DOM.getDocument: dom_node of the root and everything below it.          *)
DocumentOrder == [i \in 1..PageElements |-> El(shown, i)]
GetDocument ==
  /\ CommandRead
  /\ nodes' = WithNodes(DocumentOrder) /\ RepliesWith(NodeNames(nodes', DocumentOrder))
  /\ UNCHANGED <<shown, installs, objects, resolved>>

(* DOM.querySelector(All) below a node, or below the root of the page; an  *)
(* unknown id matches nothing.                                             *)
Below(element) == [i \in 1..(PageElements - element.place) |-> El(element.doc, element.place + i)]
QueryIn(root) ==
  \E keep \in SUBSET DOMAIN Below(root) :
    LET matches == AtPositions(Below(root), keep)
    IN  nodes' = WithNodes(matches) /\ RepliesWith(NodeNames(nodes', matches))
QueryNode ==
  /\ CommandRead
  /\ \/ QueryIn(El(shown, 1)) /\ UNCHANGED resolved
     \/ \E id \in DOMAIN nodes : QueryIn(nodes[id]) /\ resolved' = resolved \cup {Named("node", id, nodes[id])}
  /\ UNCHANGED <<shown, installs, objects>>
(* DOM.getOuterHTML and DOM.getAttributes.                                 *)
ReadNode ==
  /\ CommandRead
  /\ \E id \in DOMAIN nodes : resolved' = resolved \cup {Named("node", id, nodes[id])}
  /\ RepliesWith({}) /\ UNCHANGED <<shown, installs, nodes, objects>>

(* Runtime.evaluate: an element the expression selects becomes an object;  *)
(* another expression is evaluated by the page.                            *)
Evaluate ==
  /\ CommandRead
  /\ \/ \E i \in 1..PageElements :
          /\ objects' = WithObject(El(shown, i)) /\ RepliesWith({Named("object", Len(objects'), El(shown, i))})
          /\ UNCHANGED <<shown, installs, nodes>>
     \/ NewDocument /\ RepliesWith({})
  /\ UNCHANGED resolved
(* Runtime.callFunctionOn.                                                 *)
CallFunctionOn ==
  /\ CommandRead
  /\ \E id \in DOMAIN objects : resolved' = resolved \cup {Named("object", id, objects[id])}
  /\ RepliesWith({}) /\ UNCHANGED <<shown, installs, nodes, objects>>

CdpServerNext ==
  \/ Handshake \/ SocketEnds \/ CommandThrows \/ CdpNavigates \/ GetDocument \/ QueryNode \/ ReadNode \/ Evaluate \/ CallFunctionOn
CdpServerSpec == CdpServerInit /\ [][CdpServerNext]_CdpServerVars

-----------------------------------------------------------------------------
(* An id the client was told names the same element for ever: over         *)
(* navigations, scripts that navigate, connections that break and replies  *)
(* that are lost, a later command with it never acts on another element;   *)
(* and an element has one node id (playwright.cpp, Impl::node_id and       *)
(* object_id).                                                             *)
IdsNameOneElement ==
  /\ \A a, b \in told \cup resolved : a.table = b.table /\ a.id = b.id => a.element = b.element
  /\ \A a, b \in told : a.table = "node" /\ b.table = "node" /\ a.element = b.element => a.id = b.id
=============================================================================
