----------------------------- MODULE ScriptHost ------------------------------
(***************************************************************************)
(* The handles page scripts name nodes by (src/core/flatworm_host.cpp, and *)
(* the bindings of src/core/quickjs_runtime.cpp that pass them), next to   *)
(* the elements a driver holds (src/flatworm/dom.cpp).  A node lives at an *)
(* address for as long as a document, the registry or a driver refers to   *)
(* it or to a node above it; the map from nodes to handles is keyed by the *)
(* address, which a later node may get.  A parent is referred to weakly.   *)
(*                                                                         *)
(* Nodes are numbered in the order of their allocation.  Which nodes a     *)
(* selector finds, and in what order children stand, is left open: see     *)
(* Selectors and PageDom.                                                  *)
(***************************************************************************)
EXTENDS Naturals, FiniteSets

CONSTANTS
  Addresses,    \* where a node can be
  MaxNodes,     \* bound on the nodes allocated
  MaxInstalls,  \* bound on the documents installed
  MaxHandles,   \* bound on the handles minted
  MaxHeld       \* bound on the elements a driver holds

ASSUME ScriptHostConstants == MaxNodes \in Nat /\ MaxInstalls \in Nat /\ MaxHandles \in Nat /\ MaxHeld \in Nat

VARIABLES
  nodeAt,       \* the node at each address, or NullNode
  parentOf,     \* Node::parent of each node, or NullNode
  born,         \* the number of nodes allocated so far
  installed,    \* the root of document_, or NullNode
  driverHeld,   \* the nodes a driver holds as Element
  registry,     \* registry_: the node of each handle
  nodeToHandle, \* node_to_handle_: the handle of the node at an address, or kNoElement
  nextHandle,   \* next_handle_
  installs,     \* the documents installed so far
  births        \* history: the node each handle was minted for, and the document that was installed
ScriptHostVars == <<nodeAt, parentOf, born, installed, driverHeld, registry, nodeToHandle, nextHandle, installs, births>>

NullNode == 0
kNoElement == 0
TreeNodes == 1..MaxNodes

ScriptHostInit ==
  /\ nodeAt = [a \in Addresses |-> NullNode] /\ parentOf = [n \in TreeNodes |-> NullNode] /\ born = 0
  /\ installed = NullNode /\ driverHeld = {} /\ registry = [h \in {} |-> NullNode]
  /\ nodeToHandle = [a \in Addresses |-> kNoElement] /\ nextHandle = 1
  /\ installs = 0 /\ births = [h \in {} |-> NullNode]

-----------------------------------------------------------------------------
(* Lifetimes.  A node refers to its children and is kept by any of the     *)
(* roots it is below; what nothing refers to is freed, and a child that    *)
(* outlives its parent has none.                                           *)
UpClosed(up, kept) == \A n \in TreeNodes : up[n] \in kept => n \in kept
Kept(up, roots) == {n \in TreeNodes : \A kept \in SUBSET TreeNodes : roots \subseteq kept /\ UpClosed(up, kept) => n \in kept}
Roots(doc, refs, reg) == ({doc} \cup refs \cup {reg[h] : h \in DOMAIN reg}) \ {NullNode}
Memory(where, up, doc, refs, reg) ==
  LET kept == Kept(up, Roots(doc, refs, reg))
  IN  /\ nodeAt' = [a \in Addresses |-> IF where[a] \in kept THEN where[a] ELSE NullNode]
      /\ parentOf' = [n \in TreeNodes |-> IF n \in kept /\ up[n] \in kept THEN up[n] ELSE NullNode]
      /\ installed' = doc /\ driverHeld' = refs
(* Of the free addresses that the map does not tell apart the lowest       *)
(* stands for all.                                                         *)
Placed(a, n) ==
  /\ nodeAt[a] = NullNode /\ n <= MaxNodes
  /\ \A b \in Addresses : b < a /\ nodeAt[b] = NullNode => nodeToHandle[b] # nodeToHandle[a]
Living == {nodeAt[a] : a \in Addresses} \ {NullNode}
(* Whoever holds an element reads its node, whatever became of the page.   *)
Readable(n) == n \in Living
InDocument == IF installed = NullNode THEN {} ELSE Kept(parentOf, {installed})
Children(n) == {m \in TreeNodes : parentOf[m] = n}
Siblings(n) == IF parentOf[n] = NullNode THEN {} ELSE Children(parentOf[n]) \ {n}

-----------------------------------------------------------------------------
(* The registry.                                                           *)
Resolve(h) == IF h \in DOMAIN registry THEN registry[h] ELSE NullNode
(* What nodeType, tagName, attributes, text and markup of a handle are of. *)
AnswersFor(h) == Resolve(h)
HandleIn(map, where, n) == map[CHOOSE a \in Addresses : where[a] = n]

(* intern of each of a set of nodes, in the order of the document, which   *)
(* are at the given places: known ones keep their handle.                  *)
Unknown(map, where, nodes) == {n \in nodes : HandleIn(map, where, n) = kNoElement}
MintedFor(fresh, n) == nextHandle + Cardinality({m \in fresh : m < n})
With(f, fresh, val) ==
  [h \in DOMAIN f \cup {MintedFor(fresh, n) : n \in fresh} |->
     IF h \in DOMAIN f THEN f[h] ELSE val[CHOOSE n \in fresh : MintedFor(fresh, n) = h]]
Interned(reg, map, where, nodes) ==
  LET fresh == Unknown(map, where, nodes)
      birth == [n \in fresh |-> [node |-> n, page |-> installs']]
  IN  /\ nextHandle + Cardinality(fresh) <= MaxHandles + 1
      /\ registry' = With(reg, fresh, [n \in fresh |-> n])
      /\ nodeToHandle' = [a \in Addresses |-> IF where[a] \in fresh THEN MintedFor(fresh, where[a]) ELSE map[a]]
      /\ nextHandle' = nextHandle + Cardinality(fresh)
      /\ births' = With(births, fresh, birth)
HandsOut(nodes) ==
  /\ installs' = installs /\ Interned(registry, nodeToHandle, nodeAt, nodes)
  /\ UNCHANGED <<nodeAt, parentOf, born, installed, driverHeld>>
Unregistered == UNCHANGED <<registry, nodeToHandle, nextHandle, installs, births>>

(* FlatwormScriptHost::install: the document is replaced, and with it both *)
(* maps are emptied; the handles go on counting.                           *)
NewRoot(a, reg, map) ==
  /\ Placed(a, born + 1) /\ born' = born + 1
  /\ Memory([nodeAt EXCEPT ![a] = born + 1], parentOf, born + 1, driverHeld, reg)
  /\ registry' = reg /\ nodeToHandle' = map /\ installs' = installs + 1
  /\ UNCHANGED <<nextHandle, births>>
EmptyRegistry == [h \in {} |-> NullNode]
KeepsAddresses(a) == NewRoot(a, EmptyRegistry, nodeToHandle)
Installs(a) == NewRoot(a, EmptyRegistry, [x \in Addresses |-> kNoElement])
Install == installs < MaxInstalls /\ \E a \in Addresses : Installs(a)

-----------------------------------------------------------------------------
(* What scripts do with handles.                                           *)
DocumentElement == \E n \in InDocument : HandsOut({n})     \* the html element, or else the root
QuerySelectorAll == \E found \in SUBSET InDocument : HandsOut(found)
QueryScope ==
  \E h \in DOMAIN births :
    Resolve(h) # NullNode /\ \E found \in SUBSET (Kept(parentOf, {Resolve(h)}) \ {Resolve(h)}) : HandsOut(found)
ChildNodes == \E h \in DOMAIN births : Resolve(h) # NullNode /\ HandsOut(Children(Resolve(h)))
ParentNode == \E h \in DOMAIN births : Resolve(h) # NullNode /\ HandsOut({parentOf[Resolve(h)]} \ {NullNode})
NextSibling == \E h \in DOMAIN births : Resolve(h) # NullNode /\ \E n \in Siblings(Resolve(h)) : HandsOut({n})
(* createElement, createTextNode, createComment, and the nodes of a        *)
(* fragment, whose own root is gone when parse_html_fragment returns.      *)
CreateNode ==
  \E a \in Addresses :
    LET n == born + 1
        where == [nodeAt EXCEPT ![a] = n]
    IN  /\ Placed(a, n) /\ born' = n /\ installs' = installs /\ nodeAt' = where
        /\ Interned(registry, nodeToHandle, where, {n}) /\ UNCHANGED <<parentOf, installed, driverHeld>>

(* Node::append_child and remove_child, through handles or elements, and   *)
(* insert_before.  Of these insert_before alone lets a node go below       *)
(* itself, and then never returns: see PageDom's wedged.                   *)
Holds(p, c) == p \in Kept(parentOf, {c})
Adopts(p, c) ==
  /\ ~Holds(p, c) /\ Memory(nodeAt, [parentOf EXCEPT ![c] = p], installed, driverHeld, registry)
  /\ born' = born /\ Unregistered
Orphans(c) ==
  /\ parentOf[c] # NullNode /\ Memory(nodeAt, [parentOf EXCEPT ![c] = NullNode], installed, driverHeld, registry)
  /\ born' = born /\ Unregistered
(* set_text and setInnerHTML: the children are let go of, and the text or  *)
(* what the markup is parsed into, here one node, takes their place.       *)
Refills(p) ==
  \E a \in Addresses :
    LET n == born + 1
        up == [m \in TreeNodes |-> IF m = n THEN p ELSE IF parentOf[m] = p THEN NullNode ELSE parentOf[m]]
    IN  /\ Placed(a, n) /\ born' = n
        /\ Memory([nodeAt EXCEPT ![a] = n], up, installed, driverHeld, registry) /\ Unregistered
ScriptAppends ==
  \E h, k \in DOMAIN births : Resolve(h) # NullNode /\ Resolve(k) # NullNode /\ Adopts(Resolve(h), Resolve(k))
DetachElement == \E h \in DOMAIN births : Resolve(h) # NullNode /\ Orphans(Resolve(h))
SetText == \E h \in DOMAIN births : Resolve(h) # NullNode /\ Refills(Resolve(h))
(* setInnerHTML: of markup without nodes nothing takes their place.        *)
Empties(p) ==
  /\ Children(p) # {}
  /\ Memory(nodeAt, [m \in TreeNodes |-> IF parentOf[m] = p THEN NullNode ELSE parentOf[m]], installed, driverHeld, registry)
  /\ born' = born /\ Unregistered
SetInner == \E h \in DOMAIN births : Resolve(h) # NullNode /\ (Refills(Resolve(h)) \/ Empties(Resolve(h)))
(* set_document_title: the text of the title there is, or a new title.     *)
SetDocumentTitle ==
  \/ \E n \in InDocument : Refills(n)
  \/ \E a \in Addresses, p \in InDocument :
       /\ Placed(a, born + 1) /\ born' = born + 1
       /\ Memory([nodeAt EXCEPT ![a] = born + 1], [parentOf EXCEPT ![born + 1] = p], installed, driverHeld, registry)
       /\ Unregistered

-----------------------------------------------------------------------------
(* The driver's elements: found in the document or from one another,       *)
(* created, changed and dropped, also when their document is gone.         *)
Takes(n) ==
  /\ Cardinality(driverHeld) < MaxHeld /\ Memory(nodeAt, parentOf, installed, driverHeld \cup {n}, registry)
  /\ born' = born /\ Unregistered
DriverQueries == \E n \in InDocument \ driverHeld : Takes(n)
DriverWalks == \E e \in driverHeld : \E n \in (Children(e) \cup Siblings(e) \cup ({parentOf[e]} \ {NullNode})) \ driverHeld : Takes(n)
DriverMakes ==
  \E a \in Addresses :
    /\ Cardinality(driverHeld) < MaxHeld /\ Placed(a, born + 1) /\ born' = born + 1
    /\ Memory([nodeAt EXCEPT ![a] = born + 1], parentOf, installed, driverHeld \cup {born + 1}, registry) /\ Unregistered
DriverAppends == \E p, c \in driverHeld : p # c /\ Adopts(p, c)
DriverRemoves == \E c \in driverHeld : Orphans(c)
DriverSetsText == \E p \in driverHeld : Refills(p)
DriverDrops == \E n \in driverHeld : Memory(nodeAt, parentOf, installed, driverHeld \ {n}, registry) /\ born' = born /\ Unregistered
(* Session::click_element and type_element ask for the handle of an        *)
(* element, whichever document it is of.                                   *)
HandleForNode == \E n \in driverHeld : HandsOut({n})

ScriptHostNext ==
  \/ Install \/ DocumentElement \/ QuerySelectorAll \/ QueryScope \/ ChildNodes \/ ParentNode \/ NextSibling
  \/ CreateNode \/ ScriptAppends \/ DetachElement \/ SetText \/ SetInner \/ SetDocumentTitle
  \/ DriverQueries \/ DriverWalks \/ DriverMakes \/ DriverAppends \/ DriverRemoves \/ DriverSetsText \/ DriverDrops
  \/ HandleForNode
ScriptHostSpec == ScriptHostInit /\ [][ScriptHostNext]_ScriptHostVars

-----------------------------------------------------------------------------
(* javascript_runtime.hpp calls a handle a "stable reference to a DOM      *)
(* node": it names the node it was minted for as long as the document it   *)
(* was minted in is installed, and nothing for ever after, although the    *)
(* nodes of that document are freed and their addresses used again; no     *)
(* node has two handles, so that scripts can compare nodes; the handle the *)
(* map has for the node at an address is that of the node that is there    *)
(* now; and what has a handle or is held by a driver is still there.       *)
HandlesAreStable ==
  /\ \A h \in DOMAIN births : AnswersFor(h) = IF births[h].page = installs THEN births[h].node ELSE NullNode
  /\ \A h, k \in DOMAIN registry : registry[h] = registry[k] => h = k
  /\ \A n \in driverHeld \cup {registry[h] : h \in DOMAIN registry} : Readable(n)
  /\ \A a \in Addresses : nodeAt[a] # NullNode /\ nodeToHandle[a] # kNoElement => Resolve(nodeToHandle[a]) = nodeAt[a]
=============================================================================
