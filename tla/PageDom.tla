------------------------------ MODULE PageDom -------------------------------
(***************************************************************************)
(* The document scripts work on: the tree of flatworm nodes, the listener  *)
(* stores, the dispatch of events, and what a synthetic click, typed text, *)
(* a control set by script and a default action do                         *)
(* (src/core/web_platform_shim.hpp over src/core/flatworm_host.cpp).       *)
(*                                                                         *)
(* Everything runs on one JavaScript stack.  Its frames are scripts, the   *)
(* dispatch of an event (with the listener it is calling, if any) and      *)
(* programs: the rest of a function of the shim, as a sequence of          *)
(* instructions.  A script and a listener may do anything a script can,    *)
(* so another dispatch or a change of the tree may start inside one.       *)
(***************************************************************************)
EXTENDS Naturals, Sequences, FiniteSets, SequencesExt

CONSTANTS
  DomNodes,     \* elements of the page and elements scripts created
  BodyNode,     \* the root element, which has the focus when nothing else has
  DomPages,     \* pages: kinds, children lists, listeners, checked and open
  ListenerSorts,\* what scripts listen to: type, capture, once, passive, signal
  MaxDomOps,    \* bound: what scripts do
  MaxDomFrames  \* bound: depth of the JavaScript stack

ASSUME DomAssumption ==
  /\ BodyNode \in DomNodes
  /\ {MaxDomOps, MaxDomFrames} \subseteq Nat

NoNode == "none"
Places == DomNodes \cup {"document", "window"}

VARIABLES
  kind,       \* tag and type of each element
  kids,       \* children of each node
  above,      \* parent of each node, or NoNode
  flags,      \* checked, open, disabled: attributes of each element
  listeners,  \* the live entries of each listener store, in order
  minted,     \* number of entries made so far: names an entry
  signalled,  \* what the abort listeners of the signal will remove
  signal,     \* whether the AbortController has aborted
  active,     \* document.activeElement
  busy,       \* elements with __settingValue
  started,    \* script elements that have run
  later,      \* the toggle and close events waiting for a timer
  navigation, \* whether a navigation or a submission is pending
  jsStack,
  wedged,     \* a native loop over the parents never ends
  onceRan,    \* history: the once entries that were called
  calledAgain,\* history: one of them was called again
  domOps

TreeVars == <<kids, above, wedged>>
ListenerVars == <<listeners, minted, signalled, signal>>
ControlVars == <<flags, active, busy, started, later, navigation>>
HistoryVars == <<onceRan, calledAgain>>
DomVars == <<kind, TreeVars, ListenerVars, ControlVars, jsStack, HistoryVars, domOps>>

ParentIn(lists, n) ==
  IF \E p \in DomNodes : n \in Range(lists[p]) THEN CHOOSE p \in DomNodes : n \in Range(lists[p]) ELSE NoNode

(* What ListenerStore.add stores.                                         *)
Entry(sort, id) == [type |-> sort.type, callback |-> sort.callback, capture |-> sort.capture,
                    once |-> sort.once, passive |-> sort.passive, id |-> id]

DomInit ==
  /\ \E page0 \in DomPages :
       /\ kind = page0.kind /\ kids = page0.kids
       /\ above = [n \in DomNodes |-> ParentIn(page0.kids, n)]
       /\ flags = page0.flags
       /\ listeners = [p \in Places |-> [i \in DOMAIN page0.listeners[p] |-> Entry(page0.listeners[p][i], i)]]
       /\ minted = Max({Len(page0.listeners[p]) : p \in Places})
  /\ signalled = {} /\ signal = FALSE
  /\ active = BodyNode /\ busy = {} /\ started = {} /\ later = <<>> /\ navigation = FALSE
  /\ jsStack = <<>> /\ wedged = FALSE /\ onceRan = {} /\ calledAgain = FALSE /\ domOps = 0

-----------------------------------------------------------------------------
(* The stack.                                                              *)

ScriptFrame == [at |-> "script"]
Program(todo) == [at |-> "run", todo |-> todo, ok |-> TRUE]
TopOf == jsStack[Len(jsStack)]
Lower == SubSeq(jsStack, 1, Len(jsStack) - 1)
Replace(frame) == jsStack' = Append(Lower, frame)
InScript == /\ jsStack # <<>> /\ ~wedged
            /\ TopOf.at = "script" \/ (TopOf.at = "event" /\ TopOf.calling)
Calls(frame) == Len(jsStack) < MaxDomFrames /\ jsStack' = Append(jsStack, frame)

(* What a script does: one operation, at any moment it runs.               *)
DomOp == InScript /\ domOps < MaxDomOps /\ domOps' = domOps + 1 /\ UNCHANGED kind
Stays == UNCHANGED jsStack

-----------------------------------------------------------------------------
(* The tree.  The parent of a node is a pointer of its own.                *)

(* The nodes from n upwards (at most as many as there are).                *)
Chain(n) ==
  LET climb[i \in 0..Cardinality(DomNodes)] ==
        IF i = 0 THEN <<n>>
        ELSE LET c == climb[i - 1] IN
             IF above[c[Len(c)]] = NoNode THEN c ELSE Append(c, above[c[Len(c)]])
  IN climb[Cardinality(DomNodes)]
Ancestors(n) == Range(Chain(n))
Closest(n, k) ==
  LET hits == SelectSeq(Chain(n), LAMBDA x : kind[x] \in k)
  IN  IF hits = <<>> THEN NoNode ELSE Head(hits)
Connected(n) == BodyNode \in Ancestors(n)

IndexOf(n, list) == CHOOSE i \in DOMAIN list : list[i] = n /\ \A j \in 1..i - 1 : list[j] # n
Without(list, n) == IF n \in Range(list) THEN RemoveAt(list, IndexOf(n, list)) ELSE list

(* Node::append_child refuses an ancestor, adds the child and then takes   *)
(* its first occurrence out of the old parent's list.                      *)
AppendUnchecked(p, c) ==
  /\ kids' = [n \in DomNodes |-> LET grown == IF n = p THEN Append(kids[n], c) ELSE kids[n]
                                 IN  IF n = above[c] THEN Without(grown, c) ELSE grown]
  /\ above' = [above EXCEPT ![c] = p]
  /\ UNCHANGED wedged
AppendNode(p, c) ==
  IF c \in Ancestors(p) THEN UNCHANGED TreeVars ELSE AppendUnchecked(p, c)

(* insert_before finds the position of the reference first; it is one too  *)
(* far when the node leaves an earlier place of the same list.  It does    *)
(* not look for an ancestor: the report that follows then climbs a cycle.  *)
InsertNode(p, c, ref) ==
  IF ref \notin Range(kids[p]) THEN AppendNode(p, c)
  ELSE LET at == IndexOf(ref, kids[p])
           left == [kids EXCEPT ![above[c]] = Without(@, c)]
           lists == IF above[c] = NoNode THEN kids ELSE left
       IN  /\ kids' = [lists EXCEPT ![p] = InsertAt(@, at, c)]
           /\ above' = [above EXCEPT ![c] = p]
           /\ wedged' = (c \in Ancestors(p))

Detached(n) ==
  /\ kids' = IF above[n] = NoNode THEN kids ELSE [kids EXCEPT ![above[n]] = Without(@, n)]
  /\ above' = [above EXCEPT ![n] = NoNode]
  /\ UNCHANGED wedged


(* What runs after a function put node c into the tree: maybeExecuteScript *)
(* runs a script element that is connected, once; it then hears load, or   *)
(* error when it could not be fetched or threw.                            *)
FireOn(type, on, bubbles, cancelable) ==
  [do |-> "fire", type |-> type, on |-> on, bubbles |-> bubbles, cancelable |-> cancelable]
Do(what, on) == [do |-> what, on |-> on]
Runs(c) == kind[c] = "script" /\ c \notin started /\ ~wedged' /\ (Connected(c))'
Executes(c, after) ==
  IF Runs(c)
  THEN \E outcome \in {"load", "error"} :
         /\ started' = started \cup {c}
         /\ Len(jsStack) + Len(after) + 2 <= MaxDomFrames
         /\ jsStack' = jsStack \o after \o <<Program(<<FireOn(outcome, c, FALSE, FALSE)>>), ScriptFrame>>
  ELSE UNCHANGED started /\ jsStack' = jsStack \o after

NothingHeard == UNCHANGED <<ListenerVars, HistoryVars>>
Moves == /\ DomOp /\ NothingHeard
         /\ UNCHANGED <<flags, active, busy, later, navigation>>
AppendChild == \E p, c \in DomNodes : Moves /\ AppendNode(p, c) /\ Executes(c, <<>>)
InsertBefore == \E p, c, ref \in DomNodes : Moves /\ InsertNode(p, c, ref) /\ Executes(c, <<>>)
(* removeChild and remove take the node out of whatever parent it has.     *)
RemoveChild == \E n \in DomNodes : Moves /\ Detached(n) /\ Stays /\ UNCHANGED started
(* replaceChild: a script put in runs before the old node leaves.          *)
ReplaceChild ==
  \E p, c, old \in DomNodes :
    Moves /\ InsertNode(p, c, old) /\ Executes(c, <<Program(<<Do("detach", old)>>)>>)
(* innerHTML and textContent drop every child.                             *)
SetInnerHTML ==
  \E p \in DomNodes :
    /\ Moves /\ Stays /\ UNCHANGED <<wedged, started>>
    /\ kids' = [kids EXCEPT ![p] = <<>>]
    /\ above' = [n \in DomNodes |-> IF n \in Range(kids[p]) THEN NoNode ELSE above[n]]

-----------------------------------------------------------------------------
(* Listener stores.  An entry removed while its store is being walked is   *)
(* marked and filtered out later; here it is simply gone from the list.    *)

SameListener(a, b) == a.type = b.type /\ a.callback = b.callback /\ a.capture = b.capture
Dropped(list, l) == SelectSeq(list, LAMBDA e : ~SameListener(e, l))

Listens == DomOp /\ Stays /\ UNCHANGED <<TreeVars, ControlVars, HistoryVars>>
AddListener ==
  \E p \in Places, sort \in ListenerSorts :
    /\ Listens
    /\ IF (\E e \in Range(listeners[p]) : SameListener(e, sort)) \/ (sort.signal /\ signal)
       THEN UNCHANGED <<listeners, minted, signalled>>
       ELSE /\ listeners' = [listeners EXCEPT ![p] = Append(@, Entry(sort, minted + 1))]
            /\ minted' = minted + 1
            /\ signalled' = IF sort.signal THEN signalled \cup {<<p, sort>>} ELSE signalled
    /\ UNCHANGED signal
RemoveListener ==
  \E p \in Places, sort \in ListenerSorts :
    /\ Listens /\ listeners' = [listeners EXCEPT ![p] = Dropped(@, sort)]
    /\ UNCHANGED <<minted, signalled, signal>>
(* onclick: the old handler leaves, the new one comes last; null adds      *)
(* nothing.  The attribute of the same name keeps its handler likewise.    *)
SetHandler ==
  \E n \in DomNodes, sort \in ListenerSorts, set \in BOOLEAN :
    LET own == [sort EXCEPT !.callback = "on", !.capture = FALSE, !.once = FALSE, !.passive = FALSE] IN
    /\ Listens
    /\ listeners' = [listeners EXCEPT ![n] =
         IF set THEN Append(Dropped(@, own), Entry(own, minted + 1)) ELSE Dropped(@, own)]
    /\ minted' = IF set THEN minted + 1 ELSE minted
    /\ UNCHANGED <<signalled, signal>>
(* AbortController.abort: one abort listener per entry made with the       *)
(* signal, each removing what matches then.                                *)
Abort ==
  /\ Listens /\ ~signal /\ signal' = TRUE /\ signalled' = {} /\ UNCHANGED minted
  /\ listeners' = [p \in Places |->
       SelectSeq(listeners[p], LAMBDA e : ~\E s \in signalled : s[1] = p /\ SameListener(e, s[2]))]

-----------------------------------------------------------------------------
(* Dispatch: from the window down to the target, at the target in the      *)
(* order of registration, and up again when the event bubbles.             *)

Path(on) == IF on = "window" THEN <<on>> ELSE IF on = "document" THEN <<on, "window">>
            ELSE Chain(on) \o <<"document", "window">>
Visit(place, phase) == [place |-> place, phase |-> phase]
Visits(on, bubbles) ==
  LET path == Path(on)
      up == Tail(path)
  IN  [i \in 1..Len(up) |-> Visit(Reverse(up)[i], "capture")] \o <<Visit(on, "target")>>
      \o (IF bubbles THEN [i \in 1..Len(up) |-> Visit(up[i], "bubble")] ELSE <<>>)

Hears(type, v) ==
  SelectSeq(listeners[v.place], LAMBDA e : e.type = type /\ (v.phase = "capture" => e.capture)
                                                         /\ (v.phase = "bubble" => ~e.capture))
(* invokeListeners up to its next call: the entries of this place that are *)
(* left and still live, else those of the next place where someone listens.*)
LiveOf(f) == SelectSeq(f.entries, LAMBDA e : e \in Range(listeners[f.place]))
NextVisit(f) ==
  LET heard == {i \in DOMAIN f.visits : Hears(f.type, f.visits[i]) # <<>>}
  IN  IF f.stop \/ heard = {} THEN 0 ELSE CHOOSE i \in heard : \A j \in heard : i <= j
Over(f) == (f.now \/ LiveOf(f) = <<>>) /\ NextVisit(f) = 0
AtNext(f) ==
  IF ~f.now /\ LiveOf(f) # <<>> THEN [f EXCEPT !.entries = LiveOf(f)]
  ELSE LET v == f.visits[NextVisit(f)]
       IN  [f EXCEPT !.visits = SubSeq(@, NextVisit(f) + 1, Len(@)), !.place = v.place,
                     !.entries = Hears(f.type, v)]

EventFrame(i) ==
  [at |-> "event", type |-> i.type, visits |-> Visits(i.on, i.bubbles), place |-> i.on, entries |-> <<>>,
   stop |-> FALSE, now |-> FALSE, prevented |-> FALSE, cancelable |-> i.cancelable, passive |-> FALSE,
   calling |-> FALSE]

(* A once entry is removed before its call.                                *)
OnceStays(place, e) == UNCHANGED listeners
AfterOnce(place, e) ==
  listeners' = IF e.once THEN [listeners EXCEPT ![place] = SelectSeq(@, LAMBDA x : x # e)] ELSE listeners
CallListener ==
  LET f == AtNext(TopOf)
      e == Head(f.entries)
  IN  /\ jsStack # <<>> /\ ~wedged /\ TopOf.at = "event" /\ ~TopOf.calling /\ ~Over(TopOf)
      /\ AfterOnce(f.place, e)
      /\ Replace([f EXCEPT !.entries = Tail(@), !.calling = TRUE, !.passive = e.passive])
      /\ onceRan' = IF e.once THEN onceRan \cup {<<f.place, e.id>>} ELSE onceRan
      /\ calledAgain' = (calledAgain \/ <<f.place, e.id>> \in onceRan)
      /\ UNCHANGED <<kind, TreeVars, ControlVars, minted, signalled, signal, domOps>>

(* A script or a listener returns; the dispatch goes on, or is over and    *)
(* hands its verdict to the function that started it.                      *)
Idle == UNCHANGED <<kind, TreeVars, ListenerVars, ControlVars, HistoryVars, domOps>>
Return ==
  /\ InScript /\ Idle
  /\ IF TopOf.at = "script" THEN jsStack' = Lower
     ELSE Replace([TopOf EXCEPT !.calling = FALSE, !.passive = FALSE])
EndDispatch ==
  /\ jsStack # <<>> /\ ~wedged /\ TopOf.at = "event" /\ ~TopOf.calling /\ Over(TopOf) /\ Idle
  /\ jsStack' = [Lower EXCEPT ![Len(Lower)].ok = ~TopOf.prevented]

(* What a listener does with the event it was given.                       *)
OnEvent == /\ DomOp /\ TopOf.at = "event"
           /\ UNCHANGED <<TreeVars, ListenerVars, ControlVars, HistoryVars>>
PreventDefault == OnEvent /\ TopOf.cancelable /\ ~TopOf.passive /\ Replace([TopOf EXCEPT !.prevented = TRUE])
StopPropagation == OnEvent /\ Replace([TopOf EXCEPT !.stop = TRUE])
StopImmediatePropagation == OnEvent /\ Replace([TopOf EXCEPT !.stop = TRUE, !.now = TRUE])

-----------------------------------------------------------------------------
(* Controls.                                                               *)

Inputs == {"radio", "checkbox", "text", "submit"}
FormKinds == {"form", "dialog-form"}
FormOf(n) == Closest(n, FormKinds)
Has(n, flag) == flag \in flags[n]

(* The elements of a subtree in document order.                            *)
Preorder(root) ==
  LET walk[k \in 0..Cardinality(DomNodes), n \in DomNodes] ==
        IF k = 0 THEN <<n>> ELSE <<n>> \o FlattenSeq([i \in DOMAIN kids[n] |-> walk[k - 1, kids[n][i]]])
  IN  walk[Cardinality(DomNodes), root]
FirstSummary(d) ==
  LET hits == SelectSeq(Tail(Preorder(d)), LAMBDA x : kind[x] = "summary")
  IN  IF hits = <<>> THEN NoNode ELSE Head(hits)

(* isInteractable: nothing above is disabled, a closed dialog, or closed   *)
(* details with n outside its summary.                                     *)
Interactable(n) ==
  \A x \in Ancestors(n) :
    /\ ~Has(x, "disabled")
    /\ kind[x] = "dialog" => Has(x, "open")
    /\ kind[x] = "details" /\ x # n /\ ~Has(x, "open") => FirstSummary(x) \in Ancestors(n)

(* Programs: the functions of the shim that dispatch several events.       *)
Guard == Do("guard", NoNode)
Fire(type, on) == FireOn(type, on, TRUE, FALSE)
Asks(type, on) == <<FireOn(type, on, TRUE, TRUE), Guard>>
FocusMoves(from, to) ==
  (IF from # to THEN <<FireOn("blur", from, FALSE, FALSE), Fire("focusout", from)>> ELSE <<>>)
  \o <<FireOn("focus", to, FALSE, FALSE), Fire("focusin", to)>>
ClickCascade(n) ==
  Asks("pointerover", n) \o <<FireOn("pointerenter", n, FALSE, FALSE)>> \o Asks("pointerdown", n)
  \o Asks("mousedown", n) \o <<Do("focus-if", n)>> \o Asks("pointerup", n) \o Asks("mouseup", n)
  \o Asks("click", n) \o <<Do("default", n), Do("flush", NoNode)>>
TypeCascade(n) ==
  IF kind[n] \notin Inputs THEN <<Do("flush", NoNode)>> ELSE
  <<Do("focus", n), Fire("keydown", n), Fire("keypress", n), Do("unset", n), Fire("input", n), Fire("keyup", n),
    Fire("change", n), Do("unfocus", NoNode), FireOn("blur", n, FALSE, FALSE), Fire("focusout", n),
    Do("flush", NoNode)>>
SubmitProgram(form) == Asks("submit", form) \o <<Do("perform", form)>>
(* The setters of value and checked speak only when they are not already   *)
(* speaking for the element.                                               *)
Announce(n, types) ==
  IF n \in busy THEN <<>> ELSE [i \in DOMAIN types |-> Fire(types[i], n)] \o <<Do("unset", n)>>

(* open: a change of details is announced by one timer at a time.          *)
Opened(n, value) ==
  LET now == IF value THEN flags[n] \cup {"open"} ELSE flags[n] \ {"open"}
      speaks == kind[n] = "details" /\ now # flags[n] /\ ~Has(n, "queued")
  IN  /\ flags' = [flags EXCEPT ![n] = IF speaks THEN now \cup {"queued"} ELSE now]
      /\ later' = IF speaks THEN Append(later, <<n, "toggle">>) ELSE later
Closed(n) ==
  IF ~Has(n, "open") THEN UNCHANGED <<flags, later>>
  ELSE /\ flags' = [flags EXCEPT ![n] = @ \ {"open", "modal"}]
       /\ later' = Append(later, <<n, "close">>)

(* A click on a radio button: the rest of its group is unchecked first.    *)
Group(n) == {x \in DomNodes \ {n} : kind[x] = "radio" /\ Connected(x) /\ FormOf(x) = FormOf(n)}
Checked(n) ==
  flags' = [x \in DomNodes |->
    IF kind[n] = "radio" /\ x \in Group(n) THEN flags[x] \ {"checked"}
    ELSE IF x # n THEN flags[x]
    ELSE IF kind[n] = "checkbox" /\ Has(n, "checked") THEN flags[n] \ {"checked"} ELSE flags[n] \cup {"checked"}]

-----------------------------------------------------------------------------
(* One instruction of the program on top.                                  *)

Todo == TopOf.todo
Goes(todo) == Replace([TopOf EXCEPT !.todo = todo, !.ok = TRUE])
Stepping(what) ==
  /\ jsStack # <<>> /\ ~wedged /\ TopOf.at = "run" /\ Todo # <<>> /\ Head(Todo).do = what
  /\ UNCHANGED <<kind, ListenerVars, started, HistoryVars, domOps>>
Rest == Tail(Todo)
On == Head(Todo).on
SameDom == UNCHANGED <<TreeVars, flags, active, busy, later, navigation>>

StepFire ==
  LET f == EventFrame(Head(Todo)) IN
  /\ Stepping("fire") /\ SameDom
  /\ IF Over(f) THEN Goes(Rest)
     ELSE Len(jsStack) < MaxDomFrames /\ jsStack' = Lower \o <<[TopOf EXCEPT !.todo = Rest], f>>
(* A prevented event ends the cascade; click still flushes.                *)
StepGuard ==
  LET flush == {i \in DOMAIN Todo : Todo[i].do = "flush"} IN
  /\ Stepping("guard") /\ SameDom
  /\ Goes(IF TopOf.ok THEN Rest ELSE IF flush = {} THEN <<>> ELSE <<Todo[Len(Todo)]>>)
StepFocus ==
  \/ /\ Stepping("focus") /\ active' = On /\ Goes(FocusMoves(active, On) \o Rest)
     /\ UNCHANGED <<TreeVars, flags, busy, later, navigation>>
  \/ /\ Stepping("focus-if") /\ UNCHANGED <<TreeVars, flags, busy, later, navigation>>
     /\ IF kind[On] \in Inputs \cup {"anchor"} /\ active # On
        THEN active' = On /\ Goes(FocusMoves(active, On) \o Rest)
        ELSE UNCHANGED active /\ Goes(Rest)
  \/ /\ Stepping("unfocus") /\ active' = BodyNode /\ Goes(Rest)
     /\ UNCHANGED <<TreeVars, flags, busy, later, navigation>>
StepUnset ==
  /\ Stepping("unset") /\ busy' = busy \ {On} /\ Goes(Rest)
  /\ UNCHANGED <<TreeVars, flags, active, later, navigation>>
StepDetach ==
  /\ Stepping("detach") /\ Detached(On) /\ Goes(Rest)
  /\ UNCHANGED <<flags, active, busy, later, navigation>>

(* runDefaultAction of a click.                                            *)
StepDefault ==
  LET s == Closest(On, {"summary"})
      discloses == s # NoNode /\ above[s] # NoNode /\ kind[above[s]] = "details" /\ FirstSummary(above[s]) = s
  IN
  /\ Stepping("default") /\ UNCHANGED <<TreeVars, active>>
  /\ \/ /\ discloses /\ Opened(above[s], ~Has(above[s], "open")) /\ Goes(Rest) /\ UNCHANGED <<busy, navigation>>
     \/ /\ ~discloses /\ kind[On] \in {"checkbox", "radio"} /\ ~(kind[On] = "radio" /\ Has(On, "checked"))
        /\ Checked(On) /\ busy' = busy \cup {On}
        /\ Goes(Announce(On, <<"input", "change">>) \o Rest) /\ UNCHANGED <<later, navigation>>
     \/ /\ ~discloses /\ kind[On] = "anchor" /\ navigation' = TRUE /\ Goes(Rest) /\ UNCHANGED <<flags, busy, later>>
     \/ /\ ~discloses /\ kind[On] = "submit" /\ FormOf(On) # NoNode
        /\ Goes(SubmitProgram(FormOf(On)) \o Rest) /\ UNCHANGED <<flags, busy, later, navigation>>
     \/ /\ ~discloses
        /\ \/ kind[On] \notin {"checkbox", "radio", "anchor", "submit"}
           \/ kind[On] = "radio" /\ Has(On, "checked")
           \/ kind[On] = "submit" /\ FormOf(On) = NoNode
        /\ Goes(Rest) /\ UNCHANGED <<flags, busy, later, navigation>>

(* performFormSubmit: a dialog form closes its dialog.                     *)
StepPerform ==
  /\ Stepping("perform") /\ Goes(Rest) /\ UNCHANGED <<TreeVars, active, busy>>
  /\ IF kind[On] = "form" THEN navigation' = TRUE /\ UNCHANGED <<flags, later>>
     ELSE /\ UNCHANGED navigation
          /\ IF Closest(On, {"dialog"}) = NoNode THEN UNCHANGED <<flags, later>> ELSE Closed(Closest(On, {"dialog"}))
(* __prowsetkFlush runs the timers that are due, here those of this module.*)
Announced(next) ==
  /\ later' = Tail(later)
  /\ flags' = IF next[2] = "toggle" THEN [flags EXCEPT ![next[1]] = @ \ {"queued"}] ELSE flags
StepFlush ==
  /\ Stepping("flush") /\ UNCHANGED <<TreeVars, active, busy, navigation>>
  /\ IF later = <<>> THEN Goes(Rest) /\ UNCHANGED <<flags, later>>
     ELSE Announced(Head(later)) /\ Goes(<<FireOn(Head(later)[2], Head(later)[1], FALSE, FALSE)>> \o Todo)
(* close at the end of requestClose.                                       *)
StepClose ==
  /\ Stepping("close") /\ Closed(On) /\ Goes(Rest) /\ UNCHANGED <<TreeVars, active, busy, navigation>>
StepDone ==
  /\ jsStack # <<>> /\ ~wedged /\ TopOf.at = "run" /\ Todo = <<>> /\ Idle /\ jsStack' = Lower

-----------------------------------------------------------------------------
(* The functions a script calls, and the ones a driver calls through it.   *)

Uses == DomOp /\ UNCHANGED <<TreeVars, ListenerVars, started, HistoryVars, navigation, active>>
Starts(todo) == Calls(Program(todo))
Keeps == UNCHANGED <<flags, busy, later>>
Click == \E n \in DomNodes :
  Uses /\ Keeps /\ IF Interactable(n) THEN Starts(ClickCascade(n)) ELSE Stays
Type == \E n \in DomNodes :
  Uses /\ Keeps /\ IF Interactable(n) THEN Starts(TypeCascade(n)) ELSE Stays
Focus == \E n \in DomNodes : Uses /\ Keeps /\ Starts(<<Do("focus", n)>>)
Blur == /\ Uses /\ Keeps
        /\ Starts(<<Do("unfocus", NoNode), FireOn("blur", active, FALSE, FALSE), Fire("focusout", active)>>)
DispatchEvent == \E n \in DomNodes, type \in {l.type : l \in ListenerSorts}, bubbles, cancelable \in BOOLEAN :
  /\ Uses /\ Keeps
  /\ Starts(<<FireOn(type, n, bubbles, cancelable), Guard>> \o IF type = "click" THEN <<Do("default", n)>> ELSE <<>>)
SetValue == \E n \in DomNodes :
  /\ Uses /\ kind[n] \in Inputs /\ UNCHANGED <<flags, later>>
  /\ busy' = busy \cup {n} /\ Starts(Announce(n, <<"input">>))
SetChecked == \E n \in DomNodes, on \in BOOLEAN :
  /\ Uses /\ kind[n] \in Inputs /\ UNCHANGED later
  /\ flags' = [flags EXCEPT ![n] = IF on THEN @ \cup {"checked"} ELSE @ \ {"checked"}]
  /\ busy' = busy \cup {n} /\ Starts(Announce(n, <<"input", "change">>))
SetDisabled == \E n \in DomNodes, on \in BOOLEAN :
  /\ Uses /\ Stays /\ UNCHANGED <<busy, later>>
  /\ flags' = [flags EXCEPT ![n] = IF on THEN @ \cup {"disabled"} ELSE @ \ {"disabled"}]
RequestSubmit == \E n \in DomNodes :
  Uses /\ Keeps /\ FormOf(n) # NoNode /\ Starts(SubmitProgram(FormOf(n)))
Submit == \E n \in DomNodes : Uses /\ Keeps /\ kind[n] \in FormKinds /\ Starts(<<Do("perform", n)>>)
SetOpen == \E n \in DomNodes, on \in BOOLEAN :
  Uses /\ kind[n] \in {"details", "dialog"} /\ Opened(n, on) /\ Stays /\ UNCHANGED busy
Show == \E n \in DomNodes, modal \in BOOLEAN :
  /\ Uses /\ Stays /\ kind[n] = "dialog" /\ UNCHANGED <<busy, later>>
  /\ IF modal THEN Connected(n) /\ (Has(n, "open") => Has(n, "modal")) ELSE ~(Has(n, "modal") /\ Has(n, "open"))
  /\ flags' = [flags EXCEPT ![n] = (@ \ {"modal"}) \cup {"open"} \cup IF modal THEN {"modal"} ELSE {}]
Close == \E n \in DomNodes : Uses /\ kind[n] = "dialog" /\ Closed(n) /\ Stays /\ UNCHANGED busy
RequestClose == \E n \in DomNodes :
  /\ Uses /\ Keeps /\ kind[n] = "dialog" /\ Has(n, "open")
  /\ Starts(<<FireOn("cancel", n, FALSE, TRUE), Guard, Do("close", n)>>)

(* The host evaluates a script, or runs the timers.                        *)
Enter(frame) == jsStack = <<>> /\ jsStack' = <<frame>> /\ Idle
RunScript == domOps < MaxDomOps /\ ~wedged /\ Enter(ScriptFrame)
RunTimers == later # <<>> /\ ~wedged /\ Enter(Program(<<Do("flush", NoNode)>>))

DomNext ==
  \/ RunScript \/ RunTimers \/ Return \/ CallListener \/ EndDispatch
  \/ AppendChild \/ InsertBefore \/ RemoveChild \/ ReplaceChild \/ SetInnerHTML
  \/ AddListener \/ RemoveListener \/ SetHandler \/ Abort
  \/ PreventDefault \/ StopPropagation \/ StopImmediatePropagation
  \/ Click \/ Type \/ Focus \/ Blur \/ DispatchEvent \/ SetValue \/ SetChecked \/ SetDisabled
  \/ RequestSubmit \/ Submit \/ SetOpen \/ Show \/ Close \/ RequestClose
  \/ StepFire \/ StepGuard \/ StepFocus \/ StepUnset \/ StepDetach \/ StepDefault \/ StepPerform
  \/ StepFlush \/ StepClose \/ StepDone

DomSpec == DomInit /\ [][DomNext]_DomVars

-----------------------------------------------------------------------------
(* Whatever scripts and listeners do to the tree while events are under    *)
(* way, a node is in the list of its parent exactly once and in no other,  *)
(* and no node is above itself (dom_node.cpp, flatworm_host.cpp), except   *)
(* for the cycle insertBefore makes, on which the process then spins.      *)
TreeIsAForest ==
  ~wedged =>
    \A n \in DomNodes :
      /\ \A p \in DomNodes :
           Cardinality({i \in DOMAIN kids[p] : kids[p][i] = n}) = IF above[n] = p THEN 1 ELSE 0
      /\ above[n] # NoNode => n \notin Ancestors(above[n])

(* A listener added with once is called once, also when its own call, or   *)
(* that of another listener of the same event, dispatches the event again. *)
OnceMeansOnce == ~calledAgain
(* Nothing a script does between two listeners of an event breaks the tree *)
(* under it or makes a listener run once more than it asked for.           *)
DocumentIsSound == TreeIsAForest /\ OnceMeansOnce
=============================================================================
