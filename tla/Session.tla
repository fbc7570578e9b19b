------------------------------ MODULE Session ------------------------------
(***************************************************************************)
(* One prowsetk::Session of a Browser (src/src/core/browser.cpp).          *)
(*                                                                         *)
(* A session is single-threaded but re-entrant: every event it emits runs  *)
(* host handlers synchronously, and a handler may call the session again,  *)
(* up to closing it while one of its scripts is on the C++ stack.  The     *)
(* model keeps that stack explicitly: frames[1..sp] are the public calls   *)
(* in progress, the top frame is the one that moves, and a frame whose pc  *)
(* is a Window is waiting for host code that may push another call.        *)
(***************************************************************************)
EXTENDS Naturals, FiniteSets

CONSTANTS
  Runtimes,      \* the JavaScript configurations considered, SUBSET {"absent","null","engine"}
  HookCalls,     \* the session operations host callbacks may call back into
  HandlersThrow, \* whether a host event handler may let an exception escape
  MaxRedirects,  \* BrowserConfig::max_redirects, the script-navigation hop limit
  MaxPasses,     \* lifecycle passes per drain (16 in the code)
  MaxScripts,    \* bound: <script> elements per document
  MaxNesting,    \* bound: public calls on the C++ stack
  MaxCalls       \* bound: public calls and page requests in a behaviour

Operations == {"navigate", "load_html", "evaluate_js", "act", "set_viewport",
               "pump_events", "close"}

ASSUME SessionConstants ==
  /\ Runtimes \subseteq {"absent", "null", "engine"}
  /\ HookCalls \subseteq Operations /\ HandlersThrow \in BOOLEAN
  /\ MaxRedirects \in Nat /\ MaxPasses \in Nat \ {0} /\ MaxScripts \in Nat
  /\ MaxNesting \in Nat \ {0} /\ MaxCalls \in Nat

VARIABLES
  closed,    \* closed_
  alive,     \* the Session object exists
  runtime,   \* javascript_: absent, the null engine, or a real engine
  depth,     \* script_execution_depth_
  doc,       \* generation of document_ (0 before the first install)
  pending,   \* script_host_->pending_: none, or who queued it
  obs,       \* page_script_requests_/_texts_, as the generations they came from
  sp,        \* number of calls on the stack
  frames,    \* frames[i]: the i-th call, outermost first
  calls,     \* public calls and page requests made so far
  owed       \* history: observations that existed when a script navigation was taken

vars == <<closed, alive, runtime, depth, doc, pending, obs, sp, frames,
          calls, owed>>
session == <<closed, alive, runtime, depth, doc, pending, obs, owed>>

-----------------------------------------------------------------------------
(* Program counters.  At a HandlerPc event handlers or plugin hooks run; at *)
(* a ScriptPc page script runs inside the engine (console, fetch and DOM    *)
(* callbacks reach the host from there); at an InnerPc only the session's   *)
(* own code runs.                                                           *)
HandlerPcs == {"BeforeNavigation", "BeforeRequest", "AfterResponse",
               "DocumentCreated", "DomMutation", "FetchScript", "BeforeScript",
               "AfterScript", "AfterNavigation", "ScriptException",
               "SessionDestroyed", "ScriptRequest"}
ScriptPcs  == {"Running", "Flushing", "Acting"}
InnerPcs   == {"Scripts", "Lifecycle", "Installed", "Following"}
Windows    == HandlerPcs \cup ScriptPcs
Pcs        == Windows \cup InnerPcs \cup {"idle"}

NoFrame == [op |-> "none", pc |-> "idle", doc |-> 0, left |-> 0, passes |-> 0,
            hops |-> 0, follow |-> FALSE, via |-> "none", prior |-> {}]
Call(op, pc) == [NoFrame EXCEPT !.op = op, !.pc = pc]

Top == frames[sp]
At(pc) == sp > 0 /\ Top.pc = pc
Goto(f) == frames' = [frames EXCEPT ![sp] = f] /\ sp' = sp
Step(f, pc) == Goto([f EXCEPT !.pc = pc])
Return == frames' = [frames EXCEPT ![sp] = NoFrame] /\ sp' = sp - 1
Push(f) == frames' = [frames EXCEPT ![sp + 1] = f] /\ sp' = sp + 1

(* Host code runs: nothing is on the stack, or the top call is in a callback *)
MayCall(op) ==
  /\ alive /\ calls < MaxCalls /\ sp < MaxNesting
  /\ sp > 0 => Top.pc \in Windows /\ op \in HookCalls
  /\ calls' = calls + 1

Init ==
  /\ closed = FALSE /\ alive = TRUE
  /\ runtime \in Runtimes
  /\ depth = 0 /\ doc = 0 /\ pending = "none" /\ obs = {}
  /\ sp = 0 /\ frames = [i \in 1..MaxNesting |-> NoFrame]
  /\ calls = 0 /\ owed = {}

-----------------------------------------------------------------------------
(* Session::execute_script.  A closed session, a missing or null engine and *)
(* an engine that is already executing refuse; the refused inner call moves *)
(* script_execution_depth_ up and down again without reaching zero.         *)
Refused == closed \/ runtime # "engine" \/ depth > 0

EnterScript == depth' = depth + 1

(* Mutant: the last evaluation of a closed session leaves the engine alive. *)
LeaveScriptLeaking == depth' = depth - 1 /\ runtime' = runtime

(* ScriptScope::~ScriptScope: the outermost evaluation of a closed session  *)
(* destroys the engine.                                                     *)
LeaveScript ==
  /\ depth' = depth - 1
  /\ runtime' = IF depth = 1 /\ closed THEN "absent" ELSE runtime

(* An exception leaves the current call.  Inside a script-initiated          *)
(* navigation follow_script_navigations catches it, restores the            *)
(* observations and stops following; otherwise the caller sees it.          *)
FinishFollow(f) ==
  IF f.op = "navigate"
  THEN Goto([f EXCEPT !.pc = "AfterNavigation", !.follow = FALSE, !.prior = {}])
  ELSE Return

(* Mutant: a failed script navigation does not restore the observations. *)
ThrowWithoutRestore(f) ==
  /\ IF f.follow THEN FinishFollow(f) ELSE Return
  /\ obs' = obs

Throw(f) ==
  IF f.follow THEN FinishFollow(f) /\ obs' = f.prior
              ELSE Return /\ obs' = obs

(* Session::install_document up to its DocumentCreated event. *)
Installing(f) == [f EXCEPT !.pc = "DocumentCreated", !.doc = doc + 1, !.passes = 0]

Install(f) ==
  /\ obs' = {} /\ doc' = doc + 1 /\ pending' = "none"
  /\ owed' = IF f.follow THEN owed ELSE {}

-----------------------------------------------------------------------------
(* Public calls.                                                            *)
Navigate ==
  /\ ~closed
  /\ MayCall("navigate")
  /\ Push(Call("navigate", "BeforeNavigation"))
  /\ UNCHANGED session

(* A parse failure throws before any state changes and is not a step here. *)
LoadHtml ==
  /\ ~closed
  /\ MayCall("load_html")
  /\ Install(NoFrame)
  /\ Push(Installing(Call("load_html", "DocumentCreated")))
  /\ UNCHANGED <<closed, alive, runtime, depth>>

EvaluateJs ==
  /\ ~closed /\ runtime # "absent"
  /\ MayCall("evaluate_js")
  /\ IF Refused
     THEN Push(Call("evaluate_js", "ScriptException")) /\ depth' = depth
     ELSE Push(Call("evaluate_js", "Acting")) /\ EnterScript
  /\ UNCHANGED <<closed, alive, runtime, doc, pending, obs, owed>>

(* click_element and type_element, given an element of the document *)
Act ==
  /\ ~Refused /\ doc > 0
  /\ MayCall("act")
  /\ Push(Call("act", "Acting")) /\ EnterScript
  /\ UNCHANGED <<closed, alive, runtime, doc, pending, obs, owed>>

(* A changed viewport, with a document to notify *)
SetViewport ==
  /\ ~closed /\ depth = 0 /\ runtime = "engine" /\ doc > 0
  /\ MayCall("set_viewport")
  /\ Push(Call("set_viewport", "Acting")) /\ EnterScript
  /\ UNCHANGED <<closed, alive, runtime, doc, pending, obs, owed>>

PumpEvents ==
  /\ ~closed /\ depth = 0 /\ runtime = "engine" /\ doc > 0
  /\ MayCall("pump_events")
  /\ Push(Call("pump_events", "Lifecycle"))
  /\ UNCHANGED session

(* Mutant: close() destroys the engine at once. *)
CloseEagerly ==
  /\ ~closed
  /\ MayCall("close")
  /\ closed' = TRUE /\ runtime' = "absent"
  /\ Push(Call("close", "SessionDestroyed"))
  /\ UNCHANGED <<alive, depth, doc, pending, obs, owed>>

Close ==
  /\ ~closed
  /\ MayCall("close")
  /\ closed' = TRUE
  /\ runtime' = IF depth = 0 THEN "absent" ELSE runtime
 
  /\ Push(Call("close", "SessionDestroyed"))
  /\ UNCHANGED <<alive, depth, doc, pending, obs, owed>>

(* ~Session, once no call is on the stack *)
Destroy ==
  /\ alive /\ sp = 0
  /\ alive' = FALSE /\ runtime' = "absent"
  /\ UNCHANGED <<closed, depth, doc, pending, obs, owed, sp, frames, calls>>

-----------------------------------------------------------------------------
(* Steps of the calls in progress.                                          *)
AfterBeforeNavigation ==
  /\ At("BeforeNavigation")
  /\ \/ Return                \* cancelled, thrown out of, or request() refuses
     \/ ~closed /\ Step(Top, "BeforeRequest")
  /\ UNCHANGED session /\ UNCHANGED calls

(* Session::request, whose redirect loop is RequestFlow: handlers and       *)
(* plugins may cancel, reject or throw before the transport is reached.     *)
AfterBeforeRequest ==
  /\ At("BeforeRequest")
  /\ \/ Throw(Top)
     \/ Step(Top, "AfterResponse") /\ obs' = obs
  /\ UNCHANGED <<closed, alive, runtime, depth, doc, pending, owed, calls>>

(* A status >= 400, a throwing handler or a parse failure is a failure that *)
(* changes nothing; otherwise the response body is installed, on a session  *)
(* that a handler may have closed in the meantime.                          *)
AfterAfterResponse ==
  /\ At("AfterResponse")
  /\ \/ Throw(Top) /\ UNCHANGED <<doc, pending, owed>>
     \/ Install(Top) /\ Goto(Installing(Top))
  /\ UNCHANGED <<closed, alive, runtime, depth, calls>>

(* DocumentCreated handlers, dispatch_document and the anti-bot report *)
AfterDocumentCreated ==
  /\ At("DocumentCreated")
  /\ \/ Throw(Top)
     \/ /\ Step(Top, IF runtime = "engine" THEN "DomMutation" ELSE "Installed")
        /\ obs' = obs
  /\ UNCHANGED <<closed, alive, runtime, depth, doc, pending, owed, calls>>

(* class rewrite and <noscript> removal, both observable as DomMutation *)
AfterDomMutation ==
  /\ At("DomMutation")
  /\ \/ HandlersThrow /\ Throw(Top)
     \/ /\ \E n \in 0..MaxScripts : Goto([Top EXCEPT !.pc = "Scripts", !.left = n])
        /\ obs' = obs
  /\ UNCHANGED <<closed, alive, runtime, depth, doc, pending, owed, calls>>

(* The loop over document_->scripts(): inline, external, or exhausted.      *)
(* Fetching on a closed session throws into the loop's own catch.           *)
NextScript ==
  /\ At("Scripts")
  /\ \/ Top.left = 0 /\ Step(Top, "Lifecycle")
     \/ /\ Top.left > 0
        /\ \E pc \in {"BeforeScript", "FetchScript", "Scripts"} :  \* "Scripts": empty text
             /\ pc = "FetchScript" => ~closed
             /\ Goto([Top EXCEPT !.pc = pc, !.left = @ - 1])
  /\ UNCHANGED session /\ UNCHANGED calls

AfterFetchScript ==
  /\ At("FetchScript")
  /\ \/ Step(Top, "Scripts") /\ obs' = obs
     \/ Step(Top, "BeforeScript") /\ obs' \in {obs, obs \cup {Top.doc}}
  /\ UNCHANGED <<closed, alive, runtime, depth, doc, pending, owed, calls>>

AfterBeforeScript ==
  /\ At("BeforeScript")
  /\ \/ HandlersThrow /\ Throw(Top) /\ depth' = depth
     \/ closed /\ Step(Top, "Lifecycle") /\ UNCHANGED <<depth, obs>>
     \/ ~closed /\ Refused /\ Step(Top, "AfterScript") /\ UNCHANGED <<depth, obs>>
     \/ ~Refused /\ Step(Top, "Running") /\ EnterScript /\ obs' = obs
  /\ UNCHANGED <<closed, alive, runtime, doc, pending, owed, calls>>

ScriptReturn ==
  /\ At("Running")
  /\ LeaveScript
  /\ Step(Top, "AfterScript")
  /\ UNCHANGED <<closed, alive, doc, pending, obs, owed, calls>>

AfterAfterScript ==
  /\ At("AfterScript")
  /\ \/ HandlersThrow /\ Throw(Top)
     \/ /\ Step(Top, IF closed THEN "Lifecycle" ELSE "Scripts")
        /\ obs' = obs
  /\ UNCHANGED <<closed, alive, runtime, depth, doc, pending, owed, calls>>

(* Session::run_script_lifecycle *)
AfterLifecycle(f) == IF f.op \in {"navigate", "load_html"} \/ f.follow
                     THEN "Installed" ELSE "Following"

(* Mutant: the drain has no pass limit. *)
LifecycleUnbounded ==
  /\ At("Lifecycle")
  /\ IF Refused
     THEN Step(Top, AfterLifecycle(Top)) /\ depth' = depth
     ELSE /\ Goto([Top EXCEPT !.pc = "Flushing", !.passes = 0])
          /\ EnterScript
  /\ UNCHANGED <<closed, alive, runtime, doc, pending, obs, owed, calls>>

Lifecycle ==
  /\ At("Lifecycle")
  /\ IF Refused \/ Top.passes = MaxPasses
     THEN Step(Top, AfterLifecycle(Top)) /\ depth' = depth
     ELSE Step(Top, "Flushing") /\ EnterScript
  /\ UNCHANGED <<closed, alive, runtime, doc, pending, obs, owed, calls>>

(* __prowsetkFlush returned: more work is due, or none, or it failed *)
FlushReturn ==
  /\ At("Flushing")
  /\ LeaveScript
  /\ \/ ~closed /\ Goto([Top EXCEPT !.pc = "Lifecycle", !.passes = @ + 1])
     \/ Step(Top, AfterLifecycle(Top))
  /\ UNCHANGED <<closed, alive, doc, pending, obs, owed, calls>>

(* The script of evaluate_js, click/type or set_viewport returned *)
ActionReturn ==
  /\ At("Acting")
  /\ LeaveScript
  /\ \/ Top.op = "evaluate_js" /\ Step(Top, "ScriptException")
     \/ Top.op = "evaluate_js" /\ Return
     \/ Top.op # "evaluate_js" /\ Return
     \/ Top.op # "evaluate_js" /\ ~closed /\ Step(Top, "Lifecycle")
  /\ UNCHANGED <<closed, alive, doc, pending, obs, owed, calls>>

(* install_document returned to its caller.  A script navigation merges the *)
(* earlier observations back and records itself; load_html discards queued  *)
(* navigations.                                                             *)
Installed ==
  /\ At("Installed")
  /\ \/ /\ Top.follow
        /\ obs' = obs \cup Top.prior \cup {Top.doc}
        /\ Goto([Top EXCEPT !.pc = "Following", !.follow = FALSE, !.prior = {}])
        /\ pending' = pending
     \/ /\ ~Top.follow /\ Top.op = "load_html"
        /\ pending' = "none" /\ Return /\ obs' = obs
     \/ /\ ~Top.follow /\ Top.op # "load_html"
        /\ Step(Top, "Following") /\ UNCHANGED <<pending, obs>>
  /\ UNCHANGED <<closed, alive, runtime, depth, doc, owed, calls>>

(* One iteration of Session::follow_script_navigations *)
Follow ==
  /\ At("Following")
  /\ \/ /\ Top.hops = MaxRedirects \/ pending = "none" \/ (closed /\ Top.hops = 0)
        /\ FinishFollow(Top) /\ UNCHANGED <<pending, owed>>
     \/ /\ Top.hops < MaxRedirects /\ pending # "none"
        /\ IF closed
           THEN Top.hops > 0 /\ FinishFollow(Top)       \* request() throws
           ELSE Goto([Top EXCEPT !.pc = "BeforeRequest", !.hops = @ + 1,
                        !.follow = TRUE, !.via = pending, !.prior = obs])
        /\ pending' = "none"
        /\ owed' = owed \cup obs
  /\ UNCHANGED <<closed, alive, runtime, depth, doc, obs, calls>>

(* AfterNavigation, ScriptException and SessionDestroyed end their calls *)
LastEvent ==
  /\ sp > 0 /\ Top.pc \in {"AfterNavigation", "ScriptException", "SessionDestroyed"}
  /\ Return
  /\ UNCHANGED session /\ UNCHANGED calls

-----------------------------------------------------------------------------
(* What a page script does to the session while it runs.                    *)
(* The request hook installed by Session::Session.  request() refuses on a  *)
(* closed session; its handlers run below the script that is waiting, and   *)
(* a response is recorded whatever they did to the session meanwhile.       *)
ScriptFetch ==
  /\ sp > 0 /\ Top.pc \in ScriptPcs
  /\ ~closed
  /\ calls < MaxCalls /\ sp < MaxNesting
  /\ calls' = calls + 1
  /\ Push([Call("fetch", "ScriptRequest") EXCEPT !.doc = doc])
  /\ UNCHANGED session

AfterScriptRequest ==
  /\ At("ScriptRequest")
  /\ Return
  /\ obs' \in {obs, obs \cup {Top.doc}}       \* failed, or answered
  /\ UNCHANGED <<closed, alive, runtime, depth, doc, pending, owed, calls>>

(* location, link and form navigations: the last one wins *)
ScriptNavigate ==
  /\ sp > 0 /\ Top.pc \in ScriptPcs
  /\ pending' = IF Top.op = "load_html" THEN "offline" ELSE "page"
  /\ UNCHANGED <<closed, alive, runtime, depth, doc, obs, owed, sp, frames, calls>>

-----------------------------------------------------------------------------
HostCall == Navigate \/ LoadHtml \/ EvaluateJs \/ Act \/ SetViewport
              \/ PumpEvents \/ Close \/ Destroy

PageScript == ScriptFetch \/ ScriptNavigate

Progress == AfterBeforeNavigation \/ AfterBeforeRequest \/ AfterAfterResponse
              \/ AfterDocumentCreated \/ AfterDomMutation \/ NextScript
              \/ AfterFetchScript \/ AfterBeforeScript \/ ScriptReturn
              \/ AfterAfterScript \/ Lifecycle \/ FlushReturn \/ ActionReturn
              \/ Installed \/ Follow \/ LastEvent \/ AfterScriptRequest

Next == HostCall \/ PageScript \/ Progress

Spec == Init /\ [][Next]_vars

(* Handlers return and page scripts are stopped by ScriptOptions' limits, so *)
(* a call in progress keeps moving; the host and the page owe nothing.      *)
FairSpec == Spec /\ WF_vars(Progress)

-----------------------------------------------------------------------------
FrameSet == [op : Operations \cup {"none", "fetch"},
             pc : Pcs,
             doc : Nat, left : Nat, passes : Nat, hops : Nat, follow : BOOLEAN,
             via : {"none", "page", "offline"}, prior : SUBSET Nat]

TypeOK ==
  /\ closed \in BOOLEAN /\ alive \in BOOLEAN
  /\ runtime \in {"absent", "null", "engine"}
  /\ depth \in Nat /\ doc \in Nat /\ calls \in Nat
  /\ pending \in {"none", "page", "offline"}
  /\ obs \in SUBSET Nat /\ owed \in SUBSET Nat
  /\ sp \in 0..MaxNesting
  /\ frames \in [1..MaxNesting -> FrameSet]

(* The engine is never destroyed under a script that is on the stack, and   *)
(* script_execution_depth_ counts those scripts (the comment at             *)
(* browser.cpp:940, "Retain the executing context ... until the outermost   *)
(* evaluation returns").                                                    *)
EngineOutlivesScript ==
  \A i \in 1..sp : frames[i].pc \in ScriptPcs => runtime = "engine" /\ depth > 0

(* A closed session keeps no engine once no script of it is executing:      *)
(* whichever of close(), ScriptScope and ~Session comes last destroys it.   *)
ClosedReleasesEngine ==
  closed /\ (\A i \in 1..sp : frames[i].pc \notin ScriptPcs) => runtime = "absent"

(* An engine lives exactly as long as someone needs it: not shorter than a  *)
(* script that is executing, and in a closed session not longer.            *)
EngineLifetime == EngineOutlivesScript /\ ClosedReleasesEngine

(* The engine runs at most one script of the session at a time, whatever    *)
(* callbacks call back into it.                                             *)
OneScriptAtATime ==
  \A i, j \in 1..sp :
    frames[i].pc \in ScriptPcs /\ frames[j].pc \in ScriptPcs => i = j

(* browser.cpp:542-544: observations that existed when the page started a   *)
(* navigation survive it, whether the navigation succeeds, fails or is cut  *)
(* short by close().                                                        *)
PriorObservationsKept == sp = 0 => owed \subseteq obs

(* browser.cpp:913: what an offline load_html queued is never followed, not *)
(* even by a later pump_events or click.                                    *)
OfflineNeverNavigates == \A i \in 1..sp : frames[i].via # "offline"

(* browser.cpp:520-521, "so a page never hangs document install": every     *)
(* call returns, however often the page reschedules work or navigates.      *)
EveryCallReturns == (sp > 0) ~> (sp = 0)
=============================================================================
