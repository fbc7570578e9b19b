----------------------------- MODULE LuaHandles ------------------------------
(***************************************************************************)
(* The managed handles of the Lua runtime (src/core/lua_runtime.cpp): the  *)
(* userdata scripts hold, the C++ objects behind them, the finalizers the  *)
(* collector runs in any order, and the event subscriptions the runtime    *)
(* keeps.  A browser created by Lua is owned by its userdata and then by   *)
(* the runtime; a session points at its browser and is owned by whoever    *)
(* refers to it.                                                           *)
(***************************************************************************)
EXTENDS Integers, Sequences, FiniteSets, Positions

CONSTANTS
  LuaBrowsers,  \* browsers scripts create with browser.new
  MaxUserdata,  \* bound: session, document, element and extractor userdata
  MaxSubs       \* bound: subscriptions of one browser

ASSUME LuaConstants == MaxUserdata \in Nat /\ MaxSubs \in Nat

Userdata == 1..MaxUserdata

VARIABLES
  browsers,   \* each browser: "none", "held" (by its userdata), "deferred", "deleted" or "leaked"
  userdata,   \* the userdata in the order of creation: see Node
  lalive,     \* the alive flag of each session and extractor userdata
  subs,       \* Impl::subscriptions: of a browser, its subscription id and a userdata
  entries,    \* each browser's dispatcher: the ids of its handlers
  nextSub,    \* EventDispatcher::next_id_ of each browser
  late,       \* history: browsers that were subscribed to after they were deferred
  strayed,    \* history: a finalizer, method or teardown used a deleted browser
  luaClosed   \* ~LuaRuntime has run

LuaVars == <<browsers, userdata, lalive, subs, entries, nextSub, late, strayed, luaClosed>>

(* kind is "session", "node" (a document or an element) or "extractor"; a   *)
(* session or node holds session number id of its browser.                  *)
Node(kind, br, id) == [kind |-> kind, browser |-> br, id |-> id, live |-> TRUE]
NotYet == "none"

LuaInit ==
  /\ browsers = [br \in LuaBrowsers |-> NotYet] /\ userdata = <<>>
  /\ lalive = [u \in Userdata |-> TRUE]
  /\ subs = <<>> /\ entries = [br \in LuaBrowsers |-> {}]
  /\ nextSub = [br \in LuaBrowsers |-> 1] /\ late = {} /\ strayed = FALSE /\ luaClosed = FALSE

Holding(ud) == {u \in DOMAIN ud : ud[u].live /\ ud[u].kind # "extractor"}
(* Browser::live_session_count: the sessions some userdata still refers to  *)
LiveSessions(ud, br) == {ud[u].id : u \in {v \in Holding(ud) : ud[v].browser = br}}
There(br) == browsers[br] \in {"held", "deferred"}
Room == ~luaClosed /\ Len(userdata) < MaxUserdata

-----------------------------------------------------------------------------
(* Scripts.  browser.new, browser:create_session, extractor.new; documents  *)
(* and elements that come out of a session keep it.                         *)
BrowserNew(br) ==
  /\ ~luaClosed /\ browsers[br] = NotYet /\ browsers' = [browsers EXCEPT ![br] = "held"]
  /\ UNCHANGED <<userdata, lalive, subs, entries, nextSub, late, strayed, luaClosed>>
BrowserCreateSession(br) ==
  /\ Room /\ browsers[br] = "held"
  /\ userdata' = Append(userdata, Node("session", br, Len(userdata) + 1))
  /\ UNCHANGED <<browsers, lalive, subs, entries, nextSub, late, strayed, luaClosed>>
PushNode(u) ==
  /\ Room /\ u \in Holding(userdata)
  /\ userdata' = Append(userdata, Node("node", userdata[u].browser, userdata[u].id))
  /\ strayed' = (strayed \/ ~There(userdata[u].browser))
  /\ UNCHANGED <<browsers, lalive, subs, entries, nextSub, late, luaClosed>>
(* session:navigate, request, evaluate_js, click_element, ...: the session  *)
(* sends and emits through its browser; element:click and type likewise     *)
(* through the session they hold.                                           *)
SessionCall(u) ==
  /\ ~luaClosed /\ u \in Holding(userdata) /\ userdata[u].kind = "session"
  /\ strayed' = (strayed \/ ~There(userdata[u].browser))
  /\ UNCHANGED <<browsers, userdata, lalive, subs, entries, nextSub, late, luaClosed>>
NodeCall(u) ==
  /\ ~luaClosed /\ u \in Holding(userdata) /\ userdata[u].kind = "node"
  /\ strayed' = (strayed \/ ~There(userdata[u].browser))
  /\ UNCHANGED <<browsers, userdata, lalive, subs, entries, nextSub, late, luaClosed>>
ExtractorNew(br) ==
  /\ Room /\ userdata' = Append(userdata, Node("extractor", br, 0))
  /\ UNCHANGED <<browsers, lalive, subs, entries, nextSub, late, strayed, luaClosed>>

(* session:on, and browser:install_extension for an extractor: a handler in *)
(* the browser's dispatcher and a record of it in the runtime.              *)
Subscribed(u, br) ==
  /\ nextSub[br] <= MaxSubs
  /\ subs' = Append(subs, [browser |-> br, id |-> nextSub[br], owner |-> u])
  /\ entries' = [entries EXCEPT ![br] = @ \cup {nextSub[br]}]
  /\ nextSub' = [nextSub EXCEPT ![br] = @ + 1]
SessionOn(u) ==
  LET br == userdata[u].browser IN
  /\ ~luaClosed /\ u \in Holding(userdata) /\ userdata[u].kind = "session" /\ Subscribed(u, br)
  /\ strayed' = (strayed \/ ~There(br))
  /\ late' = IF browsers[br] = "deferred" THEN late \cup {br} ELSE late
  /\ UNCHANGED <<browsers, userdata, lalive, luaClosed>>
InstallExtension(u) ==
  LET br == userdata[u].browser IN
  /\ ~luaClosed /\ userdata[u].live /\ userdata[u].kind = "extractor"
  /\ browsers[br] = "held" /\ Subscribed(u, br)
  /\ UNCHANGED <<browsers, userdata, lalive, late, strayed, luaClosed>>

(* unsubscribe_subscription: the first subscription with that number, which *)
(* every dispatcher counts for itself, and the flag of its owner, which the *)
(* owner's other subscriptions share.                                       *)
SessionOff(k) ==
  /\ ~luaClosed /\ \A j \in 1..(k - 1) : subs[j].id # subs[k].id
  /\ subs' = AtPositions(subs, DOMAIN subs \ {k})
  /\ strayed' = (strayed \/ ~There(subs[k].browser))
  /\ entries' = [entries EXCEPT ![subs[k].browser] = @ \ {subs[k].id}]
  /\ lalive' = [lalive EXCEPT ![subs[k].owner] = FALSE]
  /\ UNCHANGED <<browsers, userdata, nextSub, late, luaClosed>>

-----------------------------------------------------------------------------
(* Mutant: a deferred browser is deleted although it has sessions. *)
FlushedAll(bs, ud) ==
  [br \in LuaBrowsers |-> IF bs[br] = "deferred" THEN "deleted" ELSE bs[br]]

(* The collector.  flush_owned_browsers deletes the deferred browsers that  *)
(* have no live session.                                                    *)
Flushed(bs, ud) ==
  [br \in LuaBrowsers |->
    IF bs[br] = "deferred" /\ LiveSessions(ud, br) = {} THEN "deleted" ELSE bs[br]]
Finalized(ud, u) == [ud EXCEPT ![u].live = FALSE]
(* ~Session of the last reference reads its browser *)
LastReference(u) ==
  \A v \in Holding(userdata) \ {u} :
    <<userdata[v].browser, userdata[v].id>> # <<userdata[u].browser, userdata[u].id>>

SessionGc(u) ==
  /\ ~luaClosed /\ userdata[u].live /\ userdata[u].kind = "session"
  /\ userdata' = Finalized(userdata, u) /\ lalive' = [lalive EXCEPT ![u] = FALSE]
  /\ strayed' = (strayed \/ (LastReference(u) /\ ~There(userdata[u].browser)))
  /\ browsers' = Flushed(browsers, Finalized(userdata, u))
  /\ UNCHANGED <<subs, entries, nextSub, late, luaClosed>>
NodeGc(u) ==       \* document_gc and element_gc do not flush
  /\ ~luaClosed /\ userdata[u].live /\ userdata[u].kind = "node"
  /\ userdata' = Finalized(userdata, u)
  /\ strayed' = (strayed \/ (LastReference(u) /\ ~There(userdata[u].browser)))
  /\ UNCHANGED <<browsers, lalive, subs, entries, nextSub, late, luaClosed>>
ExtractorGc(u) ==
  /\ ~luaClosed /\ userdata[u].live /\ userdata[u].kind = "extractor"
  /\ userdata' = Finalized(userdata, u) /\ lalive' = [lalive EXCEPT ![u] = FALSE]
  /\ UNCHANGED <<browsers, subs, entries, nextSub, late, strayed, luaClosed>>
(* browser_gc: release_subscriptions, then defer_owned_browser, which       *)
(* flushes at once.                                                         *)
Of(br) == {subs[k] : k \in {j \in DOMAIN subs : subs[j].browser = br}}
BrowserGc(br) ==
  /\ ~luaClosed /\ browsers[br] = "held"
  /\ subs' = AtPositions(subs, {k \in DOMAIN subs : subs[k].browser # br})
  /\ entries' = [entries EXCEPT ![br] = @ \ {s.id : s \in Of(br)}]
  /\ lalive' = [u \in Userdata |-> lalive[u] /\ \A s \in Of(br) : s.owner # u]
  /\ browsers' = Flushed([browsers EXCEPT ![br] = "deferred"], userdata)
  /\ UNCHANGED <<userdata, nextSub, late, strayed, luaClosed>>

(* ~LuaRuntime: the subscriptions go, deferred browsers are flushed and     *)
(* those that are left forgotten, and only then lua_close finalizes all     *)
(* userdata, the youngest first, sessions before their browser's.           *)
Teardown ==
  /\ ~luaClosed /\ luaClosed' = TRUE /\ subs' = <<>>
  /\ strayed' = (strayed \/ \E k \in DOMAIN subs : ~There(subs[k].browser))
  /\ entries' = [br \in LuaBrowsers |-> entries[br] \ {s.id : s \in Of(br)}]
  /\ userdata' = [u \in DOMAIN userdata |-> [userdata[u] EXCEPT !.live = FALSE]]
  /\ lalive' = [u \in Userdata |-> FALSE]
  /\ browsers' = [br \in LuaBrowsers |->
       CASE Flushed(browsers, userdata)[br] = "deferred" -> "leaked"
         [] browsers[br] = "held" -> "deleted"
         [] OTHER -> Flushed(browsers, userdata)[br]]
  /\ UNCHANGED <<nextSub, late>>

LuaNext ==
  \/ Teardown \/ \E k \in DOMAIN subs : SessionOff(k)
  \/ \E br \in LuaBrowsers :
       BrowserNew(br) \/ BrowserCreateSession(br) \/ ExtractorNew(br) \/ BrowserGc(br)
  \/ \E u \in DOMAIN userdata :
       \/ PushNode(u) \/ SessionCall(u) \/ NodeCall(u) \/ SessionOn(u) \/ InstallExtension(u)
       \/ SessionGc(u) \/ NodeGc(u) \/ ExtractorGc(u)
LuaSpec == LuaInit /\ [][LuaNext]_LuaVars

-----------------------------------------------------------------------------
LuaTypeOK ==
  /\ browsers \in [LuaBrowsers -> {NotYet, "held", "deferred", "deleted", "leaked"}]
  /\ userdata \in Seq([kind : {"session", "node", "extractor"}, browser : LuaBrowsers,
                       id : 0..MaxUserdata, live : BOOLEAN])
  /\ lalive \in [Userdata -> BOOLEAN] /\ entries \in [LuaBrowsers -> SUBSET Nat]
  /\ subs \in Seq([browser : LuaBrowsers, id : Nat, owner : Userdata])
  /\ nextSub \in [LuaBrowsers -> Nat] /\ late \subseteq LuaBrowsers

(* Whatever order the collector finalizes browsers, sessions, documents and *)
(* elements in, a browser outlives the sessions that point at it, and no    *)
(* finalizer, method or teardown touches a deleted one, as long as nobody   *)
(* subscribed to a browser whose handle had been collected; every runtime   *)
(* record has its handler in the dispatcher until then.                     *)
BrowsersOutliveSessions ==
  /\ ~luaClosed => \A u \in Holding(userdata) : There(userdata[u].browser)
  /\ late = {} =>
       /\ ~strayed
       /\ \A k \in DOMAIN subs : There(subs[k].browser) /\ subs[k].id \in entries[subs[k].browser]

(* manual/09: "runtime teardown removes it along with every other           *)
(* subscription and its registry reference": the dispatcher of every        *)
(* subscription the runtime still lists exists.                             *)
SubscriptionsAreRemovable == \A k \in DOMAIN subs : There(subs[k].browser)
=============================================================================
