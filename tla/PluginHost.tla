----------------------------- MODULE PluginHost ------------------------------
(***************************************************************************)
(* The plugin registry (src/core/plugin_registry.cpp) and the event        *)
(* dispatcher it reports to (event.cpp), used by several threads.  The     *)
(* registry keeps its mutex while it calls plugins and while the events it *)
(* emits run their handlers; the dispatcher calls a snapshot of its        *)
(* handlers with no lock held.                                             *)
(***************************************************************************)
EXTENDS Integers, Sequences, FiniteSets

CONSTANTS
  PluginFiles,   \* the native libraries there are
  LuaFiles,      \* the Lua and WASM plugins, which have no code to call here
  HostThreads,
  MaxHandlers,   \* bound: event handlers subscribed
  MaxCalls       \* bound: registry operations

Free == "free"

ASSUME PluginHostConstants ==
  /\ PluginFiles \cap LuaFiles = {} /\ Free \notin HostThreads
  /\ {MaxHandlers, MaxCalls} \subseteq Nat

VARIABLES
  plist,      \* Impl::plugins: a file, descriptor.initialized and handle # nullptr
  regLock,    \* Impl::mutex: its holder
  thr,        \* each thread: its operation and where it is in it
  handlers,   \* EventDispatcher::handlers_: ids
  nextHandler,
  code,       \* history: each library's state: "out", "loaded", "ready"
  twice,      \* history: a library was loaded while it was open
  broken,     \* history: a library was called in the wrong state
  abandoned,  \* history: a handler threw out of shutdown_all, past a closed plugin
  calls

HostVars == <<plist, regLock, thr, handlers, nextHandler, code, twice, broken, abandoned, calls>>

Resting == [op |-> "rest", at |-> "rest", file |-> Free, i |-> 0, left |-> <<>>]

HostInit ==
  /\ plist = <<>> /\ regLock = Free /\ thr = [t \in HostThreads |-> Resting]
  /\ handlers = <<>> /\ nextHandler = 1
  /\ code = [p \in PluginFiles |-> "out"] /\ twice = FALSE /\ broken = FALSE
  /\ abandoned = FALSE /\ calls = 0

Native(i) == plist[i].file \in PluginFiles
InLoop(t, op) == thr[t].op = op /\ thr[t].at = "loop" /\ thr[t].i <= Len(plist)
Advance(t) == thr' = [thr EXCEPT ![t].i = @ + 1]
(* emit: the handlers there are now *)
Emit(t, i) == thr' = [thr EXCEPT ![t] = [@ EXCEPT !.at = "emit", !.i = i, !.left = handlers]]
Unlocked(t) == regLock' = Free /\ thr' = [thr EXCEPT ![t] = Resting]

-----------------------------------------------------------------------------
(* load_native, load_lua, load_wasm and discover: the library is opened and *)
(* asked who it is before the mutex is taken.                               *)
Operation(t, op, file) ==
  /\ thr[t].op = "rest" /\ calls < MaxCalls /\ calls' = calls + 1
  /\ thr' = [thr EXCEPT ![t] = [Resting EXCEPT !.op = op, !.at = "want", !.file = file]]
  /\ UNCHANGED <<plist, regLock, handlers, nextHandler, broken, abandoned>>
LoadPlugin(t, p) ==
  /\ Operation(t, "load", p)
  /\ LET open == p \in PluginFiles /\ code[p] # "out" IN
     /\ twice' = (twice \/ open)
     /\ code' = IF p \in PluginFiles /\ ~open THEN [code EXCEPT ![p] = "loaded"] ELSE code
(* It cannot be opened, or is asked and refused (no entry symbol, no info,   *)
(* another ABI), and the reference is closed again.                         *)
LoadRefused(t) ==
  /\ thr[t].op = "rest" /\ calls < MaxCalls /\ calls' = calls + 1
  /\ UNCHANGED <<plist, regLock, thr, handlers, nextHandler, code, twice, broken, abandoned>>
(* initialize_all, the hooks (configure_all, dispatch_before_request,       *)
(* dispatch_after_response, dispatch_document) and shutdown_all             *)
CallRegistry(t, op) == op # "load" /\ Operation(t, op, Free) /\ UNCHANGED <<code, twice>>

Acquire(t) ==
  /\ thr[t].at = "want" /\ regLock = Free /\ regLock' = t
  /\ thr' = [thr EXCEPT ![t].at = "loop", ![t].i = 1]
  /\ UNCHANGED <<plist, handlers, nextHandler, code, twice, broken, abandoned, calls>>
PushPlugin(t) ==
  /\ thr[t].op = "load" /\ thr[t].at = "loop"
  /\ plist' = Append(plist, [file |-> thr[t].file, initialized |-> FALSE,
                            open |-> thr[t].file \in PluginFiles]) /\ Unlocked(t)
  /\ UNCHANGED <<handlers, nextHandler, code, twice, broken, abandoned, calls>>

(* A call into a library that is closed has no outcome: the thread is gone. *)
CallClosed(t) ==
  /\ broken' = TRUE /\ thr' = [thr EXCEPT ![t].at = "stuck"] /\ UNCHANGED <<plist, regLock, code>>

(* Mutant: a plugin counts as initialised before its initialize returns. *)
InitializeEagerly(t) ==
  LET i == thr[t].i IN
  /\ InLoop(t, "initialize")
  /\ \/ /\ plist[i].initialized \/ ~Native(i)
        /\ Advance(t) /\ UNCHANGED <<plist, regLock, code, broken>>
     \/ ~plist[i].initialized /\ Native(i) /\ ~plist[i].open /\ CallClosed(t)
     \/ /\ ~plist[i].initialized /\ Native(i) /\ plist[i].open
        /\ broken' = (broken \/ code[plist[i].file] # "loaded")
        /\ plist' = [plist EXCEPT ![i].initialized = TRUE]
        /\ \/ /\ code' = [code EXCEPT ![plist[i].file] = "ready"]
              /\ Emit(t, i + 1) /\ UNCHANGED regLock
           \/ Unlocked(t) /\ UNCHANGED code
  /\ UNCHANGED <<handlers, nextHandler, twice, abandoned, calls>>

(* initialize_all: a plugin that fails throws, and the earlier ones stay.   *)
(* It asks for the plugin and not for its handle.                           *)
Initialize(t) ==
  LET i == thr[t].i IN
  /\ InLoop(t, "initialize")
  /\ \/ /\ plist[i].initialized \/ ~Native(i)
        /\ Advance(t) /\ UNCHANGED <<plist, regLock, code, broken>>
     \/ ~plist[i].initialized /\ Native(i) /\ ~plist[i].open /\ CallClosed(t)
     \/ /\ ~plist[i].initialized /\ Native(i) /\ plist[i].open
        /\ broken' = (broken \/ code[plist[i].file] # "loaded")
        /\ \/ /\ plist' = [plist EXCEPT ![i].initialized = TRUE]
              /\ code' = [code EXCEPT ![plist[i].file] = "ready"]
              /\ Emit(t, i + 1) /\ UNCHANGED regLock
           \/ Unlocked(t) /\ UNCHANGED <<plist, code>>
  /\ UNCHANGED <<handlers, nextHandler, twice, abandoned, calls>>

(* A hook is called on the initialised plugins; an error or a rejection     *)
(* throws.                                                                  *)
Hook(t) ==
  LET i == thr[t].i IN
  /\ InLoop(t, "hook")
  /\ IF ~plist[i].initialized \/ ~Native(i) THEN Advance(t) /\ UNCHANGED <<regLock, broken>>
     ELSE /\ broken' = (broken \/ code[plist[i].file] # "ready")
          /\ \/ Advance(t) /\ UNCHANGED regLock
             \/ Unlocked(t)
  /\ UNCHANGED <<plist, handlers, nextHandler, code, twice, abandoned, calls>>

(* shutdown_all: the event, then shutdown and dlclose; at last an empty     *)
(* list.  A library that is on the list twice stays open for the second.    *)
ShutdownEvent(t) ==
  /\ InLoop(t, "shutdown") /\ Emit(t, thr[t].i)
  /\ UNCHANGED <<plist, regLock, handlers, nextHandler, code, twice, broken, abandoned, calls>>
StillOpen(i, p) == \E k \in (i + 1)..Len(plist) : plist[k].file = p /\ plist[k].open
ShutdownPlugin(t) ==
  LET i == thr[t].i p == plist[i].file IN
  /\ thr[t].op = "shutdown" /\ thr[t].at = "emit" /\ thr[t].left = <<>>
  /\ broken' = (broken \/ (Native(i) /\ plist[i].initialized /\ code[p] # "ready"))
  /\ plist' = [plist EXCEPT ![i] = [@ EXCEPT !.initialized = FALSE, !.open = FALSE]]
  /\ code' = IF Native(i) /\ plist[i].open /\ ~StillOpen(i, p) THEN [code EXCEPT ![p] = "out"] ELSE code
  /\ thr' = [thr EXCEPT ![t].at = "loop", ![t].i = i + 1]
  /\ UNCHANGED <<regLock, handlers, nextHandler, twice, abandoned, calls>>
Finished(t) ==
  /\ thr[t].at = "loop" /\ thr[t].op # "load" /\ thr[t].i > Len(plist) /\ Unlocked(t)
  /\ plist' = IF thr[t].op = "shutdown" THEN <<>> ELSE plist
  /\ UNCHANGED <<handlers, nextHandler, code, twice, broken, abandoned, calls>>

-----------------------------------------------------------------------------
(* The handlers of an emitted event run one by one.  One that calls the     *)
(* registry waits for the mutex its own thread holds; one that throws       *)
(* leaves initialize_all after the plugin it was told of, and shutdown_all  *)
(* before that plugin, with the closed ones before it still on the list.    *)
ClosedOnList == \E k \in DOMAIN plist : Native(k) /\ ~plist[k].open
RunHandler(t) ==
  /\ thr[t].at = "emit" /\ thr[t].left # <<>>
  /\ \/ thr' = [thr EXCEPT ![t].left = Tail(@)] /\ UNCHANGED <<regLock, abandoned>>
     \/ thr' = [thr EXCEPT ![t].at = "stuck"] /\ UNCHANGED <<regLock, abandoned>>
     \/ Unlocked(t) /\ abandoned' = (abandoned \/ ClosedOnList)
  /\ UNCHANGED <<plist, handlers, nextHandler, code, twice, broken, calls>>
Emitted(t) ==
  /\ thr[t].op = "initialize" /\ thr[t].at = "emit" /\ thr[t].left = <<>>
  /\ thr' = [thr EXCEPT ![t].at = "loop"]
  /\ UNCHANGED <<plist, regLock, handlers, nextHandler, code, twice, broken, abandoned, calls>>
Subscribe ==
  /\ nextHandler <= MaxHandlers /\ nextHandler' = nextHandler + 1
  /\ handlers' = Append(handlers, nextHandler)
  /\ UNCHANGED <<plist, regLock, thr, code, twice, broken, abandoned, calls>>
Unsubscribe(h) ==
  /\ h \in {handlers[k] : k \in DOMAIN handlers}
  /\ handlers' = SelectSeq(handlers, LAMBDA x : x # h)
  /\ UNCHANGED <<plist, regLock, thr, nextHandler, code, twice, broken, abandoned, calls>>

HostNext ==
  \/ Subscribe \/ \E h \in 1..MaxHandlers : Unsubscribe(h)
  \/ \E t \in HostThreads :
       \/ Acquire(t) \/ PushPlugin(t) \/ Initialize(t) \/ Hook(t) \/ ShutdownEvent(t)
       \/ ShutdownPlugin(t) \/ Finished(t) \/ RunHandler(t) \/ Emitted(t)
       \/ LoadRefused(t) \/ \E p \in PluginFiles \cup LuaFiles : LoadPlugin(t, p)
       \/ \E op \in {"initialize", "hook", "shutdown"} : CallRegistry(t, op)
HostSpec == HostInit /\ [][HostNext]_HostVars

-----------------------------------------------------------------------------
HostTypeOK ==
  /\ plist \in Seq([file : PluginFiles \cup LuaFiles, initialized : BOOLEAN, open : BOOLEAN])
  /\ regLock \in HostThreads \cup {Free} /\ calls \in 0..MaxCalls
  /\ \A t \in HostThreads :
       /\ thr[t].op \in {"rest", "load", "initialize", "hook", "shutdown"}
       /\ thr[t].at \in {"rest", "want", "loop", "emit", "stuck"}
  /\ handlers \in Seq(1..MaxHandlers) /\ nextHandler \in 1..(MaxHandlers + 1)
  /\ code \in [PluginFiles -> {"out", "loaded", "ready"}]

(* As long as no library is loaded while it is open: whatever threads load, *)
(* initialise, dispatch and shut down at the same time and whichever        *)
(* plugins fail, a plugin's code is called only between its initialize and  *)
(* its shutdown, which come once each, and a library that is open is on the *)
(* list or about to be, so that shutdown_all closes it.  The exception: an  *)
(* event handler that throws out of shutdown_all leaves the plugins it has  *)
(* closed on the list, and a later initialize_all calls them.               *)
PluginsAreCalledInTurn ==
  ~twice =>
    /\ ~abandoned => ~broken
    /\ \A p \in PluginFiles : code[p] # "out" =>
         \/ \E i \in DOMAIN plist : plist[i] = [file |-> p, initialized |-> code[p] = "ready", open |-> TRUE]
         \/ \E t \in HostThreads : thr[t].op = "load" /\ thr[t].file = p
=============================================================================
