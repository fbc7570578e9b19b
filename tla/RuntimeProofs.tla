--------------------------- MODULE RuntimeProofs ----------------------------
(***************************************************************************)
(* What the runtime hosts and keeps. The plugin registry calls its plugins *)
(* in turn, for any threads, any libraries and any number of calls and     *)
(* handlers. Lua's sessions have their browsers, for any number of         *)
(* browsers and handles and every order of collection. The three cookie    *)
(* stores hold the same cookies, for every set of origins and cookies.     *)
(***************************************************************************)
EXTENDS PluginHost, LuaHandles, DurableStorage, FiniteSetTheorems, SequenceTheorems, TLAPS

-----------------------------------------------------------------------------
(* The plugin registry.                                                    *)

Entry == [file : PluginFiles \cup LuaFiles, initialized : BOOLEAN, open : BOOLEAN]
HoldsLock == {"loop", "emit", "stuck"}

HostShape ==
  /\ plist \in Seq(Entry)
  /\ code \in [PluginFiles -> {"out", "loaded", "ready"}]
  /\ DOMAIN thr = HostThreads
  /\ \A t \in HostThreads : DOMAIN thr[t] = {"op", "at", "file", "i", "left"}

(* Who is inside an operation that the mutex guards holds the mutex; a load *)
(* emits nothing, and an index is one of the loop's.                        *)
ThreadsOK ==
  \A t \in HostThreads :
    /\ thr[t].at \in HoldsLock <=> regLock = t
    /\ thr[t].at = "rest" <=> thr[t].op = "rest"
    /\ thr[t].op = "load" => thr[t].at \in {"want", "loop"} /\ thr[t].file \in PluginFiles \cup LuaFiles
    /\ thr[t].at \in HoldsLock => thr[t].i \in Nat \ {0}
    /\ thr[t].at # "rest" => thr[t].at \in HoldsLock \cup {"want"}
    /\ thr[t].at \in {"emit", "stuck"} /\ thr[t].op = "shutdown" => thr[t].i <= Len(plist)

(* The entries whose library is open.                                       *)
Live(i) == plist[i].file \in PluginFiles /\ plist[i].open
Shutting(t) == thr[t].op = "shutdown" /\ thr[t].at \in HoldsLock

(* A running shutdown_all has closed what it has passed; a closed plugin is *)
(* not initialised and, unless a handler has thrown past one, is one that a *)
(* running shutdown_all has passed.                                         *)
PassedIsClosed == \A t \in HostThreads : Shutting(t) => \A k \in DOMAIN plist : k < thr[t].i => ~Live(k)
ClosedIsOff == \A k \in DOMAIN plist : plist[k].file \in PluginFiles /\ ~plist[k].open => ~plist[k].initialized
ClosedIsPassed == \A k \in DOMAIN plist : plist[k].file \in PluginFiles /\ ~plist[k].open =>
                    abandoned \/ \E t \in HostThreads : Shutting(t) /\ k < thr[t].i
Closed == PassedIsClosed /\ ClosedIsOff /\ ClosedIsPassed

Loads(t, p) == thr[t].op = "load" /\ thr[t].file = p

(* A library is open exactly for one live entry, which knows whether it is  *)
(* initialised, or for one thread that is about to add it.                  *)
LiveIsOpen == \A i \in DOMAIN plist : Live(i) =>
                code[plist[i].file] = IF plist[i].initialized THEN "ready" ELSE "loaded"
LiveIsOne == \A i, j \in DOMAIN plist : Live(i) /\ Live(j) /\ plist[i].file = plist[j].file => i = j
LoadIsOpen == \A t \in HostThreads, p \in PluginFiles : Loads(t, p) =>
                code[p] = "loaded" /\ \A i \in DOMAIN plist : Live(i) => plist[i].file # p
LoadIsOne == \A t, u \in HostThreads, p \in PluginFiles : Loads(t, p) /\ Loads(u, p) => t = u
OpenIsKept == \A p \in PluginFiles : code[p] # "out" =>
                (\E i \in DOMAIN plist : Live(i) /\ plist[i].file = p) \/ (\E t \in HostThreads : Loads(t, p))
Turns == LiveIsOpen /\ LiveIsOne /\ LoadIsOpen /\ LoadIsOne /\ OpenIsKept /\ (~abandoned => ~broken)

HostInv == HostShape /\ ThreadsOK /\ Closed /\ (~twice => Turns)

LEMMA HostInvInit == HostInit => HostInv
  BY PluginHostConstants DEF HostInit, HostInv, HostShape, ThreadsOK, Turns, LiveIsOpen, LiveIsOne, LoadIsOpen, LoadIsOne,
     OpenIsKept, Live, Loads, Resting, HoldsLock, Entry, Closed, PassedIsClosed, ClosedIsOff, ClosedIsPassed, Shutting

LEMMA HostInvInTurn == HostInv => PluginsAreCalledInTurn
<1> SUFFICES ASSUME HostInv, ~twice, NEW p \in PluginFiles, code[p] # "out", ~\E t \in HostThreads : Loads(t, p)
    PROVE \E i \in DOMAIN plist : plist[i] = [file |-> p, initialized |-> code[p] = "ready", open |-> TRUE]
  BY DEF HostInv, Turns, PluginsAreCalledInTurn, Loads
<1>1. PICK i \in DOMAIN plist : Live(i) /\ plist[i].file = p
  BY DEF HostInv, Turns, OpenIsKept, Loads
<1>2. i \in DOMAIN plist /\ plist[i] \in Entry
  BY <1>1 DEF Live, HostInv, HostShape
<1>3. code[p] = IF plist[i].initialized THEN "ready" ELSE "loaded"
  BY <1>1 DEF HostInv, Turns, LiveIsOpen
<1>4. plist[i].initialized = (code[p] = "ready")
  <2>1. CASE plist[i].initialized = TRUE
    BY <1>3, <2>1
  <2>2. CASE plist[i].initialized = FALSE
    BY <1>3, <2>2
  <2> QED BY <1>2, <2>1, <2>2 DEF Entry
<1>5. plist[i] = [file |-> plist[i].file, initialized |-> plist[i].initialized, open |-> plist[i].open]
  BY <1>2 DEF Entry
<1>6. plist[i].open = TRUE
  BY <1>1, <1>2 DEF Live, Entry
<1> QED BY <1>1, <1>2, <1>4, <1>5, <1>6

-----------------------------------------------------------------------------
(* Nothing is opened or closed and no shutdown moves.                       *)
LEMMA SameShutdowns ==
  ASSUME Closed, UNCHANGED <<plist, abandoned>>,
         \A u \in HostThreads : (Shutting(u)' <=> Shutting(u)) /\ (Shutting(u) => thr'[u].i = thr[u].i)
  PROVE  Closed'
<1>1. PassedIsClosed'
  BY DEF Closed, PassedIsClosed, Live
<1>2. ClosedIsOff'
  BY DEF Closed, ClosedIsOff
<1>3. ClosedIsPassed'
  BY DEF Closed, ClosedIsPassed
<1> QED BY <1>1, <1>2, <1>3 DEF Closed

(* A step that leaves the list, the libraries and every load as they are.   *)
LEMMA QuietHost ==
  ASSUME HostInv, HostShape', ThreadsOK', Closed', UNCHANGED <<plist, code, twice>>, ~twice /\ ~abandoned' => ~broken',
         \A t \in HostThreads : thr'[t].op = "load" <=> thr[t].op = "load",
         \A t \in HostThreads : thr[t].op = "load" => thr'[t].file = thr[t].file
  PROVE  HostInv'
<1> SUFFICES ASSUME ~twice PROVE Turns'
  BY DEF HostInv
<1>1. \A t \in HostThreads, p \in PluginFiles : Loads(t, p)' <=> Loads(t, p)
  BY DEF Loads
<1>2. plist' = plist /\ code' = code /\ \A i \in DOMAIN plist : Live(i)' <=> Live(i)
  BY DEF Live
<1>3. LiveIsOpen' /\ LiveIsOne'
  BY <1>2 DEF HostInv, Turns, LiveIsOpen, LiveIsOne
<1>4. LoadIsOpen' /\ LoadIsOne' /\ OpenIsKept'
  BY <1>1, <1>2 DEF HostInv, Turns, LoadIsOpen, LoadIsOne, OpenIsKept
<1> QED BY <1>3, <1>4 DEF Turns

LEMMA HostSubscribe ==
  ASSUME HostInv, UNCHANGED <<plist, regLock, thr, code, twice, broken, abandoned>> PROVE HostInv'
<1>1. HostShape' /\ ThreadsOK'
  BY DEF HostInv, HostShape, ThreadsOK
<1>2. Closed'
  BY SameShutdowns DEF HostInv, Shutting
<1> QED BY <1>1, <1>2, QuietHost DEF HostInv, Turns

(* What a thread becomes, and that the others stay *)
LEMMA OneThread ==
  ASSUME HostShape, NEW t \in HostThreads, NEW r, DOMAIN r = {"op", "at", "file", "i", "left"},
         thr' = [thr EXCEPT ![t] = r], plist' \in Seq(Entry), code' \in [PluginFiles -> {"out", "loaded", "ready"}]
  PROVE  /\ HostShape' /\ thr'[t] = r
         /\ \A u \in HostThreads : u # t => thr'[u] = thr[u]
  BY DEF HostShape

LEMMA HostOperation ==
  ASSUME HostInv, NEW t \in HostThreads, NEW op \in {"load", "initialize", "hook", "shutdown"},
         NEW p \in PluginFiles \cup LuaFiles \cup {Free}, op = "load" => p \in PluginFiles \cup LuaFiles,
         Operation(t, op, p), code' \in [PluginFiles -> {"out", "loaded", "ready"}]
  PROVE  /\ HostShape' /\ ThreadsOK' /\ Closed'
         /\ thr[t].op = "rest" /\ thr'[t].op = op /\ thr'[t].file = p
         /\ \A u \in HostThreads : u # t => thr'[u] = thr[u]
<1> DEFINE r == [Resting EXCEPT !.op = op, !.at = "want", !.file = p]
<1>1. r.op = op /\ r.at = "want" /\ r.file = p /\ DOMAIN r = {"op", "at", "file", "i", "left"}
  BY DEF Resting
<1>2. thr' = [thr EXCEPT ![t] = r] /\ UNCHANGED <<plist, regLock, broken, abandoned>> /\ thr[t].op = "rest"
  BY DEF Operation
<1> HIDE DEF r
<1>3. HostShape' /\ thr'[t] = r /\ \A u \in HostThreads : u # t => thr'[u] = thr[u]
  BY <1>1, <1>2, OneThread DEF HostInv, HostShape
<1>4. thr[t].at = "rest" /\ regLock # t
  BY <1>2 DEF HostInv, ThreadsOK, HoldsLock
<1>5. ThreadsOK'
  BY <1>1, <1>2, <1>3, <1>4 DEF HostInv, ThreadsOK, HoldsLock
<1>6. \A u \in HostThreads : (Shutting(u)' <=> Shutting(u)) /\ (Shutting(u) => thr'[u].i = thr[u].i)
  BY <1>1, <1>2, <1>3, <1>4 DEF Shutting, HoldsLock
<1>7. Closed'
  BY <1>2, <1>6, SameShutdowns DEF HostInv
<1> QED BY <1>1, <1>2, <1>3, <1>5, <1>7

LEMMA HostLoad ==
  ASSUME HostInv, NEW t \in HostThreads, NEW p \in PluginFiles \cup LuaFiles, LoadPlugin(t, p) PROVE HostInv'
<1> DEFINE open == p \in PluginFiles /\ code[p] # "out"
<1>1. /\ Operation(t, "load", p) /\ twice' = (twice \/ open)
      /\ code' = IF p \in PluginFiles /\ ~open THEN [code EXCEPT ![p] = "loaded"] ELSE code
  BY DEF LoadPlugin
<1>2. code' \in [PluginFiles -> {"out", "loaded", "ready"}]
  BY <1>1 DEF HostInv, HostShape
<1>3. /\ HostShape' /\ ThreadsOK' /\ Closed'
      /\ thr[t].op = "rest" /\ thr'[t].op = "load" /\ thr'[t].file = p
      /\ \A u \in HostThreads : u # t => thr'[u] = thr[u]
  BY <1>1, <1>2, HostOperation
<1>4. plist' = plist /\ broken' = broken /\ abandoned' = abandoned /\ \A i \in DOMAIN plist : Live(i)' <=> Live(i)
  BY <1>1 DEF Operation, Live
<1> SUFFICES ASSUME ~twice' PROVE Turns'
  BY <1>3 DEF HostInv
<1>5. Turns /\ ~open
  BY <1>1 DEF HostInv
<1>6. p \in PluginFiles => code' = [code EXCEPT ![p] = "loaded"]
  BY <1>1, <1>5
<1>7. p \notin PluginFiles => code' = code
  BY <1>1
<1>8. p \in PluginFiles => (\A i \in DOMAIN plist : Live(i) => plist[i].file # p) /\ (\A u \in HostThreads : ~Loads(u, p))
  BY <1>5 DEF Turns, LiveIsOpen, LoadIsOpen
<1>9. /\ \A q \in PluginFiles : q # p => code'[q] = code[q]
      /\ p \in PluginFiles => code'[p] = "loaded"
  BY <1>6, <1>7 DEF HostInv, HostShape
<1>10. \A u \in HostThreads, q \in PluginFiles : Loads(u, q)' <=> (Loads(u, q) \/ (u = t /\ q = p))
  BY <1>3 DEF Loads
<1> HIDE DEF open
<1>11. LiveIsOpen'
  BY <1>3, <1>4, <1>5, <1>8, <1>9 DEF Turns, LiveIsOpen, Live
<1>12. LiveIsOne'
  BY <1>3, <1>4, <1>5 DEF Turns, LiveIsOne
<1>13. LoadIsOpen'
  BY <1>3, <1>4, <1>5, <1>8, <1>9, <1>10 DEF Turns, LoadIsOpen
<1>14. LoadIsOne'
  BY <1>5, <1>8, <1>10 DEF Turns, LoadIsOne
<1>15. OpenIsKept'
  BY <1>3, <1>4, <1>5, <1>9, <1>10 DEF Turns, OpenIsKept
<1> QED BY <1>4, <1>5, <1>11, <1>12, <1>13, <1>14, <1>15 DEF Turns

LEMMA HostCall ==
  ASSUME HostInv, NEW t \in HostThreads, NEW op \in {"initialize", "hook", "shutdown"}, CallRegistry(t, op) PROVE HostInv'
<1>1. Operation(t, op, Free) /\ code' = code /\ twice' = twice
  BY DEF CallRegistry
<1>2. /\ HostShape' /\ ThreadsOK' /\ Closed'
      /\ thr[t].op = "rest" /\ thr'[t].op = op /\ \A u \in HostThreads : u # t => thr'[u] = thr[u]
  BY <1>1, HostOperation DEF HostInv, HostShape
<1>3. plist' = plist /\ broken' = broken /\ abandoned' = abandoned
  BY <1>1 DEF Operation
<1> QED BY <1>1, <1>2, <1>3, QuietHost DEF HostInv, Turns

(* The holder of the mutex is the only thread in a guarded operation.       *)
LEMMA HolderIsAlone ==
  ASSUME HostInv, NEW t \in HostThreads, thr[t].at \in HoldsLock
  PROVE  /\ regLock = t /\ thr[t].i \in Nat \ {0}
         /\ \A u \in HostThreads : u # t => thr[u].at \notin HoldsLock /\ ~Shutting(u)
  BY DEF HostInv, ThreadsOK, Shutting

(* It moves on, staying inside *)
LEMMA HolderMoves ==
  ASSUME HostInv, NEW t \in HostThreads, thr[t].at \in HoldsLock, thr[t].op # "load",
         NEW r, DOMAIN r = {"op", "at", "file", "i", "left"}, r.op = thr[t].op, r.at \in HoldsLock, r.i \in Nat \ {0},
         r.at \in {"emit", "stuck"} /\ r.op = "shutdown" => r.i <= Len(plist'),
         thr' = [thr EXCEPT ![t] = r], regLock' = regLock,
         plist' \in Seq(Entry), code' \in [PluginFiles -> {"out", "loaded", "ready"}]
  PROVE  /\ HostShape' /\ ThreadsOK' /\ thr'[t] = r
         /\ \A u \in HostThreads : u # t => thr'[u] = thr[u]
         /\ \A u \in HostThreads, p \in PluginFiles : Loads(u, p)' <=> Loads(u, p)
<1>1. HostShape' /\ thr'[t] = r /\ \A u \in HostThreads : u # t => thr'[u] = thr[u]
  BY OneThread DEF HostInv
<1>2. /\ regLock = t /\ \A u \in HostThreads : u # t => thr[u].at \notin HoldsLock
      /\ thr[t].op # "rest"
  BY HolderIsAlone DEF HostInv, ThreadsOK, HoldsLock
<1>3. ThreadsOK'
  BY <1>1, <1>2 DEF HostInv, ThreadsOK, HoldsLock
<1>4. \A u \in HostThreads, p \in PluginFiles : Loads(u, p)' <=> Loads(u, p)
  BY <1>1 DEF Loads
<1> QED BY <1>1, <1>3, <1>4

(* It leaves *)
LEMMA HolderLeaves ==
  ASSUME HostInv, NEW t \in HostThreads, thr[t].at \in HoldsLock, Unlocked(t),
         plist' \in Seq(Entry), code' \in [PluginFiles -> {"out", "loaded", "ready"}]
  PROVE  /\ HostShape' /\ ThreadsOK' /\ thr'[t].op = "rest"
         /\ \A u \in HostThreads : u # t => thr'[u] = thr[u]
         /\ \A u \in HostThreads : ~Shutting(u)'
<1>1. DOMAIN Resting = {"op", "at", "file", "i", "left"} /\ Resting.op = "rest" /\ Resting.at = "rest"
  BY DEF Resting
<1>2. thr' = [thr EXCEPT ![t] = Resting] /\ regLock' = Free
  BY DEF Unlocked
<1>3. HostShape' /\ thr'[t] = Resting /\ \A u \in HostThreads : u # t => thr'[u] = thr[u]
  BY <1>1, <1>2, OneThread DEF HostInv
<1>4. \A u \in HostThreads : u # t => thr[u].at \notin HoldsLock
  BY HolderIsAlone
<1>5. Free \notin HostThreads
  BY PluginHostConstants
<1>6. ThreadsOK'
  BY <1>1, <1>2, <1>3, <1>4, <1>5 DEF HostInv, ThreadsOK, HoldsLock
<1>7. \A u \in HostThreads : thr'[u].at \notin HoldsLock
  BY <1>1, <1>3, <1>4 DEF HoldsLock
<1>8. \A u \in HostThreads : ~Shutting(u)'
  BY <1>7 DEF Shutting
<1> QED BY <1>1, <1>3, <1>6, <1>8

LEMMA HostAcquire ==
  ASSUME HostInv, NEW t \in HostThreads, Acquire(t) PROVE HostInv'
<1> DEFINE r == [thr[t] EXCEPT !.at = "loop", !.i = 1]
<1>1. /\ thr[t].at = "want" /\ regLock = Free /\ regLock' = t /\ UNCHANGED <<plist, code, twice, broken, abandoned>>
  BY DEF Acquire
<1>2. DOMAIN thr[t] = {"op", "at", "file", "i", "left"} /\ t \in DOMAIN thr
  BY DEF HostInv, HostShape
<1>3. thr' = [thr EXCEPT ![t] = r]
  BY <1>2 DEF Acquire
<1>4. DOMAIN r = {"op", "at", "file", "i", "left"} /\ r.op = thr[t].op /\ r.at = "loop" /\ r.i = 1 /\ r.file = thr[t].file
  BY <1>2
<1> HIDE DEF r
<1>5. HostShape' /\ thr'[t] = r /\ \A u \in HostThreads : u # t => thr'[u] = thr[u]
  BY <1>1, <1>3, <1>4, OneThread DEF HostInv, HostShape
<1>6. Free \notin HostThreads
  BY PluginHostConstants
<1>7. \A u \in HostThreads : thr[u].at \notin HoldsLock
  BY <1>1, <1>6 DEF HostInv, ThreadsOK
<1>8. ThreadsOK'
  BY <1>1, <1>4, <1>5, <1>6, <1>7 DEF HostInv, ThreadsOK, HoldsLock
<1>9. \A k \in DOMAIN plist : ~(k < 1)
  BY DEF HostInv, HostShape
<1>10. Closed'
  <2>1. \A u \in HostThreads : ~Shutting(u) /\ (Shutting(u)' => u = t /\ thr'[u].i = 1)
    BY <1>4, <1>5, <1>7 DEF Shutting
  <2>2. PassedIsClosed'
    BY <1>1, <1>9, <2>1 DEF PassedIsClosed
  <2>3. ClosedIsOff' /\ ClosedIsPassed'
    BY <1>1, <2>1 DEF HostInv, Closed, ClosedIsOff, ClosedIsPassed
  <2> QED BY <2>2, <2>3 DEF Closed
<1> QED BY <1>1, <1>4, <1>5, <1>8, <1>10, QuietHost DEF HostInv, Turns

LEMMA HostPush ==
  ASSUME HostInv, NEW t \in HostThreads, PushPlugin(t) PROVE HostInv'
<1> DEFINE e == [file |-> thr[t].file, initialized |-> FALSE, open |-> thr[t].file \in PluginFiles]
<1>1. /\ thr[t].op = "load" /\ thr[t].at = "loop" /\ plist' = Append(plist, e) /\ Unlocked(t)
      /\ UNCHANGED <<code, twice, broken, abandoned>>
  BY DEF PushPlugin
<1>2. plist \in Seq(Entry) /\ code \in [PluginFiles -> {"out", "loaded", "ready"}] /\ e \in Entry
  BY <1>1 DEF HostInv, HostShape, ThreadsOK, Entry
<1>3. /\ plist' \in Seq(Entry) /\ DOMAIN plist = 1..Len(plist) /\ DOMAIN plist' = 1..(Len(plist) + 1)
      /\ plist'[Len(plist) + 1] = e /\ \A i \in DOMAIN plist : plist'[i] = plist[i]
      /\ Len(plist) \in Nat
  BY <1>1, <1>2
<1>4. e.file = thr[t].file /\ e.initialized = FALSE /\ (e.file \in PluginFiles => e.open)
  OBVIOUS
<1> HIDE DEF e
<1>5. /\ HostShape' /\ ThreadsOK' /\ thr'[t].op = "rest"
      /\ \A u \in HostThreads : u # t => thr'[u] = thr[u]
      /\ \A u \in HostThreads : ~Shutting(u)'
  BY <1>1, <1>2, <1>3, HolderLeaves DEF HoldsLock
<1>6. \A i \in DOMAIN plist : Live(i)' <=> Live(i)
  BY <1>3 DEF Live
<1>10. \A i \in DOMAIN plist' : i \in DOMAIN plist \/ (i = Len(plist) + 1 /\ plist'[i] = e)
  BY <1>3
<1>17. Closed'
  <2>1. PassedIsClosed'
    BY <1>5 DEF PassedIsClosed
  <2>2. \A u \in HostThreads : ~Shutting(u)
    BY <1>1, HolderIsAlone DEF HoldsLock, Shutting
  <2>3. ClosedIsOff'
    BY <1>3, <1>4, <1>10 DEF HostInv, Closed, ClosedIsOff
  <2>4. ClosedIsPassed'
    BY <1>1, <1>3, <1>4, <1>10, <2>2 DEF HostInv, Closed, ClosedIsPassed
  <2> QED BY <2>1, <2>3, <2>4 DEF Closed
<1> SUFFICES ASSUME ~twice PROVE Turns'
  BY <1>1, <1>5, <1>17 DEF HostInv
<1>7. Turns
  BY DEF HostInv
<1>8. \A u \in HostThreads, p \in PluginFiles : Loads(u, p)' <=> (Loads(u, p) /\ u # t)
  BY <1>5 DEF Loads
<1>9. thr[t].file \in PluginFiles => Loads(t, thr[t].file)
  BY <1>1 DEF Loads
<1>11. \A i \in DOMAIN plist' : Live(i)' => plist'[i].file \in PluginFiles
  BY DEF Live
<1>12. LiveIsOpen'
  BY <1>1, <1>3, <1>4, <1>6, <1>7, <1>9, <1>10, <1>11 DEF Turns, LiveIsOpen, LoadIsOpen
<1>13. LiveIsOne'
  BY <1>3, <1>4, <1>6, <1>7, <1>9, <1>10, <1>11 DEF Turns, LiveIsOne, LoadIsOpen
<1>14. LoadIsOpen'
  <2> SUFFICES ASSUME NEW u \in HostThreads, NEW p \in PluginFiles, Loads(u, p), u # t
               PROVE code'[p] = "loaded" /\ \A i \in DOMAIN plist' : Live(i)' => plist'[i].file # p
    BY <1>8 DEF LoadIsOpen
  <2>1. code[p] = "loaded" /\ \A i \in DOMAIN plist : Live(i) => plist[i].file # p
    BY <1>7 DEF Turns, LoadIsOpen
  <2>2. thr[t].file # p
    BY <1>7, <1>9 DEF Turns, LoadIsOne
  <2> QED BY <1>1, <1>3, <1>4, <1>6, <1>10, <1>11, <2>1, <2>2
<1>15. LoadIsOne'
  BY <1>7, <1>8 DEF Turns, LoadIsOne
<1>16. OpenIsKept'
  <2> SUFFICES ASSUME NEW p \in PluginFiles, code[p] # "out"
               PROVE (\E i \in DOMAIN plist' : Live(i)' /\ plist'[i].file = p) \/ (\E u \in HostThreads : Loads(u, p)')
    BY <1>1 DEF OpenIsKept
  <2>1. CASE \E i \in DOMAIN plist : Live(i) /\ plist[i].file = p
    BY <1>3, <1>6, <2>1
  <2>2. CASE \E u \in HostThreads : Loads(u, p)
    <3>1. PICK u \in HostThreads : Loads(u, p)
      BY <2>2
    <3>2. CASE u = t
      <4>1. PICK i \in DOMAIN plist' : plist'[i] = e
        BY <1>3
      <4>2. e.file = p /\ e.open
        BY <1>4, <3>1, <3>2 DEF Loads
      <4>3. Live(i)' /\ plist'[i].file = p
        BY <4>1, <4>2 DEF Live
      <4> QED BY <4>1, <4>3
    <3>3. CASE u # t
      BY <1>8, <3>1, <3>3
    <3> QED BY <3>2, <3>3
  <2> QED BY <1>7, <2>1, <2>2 DEF Turns, OpenIsKept
<1> QED BY <1>1, <1>7, <1>12, <1>13, <1>14, <1>15, <1>16 DEF Turns

(* The holder moves on, past no entry it has to close, and calls nobody out *)
(* of turn.                                                                 *)
LEMMA HolderWalks ==
  ASSUME HostInv, NEW t \in HostThreads, thr[t].at \in HoldsLock, thr[t].op # "load",
         NEW r, DOMAIN r = {"op", "at", "file", "i", "left"}, r.op = thr[t].op, r.at \in HoldsLock, r.i \in Nat \ {0},
         r.at \in {"emit", "stuck"} /\ r.op = "shutdown" => r.i <= Len(plist),
         thr[t].op = "shutdown" => r.i = thr[t].i,
         thr' = [thr EXCEPT ![t] = r], UNCHANGED <<plist, regLock, code, twice, abandoned>>,
         ~twice /\ ~abandoned => ~broken'
  PROVE  HostInv'
<1>1. HostShape' /\ ThreadsOK' /\ thr'[t] = r /\ \A u \in HostThreads : u # t => thr'[u] = thr[u]
  BY HolderMoves DEF HostInv, HostShape
<1>2. Closed'
  BY <1>1, SameShutdowns DEF HostInv, Shutting
<1> QED BY <1>1, <1>2, QuietHost

(* The holder gives the mutex back, and the list is as it was.              *)
LEMMA HolderGoes ==
  ASSUME HostInv, NEW t \in HostThreads, thr[t].at \in HoldsLock, thr[t].op # "load", Unlocked(t),
         UNCHANGED <<plist, code, twice>>, ~twice /\ ~abandoned' => ~broken', abandoned => abandoned',
         thr[t].op = "shutdown" /\ ClosedOnList => abandoned'
  PROVE  HostInv'
<1>1. /\ HostShape' /\ ThreadsOK' /\ thr'[t].op = "rest" /\ \A u \in HostThreads : u # t => thr'[u] = thr[u]
      /\ \A u \in HostThreads : ~Shutting(u)'
  BY HolderLeaves DEF HostInv, HostShape
<1>2. \A u \in HostThreads : u # t => ~Shutting(u)
  BY HolderIsAlone
<1>3. PassedIsClosed' /\ ClosedIsOff'
  BY <1>1 DEF HostInv, Closed, PassedIsClosed, ClosedIsOff
<1>4. ClosedIsPassed'
  <2> SUFFICES ASSUME NEW k \in DOMAIN plist, plist[k].file \in PluginFiles, ~plist[k].open PROVE abandoned'
    BY DEF ClosedIsPassed
  <2>1. abandoned \/ Shutting(t)
    BY <1>2 DEF HostInv, Closed, ClosedIsPassed
  <2> QED BY <2>1 DEF Shutting, ClosedOnList, Native
<1>5. Closed'
  BY <1>3, <1>4 DEF Closed
<1> QED BY <1>1, <1>5, QuietHost

LEMMA HostInitialize ==
  ASSUME HostInv, NEW t \in HostThreads, Initialize(t) PROVE HostInv'
<1> DEFINE i == thr[t].i
           f == plist[i].file
<1>1. /\ thr[t].op = "initialize" /\ thr[t].at = "loop" /\ i <= Len(plist) /\ twice' = twice /\ abandoned' = abandoned
  BY DEF Initialize, InLoop
<1>2. /\ thr[t].at \in HoldsLock /\ regLock = t /\ i \in Nat \ {0}
      /\ \A u \in HostThreads : u # t => thr[u].at \notin HoldsLock
      /\ \A u \in HostThreads : ~Shutting(u)
  BY <1>1, HolderIsAlone DEF HoldsLock, Shutting
<1>3. /\ plist \in Seq(Entry) /\ DOMAIN plist = 1..Len(plist) /\ i \in DOMAIN plist
      /\ DOMAIN thr[t] = {"op", "at", "file", "i", "left"} /\ t \in DOMAIN thr
      /\ code \in [PluginFiles -> {"out", "loaded", "ready"}] /\ plist[i] \in Entry
  BY <1>1, <1>2 DEF HostInv, HostShape
<1>4. CASE plist[i].initialized \/ ~Native(i)
  <2> DEFINE r == [thr[t] EXCEPT !.i = @ + 1]
  <2>1. thr' = [thr EXCEPT ![t] = r] /\ UNCHANGED <<plist, regLock, code, broken>>
    BY <1>3, <1>4 DEF Initialize, Advance
  <2>2. DOMAIN r = {"op", "at", "file", "i", "left"} /\ r.op = thr[t].op /\ r.at = thr[t].at /\ r.i = i + 1
    BY <1>3
  <2> HIDE DEF r
  <2>3. r.i \in Nat \ {0}
    BY <1>2, <2>2
  <2> QED BY <1>1, <1>2, <2>1, <2>2, <2>3, HolderWalks DEF HostInv, Turns
<1>6. CASE ~plist[i].initialized /\ Native(i) /\ ~plist[i].open
  <2> DEFINE r == [thr[t] EXCEPT !.at = "stuck"]
  <2>1. thr' = [thr EXCEPT ![t] = r] /\ UNCHANGED <<plist, regLock, code>>
    BY <1>3, <1>6 DEF Initialize, CallClosed
  <2>2. DOMAIN r = {"op", "at", "file", "i", "left"} /\ r.op = thr[t].op /\ r.at = "stuck" /\ r.i = i
    BY <1>3
  <2> HIDE DEF r
  <2>3. r.at \in HoldsLock
    BY <2>2 DEF HoldsLock
  <2>4. abandoned
    BY <1>2, <1>3, <1>6 DEF HostInv, Closed, ClosedIsPassed, Native
  <2> QED BY <1>1, <1>2, <2>1, <2>2, <2>3, <2>4, HolderWalks
<1>5. CASE ~plist[i].initialized /\ Native(i) /\ plist[i].open
  <2>1. f \in PluginFiles /\ plist[i].initialized = FALSE /\ Live(i)
    BY <1>2, <1>3, <1>5 DEF Native, Entry, Live
  <2>2. broken' = (broken \/ code[f] # "loaded")
    BY <1>5 DEF Initialize
  <2>3. ~twice => code[f] = "loaded" /\ (~abandoned => ~broken /\ ~broken')
    BY <1>3, <2>1, <2>2 DEF HostInv, Turns, LiveIsOpen
  <2>4. CASE Unlocked(t) /\ UNCHANGED <<plist, code>>
    BY <1>1, <1>2, <2>3, <2>4, HolderGoes, Zenon
  <2>5. CASE /\ plist' = [plist EXCEPT ![i].initialized = TRUE] /\ code' = [code EXCEPT ![f] = "ready"]
             /\ Emit(t, i + 1) /\ regLock' = regLock
    <3> DEFINE r == [thr[t] EXCEPT !.at = "emit", !.i = i + 1, !.left = handlers]
               e == [plist[i] EXCEPT !.initialized = TRUE]
    <3>1. thr' = [thr EXCEPT ![t] = r]
      BY <1>3, <2>5 DEF Emit
    <3>2. DOMAIN r = {"op", "at", "file", "i", "left"} /\ r.op = thr[t].op /\ r.at = "emit" /\ r.i = i + 1
      BY <1>3
    <3>3. e \in Entry /\ e.file = f /\ e.initialized = TRUE /\ e.open = plist[i].open
      BY <1>3 DEF Entry
    <3>4. plist' = [plist EXCEPT ![i] = e]
      BY <1>3, <2>5
    <3> HIDE DEF r, e
    <3>5. /\ plist' \in Seq(Entry) /\ DOMAIN plist' = DOMAIN plist /\ plist'[i] = e
          /\ \A k \in DOMAIN plist : k # i => plist'[k] = plist[k]
      BY <1>3, <3>3, <3>4
    <3>6. /\ code' \in [PluginFiles -> {"out", "loaded", "ready"}] /\ code'[f] = "ready"
          /\ \A q \in PluginFiles : q # f => code'[q] = code[q]
      BY <1>3, <2>1, <2>5
    <3>7. r.i \in Nat \ {0} /\ r.at \in HoldsLock /\ r.op # "shutdown" /\ thr[t].op # "load" /\ regLock' = regLock
      BY <1>1, <1>2, <2>5, <3>2 DEF HoldsLock
    <3>8. /\ HostShape' /\ ThreadsOK' /\ thr'[t] = r /\ \A u \in HostThreads : u # t => thr'[u] = thr[u]
          /\ \A u \in HostThreads, p \in PluginFiles : Loads(u, p)' <=> Loads(u, p)
      BY <1>2, <3>1, <3>2, <3>5, <3>6, <3>7, HolderMoves
    <3>10. \A k \in DOMAIN plist : Live(k)' <=> Live(k)
      BY <3>3, <3>5 DEF Live
    <3>18. Closed'
      <4>1. \A u \in HostThreads : ~Shutting(u)'
        BY <1>1, <1>2, <3>2, <3>8 DEF Shutting
      <4>2. PassedIsClosed'
        BY <4>1 DEF PassedIsClosed
      <4>3. \A k \in DOMAIN plist : plist'[k].file \in PluginFiles /\ ~plist'[k].open => plist'[k] = plist[k]
        BY <1>5, <3>3, <3>5
      <4>4. ClosedIsOff'
        BY <3>5, <4>3 DEF HostInv, Closed, ClosedIsOff
      <4>5. ClosedIsPassed'
        BY <1>1, <1>2, <3>5, <4>3 DEF HostInv, Closed, ClosedIsPassed
      <4> QED BY <4>2, <4>4, <4>5 DEF Closed
    <3> SUFFICES ASSUME ~twice PROVE Turns'
      BY <1>1, <3>8, <3>18 DEF HostInv
    <3>9. Turns /\ code[f] = "loaded" /\ (~abandoned' => ~broken')
      BY <1>1, <2>3 DEF HostInv
    <3>11. \A k \in DOMAIN plist : plist'[k].file = plist[k].file
      BY <3>3, <3>5
    <3>12. \A k \in DOMAIN plist : Live(k) /\ k # i => plist[k].file # f /\ plist[k].file \in PluginFiles
      BY <1>3, <2>1, <3>9 DEF Turns, LiveIsOne, Live
    <3>13. \A u \in HostThreads : ~Loads(u, f)
      BY <1>3, <2>1, <3>9 DEF Turns, LoadIsOpen
    <3>14. LiveIsOpen'
      BY <3>3, <3>5, <3>6, <3>9, <3>10, <3>12 DEF Turns, LiveIsOpen
    <3>15. LiveIsOne'
      BY <3>5, <3>9, <3>10, <3>11 DEF Turns, LiveIsOne
    <3>16. LoadIsOpen' /\ LoadIsOne'
      BY <3>5, <3>6, <3>8, <3>9, <3>10, <3>11, <3>13 DEF Turns, LoadIsOpen, LoadIsOne
    <3>17. OpenIsKept'
      BY <1>3, <2>1, <3>5, <3>6, <3>8, <3>9, <3>10, <3>11 DEF Turns, OpenIsKept
    <3> QED BY <3>9, <3>14, <3>15, <3>16, <3>17 DEF Turns
  <2> QED BY <1>5, <2>4, <2>5 DEF Initialize
<1> QED BY <1>3, <1>4, <1>5, <1>6 DEF Initialize

LEMMA HostHook ==
  ASSUME HostInv, NEW t \in HostThreads, Hook(t) PROVE HostInv'
<1> DEFINE i == thr[t].i
           r == [thr[t] EXCEPT !.i = @ + 1]
<1>1. /\ thr[t].op = "hook" /\ thr[t].at = "loop" /\ i <= Len(plist) /\ UNCHANGED <<plist, code, twice, abandoned>>
  BY DEF Hook, InLoop
<1>2. thr[t].at \in HoldsLock /\ i \in Nat \ {0}
  BY <1>1, HolderIsAlone DEF HoldsLock
<1>3. i \in DOMAIN plist /\ DOMAIN thr[t] = {"op", "at", "file", "i", "left"} /\ t \in DOMAIN thr
  BY <1>1, <1>2 DEF HostInv, HostShape
<1>4. DOMAIN r = {"op", "at", "file", "i", "left"} /\ r.op = thr[t].op /\ r.at = thr[t].at /\ r.i = i + 1
  BY <1>3
<1>5. Advance(t) => thr' = [thr EXCEPT ![t] = r]
  BY <1>3 DEF Advance
<1> HIDE DEF r
<1>6. r.i \in Nat \ {0}
  BY <1>2, <1>4
<1>7. ~twice /\ ~abandoned => ~broken'
  <2>1. CASE ~plist[i].initialized \/ ~Native(i)
    BY <2>1 DEF Hook, HostInv, Turns
  <2>2. CASE ~(~plist[i].initialized \/ ~Native(i))
    <3>1. Live(i) /\ plist[i].initialized /\ broken' = (broken \/ code[plist[i].file] # "ready")
      BY <1>3, <2>2 DEF Hook, Native, Live, HostInv, Closed, ClosedIsOff
    <3> QED BY <1>3, <3>1 DEF HostInv, Turns, LiveIsOpen
  <2> QED BY <2>1, <2>2
<1>8. (Advance(t) /\ regLock' = regLock) \/ Unlocked(t)
  BY DEF Hook
<1>9. CASE Advance(t) /\ regLock' = regLock
  BY <1>1, <1>2, <1>4, <1>5, <1>6, <1>7, <1>9, HolderWalks
<1>10. CASE Unlocked(t)
  BY <1>1, <1>2, <1>7, <1>10, HolderGoes
<1> QED BY <1>8, <1>9, <1>10

LEMMA HostShutdownEvent ==
  ASSUME HostInv, NEW t \in HostThreads, ShutdownEvent(t) PROVE HostInv'
<1> DEFINE r == [thr[t] EXCEPT !.at = "emit", !.i = thr[t].i, !.left = handlers]
<1>1. /\ thr[t].op = "shutdown" /\ thr[t].at = "loop" /\ thr[t].i <= Len(plist)
      /\ UNCHANGED <<plist, regLock, code, twice, broken, abandoned>>
  BY DEF ShutdownEvent, InLoop
<1>2. thr[t].at \in HoldsLock /\ thr[t].i \in Nat \ {0}
  BY <1>1, HolderIsAlone DEF HoldsLock
<1>3. DOMAIN thr[t] = {"op", "at", "file", "i", "left"} /\ t \in DOMAIN thr
  BY DEF HostInv, HostShape
<1>4. thr' = [thr EXCEPT ![t] = r]
  BY <1>3 DEF ShutdownEvent, Emit
<1>5. DOMAIN r = {"op", "at", "file", "i", "left"} /\ r.op = thr[t].op /\ r.at = "emit" /\ r.i = thr[t].i
  BY <1>3
<1> HIDE DEF r
<1>6. r.at \in HoldsLock
  BY <1>5 DEF HoldsLock
<1> QED BY <1>1, <1>2, <1>4, <1>5, <1>6, HolderWalks DEF HostInv, Turns

LEMMA HostRunHandler ==
  ASSUME HostInv, NEW t \in HostThreads, RunHandler(t) PROVE HostInv'
<1>1. thr[t].at = "emit" /\ UNCHANGED <<plist, code, twice, broken>>
  BY DEF RunHandler
<1>2. thr[t].at \in HoldsLock /\ thr[t].i \in Nat \ {0}
  BY <1>1, HolderIsAlone DEF HoldsLock
<1>3. DOMAIN thr[t] = {"op", "at", "file", "i", "left"} /\ t \in DOMAIN thr
  BY DEF HostInv, HostShape
<1>4. thr[t].op # "load" /\ (thr[t].op = "shutdown" => thr[t].i <= Len(plist))
  BY <1>1 DEF HostInv, ThreadsOK
<1>5. CASE Unlocked(t) /\ abandoned' = (abandoned \/ ClosedOnList)
  <2>1. (abandoned => abandoned') /\ (ClosedOnList => abandoned')
    BY <1>5
  <2>2. ~twice /\ ~abandoned' => ~broken'
    BY <1>1, <2>1 DEF HostInv, Turns
  <2> QED BY <1>1, <1>2, <1>4, <1>5, <2>1, <2>2, HolderGoes
<1>6. CASE /\ thr' = [thr EXCEPT ![t].left = Tail(@)] \/ thr' = [thr EXCEPT ![t].at = "stuck"]
           /\ UNCHANGED <<regLock, abandoned>>
  <2> DEFINE r1 == [thr[t] EXCEPT !.left = Tail(@)]
             r2 == [thr[t] EXCEPT !.at = "stuck"]
  <2>1. /\ DOMAIN r1 = {"op", "at", "file", "i", "left"} /\ r1.op = thr[t].op /\ r1.at \in HoldsLock /\ r1.i = thr[t].i
        /\ DOMAIN r2 = {"op", "at", "file", "i", "left"} /\ r2.op = thr[t].op /\ r2.at \in HoldsLock /\ r2.i = thr[t].i
    BY <1>2, <1>3 DEF HoldsLock
  <2>2. (thr' = [thr EXCEPT ![t] = r1] \/ thr' = [thr EXCEPT ![t] = r2]) /\ UNCHANGED <<regLock, abandoned>>
    BY <1>3, <1>6
  <2> HIDE DEF r1, r2
  <2>3. PICK r : /\ thr' = [thr EXCEPT ![t] = r] /\ DOMAIN r = {"op", "at", "file", "i", "left"}
                 /\ r.op = thr[t].op /\ r.at \in HoldsLock /\ r.i = thr[t].i
    BY <2>1, <2>2
  <2> QED BY <1>1, <1>2, <1>4, <2>2, <2>3, HolderWalks DEF HostInv, Turns
<1> QED BY <1>5, <1>6 DEF RunHandler

LEMMA HostEmitted ==
  ASSUME HostInv, NEW t \in HostThreads, Emitted(t) PROVE HostInv'
<1> DEFINE r == [thr[t] EXCEPT !.at = "loop"]
<1>1. thr[t].op = "initialize" /\ thr[t].at = "emit" /\ UNCHANGED <<plist, regLock, code, twice, broken, abandoned>>
  BY DEF Emitted
<1>2. thr[t].at \in HoldsLock /\ thr[t].i \in Nat \ {0}
  BY <1>1, HolderIsAlone DEF HoldsLock
<1>3. DOMAIN thr[t] = {"op", "at", "file", "i", "left"} /\ t \in DOMAIN thr
  BY DEF HostInv, HostShape
<1>4. thr' = [thr EXCEPT ![t] = r]
  BY <1>3 DEF Emitted
<1>5. DOMAIN r = {"op", "at", "file", "i", "left"} /\ r.op = thr[t].op /\ r.at = "loop" /\ r.i = thr[t].i
  BY <1>3
<1> HIDE DEF r
<1>6. r.at \in HoldsLock
  BY <1>5 DEF HoldsLock
<1> QED BY <1>1, <1>2, <1>4, <1>5, <1>6, HolderWalks DEF HostInv, Turns

(* An entry is closed: it leaves the live ones, and so does its library,    *)
(* which no later entry names.                                              *)
LEMMA HostShutdownPlugin ==
  ASSUME HostInv, NEW t \in HostThreads, ShutdownPlugin(t) PROVE HostInv'
<1> DEFINE i == thr[t].i
           f == plist[i].file
           r == [thr[t] EXCEPT !.at = "loop", !.i = i + 1]
           e == [plist[i] EXCEPT !.initialized = FALSE, !.open = FALSE]
<1>1. /\ thr[t].op = "shutdown" /\ thr[t].at = "emit" /\ regLock' = regLock /\ twice' = twice /\ abandoned' = abandoned
      /\ broken' = (broken \/ (Native(i) /\ plist[i].initialized /\ code[f] # "ready"))
      /\ plist' = [plist EXCEPT ![i] = [@ EXCEPT !.initialized = FALSE, !.open = FALSE]]
      /\ code' = IF Native(i) /\ plist[i].open /\ ~StillOpen(i, f) THEN [code EXCEPT ![f] = "out"] ELSE code
  BY DEF ShutdownPlugin
<1>2. /\ thr[t].at \in HoldsLock /\ i \in Nat \ {0} /\ i <= Len(plist)
      /\ \A u \in HostThreads : u # t => thr[u].at \notin HoldsLock
  BY <1>1, HolderIsAlone DEF HoldsLock, HostInv, ThreadsOK
<1>3. /\ plist \in Seq(Entry) /\ DOMAIN plist = 1..Len(plist) /\ i \in DOMAIN plist
      /\ DOMAIN thr[t] = {"op", "at", "file", "i", "left"} /\ t \in DOMAIN thr
      /\ code \in [PluginFiles -> {"out", "loaded", "ready"}] /\ plist[i] \in Entry /\ Len(plist) \in Nat
  BY <1>2 DEF HostInv, HostShape
<1>4. thr' = [thr EXCEPT ![t] = r]
  BY <1>3 DEF ShutdownPlugin
<1>5. /\ DOMAIN r = {"op", "at", "file", "i", "left"} /\ r.op = "shutdown" /\ r.at = "loop" /\ r.i = i + 1
  BY <1>1, <1>3
<1>6. e \in Entry /\ e.file = f /\ ~e.open /\ ~e.initialized
  BY <1>3 DEF Entry
<1>7. plist' = [plist EXCEPT ![i] = e]
  BY <1>1, <1>3
<1> HIDE DEF r, e
<1>8. /\ plist' \in Seq(Entry) /\ DOMAIN plist' = DOMAIN plist /\ plist'[i] = e
      /\ \A k \in DOMAIN plist : plist'[k].file = plist[k].file
      /\ \A k \in DOMAIN plist : k # i => plist'[k] = plist[k]
  BY <1>3, <1>6, <1>7
<1>9. code' \in [PluginFiles -> {"out", "loaded", "ready"}]
  BY <1>1, <1>3
<1>10. r.i \in Nat \ {0} /\ r.at \in HoldsLock /\ r.at \notin {"emit", "stuck"} /\ thr[t].op # "load" /\ r.op = thr[t].op
       /\ regLock' = regLock
  BY <1>1, <1>2, <1>5 DEF HoldsLock
<1>11. /\ HostShape' /\ ThreadsOK' /\ thr'[t] = r /\ \A u \in HostThreads : u # t => thr'[u] = thr[u]
       /\ \A u \in HostThreads, p \in PluginFiles : Loads(u, p)' <=> Loads(u, p)
  BY <1>2, <1>4, <1>5, <1>8, <1>9, <1>10, HolderMoves
<1>15. \A k \in DOMAIN plist : Live(k)' <=> Live(k) /\ k # i
  BY <1>3, <1>6, <1>8 DEF Live
<1>13. /\ \A u \in HostThreads : u # t => ~Shutting(u) /\ ~Shutting(u)'
       /\ Shutting(t) /\ Shutting(t)' /\ thr'[t].i = i + 1
  BY <1>1, <1>2, <1>5, <1>10, <1>11 DEF Shutting
<1>14. Closed'
  <2>1. PassedIsClosed'
    <3> SUFFICES ASSUME NEW k \in DOMAIN plist, k < i + 1 PROVE ~Live(k)'
      BY <1>8, <1>13 DEF PassedIsClosed
    <3>1. k < i \/ k = i
      BY <1>2, <1>3
    <3> QED BY <1>13, <1>15, <3>1 DEF HostInv, Closed, PassedIsClosed
  <2>2. ClosedIsOff'
    BY <1>3, <1>6, <1>8 DEF HostInv, Closed, ClosedIsOff
  <2>3. ClosedIsPassed'
    <3> SUFFICES ASSUME NEW k \in DOMAIN plist, plist'[k].file \in PluginFiles, ~plist'[k].open
                 PROVE abandoned' \/ \E u \in HostThreads : Shutting(u)' /\ k < thr'[u].i
      BY <1>8 DEF ClosedIsPassed
    <3>1. CASE k = i
      BY <1>2, <1>13, <3>1
    <3>2. CASE k # i
      <4>1. abandoned \/ k < i
        BY <1>8, <1>13, <3>2 DEF HostInv, Closed, ClosedIsPassed
      <4>2. k < i => k < i + 1
        BY <1>2, <1>3
      <4> QED BY <1>1, <1>13, <4>1, <4>2
    <3> QED BY <3>1, <3>2
  <2> QED BY <2>1, <2>2, <2>3 DEF Closed
<1> SUFFICES ASSUME ~twice PROVE Turns'
  BY <1>1, <1>11, <1>14 DEF HostInv
<1>12. Turns
  BY DEF HostInv
<1>16. Live(i) => f \in PluginFiles
  BY DEF Live
<1>17. ~abandoned' => ~broken'
  <2>1. Native(i) /\ plist[i].initialized => Live(i)
    BY <1>3 DEF HostInv, Closed, ClosedIsOff, Live, Native
  <2> QED BY <1>1, <1>3, <1>12, <2>1 DEF Turns, LiveIsOpen, Native
<1>18. Live(i) => code' = [code EXCEPT ![f] = "out"]
  <2> SUFFICES ASSUME Live(i) PROVE ~StillOpen(i, f)
    BY <1>1 DEF Native, Live
  <2> SUFFICES ASSUME NEW k \in (i + 1)..Len(plist), plist[k].file = f, plist[k].open PROVE FALSE
    BY DEF StillOpen
  <2>1. k \in DOMAIN plist /\ k # i /\ Live(k)
    BY <1>2, <1>3, <1>16 DEF Live
  <2> QED BY <1>3, <1>12, <2>1 DEF Turns, LiveIsOne
<1>19. ~Live(i) => code' = code
  BY <1>1 DEF Native, Live
<1>20. \A p \in PluginFiles : ~(Live(i) /\ p = f) => code'[p] = code[p]
  BY <1>3, <1>18, <1>19
<1>21. Live(i) => code'[f] = "out" /\ \A u \in HostThreads : ~Loads(u, f)
  BY <1>3, <1>12, <1>16, <1>18 DEF Turns, LoadIsOpen
<1>22. \A k \in DOMAIN plist : Live(k)' => Live(k) /\ plist'[k] = plist[k] /\ ~(Live(i) /\ plist[k].file = f) /\ plist[k].file \in PluginFiles
  <2>1. \A k \in DOMAIN plist : Live(k) => plist[k].file \in PluginFiles
    BY DEF Live
  <2> QED BY <1>3, <1>8, <1>12, <1>15, <2>1 DEF Turns, LiveIsOne
<1>23. LiveIsOpen'
  BY <1>8, <1>12, <1>20, <1>22 DEF Turns, LiveIsOpen
<1>24. LiveIsOne'
  BY <1>8, <1>12, <1>22 DEF Turns, LiveIsOne
<1>25. LoadIsOpen' /\ LoadIsOne'
  BY <1>8, <1>11, <1>12, <1>20, <1>21, <1>22 DEF Turns, LoadIsOpen, LoadIsOne
<1>26. OpenIsKept'
  <2> SUFFICES ASSUME NEW p \in PluginFiles, code'[p] # "out"
               PROVE (\E k \in DOMAIN plist' : Live(k)' /\ plist'[k].file = p) \/ (\E u \in HostThreads : Loads(u, p)')
    BY DEF OpenIsKept
  <2>1. ~(Live(i) /\ p = f) /\ code[p] # "out"
    BY <1>20, <1>21
  <2>2. CASE \E k \in DOMAIN plist : Live(k) /\ plist[k].file = p
    BY <1>8, <1>15, <2>1, <2>2
  <2>3. CASE \E u \in HostThreads : Loads(u, p)
    BY <1>11, <2>3
  <2> QED BY <1>12, <2>1, <2>2, <2>3 DEF Turns, OpenIsKept
<1> QED BY <1>17, <1>23, <1>24, <1>25, <1>26 DEF Turns

LEMMA HostFinished ==
  ASSUME HostInv, NEW t \in HostThreads, Finished(t) PROVE HostInv'
<1>1. /\ thr[t].at = "loop" /\ thr[t].op # "load" /\ thr[t].i > Len(plist) /\ Unlocked(t)
      /\ UNCHANGED <<code, twice, broken, abandoned>> /\ plist' = IF thr[t].op = "shutdown" THEN <<>> ELSE plist
  BY DEF Finished
<1>2. thr[t].at \in HoldsLock
  BY <1>1 DEF HoldsLock
<1>3. CASE thr[t].op # "shutdown"
  BY <1>1, <1>2, <1>3, HolderGoes DEF HostInv, Turns
<1>4. CASE thr[t].op = "shutdown"
  <2>1. plist' = <<>> /\ DOMAIN plist' = {} /\ plist' \in Seq(Entry)
    BY <1>1, <1>4
  <2>2. HostShape' /\ ThreadsOK' /\ thr'[t].op = "rest" /\ \A u \in HostThreads : u # t => thr'[u] = thr[u]
    BY <1>1, <1>2, <2>1, HolderLeaves DEF HostInv, HostShape
  <2>9. Closed'
    BY <2>1 DEF Closed, PassedIsClosed, ClosedIsOff, ClosedIsPassed
  <2> SUFFICES ASSUME ~twice PROVE Turns'
    BY <1>1, <2>2, <2>9 DEF HostInv
  <2>3. Turns
    BY DEF HostInv
  <2>4. \A k \in DOMAIN plist : k <= Len(plist) /\ k \in Nat /\ Len(plist) \in Nat /\ thr[t].i \in Nat
    BY <1>2, HolderIsAlone DEF HostInv, HostShape
  <2>5. \A k \in DOMAIN plist : ~Live(k)
    <3>1. \A k \in DOMAIN plist : k < thr[t].i
      BY <1>1, <2>4
    <3> QED BY <1>2, <1>4, <3>1 DEF HostInv, Closed, PassedIsClosed, Shutting
  <2>6. \A u \in HostThreads, p \in PluginFiles : Loads(u, p)' <=> Loads(u, p)
    BY <1>1, <2>2 DEF Loads
  <2>7. LiveIsOpen' /\ LiveIsOne'
    BY <2>1 DEF LiveIsOpen, LiveIsOne
  <2>8. LoadIsOpen' /\ LoadIsOne' /\ OpenIsKept'
    BY <1>1, <2>1, <2>3, <2>5, <2>6 DEF Turns, LoadIsOpen, LoadIsOne, OpenIsKept
  <2> QED BY <1>1, <2>3, <2>7, <2>8 DEF Turns
<1> QED BY <1>3, <1>4

-----------------------------------------------------------------------------
LEMMA HostStep == HostInv /\ [HostNext]_HostVars => HostInv'
<1> SUFFICES ASSUME HostInv, [HostNext]_HostVars PROVE HostInv'
  OBVIOUS
<1>1. CASE UNCHANGED HostVars \/ Subscribe \/ \E h \in 1..MaxHandlers : Unsubscribe(h)
  BY <1>1, HostSubscribe DEF HostVars, Subscribe, Unsubscribe
<1>2. ASSUME NEW t \in HostThreads,
             \/ Acquire(t) \/ PushPlugin(t) \/ Initialize(t) \/ Hook(t) \/ ShutdownEvent(t)
             \/ ShutdownPlugin(t) \/ Finished(t) \/ RunHandler(t) \/ Emitted(t)
      PROVE  HostInv'
  BY <1>2, HostAcquire, HostPush, HostInitialize, HostHook, HostShutdownEvent, HostShutdownPlugin, HostFinished,
     HostRunHandler, HostEmitted
<1>3. ASSUME NEW t \in HostThreads,
             \/ LoadRefused(t) \/ \E p \in PluginFiles \cup LuaFiles : LoadPlugin(t, p)
             \/ \E op \in {"initialize", "hook", "shutdown"} : CallRegistry(t, op)
      PROVE  HostInv'
  BY <1>3, HostLoad, HostCall, HostSubscribe DEF LoadRefused
<1> QED BY <1>1, <1>2, <1>3 DEF HostNext

(* The mutex is held by whoever is inside, every open library has its one   *)
(* live entry or its one loader, and a closed plugin is on the list only    *)
(* behind a running shutdown_all or one that a handler threw out of, in     *)
(* every reachable state.                                                   *)
THEOREM HostInvariant == HostSpec => []HostInv
  BY HostInvInit, HostStep, PTL DEF HostSpec

(* A plugin's code is called only between its initialize and its shutdown,  *)
(* unless a handler threw out of shutdown_all past a closed plugin, and an  *)
(* open library can be closed, whatever the threads do.                     *)
THEOREM InTurn == HostSpec => []PluginsAreCalledInTurn
  BY HostInvariant, HostInvInTurn, PTL

-----------------------------------------------------------------------------
(* The Lua runtime.                                                        *)

(* The Lua runtime.  A session that userdata holds has its browser.  The    *)
(* runtime's records are of browsers whose handle is held, as long as       *)
(* nobody subscribed later, and each has an id of its own in its browser's  *)
(* dispatcher, below the next one.                                          *)
BrowserStates == {NotYet, "held", "deferred", "deleted", "leaked"}
UserdataNodes == [kind : {"session", "node", "extractor"}, browser : LuaBrowsers, id : Nat, live : BOOLEAN]
Subscriptions == [browser : LuaBrowsers, id : Nat, owner : Nat]
IsThere(bs, br) == bs[br] \in {"held", "deferred"}
HandlesHold(bs, ud, closed) ==
  /\ bs \in [LuaBrowsers -> BrowserStates] /\ ud \in Seq(UserdataNodes)
  /\ ~closed => \A u \in Holding(ud) : IsThere(bs, ud[u].browser)
IdsHold(ss, next) ==
  /\ ss \in Seq(Subscriptions) /\ next \in [LuaBrowsers -> Nat]
  /\ \A k \in DOMAIN ss : ss[k].id < next[ss[k].browser]
  /\ \A j, k \in DOMAIN ss : ss[j].browser = ss[k].browser /\ ss[j].id = ss[k].id => j = k
RecordsHold(ss, bs, es) == \A k \in DOMAIN ss : bs[ss[k].browser] = "held" /\ ss[k].id \in es[ss[k].browser]
LuaInv ==
  /\ HandlesHold(browsers, userdata, luaClosed) /\ IdsHold(subs, nextSub)
  /\ entries \in [LuaBrowsers -> SUBSET Nat]
  /\ late = {} => ~strayed /\ RecordsHold(subs, browsers, entries)

LEMMA LuaStarts == LuaInit => LuaInv
<1> SUFFICES ASSUME LuaInit PROVE LuaInv
  OBVIOUS
<1>1. <<>> \in Seq(UserdataNodes) /\ <<>> \in Seq(Subscriptions) /\ DOMAIN <<>> = {}
  <2> HIDE DEF UserdataNodes, Subscriptions
  <2> QED BY EmptySeq
<1>2. browsers \in [LuaBrowsers -> BrowserStates] /\ nextSub \in [LuaBrowsers -> Nat] /\ entries \in [LuaBrowsers -> SUBSET Nat]
  BY DEF LuaInit, BrowserStates
<1> HIDE DEF UserdataNodes, Subscriptions, BrowserStates
<1> QED BY <1>1, <1>2 DEF LuaInit, LuaInv, HandlesHold, IdsHold, RecordsHold, Holding

-----------------------------------------------------------------------------
(* Userdata that is added refers to a browser that is there.                *)
LEMMA AddedHolds ==
  ASSUME HandlesHold(browsers, userdata, luaClosed), NEW n \in UserdataNodes, IsThere(browsers, n.browser) \/ n.kind = "extractor"
  PROVE  HandlesHold(browsers, Append(userdata, n), luaClosed)
<1> HIDE DEF UserdataNodes
<1> DEFINE more == Append(userdata, n)
<1>1. userdata \in Seq(UserdataNodes)
  BY DEF HandlesHold
<1>2. /\ more \in Seq(UserdataNodes) /\ Len(more) = Len(userdata) + 1
      /\ \A i \in 1..Len(userdata) : more[i] = userdata[i]
      /\ more[Len(userdata) + 1] = n
  BY <1>1, AppendProperties
<1>3. Len(userdata) \in Nat /\ DOMAIN userdata = 1..Len(userdata) /\ DOMAIN more = 1..(Len(userdata) + 1)
  BY <1>1, <1>2, LenProperties
<1> HIDE DEF more
<1>4. ASSUME NEW u \in Holding(more), ~luaClosed PROVE IsThere(browsers, more[u].browser)
  <2>1. u \in DOMAIN more /\ more[u].live /\ more[u].kind # "extractor"
    BY DEF Holding
  <2>2. CASE u \in 1..Len(userdata)
    <3>1. more[u] = userdata[u] /\ u \in DOMAIN userdata
      BY <1>2, <1>3, <2>2
    <3>2. u \in Holding(userdata)
      BY <2>1, <3>1 DEF Holding
    <3> QED BY <1>4, <3>1, <3>2 DEF HandlesHold
  <2>3. CASE u \notin 1..Len(userdata)
    <3>1. u = Len(userdata) + 1
      BY <1>3, <2>1, <2>3
    <3> QED BY <1>2, <2>1, <3>1
  <2> QED BY <2>2, <2>3
<1>5. HandlesHold(browsers, more, luaClosed)
  BY <1>2, <1>4 DEF HandlesHold
<1> QED BY <1>5 DEF more

(* A finalizer ends the userdata's hold and nothing else.                   *)
LEMMA FinalizedHolds ==
  ASSUME NEW u \in DOMAIN userdata, userdata \in Seq(UserdataNodes)
  PROVE  /\ Finalized(userdata, u) \in Seq(UserdataNodes)
         /\ Holding(Finalized(userdata, u)) \subseteq Holding(userdata)
         /\ \A v \in DOMAIN userdata : Finalized(userdata, u)[v].browser = userdata[v].browser
<1> DEFINE ended == [userdata[u] EXCEPT !.live = FALSE]
           after == [userdata EXCEPT ![u] = ended]
<1>1. Finalized(userdata, u) = after
  BY DEF Finalized
<1>2. userdata[u] \in UserdataNodes
  <2> HIDE DEF UserdataNodes
  <2> QED BY ElementOfSeq, LenProperties
<1>3. ended \in UserdataNodes /\ ended.browser = userdata[u].browser /\ ~ended.live
  BY <1>2 DEF UserdataNodes
<1> HIDE DEF ended, UserdataNodes
<1>4. after \in Seq(UserdataNodes) /\ DOMAIN after = DOMAIN userdata
  <2>1. Len(userdata) \in Nat /\ DOMAIN userdata = 1..Len(userdata) /\ userdata \in [1..Len(userdata) -> UserdataNodes]
    BY LenProperties
  <2>2. after \in [1..Len(userdata) -> UserdataNodes]
    BY <1>3, <2>1
  <2> QED BY <2>1, <2>2, SeqDef
<1>5. after[u] = ended /\ \A v \in DOMAIN userdata : v # u => after[v] = userdata[v]
  BY <1>4
<1> HIDE DEF after
<1>6. Holding(after) \subseteq Holding(userdata)
  BY <1>3, <1>4, <1>5 DEF Holding
<1>7. \A v \in DOMAIN userdata : after[v].browser = userdata[v].browser
  BY <1>3, <1>5
<1> QED BY <1>1, <1>4, <1>6, <1>7

(* flush_owned_browsers spares the browsers of sessions that are held.      *)
LEMMA FlushedHolds ==
  ASSUME NEW bs \in [LuaBrowsers -> BrowserStates], NEW ud \in Seq(UserdataNodes)
  PROVE  /\ Flushed(bs, ud) \in [LuaBrowsers -> BrowserStates]
         /\ \A br \in LuaBrowsers : bs[br] = "held" => Flushed(bs, ud)[br] = "held"
         /\ \A u \in Holding(ud) : IsThere(bs, ud[u].browser) => IsThere(Flushed(bs, ud), ud[u].browser)
<1>1. Flushed(bs, ud) \in [LuaBrowsers -> BrowserStates]
  BY DEF Flushed, BrowserStates
<1>2. \A br \in LuaBrowsers : bs[br] = "held" => Flushed(bs, ud)[br] = "held"
  BY DEF Flushed
<1>3. ASSUME NEW u \in Holding(ud), IsThere(bs, ud[u].browser) PROVE IsThere(Flushed(bs, ud), ud[u].browser)
  <2>1. ud[u] \in UserdataNodes
    <3> HIDE DEF UserdataNodes
    <3> QED BY ElementOfSeq, LenProperties DEF Holding
  <2>2. ud[u].browser \in LuaBrowsers
    BY <2>1 DEF UserdataNodes
  <2>3. ud[u].id \in LiveSessions(ud, ud[u].browser)
    BY DEF LiveSessions
  <2>4. Flushed(bs, ud)[ud[u].browser] = bs[ud[u].browser]
    BY <2>2, <2>3 DEF Flushed
  <2> QED BY <1>3, <2>4 DEF IsThere
<1> QED BY <1>1, <1>2, <1>3

(* Whoever holds a session can use its browser.                             *)
LEMMA HeldIsThere ==
  ASSUME LuaInv, ~luaClosed, NEW u \in Holding(userdata)
  PROVE  There(userdata[u].browser) /\ userdata[u] \in UserdataNodes /\ u \in DOMAIN userdata
<1>1. userdata \in Seq(UserdataNodes) /\ IsThere(browsers, userdata[u].browser) /\ u \in DOMAIN userdata
  BY DEF LuaInv, HandlesHold, Holding
<1>2. userdata[u] \in UserdataNodes
  <2> HIDE DEF UserdataNodes
  <2> QED BY <1>1, ElementOfSeq, LenProperties
<1> QED BY <1>1, <1>2 DEF IsThere, There

-----------------------------------------------------------------------------
(* Records.  Fewer of them are fine if those that are left have their       *)
(* handlers.                                                                *)
LEMMA FewerIds ==
  ASSUME NEW kept, kept \subseteq DOMAIN subs, IdsHold(subs, nextSub)
  PROVE  /\ IdsHold(AtPositions(subs, kept), nextSub)
         /\ \A i \in DOMAIN AtPositions(subs, kept) : \E k \in kept : AtPositions(subs, kept)[i] = subs[k]
<1> HIDE DEF Subscriptions
<1> DEFINE r == AtPositions(subs, kept)
<1>1. subs \in Seq(Subscriptions)
  BY DEF IdsHold
<1>2. r \in Seq(Subscriptions) /\ IsPart(r, subs, kept)
  BY <1>1, PartOfSequence
<1>3. (\A k \in DOMAIN r : k \in Nat) /\ (\A k \in DOMAIN subs : k \in Nat)
  BY <1>1, <1>2, LenProperties
<1> HIDE DEF r
<1>4. PICK from \in [DOMAIN r -> kept] :
        /\ \A k \in DOMAIN r : r[k] = subs[from[k]]
        /\ \A k, l \in DOMAIN r : k < l => from[k] < from[l]
  BY <1>2 DEF IsPart
<1>5. \A j, k \in DOMAIN r : from[j] = from[k] => j = k
  <2> SUFFICES ASSUME NEW j \in DOMAIN r, NEW k \in DOMAIN r, from[j] = from[k] PROVE j = k
    OBVIOUS
  <2>1. from[j] \in Nat /\ from[k] \in Nat /\ j \in Nat /\ k \in Nat
    BY <1>3
  <2>2. ~(j < k) /\ ~(k < j)
    BY <1>4, <2>1
  <2> QED BY <2>1, <2>2
<1>6. \A k \in DOMAIN r : from[k] \in DOMAIN subs /\ from[k] \in kept
  OBVIOUS
<1>7. \A k \in DOMAIN r : r[k].id < nextSub[r[k].browser]
  BY <1>4, <1>6 DEF IdsHold
<1>8. \A j, k \in DOMAIN r : r[j].browser = r[k].browser /\ r[j].id = r[k].id => j = k
  BY <1>4, <1>5, <1>6 DEF IdsHold
<1>9. IdsHold(r, nextSub)
  BY <1>2, <1>7, <1>8 DEF IdsHold
<1>10. \A i \in DOMAIN r : \E k \in kept : r[i] = subs[k]
  BY <1>4, <1>6
<1> QED BY <1>9, <1>10 DEF r

LEMMA SubscriptionFits ==
  ASSUME IdsHold(subs, nextSub), NEW k \in DOMAIN subs
  PROVE  subs[k] \in Subscriptions /\ subs[k].browser \in LuaBrowsers /\ subs[k].id \in Nat
<1>1. subs[k] \in Subscriptions
  <2> HIDE DEF Subscriptions
  <2> QED BY ElementOfSeq, LenProperties DEF IdsHold
<1> QED BY <1>1 DEF Subscriptions

LEMMA SubscribedHolds ==
  ASSUME LuaInv, NEW u \in Nat, NEW br \in LuaBrowsers, Subscribed(u, br)
  PROVE  /\ IdsHold(subs', nextSub') /\ entries' \in [LuaBrowsers -> SUBSET Nat]
         /\ RecordsHold(subs, browsers, entries) /\ browsers[br] = "held" => RecordsHold(subs', browsers, entries')
<1> DEFINE new == [browser |-> br, id |-> nextSub[br], owner |-> u]
<1>1. /\ subs \in Seq(Subscriptions) /\ nextSub \in [LuaBrowsers -> Nat] /\ entries \in [LuaBrowsers -> SUBSET Nat]
      /\ IdsHold(subs, nextSub)
  BY DEF LuaInv, IdsHold
<1>2. new \in Subscriptions /\ new.browser = br /\ new.id = nextSub[br]
  BY <1>1 DEF Subscriptions
<1>3. /\ subs' = Append(subs, new) /\ entries' = [entries EXCEPT ![br] = @ \cup {nextSub[br]}]
      /\ nextSub' = [nextSub EXCEPT ![br] = @ + 1]
  BY DEF Subscribed
<1>4. entries' \in [LuaBrowsers -> SUBSET Nat] /\ nextSub' \in [LuaBrowsers -> Nat]
  BY <1>1, <1>3
<1>5. /\ nextSub'[br] = nextSub[br] + 1 /\ nextSub[br] \in entries'[br]
      /\ \A b \in LuaBrowsers : nextSub[b] <= nextSub'[b] /\ nextSub[b] \in Nat /\ nextSub'[b] \in Nat /\ entries[b] \subseteq entries'[b]
  BY <1>1, <1>3
<1> HIDE DEF new, Subscriptions
<1>6. /\ subs' \in Seq(Subscriptions) /\ Len(subs') = Len(subs) + 1
      /\ \A k \in 1..Len(subs) : subs'[k] = subs[k]
      /\ subs'[Len(subs) + 1] = new
  BY <1>1, <1>2, <1>3, AppendProperties
<1>7. Len(subs) \in Nat /\ DOMAIN subs = 1..Len(subs) /\ DOMAIN subs' = 1..(Len(subs) + 1)
  BY <1>1, <1>6, LenProperties
<1>8. \A k \in DOMAIN subs' : \/ k \in DOMAIN subs /\ subs'[k] = subs[k]
                              \/ k = Len(subs) + 1 /\ subs'[k] = new
  BY <1>6, <1>7
<1>9. \A k \in DOMAIN subs : subs[k].browser \in LuaBrowsers /\ subs[k].id \in Nat /\ subs[k].id < nextSub[subs[k].browser]
  BY <1>1, SubscriptionFits DEF IdsHold
<1>10. \A k \in DOMAIN subs' : subs'[k].id < nextSub'[subs'[k].browser]
  BY <1>1, <1>2, <1>5, <1>8, <1>9
<1>11. \A j, k \in DOMAIN subs' : subs'[j].browser = subs'[k].browser /\ subs'[j].id = subs'[k].id => j = k
  <2> SUFFICES ASSUME NEW j \in DOMAIN subs', NEW k \in DOMAIN subs', subs'[j].browser = subs'[k].browser, subs'[j].id = subs'[k].id
               PROVE  j = k
    OBVIOUS
  <2>1. \A i \in DOMAIN subs : subs[i].browser = br => subs[i].id # nextSub[br]
    BY <1>5, <1>9
  <2> QED BY <1>1, <1>2, <1>8, <2>1 DEF IdsHold
<1>12. ASSUME RecordsHold(subs, browsers, entries), browsers[br] = "held" PROVE RecordsHold(subs', browsers, entries')
  BY <1>2, <1>5, <1>8, <1>9, <1>12 DEF RecordsHold
<1>13. IdsHold(subs', nextSub')
  BY <1>4, <1>6, <1>10, <1>11 DEF IdsHold
<1> QED BY <1>4, <1>12, <1>13

-----------------------------------------------------------------------------
LEMMA LuaStep == LuaInv /\ [LuaNext]_LuaVars => LuaInv'
<1> SUFFICES ASSUME LuaInv, [LuaNext]_LuaVars PROVE LuaInv'
  OBVIOUS
<1>0. /\ HandlesHold(browsers, userdata, luaClosed) /\ IdsHold(subs, nextSub) /\ entries \in [LuaBrowsers -> SUBSET Nat]
      /\ late = {} => ~strayed /\ RecordsHold(subs, browsers, entries)
  BY DEF LuaInv
<1>a. browsers \in [LuaBrowsers -> BrowserStates] /\ userdata \in Seq(UserdataNodes)
  BY <1>0 DEF HandlesHold
<1>b. \A u \in DOMAIN userdata : userdata[u] \in UserdataNodes /\ userdata[u].browser \in LuaBrowsers
  <2>1. \A u \in DOMAIN userdata : userdata[u] \in UserdataNodes
    <3> HIDE DEF UserdataNodes
    <3> QED BY <1>a, ElementOfSeq, LenProperties
  <2> QED BY <2>1 DEF UserdataNodes
<1>c. Len(userdata) \in Nat /\ DOMAIN userdata = 1..Len(userdata)
  <2> HIDE DEF UserdataNodes
  <2> QED BY <1>a, LenProperties
<1>1. ASSUME NEW br \in LuaBrowsers, BrowserNew(br) PROVE LuaInv'
  <2>1. /\ browsers[br] = NotYet /\ browsers' = [browsers EXCEPT ![br] = "held"]
        /\ UNCHANGED <<userdata, subs, entries, nextSub, late, strayed, luaClosed>>
    BY <1>1 DEF BrowserNew
  <2>2. /\ browsers' \in [LuaBrowsers -> BrowserStates]
        /\ \A b \in LuaBrowsers : (b # br => browsers'[b] = browsers[b]) /\ browsers'[br] = "held"
    BY <1>a, <2>1 DEF BrowserStates
  <2>3. HandlesHold(browsers', userdata', luaClosed')
    <3>1. ASSUME ~luaClosed, NEW u \in Holding(userdata) PROVE IsThere(browsers', userdata[u].browser)
      BY <1>0, <1>b, <2>2, <3>1 DEF HandlesHold, IsThere, Holding
    <3> HIDE DEF UserdataNodes, BrowserStates
    <3> QED BY <1>a, <2>1, <2>2, <3>1 DEF HandlesHold
  <2>4. late = {} => RecordsHold(subs', browsers', entries')
    BY <1>0, <2>1, <2>2, SubscriptionFits DEF RecordsHold
  <2> QED BY <1>0, <2>1, <2>3, <2>4 DEF LuaInv
<1>2. ASSUME NEW br \in LuaBrowsers, BrowserCreateSession(br) PROVE LuaInv'
  <2> DEFINE n == Node("session", br, Len(userdata) + 1)
  <2>1. /\ browsers[br] = "held" /\ userdata' = Append(userdata, n)
        /\ UNCHANGED <<browsers, subs, entries, nextSub, late, strayed, luaClosed>>
    BY <1>2 DEF BrowserCreateSession
  <2>2. n \in UserdataNodes /\ n.browser = br
    BY <1>c DEF Node, UserdataNodes
  <2> HIDE DEF n
  <2>3. HandlesHold(browsers, Append(userdata, n), luaClosed)
    BY <1>0, <2>1, <2>2, AddedHolds DEF IsThere
  <2> QED BY <1>0, <2>1, <2>3 DEF LuaInv
<1>3. ASSUME NEW u \in DOMAIN userdata, PushNode(u) PROVE LuaInv'
  <2> DEFINE n == Node("node", userdata[u].browser, userdata[u].id)
  <2>1. /\ ~luaClosed /\ u \in Holding(userdata) /\ userdata' = Append(userdata, n)
        /\ strayed' = (strayed \/ ~There(userdata[u].browser))
        /\ UNCHANGED <<browsers, subs, entries, nextSub, late, luaClosed>>
    BY <1>3 DEF PushNode, Room
  <2>2. There(userdata[u].browser)
    BY <2>1, HeldIsThere
  <2>3. n \in UserdataNodes /\ n.browser = userdata[u].browser
    BY <1>b DEF Node, UserdataNodes
  <2> HIDE DEF n
  <2>4. HandlesHold(browsers, Append(userdata, n), luaClosed)
    BY <1>0, <2>2, <2>3, AddedHolds DEF IsThere, There
  <2> QED BY <1>0, <2>1, <2>2, <2>4 DEF LuaInv
<1>4. ASSUME NEW u \in DOMAIN userdata, SessionCall(u) \/ NodeCall(u) PROVE LuaInv'
  <2>1. /\ ~luaClosed /\ u \in Holding(userdata) /\ strayed' = (strayed \/ ~There(userdata[u].browser))
        /\ UNCHANGED <<browsers, userdata, subs, entries, nextSub, late, luaClosed>>
    BY <1>4 DEF SessionCall, NodeCall
  <2>2. There(userdata[u].browser)
    BY <2>1, HeldIsThere
  <2> QED BY <1>0, <2>1, <2>2 DEF LuaInv
<1>5. ASSUME NEW br \in LuaBrowsers, ExtractorNew(br) PROVE LuaInv'
  <2> DEFINE n == Node("extractor", br, 0)
  <2>1. userdata' = Append(userdata, n) /\ UNCHANGED <<browsers, subs, entries, nextSub, late, strayed, luaClosed>>
    BY <1>5 DEF ExtractorNew
  <2>2. n \in UserdataNodes /\ n.kind = "extractor"
    BY DEF Node, UserdataNodes
  <2> HIDE DEF n
  <2>3. HandlesHold(browsers, Append(userdata, n), luaClosed)
    BY <1>0, <2>2, AddedHolds
  <2> QED BY <1>0, <2>1, <2>3 DEF LuaInv
<1>6. ASSUME NEW u \in DOMAIN userdata, SessionOn(u) PROVE LuaInv'
  <2> DEFINE br == userdata[u].browser
  <2>1. /\ ~luaClosed /\ u \in Holding(userdata) /\ Subscribed(u, br) /\ strayed' = (strayed \/ ~There(br))
        /\ late' = (IF browsers[br] = "deferred" THEN late \cup {br} ELSE late)
        /\ UNCHANGED <<browsers, userdata, luaClosed>>
    BY <1>6 DEF SessionOn
  <2>2. There(br) /\ br \in LuaBrowsers /\ u \in Nat
    BY <1>b, <1>c, <2>1, HeldIsThere
  <2> HIDE DEF br
  <2>3. /\ IdsHold(subs', nextSub') /\ entries' \in [LuaBrowsers -> SUBSET Nat]
        /\ RecordsHold(subs, browsers, entries) /\ browsers[br] = "held" => RecordsHold(subs', browsers, entries')
    BY <2>1, <2>2, SubscribedHolds
  <2>4. late' = {} => late = {} /\ browsers[br] = "held"
    BY <2>1, <2>2 DEF There
  <2> QED BY <1>0, <2>1, <2>2, <2>3, <2>4 DEF LuaInv
<1>7. ASSUME NEW u \in DOMAIN userdata, InstallExtension(u) PROVE LuaInv'
  <2> DEFINE br == userdata[u].browser
  <2>1. browsers[br] = "held" /\ Subscribed(u, br) /\ UNCHANGED <<browsers, userdata, late, strayed, luaClosed>>
    BY <1>7 DEF InstallExtension
  <2>2. br \in LuaBrowsers /\ u \in Nat
    BY <1>b, <1>c
  <2> HIDE DEF br
  <2>3. /\ IdsHold(subs', nextSub') /\ entries' \in [LuaBrowsers -> SUBSET Nat]
        /\ RecordsHold(subs, browsers, entries) /\ browsers[br] = "held" => RecordsHold(subs', browsers, entries')
    BY <2>1, <2>2, SubscribedHolds
  <2> QED BY <1>0, <2>1, <2>3 DEF LuaInv
<1>8. ASSUME NEW k \in DOMAIN subs, SessionOff(k) PROVE LuaInv'
  <2> DEFINE left == AtPositions(subs, DOMAIN subs \ {k})
             br == subs[k].browser
             id == subs[k].id
  <2>1. /\ subs' = left /\ strayed' = (strayed \/ ~There(br)) /\ entries' = [entries EXCEPT ![br] = @ \ {id}]
        /\ UNCHANGED <<browsers, userdata, nextSub, late, luaClosed>>
    BY <1>8 DEF SessionOff
  <2>2. IdsHold(left, nextSub) /\ \A i \in DOMAIN left : \E j \in DOMAIN subs \ {k} : left[i] = subs[j]
    BY <1>0, FewerIds
  <2>3. br \in LuaBrowsers
    BY <1>0, SubscriptionFits
  <2> HIDE DEF left
  <2>4. /\ entries' \in [LuaBrowsers -> SUBSET Nat] /\ entries'[br] = entries[br] \ {id}
        /\ \A b \in LuaBrowsers : b # br => entries'[b] = entries[b]
    BY <1>0, <2>1, <2>3
  <2>5. ASSUME late = {}, NEW i \in DOMAIN left PROVE browsers[left[i].browser] = "held" /\ left[i].id \in entries'[left[i].browser]
    <3>1. PICK j \in DOMAIN subs \ {k} : left[i] = subs[j]
      BY <2>2
    <3>2. subs[j].browser \in LuaBrowsers /\ browsers[subs[j].browser] = "held" /\ subs[j].id \in entries[subs[j].browser]
      BY <1>0, <2>5, SubscriptionFits DEF RecordsHold
    <3>3. subs[j].browser # br \/ subs[j].id # id
      BY <1>0 DEF IdsHold
    <3> QED BY <2>4, <3>1, <3>2, <3>3
  <2>6. late = {} => There(br)
    BY <1>0 DEF RecordsHold, There
  <2> QED BY <1>0, <2>1, <2>2, <2>4, <2>5, <2>6 DEF LuaInv, RecordsHold
<1>9. ASSUME NEW u \in DOMAIN userdata, SessionGc(u) \/ NodeGc(u) \/ ExtractorGc(u) PROVE LuaInv'
  <2> DEFINE ended == Finalized(userdata, u)
  <2>1. /\ ~luaClosed /\ userdata[u].live /\ userdata' = ended /\ UNCHANGED <<subs, entries, nextSub, late, luaClosed>>
        /\ browsers' \in {browsers, Flushed(browsers, ended)}
        /\ \/ UNCHANGED strayed
           \/ userdata[u].kind # "extractor" /\ strayed' = (strayed \/ (LastReference(u) /\ ~There(userdata[u].browser)))
    BY <1>9 DEF SessionGc, NodeGc, ExtractorGc
  <2>2. strayed' = strayed
    <3>1. CASE UNCHANGED strayed
      BY <3>1
    <3>2. CASE userdata[u].kind # "extractor" /\ strayed' = (strayed \/ (LastReference(u) /\ ~There(userdata[u].browser)))
      <4>1. u \in Holding(userdata)
        BY <2>1, <3>2 DEF Holding
      <4>2. There(userdata[u].browser)
        BY <2>1, <4>1, HeldIsThere
      <4>3. strayed' <=> strayed
        BY <3>2, <4>2
      <4> QED BY <4>3
    <3> QED BY <2>1, <3>1, <3>2
  <2>3. /\ ended \in Seq(UserdataNodes) /\ Holding(ended) \subseteq Holding(userdata)
        /\ \A v \in DOMAIN userdata : ended[v].browser = userdata[v].browser
    BY <1>a, FinalizedHolds
  <2> HIDE DEF ended
  <2>4. \A v \in Holding(ended) : IsThere(browsers, ended[v].browser)
    BY <1>0, <2>1, <2>3 DEF HandlesHold, Holding
  <2>5. /\ Flushed(browsers, ended) \in [LuaBrowsers -> BrowserStates]
        /\ \A br \in LuaBrowsers : browsers[br] = "held" => Flushed(browsers, ended)[br] = "held"
        /\ \A v \in Holding(ended) : IsThere(browsers, ended[v].browser) => IsThere(Flushed(browsers, ended), ended[v].browser)
    BY <1>a, <2>3, FlushedHolds
  <2>6. /\ browsers' \in [LuaBrowsers -> BrowserStates] /\ \A br \in LuaBrowsers : browsers[br] = "held" => browsers'[br] = "held"
        /\ \A v \in Holding(ended) : IsThere(browsers', ended[v].browser)
    BY <1>a, <2>1, <2>4, <2>5
  <2>7. HandlesHold(browsers', userdata', luaClosed')
    BY <2>1, <2>3, <2>6 DEF HandlesHold
  <2>8. late = {} => RecordsHold(subs', browsers', entries')
    BY <1>0, <2>1, <2>6, SubscriptionFits DEF RecordsHold
  <2> QED BY <1>0, <2>1, <2>2, <2>7, <2>8 DEF LuaInv
<1>10. ASSUME NEW br \in LuaBrowsers, BrowserGc(br) PROVE LuaInv'
  <2> DEFINE kept == {k \in DOMAIN subs : subs[k].browser # br}
             left == AtPositions(subs, kept)
             moved == [browsers EXCEPT ![br] = "deferred"]
  <2>1. /\ ~luaClosed /\ browsers[br] = "held" /\ subs' = left /\ entries' = [entries EXCEPT ![br] = @ \ {s.id : s \in Of(br)}]
        /\ browsers' = Flushed(moved, userdata)
        /\ UNCHANGED <<userdata, nextSub, late, strayed, luaClosed>>
    BY <1>10 DEF BrowserGc
  <2>2. IdsHold(left, nextSub) /\ \A i \in DOMAIN left : \E j \in kept : left[i] = subs[j]
    BY <1>0, FewerIds
  <2> HIDE DEF left
  <2>3. /\ moved \in [LuaBrowsers -> BrowserStates] /\ moved[br] = "deferred"
        /\ \A b \in LuaBrowsers : b # br => moved[b] = browsers[b]
    BY <1>a DEF BrowserStates
  <2> HIDE DEF moved
  <2>4. /\ browsers' \in [LuaBrowsers -> BrowserStates]
        /\ \A b \in LuaBrowsers : moved[b] = "held" => browsers'[b] = "held"
        /\ \A v \in Holding(userdata) : IsThere(moved, userdata[v].browser) => IsThere(browsers', userdata[v].browser)
    BY <1>a, <2>1, <2>3, FlushedHolds
  <2>5. \A v \in Holding(userdata) : IsThere(moved, userdata[v].browser)
    BY <1>0, <1>b, <2>1, <2>3 DEF HandlesHold, IsThere, Holding
  <2>6. HandlesHold(browsers', userdata', luaClosed')
    BY <1>a, <2>1, <2>4, <2>5 DEF HandlesHold
  <2>7. /\ entries' \in [LuaBrowsers -> SUBSET Nat] /\ \A b \in LuaBrowsers : b # br => entries'[b] = entries[b]
    BY <1>0, <2>1
  <2>8. ASSUME late = {} PROVE RecordsHold(subs', browsers', entries')
    <3> SUFFICES ASSUME NEW i \in DOMAIN left PROVE browsers'[left[i].browser] = "held" /\ left[i].id \in entries'[left[i].browser]
      BY <2>1 DEF RecordsHold
    <3>1. PICK j \in kept : left[i] = subs[j]
      BY <2>2
    <3>2. subs[j].browser \in LuaBrowsers /\ subs[j].browser # br /\ browsers[subs[j].browser] = "held"
          /\ subs[j].id \in entries[subs[j].browser]
      BY <1>0, <2>8, SubscriptionFits DEF RecordsHold
    <3> QED BY <2>3, <2>4, <2>7, <3>1, <3>2
  <2> QED BY <1>0, <2>1, <2>2, <2>6, <2>7, <2>8 DEF LuaInv
<1>11. CASE Teardown
  <2>1. /\ luaClosed' /\ subs' = <<>> /\ strayed' = (strayed \/ \E k \in DOMAIN subs : ~There(subs[k].browser))
        /\ entries' = [br \in LuaBrowsers |-> entries[br] \ {s.id : s \in Of(br)}]
        /\ userdata' = [u \in DOMAIN userdata |-> [userdata[u] EXCEPT !.live = FALSE]]
        /\ browsers' = [br \in LuaBrowsers |->
             CASE Flushed(browsers, userdata)[br] = "deferred" -> "leaked"
               [] browsers[br] = "held" -> "deleted"
               [] OTHER -> Flushed(browsers, userdata)[br]]
        /\ UNCHANGED <<nextSub, late>>
    BY <1>11 DEF Teardown
  <2>2. entries' \in [LuaBrowsers -> SUBSET Nat]
    BY <1>0, <2>1
  <2>3. browsers' \in [LuaBrowsers -> BrowserStates]
    <3>1. Flushed(browsers, userdata) \in [LuaBrowsers -> BrowserStates]
      BY <1>a, FlushedHolds
    <3> QED BY <2>1, <3>1 DEF BrowserStates
  <2>4. userdata' \in Seq(UserdataNodes)
    <3>1. \A u \in DOMAIN userdata : [userdata[u] EXCEPT !.live = FALSE] \in UserdataNodes
      BY <1>b DEF UserdataNodes
    <3> HIDE DEF UserdataNodes
    <3>2. userdata' \in [1..Len(userdata) -> UserdataNodes]
      BY <1>c, <2>1, <3>1
    <3> QED BY <1>c, <3>2, SeqDef
  <2>5. late = {} => ~strayed'
    BY <1>0, <2>1 DEF RecordsHold, There
  <2>6. <<>> \in Seq(Subscriptions) /\ DOMAIN <<>> = {}
    <3> HIDE DEF Subscriptions
    <3> QED BY EmptySeq
  <2>7. IdsHold(subs', nextSub') /\ RecordsHold(subs', browsers', entries')
    <3> HIDE DEF Subscriptions
    <3> QED BY <1>0, <2>1, <2>6 DEF IdsHold, RecordsHold
  <2> QED BY <2>1, <2>2, <2>3, <2>4, <2>5, <2>7 DEF LuaInv, HandlesHold
<1>12. CASE UNCHANGED LuaVars
  BY <1>0, <1>12 DEF LuaVars, LuaInv
<1> QED BY <1>1, <1>2, <1>3, <1>4, <1>5, <1>6, <1>7, <1>8, <1>9, <1>10, <1>11, <1>12 DEF LuaNext

(* A browser outlives the sessions that point at it, and nobody uses a      *)
(* deleted one, for every number of browsers, userdata and subscriptions    *)
(* and every order of finalizers.                                           *)
THEOREM BrowsersStay == LuaSpec => []BrowsersOutliveSessions
<1>1. LuaInv => BrowsersOutliveSessions
  <2> SUFFICES ASSUME LuaInv PROVE BrowsersOutliveSessions
    OBVIOUS
  <2>1. ~luaClosed => \A u \in Holding(userdata) : There(userdata[u].browser)
    BY DEF LuaInv, HandlesHold, IsThere, There
  <2>2. late = {} => ~strayed /\ \A k \in DOMAIN subs : There(subs[k].browser) /\ subs[k].id \in entries[subs[k].browser]
    BY DEF LuaInv, RecordsHold, There
  <2> QED BY <2>1, <2>2 DEF BrowsersOutliveSessions
<1> QED BY <1>1, LuaStarts, LuaStep, PTL DEF LuaSpec

-----------------------------------------------------------------------------
(* The stores.                                                             *)

(* The stores.  While nothing was lost each jar has the same cookies: the  *)
(* database those of the in-memory jar under their keys, the record those  *)
(* too unless it was never written, and the encrypted jar those of the     *)
(* record if it could read it.                                             *)
Elements(jar) == {jar[i] : i \in DOMAIN jar}
Stored == {Scoped(o, c) : o \in Origins, c \in Cookies}
JarsHold(mem, enc, rec, db, who) ==
  /\ mem \in Seq(Stored) /\ enc \in Seq(Stored) /\ rec.value \in Seq(Stored)
  /\ Elements(mem) = Elements(db) /\ \A k \in DOMAIN db : Key(db[k]) = k
  /\ Elements(rec.value) = Elements(mem)
  /\ who # Shut /\ (rec = Nothing \/ (rec # Nothing /\ rec.password = who)) => Elements(enc) = Elements(mem)
StoreInv ==
  /\ ~lost => JarsHold(reference, encrypted, record, tcb, opened) /\ local = written
  /\ wrapped \subseteq backends

(* What a set of cookies is after c was set. *)
After(cookies, c) == {e \in cookies : Key(e) # Key(c)} \cup (IF Expired(c) THEN {} ELSE {c})

LEMMA EmptyJar == <<>> \in Seq(Stored) /\ Elements(<<>>) = {}
<1> HIDE DEF Stored
<1>1. <<>> \in Seq(Stored)
  BY EmptySeq
<1>2. DOMAIN <<>> = {}
  OBVIOUS
<1> QED BY <1>1, <1>2 DEF Elements

LEMMA ReplacedJar ==
  ASSUME NEW jar \in Seq(Stored), NEW c \in Stored
  PROVE  Replaced(jar, c) \in Seq(Stored) /\ Elements(Replaced(jar, c)) = After(Elements(jar), c)
<1> HIDE DEF Stored
<1> DEFINE kept == {i \in DOMAIN jar : Key(jar[i]) # Key(c)}
           others == AtPositions(jar, kept)
<1>1. others \in Seq(Stored)
  BY PartOfSequence
<1>2. Elements(others) = {e \in Elements(jar) : Key(e) # Key(c)}
  <2>1. Elements(others) = {jar[i] : i \in kept}
    BY ElementsOfPart DEF Elements
  <2> QED BY <2>1 DEF Elements
<1>3. Replaced(jar, c) = IF Expired(c) THEN others ELSE Append(others, c)
  BY DEF Replaced
<1> HIDE DEF others, kept
<1>4. Append(others, c) \in Seq(Stored) /\ Elements(Append(others, c)) = Elements(others) \cup {c}
  <2>1. /\ Append(others, c) \in Seq(Stored) /\ Len(Append(others, c)) = Len(others) + 1
        /\ \A i \in 1..Len(others) : Append(others, c)[i] = others[i]
        /\ Append(others, c)[Len(others) + 1] = c
    BY <1>1, AppendProperties
  <2>2. DOMAIN Append(others, c) = DOMAIN others \cup {Len(others) + 1} /\ DOMAIN others = 1..Len(others)
    BY <1>1, <2>1, LenProperties
  <2> QED BY <2>1, <2>2 DEF Elements
<1> QED BY <1>1, <1>2, <1>3, <1>4 DEF After

(* The database changes as the lists do, since a cookie is under its key.   *)
LEMMA PutPutsOne ==
  ASSUME NEW db, \A k \in DOMAIN db : Key(db[k]) = k, NEW c
  PROVE  /\ \A k \in DOMAIN Put(db, c) : Key(Put(db, c)[k]) = k
         /\ Elements(Put(db, c)) = After(Elements(db), c)
<1> DEFINE keys == {k \in DOMAIN db : k # Key(c)}
           new == IF Expired(c) THEN {} ELSE {Key(c)}
           all == {Put(db, c)[k] : k \in DOMAIN Put(db, c)}
<1>1. DOMAIN Put(db, c) = keys \cup new
  BY DEF Put
<1>2. \A k \in keys : Put(db, c)[k] = db[k]
  BY DEF Put
<1>3. \A k \in new : Put(db, c)[k] = c /\ k = Key(c) /\ ~Expired(c)
  BY DEF Put
<1>4. Key(c) \in new \/ Expired(c)
  OBVIOUS
<1>5. \A k \in DOMAIN Put(db, c) : Key(Put(db, c)[k]) = k
  BY <1>1, <1>2, <1>3
<1>6. {db[k] : k \in keys} = {e \in {db[k] : k \in DOMAIN db} : Key(e) # Key(c)}
  OBVIOUS
<1>7. {Put(db, c)[k] : k \in keys} = {db[k] : k \in keys}
  BY <1>2
<1>8. {Put(db, c)[k] : k \in new} = IF Expired(c) THEN {} ELSE {c}
  BY <1>3, <1>4
<1>9. all = {Put(db, c)[k] : k \in keys} \cup {Put(db, c)[k] : k \in new}
  BY <1>1
<1> QED BY <1>5, <1>6, <1>7, <1>8, <1>9 DEF After, Elements

LEMMA StoreStarts == StoreInit => StoreInv
<1> SUFFICES ASSUME StoreInit PROVE StoreInv
  OBVIOUS
<1>1. JarsHold(<<>>, <<>>, Nothing, <<>>, Shut)
  <2>1. Nothing.value = <<>> /\ DOMAIN <<>> = {}
    BY DEF Nothing
  <2> HIDE DEF Nothing, Stored
  <2> QED BY <2>1, EmptyJar DEF JarsHold
<1> QED BY <1>1 DEF StoreInit, StoreInv

(* What sets a cookie in all jars; a record written under another password  *)
(* counts as lost.                                                          *)
LEMMA SettingKeepsJars ==
  ASSUME StoreInv, NEW o \in Origins, NEW cookie \in Cookies, SetCookie(o, cookie)
  PROVE  StoreInv'
<1> DEFINE c == Scoped(o, cookie)
<1>0. /\ UNCHANGED <<opened, wrapped, backends, local, written>> /\ opened # Shut
      /\ (~lost => JarsHold(reference, encrypted, record, tcb, opened) /\ local = written) /\ wrapped \subseteq backends
  BY DEF SetCookie, Running, StoreInv
<1>1. CASE UNCHANGED <<reference, encrypted, record, tcb, lost>>
  BY <1>0, <1>1 DEF StoreInv
<1>2. CASE lost'
  BY <1>0, <1>2 DEF StoreInv
<1>3. ASSUME ~lost', reference' = Replaced(reference, c), encrypted' = Replaced(encrypted, c),
             tcb' = Put(tcb, c), record' = Envelope(opened, Replaced(encrypted, c)),
             lost' = (lost \/ (record # Nothing /\ ~Opens(record)))
      PROVE  StoreInv'
  <2>1. ~lost /\ (record = Nothing \/ (record # Nothing /\ record.password = opened))
    BY <1>3 DEF Opens
  <2>2. c \in Stored
    BY DEF Stored
  <2> HIDE DEF c, Stored
  <2>3. /\ reference \in Seq(Stored) /\ encrypted \in Seq(Stored) /\ Elements(encrypted) = Elements(reference)
        /\ Elements(reference) = Elements(tcb) /\ \A k \in DOMAIN tcb : Key(tcb[k]) = k
    BY <1>0, <2>1, Zenon DEF JarsHold
  <2>4. /\ reference' \in Seq(Stored) /\ encrypted' \in Seq(Stored)
        /\ Elements(reference') = After(Elements(reference), c) /\ Elements(encrypted') = After(Elements(encrypted), c)
    BY <1>3, <2>2, <2>3, ReplacedJar
  <2>5. (\A k \in DOMAIN tcb' : Key(tcb'[k]) = k) /\ Elements(tcb') = After(Elements(tcb), c)
    BY <1>3, <2>3, PutPutsOne
  <2>6. record'.value = encrypted'
    BY <1>3 DEF Envelope
  <2>7. JarsHold(reference', encrypted', record', tcb', opened')
    BY <2>3, <2>4, <2>5, <2>6 DEF JarsHold
  <2> QED BY <1>0, <2>1, <2>7 DEF StoreInv
<1> QED BY <1>1, <1>2, <1>3 DEF SetCookie

LEMMA StoreStep == StoreInv /\ [StoreNext]_StoreVars => StoreInv'
<1> SUFFICES ASSUME StoreInv, [StoreNext]_StoreVars PROVE StoreInv'
  OBVIOUS
<1>0. (~lost => JarsHold(reference, encrypted, record, tcb, opened) /\ local = written) /\ wrapped \subseteq backends
  BY DEF StoreInv
<1>1. ASSUME NEW p \in Passwords, OpenStorage(p) PROVE StoreInv'
  <2>1. /\ UNCHANGED <<reference, record, tcb, wrapped, backends, local, written, lost>>
        /\ encrypted' = Decrypted(record, p) /\ opened' = p
    BY <1>1 DEF OpenStorage
  <2>2. ASSUME ~lost PROVE JarsHold(reference, Decrypted(record, p), record, tcb, p)
    <3>1. Nothing.value = <<>>
      BY DEF Nothing
    <3>2. Decrypted(record, p) = IF record.password = p THEN record.value ELSE <<>>
      BY DEF Decrypted
    <3> HIDE DEF Nothing, Stored
    <3>3. JarsHold(reference, encrypted, record, tcb, opened)
      BY <1>0, <2>2
    <3>4. Decrypted(record, p) \in Seq(Stored)
      BY <3>2, <3>3, EmptyJar DEF JarsHold
    <3>5. record = Nothing => Elements(Decrypted(record, p)) = Elements(record.value)
      BY <3>1, <3>2, EmptyJar
    <3>6. record.password = p => Elements(Decrypted(record, p)) = Elements(record.value)
      BY <3>2
    <3> QED BY <3>3, <3>4, <3>5, <3>6 DEF JarsHold
  <2> QED BY <1>0, <2>1, <2>2 DEF StoreInv
<1>2. ASSUME NEW o \in Origins, NEW c \in Cookies, SetCookie(o, c) PROVE StoreInv'
  BY <1>2, SettingKeepsJars
<1>3. CASE ClearCookies
  <2>1. /\ UNCHANGED <<opened, wrapped, backends, local, written, lost>>
        /\ reference' = <<>> /\ encrypted' = <<>> /\ tcb' = <<>> /\ record' = Nothing
    BY <1>3 DEF ClearCookies
  <2>2. JarsHold(<<>>, <<>>, Nothing, <<>>, opened)
    <3>1. Nothing.value = <<>> /\ DOMAIN <<>> = {}
      BY DEF Nothing
    <3> HIDE DEF Nothing, Stored
    <3> QED BY <3>1, EmptyJar DEF JarsHold
  <2> QED BY <1>0, <2>1, <2>2 DEF StoreInv
<1>4. ASSUME NEW s \in StoreSessions, SetLocal(s) \/ RemoveLocal(s) PROVE StoreInv'
  <2>1. /\ UNCHANGED <<opened, reference, encrypted, record, tcb, lost>>
        /\ wrapped' = wrapped \cup {s} /\ backends' = backends \cup {s} /\ (local = written => local' = written')
    BY <1>4 DEF SetLocal, RemoveLocal, LocalStorage
  <2> QED BY <1>0, <2>1 DEF StoreInv
<1>5. ASSUME NEW s \in StoreSessions, SetSession(s) PROVE StoreInv'
  BY <1>0, <1>5 DEF SetSession, StoreInv
<1>6. ASSUME NEW s \in StoreSessions, ReleaseSession(s) PROVE StoreInv'
  BY <1>0, <1>6 DEF ReleaseSession, Unwrapped, StoreInv
<1>7. CASE CloseStorage
  <2>1. /\ UNCHANGED <<reference, record, tcb, local, written, lost>> /\ opened' = Shut
        /\ encrypted' = <<>> /\ wrapped' = {} /\ backends' = {}
    BY <1>7 DEF CloseStorage
  <2>2. ASSUME ~lost PROVE JarsHold(reference, <<>>, record, tcb, Shut)
    BY <1>0, <2>2, EmptyJar DEF JarsHold
  <2> QED BY <1>0, <2>1, <2>2 DEF StoreInv
<1>8. CASE KillStorage
  BY <1>8 DEF KillStorage, StoreInv
<1>9. CASE PassTime
  BY <1>0, <1>9 DEF PassTime, StoreInv
<1>10. CASE UNCHANGED StoreVars
  BY <1>0, <1>10 DEF StoreVars, StoreInv
<1> QED BY <1>1, <1>2, <1>3, <1>4, <1>5, <1>6, <1>7, <1>8, <1>9, <1>10 DEF StoreNext

(* The jars are exchangeable and local storage keeps what was set, for      *)
(* every set of hosts, cookies, passwords and sessions and for any number   *)
(* of operations, expiries and restarts, as long as nothing was lost.       *)
THEOREM StoresStayInAgreement == StoreSpec => []StoresAgree
<1>1. StoreInv => StoresAgree
  <2> SUFFICES ASSUME StoreInv PROVE StoresAgree
    OBVIOUS
  <2>1. wrapped \subseteq backends /\ (~lost => local = written)
    BY DEF StoreInv
  <2>2. ASSUME ~lost, NEW o \in Origins
        PROVE  /\ TCBGet(tcb, o) = ListGet(reference, o)
               /\ opened # Shut /\ (record = Nothing \/ Opens(record)) => ListGet(encrypted, o) = ListGet(reference, o)
    <3>1. JarsHold(reference, encrypted, record, tcb, opened)
      BY <2>2 DEF StoreInv
    <3>2. \A jar : ListGet(jar, o) = {e \in Elements(jar) : Matches(e, o)}
      BY DEF ListGet, Elements
    <3>3. TCBGet(tcb, o) = {e \in Elements(tcb) : Matches(e, o)}
      BY DEF TCBGet, Elements
    <3>4. Elements(reference) = Elements(tcb)
      BY <3>1 DEF JarsHold
    <3>5. opened # Shut /\ (record = Nothing \/ Opens(record)) => Elements(encrypted) = Elements(reference)
      BY <3>1 DEF JarsHold, Opens
    <3> QED BY <3>2, <3>3, <3>4, <3>5
  <2> QED BY <2>1, <2>2 DEF StoresAgree
<1> QED BY <1>1, StoreStarts, StoreStep, PTL DEF StoreSpec
=============================================================================
