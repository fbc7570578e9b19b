---------------------------- MODULE ScriptEngine -----------------------------
(***************************************************************************)
(* The script engine (src/core/quickjs_runtime.cpp) with the native        *)
(* modules its scripts may call (src/flatworm/module.cpp and               *)
(* module_bindings.cpp): one evaluation at a time, its deadline, the jobs  *)
(* it leaves behind, and the C++ code its scripts call and that may call   *)
(* the engine again.  What QuickJS does with a script is external: it runs *)
(* for some time, queues jobs, calls out, returns or throws.               *)
(*                                                                         *)
(* Time is counted in ticks, of which a millisecond has TicksPerMs; the    *)
(* clock starts with the evaluation.                                       *)
(***************************************************************************)
EXTENDS Naturals, Sequences, FiniteSets, SequencesExt

CONSTANTS
  NativeModules,   \* modules that can be loaded
  Initializing,    \* those with an initialize and a shutdown callback
  TicksPerMs,
  TimeoutMs,       \* ScriptOptions::timeout_ms
  MaxTicks,        \* bound on the clock
  MaxJobs,         \* ScriptOptions::max_microtask_jobs
  MaxDrainJobs,    \* 100 in bp_drain_jobs
  MaxQueued,       \* bound on the jobs queued
  MaxInstances,    \* FLATWORM_MODULE_MAX_MODULES
  MaxCallDepth,    \* FLATWORM_MODULE_MAX_CALL_DEPTH
  MaxFrames,       \* bound on the calls inside one another
  MaxEntries       \* bound on the calls of the engine

ASSUME ScriptEngineConstants ==
  /\ Initializing \subseteq NativeModules /\ TicksPerMs \in Nat \ {0} /\ TimeoutMs \in Nat \ {0}
  /\ {MaxTicks, MaxDrainJobs, MaxQueued, MaxInstances, MaxFrames, MaxEntries} \subseteq Nat
  /\ {MaxJobs, MaxCallDepth} \subseteq Nat \ {0}

VARIABLES
  running,      \* the calls in progress, the innermost first
  execution,    \* the ExecutionScope, or NoExecution
  pendingJobs,  \* the pending jobs, numbered in the order they were queued
  queued,       \* the number of jobs queued so far
  scriptResult, \* the last result, with what the evaluation spent itself and how often it called the host
  known,        \* FlatwormModuleRegistry: the modules registered
  instances,    \* ModuleBindings::instances_ of this engine
  lived,        \* of each module: its instance is "none", "attempted" or "ready"
  misused,      \* history: native code was called outside its lifetime
  entered       \* the number of calls of the engine
EngineVars == <<running, execution, pendingJobs, queued, scriptResult, known, instances, lived, misused, entered>>

NoExecution == [clock |-> 0, expires |-> 0, expired |-> FALSE, executed |-> 0, spent |-> 0, hosts |-> 0, value |-> "none"]
NoScriptResult == [is |-> "none", spent |-> 0, hosts |-> 0]
Frame(at) == [at |-> at, n |-> 0, module |-> "none"]
Doing == IF running = <<>> THEN "idle" ELSE Head(running).at
Active == running # <<>>                                   \* active_
InPageCode == Doing \in {"script", "setter", "job", "convert"}  \* QuickJS runs the page's code
RoomForFrame == Len(running) < MaxFrames

EngineInit ==
  /\ running = <<>> /\ execution = NoExecution /\ pendingJobs = <<>> /\ queued = 0 /\ scriptResult = NoScriptResult
  /\ known = {} /\ instances = <<>> /\ lived = [m \in NativeModules |-> "none"] /\ misused = FALSE /\ entered = 0

Modules == <<known, instances, lived, misused>>
Push(f) == running' = <<f>> \o running
Pop == running' = Tail(running)

-----------------------------------------------------------------------------
(* ExecutionScope: entered only when the engine is idle; whoever calls it  *)
(* while it runs, from a handler, a hook or a module, is refused.          *)
NewExecution(value) == [NoExecution EXCEPT !.expires = TimeoutMs * TicksPerMs, !.value = value]
EnterScope(f, value) ==
  /\ ~Active /\ entered < MaxEntries /\ entered' = entered + 1
  /\ running' = <<f>> /\ execution' = NewExecution(value) /\ scriptResult' = NoScriptResult
(* evaluate and evaluate_module; options that are out of range are refused *)
(* as well.                                                                *)
EvaluateSource == EnterScope(Frame("script"), "none") /\ UNCHANGED <<pendingJobs, queued, Modules>>
RunMicrotasks == EnterScope(Frame("checkpoint"), "drain") /\ UNCHANGED <<pendingJobs, queued, Modules>>
(* set_global: the page may have defined a setter, whose exception is      *)
(* dropped and whose jobs wait.                                            *)
SetGlobal == EnterScope(Frame("setter"), "none") /\ UNCHANGED <<pendingJobs, queued, Modules>>

(* interrupt_at_deadline, and with it ExecutionScope::expired.             *)
PastDeadline(s) == s.expired \/ s.clock >= s.expires
Leave(is) ==
  /\ running' = <<>> /\ execution' = NoExecution
  /\ scriptResult' = [is |-> is, spent |-> execution.spent, hosts |-> execution.hosts]

(* Page code, handlers and modules take time; only that of a host request  *)
(* is not the script's own.                                                *)
TimeGoesBy ==
  /\ Active /\ execution.clock < MaxTicks
  /\ execution' = [execution EXCEPT !.clock = @ + 1, !.spent = IF Doing = "request" THEN @ ELSE @ + 1]
  /\ running' = IF Doing = "request" THEN [running EXCEPT ![1].n = @ + 1] ELSE running
  /\ UNCHANGED <<pendingJobs, queued, scriptResult, entered, Modules>>

-----------------------------------------------------------------------------
(* What page code calls.                                                   *)
QueueMicrotask ==
  /\ InPageCode /\ queued < MaxQueued /\ queued' = queued + 1 /\ pendingJobs' = Append(pendingJobs, queued + 1)
  /\ UNCHANGED <<running, execution, scriptResult, entered, Modules>>
(* bp_request: the time the host took is given back in whole milliseconds. *)
HostRequest ==
  /\ InPageCode /\ RoomForFrame /\ Push(Frame("request")) /\ UNCHANGED <<execution, pendingJobs, queued, scriptResult, entered, Modules>>
NotExtended(s, elapsed) == s
ExtendDeadline(s, elapsed) == [s EXCEPT !.expires = @ + (elapsed \div TicksPerMs) * TicksPerMs]
HostResponse ==
  /\ Doing = "request" /\ Pop
  /\ LET elapsed == Head(running).n IN execution' = [ExtendDeadline(execution, elapsed) EXCEPT !.hosts = IF elapsed > 0 THEN @ + 1 ELSE @]
  /\ UNCHANGED <<pendingJobs, queued, scriptResult, entered, Modules>>
(* console methods, bp_print and the tracker of unhandled rejections; what *)
(* the handler throws is dropped.                                          *)
ForwardConsole ==
  /\ InPageCode /\ RoomForFrame /\ Push(Frame("console")) /\ UNCHANGED <<execution, pendingJobs, queued, scriptResult, entered, Modules>>
(* The bindings that ask or tell the host about the page, its cookies, its *)
(* storage or a navigation: its hooks run on the script's own time.        *)
CallBinding ==
  /\ InPageCode /\ RoomForFrame /\ Push(Frame("binding"))
  /\ UNCHANGED <<execution, pendingJobs, queued, scriptResult, entered, Modules>>
HandlerReturns ==
  /\ Doing \in {"console", "binding"} /\ Pop /\ UNCHANGED <<execution, pendingJobs, queued, scriptResult, entered, Modules>>
BpDrainJobs ==
  /\ InPageCode /\ RoomForFrame /\ Push(Frame("drain")) /\ UNCHANGED <<execution, pendingJobs, queued, scriptResult, entered, Modules>>

-----------------------------------------------------------------------------
(* Jobs: run_pending_jobs inside a script, drain_microtasks after it.  A   *)
(* job leaves the queue when it starts.                                    *)
StartJob == pendingJobs # <<>> /\ RoomForFrame /\ pendingJobs' = Tail(pendingJobs) /\ UNCHANGED <<queued, scriptResult, entered, Modules>>
RunPendingJob ==
  /\ Doing = "drain" /\ Head(running).n < MaxDrainJobs /\ StartJob
  /\ running' = <<Frame("job")>> \o [running EXCEPT ![1].n = @ + 1] /\ UNCHANGED execution
RunPendingJobsEnd ==
  /\ Doing = "drain" /\ (pendingJobs = <<>> \/ Head(running).n = MaxDrainJobs)
  /\ Pop /\ UNCHANGED <<execution, pendingJobs, queued, scriptResult, entered, Modules>>
DrainMicrotask ==
  /\ Doing = "checkpoint" /\ ~PastDeadline(execution) /\ execution.executed < MaxJobs /\ StartJob
  /\ Push(Frame("job")) /\ execution' = [execution EXCEPT !.executed = @ + 1]

(* How evaluate_source ends: the deadline before all else, an error of the *)
(* script, or a module's promise that is rejected by then, before one of   *)
(* the checkpoint.  run_microtasks ends as the checkpoint does, with the   *)
(* exception of a job also when the deadline has passed.                   *)
Drains == execution.value = "drain"
Outcomes(checkpoint) ==
  CASE Drains -> {checkpoint}
    [] ~Drains /\ PastDeadline(execution) -> {"deadline"}
    [] ~PastDeadline(execution) /\ execution.value = "error" -> {"error"}
    [] ~PastDeadline(execution) /\ execution.value = "promise" -> {checkpoint, "error"}
    [] OTHER -> {checkpoint}
EndsWith(checkpoint) == \E is \in Outcomes(checkpoint) : Leave(is)
CheckpointEnds ==
  /\ Doing = "checkpoint" /\ UNCHANGED <<pendingJobs, queued, entered, Modules>>
  /\ \/ pendingJobs = <<>> /\ EndsWith(IF PastDeadline(execution) THEN "deadline" ELSE "ok")
     \/ pendingJobs # <<>> /\ PastDeadline(execution) /\ Leave("deadline")
     \/ pendingJobs # <<>> /\ ~PastDeadline(execution) /\ execution.executed = MaxJobs /\ EndsWith("limit")

Checkpoint(s) == running' = <<Frame("checkpoint")>> /\ execution' = s /\ UNCHANGED scriptResult
(* The innermost page code ends.  An exception of a job is dropped by      *)
(* run_pending_jobs and ends drain_microtasks, which leaves the rest.      *)
JobEnds(ok) ==
  IF ok \/ running[2].at = "drain" THEN Pop /\ UNCHANGED <<execution, scriptResult>> ELSE EndsWith("error")
ScriptReturns(value) ==
  /\ CASE Doing = "script" -> Checkpoint([execution EXCEPT !.value = value])
       [] Doing = "setter" -> Leave("none")
       [] Doing = "job" -> JobEnds(value # "error")
  /\ UNCHANGED <<pendingJobs, queued, entered, Modules>>
ScriptEnds == Doing \in {"script", "setter", "job"} /\ \E value \in {"ok", "promise", "error"} : ScriptReturns(value)

-----------------------------------------------------------------------------
(* Native modules: loaded into a registry, from which engines install them *)
(* and which may drop them again; the instances refer to them themselves.  *)
(* The registry is read only when the engine is idle, and so changes then. *)
(* The definition is copied and checked: a module has both callbacks or    *)
(* neither.  One that is refused leaves the registry as it was.            *)
Paired(m) == m \in Initializing
AddModule(m) ==
  /\ ~Active /\ m \notin known /\ Cardinality(known) < MaxInstances /\ known' = known \cup {m}
  /\ UNCHANGED <<running, execution, pendingJobs, queued, scriptResult, instances, lived, misused, entered>>
RemoveModule(m) ==
  /\ ~Active /\ m \in known /\ known' = known \ {m}
  /\ UNCHANGED <<running, execution, pendingJobs, queued, scriptResult, instances, lived, misused, entered>>

(* install: in a scope of its own; published only when initialize          *)
(* succeeded, and shut down, when it was attempted, if it did not.         *)
IsInstalled(m) == \E i \in DOMAIN instances : instances[i] = m
InstallModule(m) ==
  /\ m \in known /\ ~IsInstalled(m) /\ Len(instances) < MaxInstances
  /\ EnterScope([Frame("initialize") EXCEPT !.module = m], "ok")
  /\ lived' = IF Paired(m) THEN [lived EXCEPT ![m] = "attempted"] ELSE lived
  /\ UNCHANGED <<pendingJobs, queued, known, instances, misused>>
Initialized(ok) ==
  LET m == Head(running).module
  IN  /\ Doing = "initialize" /\ Leave(IF ok THEN "installed" ELSE "refused")
      /\ instances' = IF ok THEN Append(instances, m) ELSE instances
      /\ lived' = [lived EXCEPT ![m] = IF ~ok THEN "none" ELSE "ready"]
      /\ UNCHANGED <<pendingJobs, queued, known, misused, entered>>

(* invoke: while the arguments are converted page code runs again (getters *)
(* and toJSON), and an exception in it, also that of the deadline, becomes *)
(* one that the caller may catch.                                          *)
CallDepth == Cardinality({i \in DOMAIN running : running[i].at \in {"convert", "native"}})
Invoke(m) ==
  /\ InPageCode /\ IsInstalled(m) /\ CallDepth < MaxCallDepth /\ RoomForFrame
  /\ Push([Frame("convert") EXCEPT !.module = m])
  /\ UNCHANGED <<execution, pendingJobs, queued, scriptResult, entered, Modules>>
ArgumentsConverted ==
  /\ Doing = "convert" /\ UNCHANGED <<execution, pendingJobs, queued, scriptResult, entered, known, instances, lived>>
  /\ \/ running' = [running EXCEPT ![1].at = "native"] /\ misused' = (misused \/ lived[Head(running).module] # "ready")
     \/ Pop /\ UNCHANGED misused
NativeReturns ==
  /\ Doing = "native" /\ Pop /\ UNCHANGED <<execution, pendingJobs, queued, scriptResult, entered, Modules>>

(* QuickJS asks interrupt_at_deadline while it runs page code.             *)
InterruptAtDeadline ==
  /\ InPageCode /\ PastDeadline(execution) /\ UNCHANGED <<pendingJobs, queued, entered, Modules>>
  /\ LET late == [execution EXCEPT !.expired = TRUE]
     IN  CASE Doing = "script" -> Checkpoint([late EXCEPT !.value = "error"])
           [] Doing = "setter" -> Leave("none")
           [] Doing = "convert" -> Pop /\ execution' = late /\ UNCHANGED scriptResult
           [] Doing = "job" /\ running[2].at = "drain" -> Pop /\ execution' = late /\ UNCHANGED scriptResult
           [] OTHER -> Leave(IF Drains THEN "error" ELSE "deadline")

(* ~QuickJavaScriptRuntime: the values and jobs go first, then the         *)
(* instances are shut down, in reverse; another engine follows.            *)
DestroyEngine ==
  /\ ~Active /\ entered > 0 /\ entered < MaxEntries /\ entered' = entered + 1
  /\ pendingJobs' = <<>> /\ queued' = 0 /\ instances' = <<>> /\ scriptResult' = NoScriptResult
  /\ misused' = (misused \/ \E i \in DOMAIN instances : lived[instances[i]] # "ready")
  /\ lived' = [m \in NativeModules |-> IF IsInstalled(m) THEN "none" ELSE lived[m]]
  /\ UNCHANGED <<running, execution, known>>

EngineNext ==
  \/ EvaluateSource \/ RunMicrotasks \/ SetGlobal \/ TimeGoesBy \/ QueueMicrotask \/ HostRequest \/ HostResponse \/ ForwardConsole
  \/ CallBinding \/ HandlerReturns \/ BpDrainJobs \/ RunPendingJob \/ RunPendingJobsEnd \/ DrainMicrotask \/ CheckpointEnds \/ ScriptEnds
  \/ \E m \in NativeModules : AddModule(m) \/ RemoveModule(m) \/ InstallModule(m) \/ Invoke(m)
  \/ \E ok \in BOOLEAN : Initialized(ok)
  \/ ArgumentsConverted \/ NativeReturns \/ InterruptAtDeadline \/ DestroyEngine
EngineSpec == EngineInit /\ [][EngineNext]_EngineVars

-----------------------------------------------------------------------------
(* The budget of an evaluation is its own time: one that reports success   *)
(* stayed within it, one that reports the deadline used it up, not counting *)
(* the host's requests but for a part of a millisecond of each, whatever   *)
(* it called and whichever of its exceptions were dropped or caught.  And  *)
(* no job is lost, run twice or run before an earlier one, although limits *)
(* and exceptions end checkpoints early and jobs drain jobs; native code   *)
(* is called between its initialize and its shutdown only.                 *)
OwnTime == TimeoutMs * TicksPerMs
ScriptsAreAccountedFor ==
  /\ scriptResult.is = "ok" => scriptResult.spent < OwnTime
  /\ scriptResult.is = "deadline" => scriptResult.spent + scriptResult.hosts * (TicksPerMs - 1) >= OwnTime
  /\ \A i \in DOMAIN pendingJobs : pendingJobs[i] = queued - Len(pendingJobs) + i
  /\ ~misused
  /\ ~Active => \A m \in NativeModules : lived[m] = "ready" => IsInstalled(m)
=============================================================================
