------------------------------ MODULE PageLoop -------------------------------
(***************************************************************************)
(* The event loop of a page (src/core/web_platform_shim.hpp): timers,      *)
(* animation frames, jobs, mutation records and the lifecycle events, run  *)
(* by __prowsetkFlush, which the host calls and which element.click() and  *)
(* type() call again from inside a callback.  stack is the JavaScript      *)
(* stack; a script that exceeds its deadline loses all of it.              *)
(***************************************************************************)
EXTENDS Integers, Sequences, FiniteSets, Positions

CONSTANTS
  Observers,     \* MutationObservers
  Delays,        \* delays and periods scripts ask for
  MaxFlush,      \* MAX_FLUSH_CALLBACKS (500)
  MaxDrain,      \* jobs one drainJobs runs (100)
  MaxClock,      \* bound: the clock
  MaxOps,        \* bound: what scripts do to the loop
  MaxInterrupts  \* bound: scripts that exceed their deadline

ASSUME LoopConstants ==
  /\ Delays \subseteq Nat /\ {MaxFlush, MaxDrain} \subseteq Nat \ {0}
  /\ {MaxClock, MaxOps, MaxInterrupts} \subseteq Nat

Once == -1                        \* the period of a setTimeout
LoopIds == 1..MaxOps

VARIABLES
  clock,       \* Date.now()
  timers,      \* armed timers: id, when, period
  cancelled,   \* cancelledTimers
  nextId,      \* nextTimerId
  raf,         \* rafCbs: ids
  loaded,      \* whether a document has been installed
  lifecycle,   \* lifecycleQueue
  pageJobs,    \* QuickJS jobs: "deliver" or "task" (a promise, fetch or XHR callback)
  records,     \* the observers with undelivered records
  scheduled,   \* mutationScheduled
  stack,       \* frames, the innermost last
  ghost,       \* history: a timer ran after it was cleared
  ops, interrupts

LoopVars == <<clock, timers, cancelled, nextId, raf, loaded, lifecycle, pageJobs, records, scheduled,
              stack, ghost, ops, interrupts>>

LoopInit ==
  /\ clock = 0 /\ timers = <<>> /\ cancelled = {} /\ nextId = 1 /\ raf = <<>>
  /\ loaded = FALSE /\ lifecycle = <<>> /\ pageJobs = <<>> /\ records = {}
  /\ scheduled = FALSE /\ stack = <<>> /\ ghost = FALSE /\ ops = 0 /\ interrupts = 0

TopFrame == stack[Len(stack)]
On(at) == stack # <<>> /\ TopFrame.at = at
Beneath(s) == SubSeq(s, 1, Len(s) - 1)
PushFrame(frame) == stack' = Append(stack, frame)
Pop == stack' = Beneath(stack)

Flush == [at |-> "flush", phase |-> "top", ran |-> 0, fired |-> 0]
Script(id, period) == [at |-> "script", id |-> id, period |-> period]
With(field, value) == [TopFrame EXCEPT ![field] = value]
(* the flush frame moves on and calls something *)
EnterFrame(flush, frame) == stack' = Append(Append(Beneath(stack), flush), frame)

-----------------------------------------------------------------------------
(* What a running script may do *)
Op == On("script") /\ ops < MaxOps /\ ops' = ops + 1

SetTimer(delay, period) ==
  /\ Op /\ timers' = Append(timers, [id |-> nextId, when |-> clock + delay, period |-> period])
  /\ nextId' = nextId + 1
  /\ UNCHANGED <<clock, cancelled, raf, loaded, lifecycle, pageJobs, records, scheduled, stack, ghost, interrupts>>

(* Mutant: clearTimeout leaves the timer in the list. *)
ListedStill(t) == t.id \in LoopIds

(* cancelTimer, of an id that was handed out: also of the timer that runs *)
Listed(t) == t.id \notin cancelled'
CancelTimer(id) ==
  /\ Op /\ id < nextId /\ cancelled' = cancelled \cup {id}
  /\ timers' = AtPositions(timers, {i \in DOMAIN timers : Listed(timers[i])})
  /\ raf' = AtPositions(raf, {i \in DOMAIN raf : raf[i] # id})
  /\ UNCHANGED <<clock, nextId, loaded, lifecycle, pageJobs, records, scheduled, stack, ghost, interrupts>>

RequestFrame ==
  /\ Op /\ raf' = Append(raf, nextId) /\ nextId' = nextId + 1
  /\ UNCHANGED <<clock, timers, cancelled, loaded, lifecycle, pageJobs, records, scheduled, stack, ghost, interrupts>>

QueueTask ==   \* queueMicrotask, fetch, an asynchronous XMLHttpRequest
  /\ Op /\ pageJobs' = Append(pageJobs, "task")
  /\ UNCHANGED <<clock, timers, cancelled, nextId, raf, loaded, lifecycle, records, scheduled, stack, ghost, interrupts>>

(* notifyMutation, for the observers that want it *)
Mutate(wanting) ==
  /\ Op /\ wanting # {} /\ records' = records \cup wanting
  /\ scheduled' = TRUE /\ pageJobs' = IF scheduled THEN pageJobs ELSE Append(pageJobs, "deliver")
  /\ UNCHANGED <<clock, timers, cancelled, nextId, raf, loaded, lifecycle, stack, ghost, interrupts>>

TakeRecords(o) ==  \* takeRecords and disconnect
  /\ Op /\ o \in records /\ records' = records \ {o}
  /\ UNCHANGED <<clock, timers, cancelled, nextId, raf, loaded, lifecycle, pageJobs, scheduled, stack, ghost, interrupts>>

Click ==   \* click() and type() end with a flush of their own
  /\ Op /\ PushFrame(Flush)
  /\ UNCHANGED <<clock, timers, cancelled, nextId, raf, loaded, lifecycle, pageJobs, records, scheduled, ghost, interrupts>>

(* A callback returns; an interval that was not cleared is armed again.     *)
ReturnScript ==
  /\ On("script") /\ Pop
  /\ timers' = IF TopFrame.period = Once \/ TopFrame.id \in cancelled THEN timers
               ELSE Append(timers, [id |-> TopFrame.id, when |-> clock + TopFrame.period, period |-> TopFrame.period])
  /\ UNCHANGED <<clock, cancelled, nextId, raf, loaded, lifecycle, pageJobs, records, scheduled, ghost, ops, interrupts>>

-----------------------------------------------------------------------------
(* A document is installed, which arms the lifecycle events; then the host  *)
(* evaluates scripts and flushes.                                           *)
Load ==
  /\ ~loaded /\ loaded' = TRUE /\ lifecycle' = <<"DOMContentLoaded", "load">>
  /\ UNCHANGED <<clock, timers, cancelled, nextId, raf, pageJobs, records, scheduled, stack, ghost, ops, interrupts>>
Evaluate ==
  /\ loaded /\ stack = <<>> /\ ops < MaxOps /\ PushFrame(Script(0, Once))
  /\ UNCHANGED <<clock, timers, cancelled, nextId, raf, loaded, lifecycle, pageJobs, records, scheduled, ghost, ops, interrupts>>
Pump ==
  /\ loaded /\ stack = <<>> /\ PushFrame(Flush)
  /\ UNCHANGED <<clock, timers, cancelled, nextId, raf, loaded, lifecycle, pageJobs, records, scheduled, ghost, ops, interrupts>>
Wait ==
  /\ loaded /\ clock < MaxClock /\ clock' = clock + 1
  /\ UNCHANGED <<timers, cancelled, nextId, raf, loaded, lifecycle, pageJobs, records, scheduled, stack, ghost, ops, interrupts>>

-----------------------------------------------------------------------------
(* __prowsetkFlush: per round a lifecycle event and the jobs or, when there *)
(* were none, one timer or all animation frames.                            *)
Looping == On("flush") /\ TopFrame.fired < MaxFlush

FlushLifecycle ==
  /\ Looping /\ TopFrame.phase = "top" /\ lifecycle # <<>> /\ lifecycle' = Tail(lifecycle)
  /\ EnterFrame([TopFrame EXCEPT !.phase = "jobs", !.ran = 1], Script(0, Once))
  /\ UNCHANGED <<clock, timers, cancelled, nextId, raf, loaded, pageJobs, records, scheduled, ghost, ops, interrupts>>

Draining == Looping /\ (TopFrame.phase = "jobs" \/ lifecycle = <<>>)
More == pageJobs # <<>> /\ TopFrame.ran < MaxDrain
(* Mutant: deliverMutations does not reset mutationScheduled. *)
FlushJobScheduled ==
  /\ Draining /\ More /\ pageJobs' = Tail(pageJobs)
  /\ LET flush == [TopFrame EXCEPT !.phase = "jobs", !.ran = @ + 1] IN
     IF Head(pageJobs) = "task" THEN EnterFrame(flush, Script(0, Once))
     ELSE EnterFrame(flush, [at |-> "deliver", left |-> Observers])
  /\ UNCHANGED <<clock, timers, cancelled, nextId, raf, loaded, lifecycle, records, scheduled, ghost, ops, interrupts>>

FlushJob ==
  /\ Draining /\ More /\ pageJobs' = Tail(pageJobs)
  /\ LET flush == [TopFrame EXCEPT !.phase = "jobs", !.ran = @ + 1] IN
     IF Head(pageJobs) = "task" THEN EnterFrame(flush, Script(0, Once)) /\ UNCHANGED scheduled
     ELSE EnterFrame(flush, [at |-> "deliver", left |-> Observers]) /\ scheduled' = FALSE
  /\ UNCHANGED <<clock, timers, cancelled, nextId, raf, loaded, lifecycle, records, ghost, ops, interrupts>>
FlushRound ==
  /\ Draining /\ ~More /\ TopFrame.ran > 0
  /\ stack' = Append(Beneath(stack), [TopFrame EXCEPT !.phase = "top", !.ran = 0, !.fired = @ + TopFrame.ran])
  /\ UNCHANGED <<clock, timers, cancelled, nextId, raf, loaded, lifecycle, pageJobs, records, scheduled, ghost, ops, interrupts>>

(* deliverMutations: the observers in turn, those with records *)
Deliver(o) ==
  /\ On("deliver") /\ o \in TopFrame.left
  /\ LET rest == With("left", TopFrame.left \ {o}) IN
     IF o \in records
     THEN EnterFrame(rest, Script(0, Once)) /\ records' = records \ {o}
     ELSE stack' = Append(Beneath(stack), rest) /\ UNCHANGED records
  /\ UNCHANGED <<clock, timers, cancelled, nextId, raf, loaded, lifecycle, pageJobs, scheduled, ghost, ops, interrupts>>
Delivered ==
  /\ On("deliver") /\ TopFrame.left = {} /\ Pop
  /\ UNCHANGED <<clock, timers, cancelled, nextId, raf, loaded, lifecycle, pageJobs, records, scheduled, ghost, ops, interrupts>>

(* The earliest due timer, the first armed of several *)
Quiet == Draining /\ ~More /\ TopFrame.ran = 0
Due(i) == timers[i].when <= clock
(* Mutant: of several due at the same time, the last armed. *)
EarliestLastArmed(i) ==
  /\ Due(i)
  /\ \A k \in DOMAIN timers : Due(k) =>
       timers[i].when < timers[k].when \/ (timers[i].when = timers[k].when /\ i >= k)

Earliest(i) ==
  /\ Due(i)
  /\ \A k \in DOMAIN timers : Due(k) =>
       timers[i].when < timers[k].when \/ (timers[i].when = timers[k].when /\ i <= k)
NextFlush == [TopFrame EXCEPT !.phase = "top", !.fired = @ + 1]
FlushTimer ==
  \E i \in DOMAIN timers :
    /\ Quiet /\ Earliest(i)
    /\ timers' = AtPositions(timers, {k \in DOMAIN timers : timers[k].id # timers[i].id})
    /\ EnterFrame(NextFlush, Script(timers[i].id, timers[i].period))
    /\ ghost' = (ghost \/ timers[i].id \in cancelled)
    /\ UNCHANGED <<clock, cancelled, nextId, raf, loaded, lifecycle, pageJobs, records, scheduled, ops, interrupts>>
FlushFrames ==
  /\ Quiet /\ raf # <<>> /\ \A i \in DOMAIN timers : ~Due(i)
  /\ EnterFrame(NextFlush, [at |-> "frames", left |-> raf]) /\ raf' = <<>>
  /\ UNCHANGED <<clock, timers, cancelled, nextId, loaded, lifecycle, pageJobs, records, scheduled, ghost, ops, interrupts>>
Frame ==
  /\ On("frames")
  /\ IF TopFrame.left = <<>> THEN Pop ELSE EnterFrame(With("left", Tail(TopFrame.left)), Script(0, Once))
  /\ UNCHANGED <<clock, timers, cancelled, nextId, raf, loaded, lifecycle, pageJobs, records, scheduled, ghost, ops, interrupts>>
FlushEnd ==
  /\ On("flush") /\ Pop
  /\ TopFrame.fired < MaxFlush => Quiet /\ raf = <<>> /\ \A i \in DOMAIN timers : ~Due(i)
  /\ UNCHANGED <<clock, timers, cancelled, nextId, raf, loaded, lifecycle, pageJobs, records, scheduled, ghost, ops, interrupts>>

(* The interrupt handler throws past every catch clause.                    *)
InterruptScript ==
  /\ stack # <<>> /\ interrupts < MaxInterrupts /\ interrupts' = interrupts + 1 /\ stack' = <<>>
  /\ UNCHANGED <<clock, timers, cancelled, nextId, raf, loaded, lifecycle, pageJobs, records, scheduled, ghost, ops>>

-----------------------------------------------------------------------------
ScriptOp ==
  \/ \E d \in Delays : SetTimer(d, Once) \/ SetTimer(d, d)
  \/ \E id \in LoopIds : CancelTimer(id)
  \/ RequestFrame \/ QueueTask \/ Click
  \/ \E w \in SUBSET Observers : Mutate(w)
  \/ \E o \in Observers : TakeRecords(o)
LoopStep ==
  \/ ReturnScript \/ FlushLifecycle \/ FlushJob \/ FlushRound \/ Delivered \/ \E o \in Observers : Deliver(o)
  \/ FlushTimer \/ FlushFrames \/ Frame \/ FlushEnd
LoopNext == Load \/ ScriptOp \/ LoopStep \/ Evaluate \/ Pump \/ Wait \/ InterruptScript

LoopFairness ==   \* a host that pumps a page again and again; time passes
  /\ WF_LoopVars(LoopStep) /\ SF_LoopVars(Pump) /\ WF_LoopVars(Wait)
LoopSpec == LoopInit /\ [][LoopNext]_LoopVars /\ LoopFairness

-----------------------------------------------------------------------------
LoopTypeOK ==
  /\ clock \in 0..MaxClock /\ nextId \in 1..(MaxOps + 1)
  /\ \A i \in DOMAIN timers : timers[i].id \in LoopIds /\ timers[i].period \in Delays \cup {Once}
  /\ cancelled \subseteq LoopIds /\ raf \in Seq(LoopIds)
  /\ lifecycle \in Seq({"DOMContentLoaded", "load"}) /\ pageJobs \in Seq({"deliver", "task"})
  /\ records \subseteq Observers /\ scheduled \in BOOLEAN /\ loaded \in BOOLEAN

(* clearTimeout and clearInterval hold from the moment they return: no      *)
(* cleared timer runs again, not even an interval cleared by its own        *)
(* callback or by one that runs in a nested flush; and no timer's callback  *)
(* is entered while it is still running.                                    *)
ClearedTimersAreDead ==
  /\ ~ghost
  /\ \A i, k \in DOMAIN stack :
       i < k /\ stack[i].at = "script" /\ stack[k].at = "script" /\ stack[i].id # 0
         => stack[i].id # stack[k].id

(* No mutation record is stranded: an observer with records has a delivery  *)
(* ahead, however mutations, takeRecords and deliveries nest, as long as no *)
(* script was cut off at its deadline.                                      *)
RecordsAreDelivered ==
  interrupts = 0 => \A o \in records :
    \/ \E i \in DOMAIN pageJobs : pageJobs[i] = "deliver"
    \/ \E i \in DOMAIN stack : stack[i].at = "deliver" /\ o \in stack[i].left

(* Nothing the loop dropped runs and nothing it owes is lost, whatever its  *)
(* callbacks flush, clear and mutate.                                       *)
LoopKeepsItsWord == ClearedTimersAreDead /\ RecordsAreDelivered

(* A page becomes complete and its timers run: an armed timer eventually    *)
(* runs or is cleared, under every interleaving of flushes and re-arming    *)
(* intervals (unless a script was cut off at its deadline).                 *)
TimersRun ==
  /\ (lifecycle # <<>>) ~> (lifecycle = <<>>)
  /\ \A id \in LoopIds :
       (\E i \in DOMAIN timers : timers[i].id = id)
         ~> \/ id \in cancelled \/ interrupts > 0
            \/ clock = MaxClock /\ \A i \in DOMAIN timers : timers[i].id = id => ~Due(i)
            \/ \E i \in DOMAIN stack : stack[i].at = "script" /\ stack[i].id = id
=============================================================================
