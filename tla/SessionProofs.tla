--------------------------- MODULE SessionProofs ---------------------------
(***************************************************************************)
(* The engine-lifetime argument of Session, for every number of nested     *)
(* calls, scripts, hops and passes and every set of re-entrant hooks; what *)
(* a page observed before its script navigated, where handlers only close  *)
(* the session or evaluate; and what the event loop of the page it hosts   *)
(* owes its timers and observers, for every number of timers, flushes,     *)
(* jobs and nested callbacks.                                              *)
(***************************************************************************)
EXTENDS Session, PageLoop, TLAPS

ScriptFrame(i) == frames[i].pc \in ScriptPcs

(* depth is 1 exactly while one frame executes a script; the engine is     *)
(* there as long as it is, and a closed session outside script has none.   *)
EngineInv ==
  /\ depth \in {0, 1}
  /\ \A i \in 1..sp : ScriptFrame(i) => depth = 1
  /\ depth = 1 => \E i \in 1..sp : ScriptFrame(i)
  /\ \A i, j \in 1..sp : ScriptFrame(i) /\ ScriptFrame(j) => i = j
  /\ depth = 1 => runtime = "engine"
  /\ closed /\ depth = 0 => runtime = "absent"

Inv == TypeOK /\ EngineInv

USE SessionConstants

-----------------------------------------------------------------------------
(* The frames the calls build are frames, and their pc is the one given.   *)
LEMMA PcFacts ==
  /\ HandlerPcs \subseteq Pcs /\ ScriptPcs \subseteq Pcs /\ InnerPcs \subseteq Pcs
  /\ "idle" \in Pcs \ ScriptPcs
  /\ HandlerPcs \cap ScriptPcs = {} /\ InnerPcs \cap ScriptPcs = {}
BY DEF Pcs, Windows, HandlerPcs, ScriptPcs, InnerPcs

LEMMA NewFrames ==
  /\ NoFrame \in FrameSet /\ NoFrame.pc = "idle"
  /\ \A op \in Operations \cup {"fetch"}, pc \in Pcs :
       Call(op, pc) \in FrameSet /\ Call(op, pc).pc = pc
<1>1. NoFrame \in FrameSet /\ NoFrame.pc = "idle"
  BY PcFacts DEF NoFrame, FrameSet
<1>2. ASSUME NEW op \in Operations \cup {"fetch"}, NEW pc \in Pcs
      PROVE  Call(op, pc) \in FrameSet /\ Call(op, pc).pc = pc
  BY DEF Call, NoFrame, FrameSet
<1> QED BY <1>1, <1>2

LEMMA TopCall ==
  ASSUME TypeOK, sp > 0
  PROVE  sp \in 1..MaxNesting /\ Top \in FrameSet
BY DEF TypeOK, Top

-----------------------------------------------------------------------------
(* What the three stack moves keep.                                        *)
StackOK == sp \in 0..MaxNesting /\ frames \in [1..MaxNesting -> FrameSet]

LEMMA GotoStack ==
  ASSUME TypeOK, sp > 0, NEW f \in FrameSet, Goto(f)
  PROVE  StackOK' /\ sp' = sp /\ frames'[sp] = f
         /\ \A i \in 1..sp : i # sp => frames'[i] = frames[i]
BY DEF TypeOK, Goto, StackOK

LEMMA ReturnStack ==
  ASSUME TypeOK, sp > 0, Return
  PROVE  StackOK' /\ sp' = sp - 1 /\ \A i \in 1..sp' : frames'[i] = frames[i]
BY NewFrames DEF TypeOK, Return, StackOK

LEMMA PushStack ==
  ASSUME TypeOK, sp < MaxNesting, NEW f \in FrameSet, Push(f)
  PROVE  StackOK' /\ sp' = sp + 1 /\ frames'[sp + 1] = f
         /\ \A i \in 1..sp : frames'[i] = frames[i]
BY DEF TypeOK, Push, StackOK

(* A move between frames that run no script keeps the engine invariant.    *)
LEMMA QuietGoto ==
  ASSUME Inv, sp > 0, ~ScriptFrame(sp), NEW f \in FrameSet, f.pc \notin ScriptPcs,
         Goto(f), UNCHANGED <<depth, runtime, closed>>
  PROVE  EngineInv'
<1>1. /\ sp' = sp /\ frames'[sp] = f /\ sp \in Nat
      /\ \A i \in 1..sp : i # sp => frames'[i] = frames[i]
  BY GotoStack DEF Inv, TypeOK
<1>2. \A i \in 1..sp : ScriptFrame(i)' <=> ScriptFrame(i)
  BY <1>1 DEF ScriptFrame
<1> QED BY <1>1, <1>2 DEF Inv, EngineInv

LEMMA QuietReturn ==
  ASSUME Inv, sp > 0, ~ScriptFrame(sp), Return, UNCHANGED <<depth, runtime, closed>>
  PROVE  EngineInv'
<1>1. sp' = sp - 1 /\ sp \in Nat /\ \A i \in 1..sp' : frames'[i] = frames[i]
  BY ReturnStack DEF Inv, TypeOK
<1>2. \A i \in 1..sp' : i \in 1..sp /\ (ScriptFrame(i)' <=> ScriptFrame(i))
  BY <1>1 DEF ScriptFrame
<1>3. \A i \in 1..sp : ScriptFrame(i) => i \in 1..sp'
  BY <1>1
<1> QED BY <1>1, <1>2, <1>3 DEF Inv, EngineInv

LEMMA QuietPush ==
  ASSUME Inv, sp < MaxNesting, NEW f \in FrameSet, f.pc \notin ScriptPcs, Push(f),
         UNCHANGED depth, runtime' = runtime \/ (depth = 0 /\ runtime' = "absent"),
         closed' => closed \/ depth = 1 \/ runtime' = "absent"
  PROVE  EngineInv'
<1>1. /\ sp' = sp + 1 /\ frames'[sp + 1] = f /\ sp \in Nat
      /\ \A i \in 1..sp : frames'[i] = frames[i]
  BY PushStack DEF Inv, TypeOK
<1>2. \A i \in 1..sp' : ScriptFrame(i)' => i \in 1..sp /\ ScriptFrame(i)
  BY <1>1 DEF ScriptFrame
<1>3. \A i \in 1..sp : i \in 1..sp' /\ (ScriptFrame(i) => ScriptFrame(i)')
  BY <1>1 DEF ScriptFrame
<1> QED BY <1>1, <1>2, <1>3 DEF Inv, EngineInv

(* Entering a script from a state that does not refuse it. *)
LEMMA EnterGoto ==
  ASSUME Inv, sp > 0, NEW f \in FrameSet, f.pc \in ScriptPcs, Goto(f), ~Refused,
         EnterScript, UNCHANGED <<runtime, closed>>
  PROVE  EngineInv'
<1>1. /\ sp' = sp /\ frames'[sp] = f /\ sp \in Nat
      /\ \A i \in 1..sp : i # sp => frames'[i] = frames[i]
  BY GotoStack DEF Inv, TypeOK
<1>2. depth = 0 /\ depth' = 1 /\ runtime' = "engine"
  BY DEF Inv, EngineInv, Refused, EnterScript
<1>3. \A i \in 1..sp : ~ScriptFrame(i)
  BY <1>2 DEF Inv, EngineInv
<1>4. \A i \in 1..sp' : ScriptFrame(i)' <=> i = sp
  BY <1>1, <1>3 DEF ScriptFrame
<1>5. sp \in 1..sp'
  BY <1>1
<1> QED BY <1>2, <1>4, <1>5 DEF EngineInv

LEMMA EnterPush ==
  ASSUME Inv, sp < MaxNesting, NEW f \in FrameSet, f.pc \in ScriptPcs, Push(f), ~Refused,
         EnterScript, UNCHANGED <<runtime, closed>>
  PROVE  EngineInv'
<1>1. /\ sp' = sp + 1 /\ frames'[sp + 1] = f /\ sp \in Nat
      /\ \A i \in 1..sp : frames'[i] = frames[i]
  BY PushStack DEF Inv, TypeOK
<1>2. depth = 0 /\ depth' = 1 /\ runtime' = "engine"
  BY DEF Inv, EngineInv, Refused, EnterScript
<1>3. \A i \in 1..sp : ~ScriptFrame(i)
  BY <1>2 DEF Inv, EngineInv
<1>4. \A i \in 1..sp' : ScriptFrame(i)' <=> i = sp + 1
  BY <1>1, <1>3 DEF ScriptFrame
<1>5. sp + 1 \in 1..sp'
  BY <1>1
<1> QED BY <1>2, <1>4, <1>5 DEF EngineInv

(* Leaving the script on top of the stack. *)
LEMMA LeaveGoto ==
  ASSUME Inv, sp > 0, ScriptFrame(sp), NEW f \in FrameSet, f.pc \notin ScriptPcs,
         Goto(f), LeaveScript, UNCHANGED closed
  PROVE  EngineInv'
<1>1. /\ sp' = sp /\ frames'[sp] = f /\ sp \in Nat
      /\ \A i \in 1..sp : i # sp => frames'[i] = frames[i]
  BY GotoStack DEF Inv, TypeOK
<1>2. sp \in 1..sp
  BY <1>1
<1>3. depth = 1 /\ depth' = 0 /\ (closed' => runtime' = "absent")
  BY <1>2 DEF Inv, EngineInv, LeaveScript
<1>4. \A i \in 1..sp' : ~ScriptFrame(i)'
  BY <1>1, <1>2 DEF ScriptFrame, Inv, EngineInv
<1> QED BY <1>3, <1>4 DEF EngineInv

LEMMA LeaveReturn ==
  ASSUME Inv, sp > 0, ScriptFrame(sp), Return, LeaveScript, UNCHANGED closed
  PROVE  EngineInv'
<1>1. sp' = sp - 1 /\ sp \in Nat /\ \A i \in 1..sp' : frames'[i] = frames[i]
  BY ReturnStack DEF Inv, TypeOK
<1>2. sp \in 1..sp
  BY <1>1
<1>3. depth = 1 /\ depth' = 0 /\ (closed' => runtime' = "absent")
  BY <1>2 DEF Inv, EngineInv, LeaveScript
<1>4. \A i \in 1..sp' : ~ScriptFrame(i)'
  BY <1>1, <1>2 DEF ScriptFrame, Inv, EngineInv
<1> QED BY <1>3, <1>4 DEF EngineInv

-----------------------------------------------------------------------------
(* Both parts of the invariant, for the moves the steps are made of.       *)
LEMMA StepFrame ==
  ASSUME NEW f \in FrameSet, NEW pc \in Pcs
  PROVE  [f EXCEPT !.pc = pc] \in FrameSet /\ [f EXCEPT !.pc = pc].pc = pc
BY DEF FrameSet

LEMMA QuietStep ==
  ASSUME Inv, sp > 0, ~ScriptFrame(sp), NEW pc \in Pcs \ ScriptPcs, Step(Top, pc),
         UNCHANGED <<depth, runtime, closed>>
  PROVE  StackOK' /\ EngineInv'
<1>1. [Top EXCEPT !.pc = pc] \in FrameSet /\ [Top EXCEPT !.pc = pc].pc = pc
  BY StepFrame, TopCall DEF Inv
<1> QED BY <1>1, GotoStack, QuietGoto DEF Inv, Step

LEMMA FinishFollowInv ==
  ASSUME Inv, sp > 0, ~ScriptFrame(sp), FinishFollow(Top),
         UNCHANGED <<depth, runtime, closed>>
  PROVE  StackOK' /\ EngineInv'
<1> DEFINE g == [Top EXCEPT !.pc = "AfterNavigation", !.follow = FALSE, !.prior = {}]
<1>1. "AfterNavigation" \in Pcs \ ScriptPcs
  BY DEF Pcs, Windows, HandlerPcs, ScriptPcs
<1>2. g \in FrameSet /\ g.pc = "AfterNavigation"
  BY <1>1, TopCall DEF Inv, FrameSet
<1>3. CASE Goto(g)
  <2> HIDE DEF g
  <2> QED BY <1>1, <1>2, <1>3, GotoStack, QuietGoto DEF Inv
<1>4. CASE Return
  BY <1>4, ReturnStack, QuietReturn DEF Inv
<1> QED BY <1>3, <1>4 DEF FinishFollow

LEMMA ThrowInv ==
  ASSUME Inv, sp > 0, ~ScriptFrame(sp), Throw(Top), UNCHANGED <<depth, runtime, closed>>
  PROVE  StackOK' /\ EngineInv' /\ obs' \in SUBSET Nat
<1>1. Top.prior \in SUBSET Nat /\ obs \in SUBSET Nat
  BY TopCall DEF Inv, TypeOK, FrameSet
<1>2. CASE FinishFollow(Top) /\ obs' = Top.prior
  BY <1>1, <1>2, FinishFollowInv
<1>3. CASE Return /\ obs' = obs
  BY <1>1, <1>3, ReturnStack, QuietReturn DEF Inv
<1> QED BY <1>2, <1>3 DEF Throw

(* Everything but the stack keeps its type. *)
DataOK ==
  /\ closed \in BOOLEAN /\ alive \in BOOLEAN
  /\ runtime \in {"absent", "null", "engine"}
  /\ doc \in Nat /\ calls \in Nat
  /\ pending \in {"none", "page", "offline"}
  /\ obs \in SUBSET Nat /\ owed \in SUBSET Nat

LEMMA Parts == Inv <=> DataOK /\ StackOK /\ EngineInv
BY DEF Inv, TypeOK, DataOK, StackOK, EngineInv

LEMMA PartsNext == DataOK' /\ StackOK' /\ EngineInv' => Inv'
BY DEF Inv, TypeOK, DataOK, StackOK, EngineInv

LEMMA PcOf ==
  ASSUME NEW pc, At(pc)
  PROVE  sp > 0 /\ Top.pc = pc /\ (ScriptFrame(sp) <=> pc \in ScriptPcs)
BY DEF At, ScriptFrame, Top

-----------------------------------------------------------------------------
(* Init and every step.                                                    *)
LEMMA InitInv == Init => Inv
<1> SUFFICES ASSUME Init PROVE Inv
  OBVIOUS
<1>1. DataOK
  BY DEF Init, DataOK
<1>2. StackOK
  BY NewFrames DEF Init, StackOK
<1>3. EngineInv
  BY DEF Init, EngineInv
<1> QED BY <1>1, <1>2, <1>3, Parts

LEMMA PcNames ==
  /\ {"BeforeNavigation", "BeforeRequest", "AfterResponse", "DocumentCreated",
      "DomMutation", "FetchScript", "BeforeScript", "AfterScript",
      "AfterNavigation", "ScriptException", "SessionDestroyed", "ScriptRequest",
      "Scripts", "Lifecycle", "Installed", "Following"} \subseteq Pcs \ ScriptPcs
  /\ {"Running", "Flushing", "Acting"} \subseteq Pcs /\ ScriptPcs = {"Running", "Flushing", "Acting"}
BY DEF Pcs, Windows, HandlerPcs, ScriptPcs, InnerPcs

LEMMA CallInv == ASSUME Inv, Navigate \/ PumpEvents PROVE Inv'
<1>1. \E op \in Operations, pc \in Pcs \ ScriptPcs :
        Push(Call(op, pc)) /\ sp < MaxNesting
  BY PcNames DEF Navigate, PumpEvents, MayCall, Operations
<1>2. PICK op \in Operations, pc \in Pcs \ ScriptPcs :
        Push(Call(op, pc)) /\ sp < MaxNesting
  BY <1>1
<1>3. UNCHANGED session /\ calls' = calls + 1
  BY DEF Navigate, PumpEvents, MayCall
<1>4. Call(op, pc) \in FrameSet /\ Call(op, pc).pc \notin ScriptPcs
  BY NewFrames
<1>5. StackOK' /\ EngineInv'
  BY <1>2, <1>3, <1>4, PushStack, QuietPush DEF Inv, session
<1>6. DataOK'
  BY <1>3, Parts DEF DataOK, session
<1> QED BY <1>5, <1>6, PartsNext

LEMMA LoadHtmlInv == ASSUME Inv, LoadHtml PROVE Inv'
<1> DEFINE f == Installing(Call("load_html", "DocumentCreated"))
<1>1. f \in FrameSet /\ f.pc \notin ScriptPcs
  <2>1. Call("load_html", "DocumentCreated") \in FrameSet /\ doc + 1 \in Nat
    BY NewFrames, PcNames, Parts DEF Operations, DataOK
  <2> QED BY <2>1, PcNames DEF Installing, FrameSet
<1>2. Push(f) /\ sp < MaxNesting /\ calls' = calls + 1
      /\ UNCHANGED <<closed, alive, runtime, depth>>
  BY DEF LoadHtml, MayCall
<1>3. DataOK'
  BY <1>2, Parts DEF DataOK, LoadHtml, Install, NoFrame
<1>4. StackOK' /\ EngineInv'
  <2> HIDE DEF f
  <2> QED BY <1>1, <1>2, PushStack, QuietPush DEF Inv
<1> QED BY <1>3, <1>4, PartsNext

LEMMA ScriptCallInv == ASSUME Inv, EvaluateJs \/ Act \/ SetViewport PROVE Inv'
<1>1. sp < MaxNesting /\ calls' = calls + 1
      /\ UNCHANGED <<closed, alive, runtime, doc, pending, obs, owed>>
  BY DEF EvaluateJs, Act, SetViewport, MayCall
<1>2. DataOK'
  BY <1>1, Parts DEF DataOK
<1>3. CASE Push(Call("evaluate_js", "ScriptException")) /\ depth' = depth
  <2>1. Call("evaluate_js", "ScriptException") \in FrameSet
        /\ Call("evaluate_js", "ScriptException").pc \notin ScriptPcs
    BY NewFrames, PcNames DEF Operations
  <2> QED BY <1>1, <1>2, <1>3, <2>1, PushStack, QuietPush, PartsNext DEF Inv
<1>4. CASE ~Refused /\ EnterScript /\ \E op \in Operations : Push(Call(op, "Acting"))
  <2>1. PICK op \in Operations : Push(Call(op, "Acting"))
    BY <1>4
  <2>2. Call(op, "Acting") \in FrameSet /\ Call(op, "Acting").pc \in ScriptPcs
    BY NewFrames, PcNames
  <2> QED BY <1>1, <1>2, <1>4, <2>1, <2>2, PushStack, EnterPush, PartsNext DEF Inv
<1>5. CASE EvaluateJs
  BY <1>3, <1>4, <1>5 DEF EvaluateJs, Operations
<1>6. CASE Act
  BY <1>4, <1>6 DEF Act, Operations
<1>7. CASE SetViewport
  BY <1>4, <1>7 DEF SetViewport, Operations, Refused
<1> QED BY <1>5, <1>6, <1>7

LEMMA CloseInv == ASSUME Inv, Close PROVE Inv'
<1>1. Call("close", "SessionDestroyed") \in FrameSet
      /\ Call("close", "SessionDestroyed").pc \notin ScriptPcs
  BY NewFrames, PcNames DEF Operations
<1>2. sp < MaxNesting /\ Push(Call("close", "SessionDestroyed")) /\ depth' = depth
      /\ runtime' = (IF depth = 0 THEN "absent" ELSE runtime) /\ calls' = calls + 1
  BY DEF Close, MayCall
<1>3. depth \in {0, 1}
  BY DEF Inv, EngineInv
<1>4. DataOK'
  <2>1. runtime' \in {"absent", "null", "engine"} /\ DataOK
    BY <1>2, <1>3, Parts DEF DataOK
  <2>2. closed' \in BOOLEAN
    BY Zenon DEF Close
  <2>3. UNCHANGED <<alive, doc, pending, obs, owed>>
    BY DEF Close
  <2> QED BY <1>2, <2>1, <2>2, <2>3 DEF DataOK
<1>5. StackOK'
  BY <1>1, <1>2, PushStack DEF Inv
<1>6. EngineInv'
  BY <1>1, <1>2, <1>3, QuietPush
<1> QED BY <1>4, <1>5, <1>6, PartsNext

LEMMA DestroyInv == ASSUME Inv, Destroy PROVE Inv'
<1>1. depth = 0 /\ depth' = 0 /\ sp' = sp /\ frames' = frames
  BY DEF Inv, EngineInv, Destroy
<1>2. DataOK' /\ StackOK'
  BY <1>1, Parts DEF Destroy, DataOK, StackOK
<1>3. EngineInv'
  BY <1>1 DEF Inv, EngineInv, Destroy, ScriptFrame
<1> QED BY <1>2, <1>3, PartsNext

(* Handler windows before and after the request, and the install events.   *)
LEMMA RequestInv ==
  ASSUME Inv, AfterBeforeNavigation \/ AfterBeforeRequest \/ AfterDocumentCreated
              \/ AfterAfterScript \/ AfterDomMutation \/ NextScript \/ AfterFetchScript
  PROVE  Inv'
<1>1. sp > 0 /\ ~ScriptFrame(sp) /\ Top \in FrameSet
  <2>1. \E pc \in Pcs \ ScriptPcs : At(pc)
    BY PcNames DEF AfterBeforeNavigation, AfterBeforeRequest, AfterDocumentCreated,
         AfterAfterScript, AfterDomMutation, NextScript, AfterFetchScript
  <2> QED BY <2>1, PcOf, TopCall DEF Inv
<1>2. UNCHANGED <<closed, alive, runtime, depth, doc, pending, owed, calls>>
  BY DEF AfterBeforeNavigation, AfterBeforeRequest, AfterDocumentCreated,
         AfterAfterScript, AfterDomMutation, NextScript, AfterFetchScript, session
<1>3. obs \in SUBSET Nat /\ Top.doc \in Nat
  BY <1>1, Parts DEF DataOK, FrameSet
<1>4. ASSUME StackOK', EngineInv', obs' \in SUBSET Nat PROVE Inv'
  BY <1>2, <1>4, Parts, PartsNext DEF DataOK
<1>5. CASE obs' \in SUBSET Nat /\ Return
  BY <1>1, <1>2, <1>4, <1>5, ReturnStack, QuietReturn DEF Inv
<1>6. CASE obs' \in SUBSET Nat /\ \E pc \in Pcs \ ScriptPcs : Step(Top, pc)
  BY <1>1, <1>2, <1>4, <1>6, QuietStep
<1>7. CASE Throw(Top)
  BY <1>1, <1>2, <1>4, <1>7, ThrowInv
<1>8. CASE obs' \in SUBSET Nat /\ \E n \in Nat, pc \in Pcs \ ScriptPcs :
             Goto([Top EXCEPT !.pc = pc, !.left = n])
  <2>1. PICK n \in Nat, pc \in Pcs \ ScriptPcs : Goto([Top EXCEPT !.pc = pc, !.left = n])
    BY <1>8
  <2>2. [Top EXCEPT !.pc = pc, !.left = n] \in FrameSet
        /\ [Top EXCEPT !.pc = pc, !.left = n].pc = pc
    BY <1>1 DEF FrameSet
  <2> QED BY <1>1, <1>2, <1>4, <1>8, <2>1, <2>2, GotoStack, QuietGoto DEF Inv
<1>10. CASE AfterBeforeNavigation
  BY <1>3, <1>5, <1>6, <1>10, PcNames DEF AfterBeforeNavigation, session
<1>11. CASE AfterBeforeRequest
  BY <1>3, <1>6, <1>7, <1>11, PcNames DEF AfterBeforeRequest
<1>12. CASE AfterDocumentCreated
  BY <1>3, <1>6, <1>7, <1>12, PcNames DEF AfterDocumentCreated
<1>13. CASE AfterDomMutation
  <2>1. CASE Throw(Top)
    BY <1>7, <2>1
  <2>2. CASE obs' = obs /\ \E n \in 0..MaxScripts :
               Goto([Top EXCEPT !.pc = "Scripts", !.left = n])
    <3>1. PICK n \in 0..MaxScripts : Goto([Top EXCEPT !.pc = "Scripts", !.left = n])
      BY <2>2
    <3>2. n \in Nat /\ "Scripts" \in Pcs \ ScriptPcs
      BY PcNames
    <3> QED BY <1>3, <1>8, <2>2, <3>1, <3>2
  <2> QED BY <1>13, <2>1, <2>2 DEF AfterDomMutation
<1>14. CASE NextScript
  <2>1. CASE Step(Top, "Lifecycle")
    BY <1>3, <1>6, <1>14, <2>1, PcNames DEF NextScript, session
  <2>2. CASE Top.left > 0 /\ \E pc \in {"BeforeScript", "FetchScript", "Scripts"} :
               Goto([Top EXCEPT !.pc = pc, !.left = Top.left - 1])
    <3>1. Top.left - 1 \in Nat
      BY <1>1, <2>2 DEF FrameSet
    <3> QED BY <1>3, <1>8, <1>14, <2>2, <3>1, PcNames DEF NextScript, session
  <2> QED BY <1>14, <2>1, <2>2 DEF NextScript
<1>15. CASE AfterFetchScript
  BY <1>3, <1>6, <1>15, PcNames DEF AfterFetchScript
<1>16. CASE AfterAfterScript
  BY <1>3, <1>6, <1>7, <1>16, PcNames DEF AfterAfterScript
<1> QED BY <1>10, <1>11, <1>12, <1>13, <1>14, <1>15, <1>16

(* The response is installed, or an exception leaves the request.          *)
LEMMA ResponseInv == ASSUME Inv, AfterAfterResponse PROVE Inv'
<1>1. sp > 0 /\ ~ScriptFrame(sp) /\ Top \in FrameSet
  BY PcOf, PcNames, TopCall DEF AfterAfterResponse, Inv
<1>2. UNCHANGED <<closed, alive, runtime, depth, calls>>
  BY DEF AfterAfterResponse
<1>3. doc + 1 \in Nat /\ DataOK
  BY Parts DEF DataOK
<1>4. CASE Throw(Top) /\ UNCHANGED <<doc, pending, owed>>
  BY <1>1, <1>2, <1>3, <1>4, ThrowInv, PartsNext DEF DataOK
<1>5. CASE Install(Top) /\ Goto(Installing(Top))
  <2>1. Installing(Top) \in FrameSet /\ Installing(Top).pc \notin ScriptPcs
    BY <1>1, <1>3, PcNames DEF Installing, FrameSet
  <2>2. StackOK' /\ EngineInv'
    BY <1>1, <1>2, <1>5, <2>1, GotoStack, QuietGoto DEF Inv
  <2>3. DataOK'
    BY <1>2, <1>3, <1>5 DEF DataOK, Install
  <2> QED BY <2>2, <2>3, PartsNext
<1> QED BY <1>4, <1>5 DEF AfterAfterResponse

(* Entering page scripts and lifecycle passes. *)
LEMMA EnterInv == ASSUME Inv, AfterBeforeScript \/ Lifecycle PROVE Inv'
<1>1. sp > 0 /\ ~ScriptFrame(sp) /\ Top \in FrameSet
  BY PcOf, PcNames, TopCall DEF AfterBeforeScript, Lifecycle, Inv
<1>2. UNCHANGED <<closed, alive, runtime, doc, pending, owed, calls>>
  BY DEF AfterBeforeScript, Lifecycle
<1>3. DataOK
  BY Parts
<1>4. CASE Throw(Top) /\ depth' = depth
  BY <1>1, <1>2, <1>3, <1>4, ThrowInv, PartsNext DEF DataOK
<1>5. CASE depth' = depth /\ obs' = obs /\ \E pc \in Pcs \ ScriptPcs : Step(Top, pc)
  BY <1>1, <1>2, <1>3, <1>5, QuietStep, PartsNext DEF DataOK
<1>6. CASE ~Refused /\ EnterScript /\ obs' = obs /\ \E pc \in ScriptPcs : Step(Top, pc)
  <2>1. PICK pc \in ScriptPcs : Step(Top, pc)
    BY <1>6
  <2>2. [Top EXCEPT !.pc = pc] \in FrameSet /\ [Top EXCEPT !.pc = pc].pc \in ScriptPcs
    BY <1>1, StepFrame, PcFacts
  <2>3. StackOK' /\ EngineInv'
    BY <1>1, <1>2, <1>6, <2>1, <2>2, GotoStack, EnterGoto DEF Inv, Step
  <2> QED BY <1>2, <1>3, <1>6, <2>3, PartsNext DEF DataOK
<1>7. CASE AfterBeforeScript
  BY <1>4, <1>5, <1>6, <1>7, PcNames DEF AfterBeforeScript
<1>8. CASE Lifecycle
  <2>1. AfterLifecycle(Top) \in Pcs \ ScriptPcs
    BY PcNames DEF AfterLifecycle
  <2> QED BY <1>5, <1>6, <1>8, <2>1, PcNames DEF Lifecycle
<1> QED BY <1>7, <1>8

(* Leaving them. *)
LEMMA LeaveInv == ASSUME Inv, ScriptReturn \/ FlushReturn \/ ActionReturn PROVE Inv'
<1>1. sp > 0 /\ ScriptFrame(sp) /\ Top \in FrameSet
  BY PcOf, PcNames, TopCall DEF ScriptReturn, FlushReturn, ActionReturn, Inv
<1>2. UNCHANGED <<closed, alive, doc, pending, obs, owed, calls>> /\ LeaveScript
  BY DEF ScriptReturn, FlushReturn, ActionReturn
<1>3. DataOK'
  <2>1. DataOK
    BY Parts
  <2>2. runtime' \in {"absent", "null", "engine"}
    BY <1>2, <2>1 DEF DataOK, LeaveScript
  <2> QED BY <1>2, <2>1, <2>2 DEF DataOK
<1>4. CASE Return
  BY <1>1, <1>2, <1>3, <1>4, ReturnStack, LeaveReturn, PartsNext DEF Inv
<1>5. CASE \E pc \in Pcs \ ScriptPcs : Step(Top, pc)
  <2>1. PICK pc \in Pcs \ ScriptPcs : Step(Top, pc)
    BY <1>5
  <2>2. [Top EXCEPT !.pc = pc] \in FrameSet /\ [Top EXCEPT !.pc = pc].pc = pc
    BY <1>1, StepFrame
  <2> QED BY <1>1, <1>2, <1>3, <2>1, <2>2, GotoStack, LeaveGoto, PartsNext DEF Inv, Step
<1>6. CASE Goto([Top EXCEPT !.pc = "Lifecycle", !.passes = @ + 1])
  <2> DEFINE g == [Top EXCEPT !.pc = "Lifecycle", !.passes = @ + 1]
  <2>1. g \in FrameSet /\ g.pc \notin ScriptPcs
    <3>1. Top.passes + 1 \in Nat
      BY <1>1 DEF FrameSet
    <3>2. g = [Top EXCEPT !.pc = "Lifecycle", !.passes = Top.passes + 1]
      BY <1>1 DEF FrameSet
    <3> QED BY <1>1, <3>1, <3>2, PcNames DEF FrameSet
  <2>2. Goto(g)
    BY <1>6
  <2> HIDE DEF g
  <2> QED BY <1>1, <1>2, <1>3, <2>1, <2>2, GotoStack, LeaveGoto, PartsNext DEF Inv
<1>7. CASE ScriptReturn
  BY <1>5, <1>7, PcNames DEF ScriptReturn
<1>8. CASE FlushReturn
  <2>1. AfterLifecycle(Top) \in Pcs \ ScriptPcs
    BY PcNames DEF AfterLifecycle
  <2> QED BY <1>5, <1>6, <1>8, <2>1 DEF FlushReturn
<1>9. CASE ActionReturn
  BY <1>4, <1>5, <1>9, PcNames DEF ActionReturn
<1> QED BY <1>7, <1>8, <1>9

(* The end of an install, the navigation loop and the last events.         *)
LEMMA FinishInv ==
  ASSUME Inv, Installed \/ Follow \/ LastEvent \/ AfterScriptRequest PROVE Inv'
<1>1. sp > 0 /\ ~ScriptFrame(sp) /\ Top \in FrameSet
  BY PcOf, PcNames, TopCall DEF Installed, Follow, LastEvent, AfterScriptRequest, Inv,
       ScriptFrame, Top
<1>2. UNCHANGED <<closed, alive, runtime, depth, doc, calls>>
  BY DEF Installed, Follow, LastEvent, AfterScriptRequest, session
<1>3. DataOK /\ Top.prior \in SUBSET Nat /\ Top.doc \in Nat /\ Top.hops \in Nat
  BY <1>1, Parts DEF FrameSet
<1>4. DataOK'
  BY <1>2, <1>3 DEF DataOK, Installed, Follow, LastEvent, AfterScriptRequest, session
<1>5. CASE Return
  BY <1>1, <1>2, <1>4, <1>5, ReturnStack, QuietReturn, PartsNext DEF Inv
<1>6. CASE Step(Top, "Following")
  BY <1>1, <1>2, <1>4, <1>6, QuietStep, PcNames, PartsNext
<1>7. CASE FinishFollow(Top)
  BY <1>1, <1>2, <1>4, <1>7, FinishFollowInv, PartsNext
<1>8. ASSUME NEW g \in FrameSet, g.pc \notin ScriptPcs, Goto(g) PROVE Inv'
  BY <1>1, <1>2, <1>4, <1>8, GotoStack, QuietGoto, PartsNext DEF Inv
<1>9. CASE Goto([Top EXCEPT !.pc = "Following", !.follow = FALSE, !.prior = {}])
  <2> DEFINE g == [Top EXCEPT !.pc = "Following", !.follow = FALSE, !.prior = {}]
  <2>1. g \in FrameSet /\ g.pc \notin ScriptPcs
    BY <1>1, PcNames DEF FrameSet
  <2>2. Goto(g)
    BY <1>9
  <2> HIDE DEF g
  <2> QED BY <1>8, <2>1, <2>2
<1>10. CASE Goto([Top EXCEPT !.pc = "BeforeRequest", !.hops = @ + 1,
                    !.follow = TRUE, !.via = pending, !.prior = obs])
  <2> DEFINE g == [Top EXCEPT !.pc = "BeforeRequest", !.hops = @ + 1,
                     !.follow = TRUE, !.via = pending, !.prior = obs]
  <2>1. g \in FrameSet /\ g.pc \notin ScriptPcs
    <3>1. Top.hops + 1 \in Nat
      BY <1>3
    <3>2. g = [Top EXCEPT !.pc = "BeforeRequest", !.hops = Top.hops + 1,
                 !.follow = TRUE, !.via = pending, !.prior = obs]
      BY <1>1 DEF FrameSet
    <3> QED BY <1>1, <1>3, <3>1, <3>2, PcNames DEF FrameSet, DataOK
  <2>2. Goto(g)
    BY <1>10
  <2> HIDE DEF g
  <2> QED BY <1>8, <2>1, <2>2
<1>11. CASE Installed
  BY <1>5, <1>6, <1>9, <1>11 DEF Installed
<1>12. CASE Follow
  BY <1>7, <1>10, <1>12 DEF Follow
<1>13. CASE LastEvent \/ AfterScriptRequest
  BY <1>5, <1>13 DEF LastEvent, AfterScriptRequest
<1> QED BY <1>11, <1>12, <1>13

(* What page scripts do, and steps that change nothing. *)
LEMMA PageScriptInv == ASSUME Inv, PageScript PROVE Inv'
<1>1. CASE ScriptFetch
  <2> DEFINE g == [Call("fetch", "ScriptRequest") EXCEPT !.doc = doc]
  <2>1. g \in FrameSet /\ g.pc \notin ScriptPcs
    <3>1. Call("fetch", "ScriptRequest") \in FrameSet
          /\ Call("fetch", "ScriptRequest").pc \notin ScriptPcs
      BY NewFrames, PcNames
    <3> QED BY <3>1, Parts DEF FrameSet, DataOK
  <2>2. Push(g) /\ sp < MaxNesting /\ UNCHANGED session /\ calls' = calls + 1
    BY <1>1 DEF ScriptFetch
  <2>3. StackOK' /\ EngineInv'
    <3> HIDE DEF g
    <3> QED BY <2>1, <2>2, PushStack, QuietPush DEF Inv, session
  <2>4. DataOK'
    BY <2>2, Parts DEF DataOK, session
  <2> QED BY <2>3, <2>4, PartsNext
<1>2. CASE ScriptNavigate
  <2>1. UNCHANGED <<closed, alive, runtime, depth, doc, obs, owed, sp, frames, calls>>
    BY <1>2 DEF ScriptNavigate
  <2>2. pending' \in {"none", "page", "offline"}
    BY <1>2, Parts DEF ScriptNavigate, DataOK
  <2>3. DataOK' /\ StackOK' /\ EngineInv'
    BY <2>1, <2>2, Parts DEF DataOK, StackOK, EngineInv, ScriptFrame
  <2> QED BY <2>3, PartsNext
<1> QED BY <1>1, <1>2 DEF PageScript

LEMMA NextInv == Inv /\ [Next]_vars => Inv'
<1> SUFFICES ASSUME Inv, [Next]_vars PROVE Inv'
  OBVIOUS
<1>1. CASE HostCall
  BY <1>1, CallInv, LoadHtmlInv, ScriptCallInv, CloseInv, DestroyInv DEF HostCall
<1>2. CASE PageScript
  BY <1>2, PageScriptInv
<1>3. CASE Progress
  BY <1>3, RequestInv, ResponseInv, EnterInv, LeaveInv, FinishInv DEF Progress
<1>4. CASE UNCHANGED vars
  BY <1>4 DEF vars, Inv, TypeOK, EngineInv, ScriptFrame
<1> QED BY <1>1, <1>2, <1>3, <1>4 DEF Next

-----------------------------------------------------------------------------
(* Every variable of a session keeps its type, whatever the host's handlers *)
(* and the page's scripts do between the steps of a call.                   *)
THEOREM SessionTypes == Spec => []TypeOK
<1>1. Inv => TypeOK
  BY DEF Inv
<1> QED BY <1>1, InitInv, NextInv, PTL DEF Spec

(* Session::execute_script and Session::close: the engine lives as long as  *)
(* a script of the session is on the stack.                                 *)
THEOREM EngineIsRetained == Spec => []EngineOutlivesScript
<1>1. Inv => EngineOutlivesScript
  BY DEF Inv, EngineInv, EngineOutlivesScript, ScriptFrame
<1> QED BY <1>1, InitInv, NextInv, PTL DEF Spec

(* ... and no longer, once the session is closed. *)
THEOREM EngineIsReleased == Spec => []ClosedReleasesEngine
<1>1. Inv => ClosedReleasesEngine
  BY DEF Inv, EngineInv, ClosedReleasesEngine, ScriptFrame
<1> QED BY <1>1, InitInv, NextInv, PTL DEF Spec

(* Session::close, ScriptScope and ~Session together: whichever comes last  *)
(* destroys the engine, and none does it under a running script.            *)
THEOREM EngineLifetimeHolds == Spec => []EngineLifetime
<1>1. EngineOutlivesScript /\ ClosedReleasesEngine => EngineLifetime
  BY DEF EngineLifetime
<1> QED BY <1>1, EngineIsRetained, EngineIsReleased, PTL

(* Re-entrant evaluation never stacks a second script on the engine. *)
THEOREM ScriptsDoNotNest == Spec => []OneScriptAtATime
<1>1. Inv => OneScriptAtATime
  BY DEF Inv, EngineInv, OneScriptAtATime, ScriptFrame
<1> QED BY <1>1, InitInv, NextInv, PTL DEF Spec

-----------------------------------------------------------------------------
(* Where a call is that follows a navigation of the page's; what is owed is *)
(* then in the observations it will restore, and else in the session's.     *)
FollowPcs == {"BeforeRequest", "AfterResponse", "DocumentCreated", "DomMutation",
              "Scripts", "FetchScript", "BeforeScript", "Running", "AfterScript",
              "Lifecycle", "Flushing", "Installed"}
KeepsOwed(f, known, due) ==
  IF f.follow THEN f.pc \in FollowPcs /\ due \subseteq f.prior ELSE due \subseteq known

(* A call from a handler that only closes or evaluates, or a page's request.*)
NestedCall(f) ==
  \/ f.pc \in {"SessionDestroyed", "ScriptRequest", "ScriptException"}
  \/ f.pc = "Acting" /\ f.op = "evaluate_js"

KeptInv ==
  /\ sp = 0 => owed \subseteq obs
  /\ sp > 0 => KeepsOwed(frames[1], obs, owed)
  /\ \A i \in 2..sp : NestedCall(frames[i])

(* The moves: of the outermost call, of a nested one, and a new call.       *)
LEMMA OuterGoes ==
  ASSUME TypeOK, sp = 1, NEW f \in FrameSet, Goto(f), KeepsOwed(f, obs', owed')
  PROVE  KeptInv'
<1>1. sp' = 1 /\ frames'[1] = f
  BY GotoStack
<1> QED BY <1>1 DEF KeptInv

LEMMA OuterReturns ==
  ASSUME sp = 1, Return, owed' \subseteq obs'
  PROVE  KeptInv'
<1>1. sp' = 0
  BY DEF Return
<1> QED BY <1>1 DEF KeptInv

LEMMA OuterSteps ==
  ASSUME TypeOK, sp = 1, KeptInv, NEW pc \in Pcs, Step(Top, pc),
         pc \in FollowPcs \/ ~Top.follow, owed' = owed, obs \subseteq obs'
  PROVE  KeptInv'
<1> DEFINE f == [Top EXCEPT !.pc = pc]
<1>1. Top \in FrameSet /\ Top = frames[1]
  BY TopCall DEF Top
<1>2. f \in FrameSet /\ f.pc = pc /\ f.follow = Top.follow /\ f.prior = Top.prior
  BY <1>1 DEF FrameSet
<1>3. KeepsOwed(Top, obs, owed) /\ Goto(f)
  BY <1>1 DEF KeptInv, Step
<1> HIDE DEF f
<1>4. KeepsOwed(f, obs', owed')
  BY <1>2, <1>3 DEF KeepsOwed
<1> QED BY <1>2, <1>3, <1>4, OuterGoes

LEMMA NestedReturns ==
  ASSUME TypeOK, KeptInv, sp > 1, Return, owed' = owed, obs \subseteq obs'
  PROVE  KeptInv'
<1>1. sp' = sp - 1 /\ sp \in Nat /\ \A i \in 1..sp' : frames'[i] = frames[i]
  BY ReturnStack DEF TypeOK
<1>2. frames'[1] = frames[1] /\ sp' > 0 /\ \A i \in 2..sp' : i \in 2..sp /\ frames'[i] = frames[i]
  BY <1>1
<1>3. KeepsOwed(frames[1], obs, owed)
  BY <1>1 DEF KeptInv
<1>4. KeepsOwed(frames[1], obs', owed')
  BY <1>3 DEF KeepsOwed
<1> QED BY <1>2, <1>4 DEF KeptInv

LEMMA NestedGoes ==
  ASSUME TypeOK, KeptInv, sp > 1, NEW f \in FrameSet, NestedCall(f), Goto(f), owed' = owed, obs \subseteq obs'
  PROVE  KeptInv'
<1>1. sp' = sp /\ sp \in Nat /\ frames'[sp] = f /\ \A i \in 1..sp : i # sp => frames'[i] = frames[i]
  BY GotoStack DEF TypeOK
<1>2. frames'[1] = frames[1] /\ sp' > 0
  BY <1>1
<1>3. KeepsOwed(frames[1], obs, owed)
  BY <1>1 DEF KeptInv
<1>4. KeepsOwed(frames[1], obs', owed')
  BY <1>3 DEF KeepsOwed
<1>5. \A i \in 2..sp' : NestedCall(frames'[i])
  BY <1>1 DEF KeptInv
<1> QED BY <1>2, <1>4, <1>5 DEF KeptInv

LEMMA CallPushed ==
  ASSUME TypeOK, KeptInv, sp < MaxNesting, NEW f \in FrameSet, Push(f), ~f.follow, sp > 0 => NestedCall(f),
         owed' \subseteq owed, obs' = obs \/ (sp = 0 /\ owed' = {})
  PROVE  KeptInv'
<1>1. sp' = sp + 1 /\ sp \in Nat /\ frames'[sp + 1] = f /\ \A i \in 1..sp : frames'[i] = frames[i]
  BY PushStack DEF TypeOK
<1>2. CASE sp = 0
  <2>1. owed' \subseteq obs'
    BY <1>2 DEF KeptInv
  <2>2. frames'[1] = f /\ sp' = 1
    BY <1>1, <1>2
  <2>3. KeepsOwed(f, obs', owed')
    BY <2>1 DEF KeepsOwed
  <2> QED BY <2>2, <2>3 DEF KeptInv
<1>3. CASE sp > 0
  <2>1. frames'[1] = frames[1] /\ sp' > 0
    BY <1>1, <1>3
  <2>2. KeepsOwed(frames[1], obs, owed)
    BY <1>3 DEF KeptInv
  <2>3. KeepsOwed(frames[1], obs', owed')
    BY <1>3, <2>2 DEF KeepsOwed
  <2>4. ASSUME NEW i \in 2..sp' PROVE NestedCall(frames'[i])
    <3>1. i = sp + 1 \/ i \in 2..sp
      BY <1>1
    <3>2. CASE i = sp + 1
      BY <1>1, <1>3, <3>2
    <3>3. CASE i \in 2..sp
      BY <1>1, <3>3 DEF KeptInv
    <3> QED BY <3>1, <3>2, <3>3
  <2> QED BY <2>1, <2>3, <2>4 DEF KeptInv
<1> QED BY <1>1, <1>2, <1>3

(* A call that is neither of the nested kind is the outermost.              *)
LEMMA IsOutermost ==
  ASSUME TypeOK, KeptInv, sp > 0, ~NestedCall(Top)
  PROVE  sp = 1 /\ Top = frames[1] /\ KeepsOwed(Top, obs, owed)
<1>1. sp \in Nat /\ ~(sp \in 2..sp)
  BY DEF TypeOK, KeptInv, Top
<1>2. sp = 1
  BY <1>1
<1> QED BY <1>2 DEF KeptInv, Top

LEMMA CallFrames ==
  /\ ~NoFrame.follow
  /\ \A op \in Operations \cup {"fetch"}, pc \in Pcs : ~Call(op, pc).follow /\ Call(op, pc).op = op
<1>1. ASSUME NEW op \in Operations \cup {"fetch"}, NEW pc \in Pcs PROVE ~Call(op, pc).follow /\ Call(op, pc).op = op
  BY DEF Call, NoFrame
<1> QED BY <1>1 DEF NoFrame

LEMMA FinishKeeps ==
  ASSUME TypeOK, sp = 1, FinishFollow(Top), owed' \subseteq obs'
  PROVE  KeptInv'
<1> DEFINE g == [Top EXCEPT !.pc = "AfterNavigation", !.follow = FALSE, !.prior = {}]
<1>0. Top \in FrameSet /\ "AfterNavigation" \in Pcs
  BY TopCall, PcNames
<1>1. g \in FrameSet /\ ~g.follow
  BY <1>0 DEF FrameSet
<1>2. CASE Goto(g)
  <2> HIDE DEF g
  <2>1. KeepsOwed(g, obs', owed')
    BY <1>1 DEF KeepsOwed
  <2> QED BY <1>1, <1>2, <2>1, OuterGoes
<1>3. CASE Return
  BY <1>3, OuterReturns
<1> QED BY <1>2, <1>3 DEF FinishFollow

LEMMA ThrowKeeps ==
  ASSUME TypeOK, KeptInv, sp = 1, Throw(Top), owed' = owed
  PROVE  KeptInv'
<1>1. KeepsOwed(Top, obs, owed) /\ Top \in FrameSet
  BY TopCall DEF KeptInv, Top
<1>2. CASE Top.follow
  <2>1. FinishFollow(Top) /\ obs' = Top.prior /\ owed \subseteq Top.prior
    BY <1>1, <1>2 DEF Throw, KeepsOwed
  <2> QED BY <2>1, FinishKeeps
<1>3. CASE ~Top.follow
  <2>1. Return /\ obs' = obs /\ owed \subseteq obs
    BY <1>1, <1>3 DEF Throw, KeepsOwed
  <2> QED BY <2>1, OuterReturns
<1> QED BY <1>2, <1>3

LEMMA Refreshed ==
  ASSUME TypeOK, NEW g \in FrameSet
  PROVE  Installing(g) \in FrameSet /\ Installing(g).follow = g.follow
<1> DEFINE d == doc + 1
           f == [g EXCEPT !.pc = "DocumentCreated", !.doc = d, !.passes = 0]
<1>1. "DocumentCreated" \in Pcs /\ d \in Nat
  BY PcNames DEF TypeOK
<1>2. Installing(g) = f
  BY DEF Installing
<1> HIDE DEF d
<1>3. f \in FrameSet /\ f.follow = g.follow
  BY <1>1 DEF FrameSet
<1> HIDE DEF f
<1> QED BY <1>2, <1>3

(* One lemma for the calls and what a page's script does, one for each      *)
(* group of steps of a call.                                                *)
LEMMA HostCallKeeps ==
  ASSUME HookCalls \subseteq {"close", "evaluate_js"}, TypeOK, KeptInv, HostCall
  PROVE  KeptInv'
<1>1. CASE Destroy
  BY <1>1 DEF Destroy, KeptInv
<1>2. CASE Navigate \/ PumpEvents \/ Act \/ SetViewport
  <2>1. PICK op \in {"navigate", "pump_events", "act", "set_viewport"}, pc \in Pcs :
          MayCall(op) /\ Push(Call(op, pc)) /\ obs' = obs /\ owed' = owed
    BY <1>2, PcNames DEF Navigate, PumpEvents, Act, SetViewport, session
  <2>2. sp < MaxNesting /\ ~(sp > 0) /\ op \in Operations
    BY <2>1 DEF MayCall, Operations
  <2>3. Call(op, pc) \in FrameSet /\ ~Call(op, pc).follow
    BY <2>2, NewFrames, CallFrames
  <2> QED BY <2>1, <2>2, <2>3, CallPushed
<1>3. CASE LoadHtml
  <2> DEFINE f == Installing(Call("load_html", "DocumentCreated"))
  <2>1. Push(f) /\ sp < MaxNesting /\ ~(sp > 0) /\ owed' = {}
    <3>1. Push(f) /\ MayCall("load_html") /\ Install(NoFrame)
      BY <1>3 DEF LoadHtml
    <3>2. owed' = {}
      BY <3>1, CallFrames DEF Install
    <3>3. sp < MaxNesting /\ ~(sp > 0)
      BY <3>1 DEF MayCall
    <3> QED BY <3>1, <3>2, <3>3
  <2>2. f \in FrameSet /\ ~f.follow
    <3> DEFINE g == Call("load_html", "DocumentCreated")
    <3>1. g \in FrameSet /\ ~g.follow /\ f = Installing(g)
      BY NewFrames, CallFrames, PcNames DEF Operations
    <3> HIDE DEF g
    <3>2. Installing(g) \in FrameSet /\ Installing(g).follow = g.follow
      BY <3>1, Refreshed
    <3> HIDE DEF f
    <3> QED BY <3>1, <3>2
  <2>3. sp = 0
    BY <2>1 DEF TypeOK
  <2> HIDE DEF f
  <2> QED BY <2>1, <2>2, <2>3, CallPushed
<1>4. CASE EvaluateJs
  <2>1. PICK pc \in {"ScriptException", "Acting"} : Push(Call("evaluate_js", pc))
    BY <1>4 DEF EvaluateJs
  <2>2. sp < MaxNesting /\ obs' = obs /\ owed' = owed
    BY <1>4 DEF EvaluateJs, MayCall
  <2> DEFINE f == Call("evaluate_js", pc)
  <2>3. f \in FrameSet /\ ~f.follow /\ f.op = "evaluate_js" /\ f.pc = pc
    BY NewFrames, CallFrames, PcNames DEF Operations
  <2> HIDE DEF f
  <2>4. NestedCall(f)
    BY <2>3 DEF NestedCall
  <2>5. Push(f)
    BY <2>1 DEF f
  <2> QED BY <2>2, <2>3, <2>4, <2>5, CallPushed
<1>5. CASE Close
  <2> DEFINE f == Call("close", "SessionDestroyed")
  <2>1. Push(f) /\ sp < MaxNesting /\ obs' = obs /\ owed' = owed
    BY <1>5 DEF Close, MayCall
  <2>2. f \in FrameSet /\ ~f.follow /\ f.pc = "SessionDestroyed"
    BY NewFrames, CallFrames, PcNames DEF Operations
  <2> HIDE DEF f
  <2>3. NestedCall(f)
    BY <2>2 DEF NestedCall
  <2> QED BY <2>1, <2>2, <2>3, CallPushed
<1> QED BY <1>1, <1>2, <1>3, <1>4, <1>5 DEF HostCall

LEMMA PageScriptKeeps ==
  ASSUME TypeOK, KeptInv, PageScript
  PROVE  KeptInv'
<1>1. CASE ScriptNavigate
  BY <1>1 DEF ScriptNavigate, KeptInv
<1>2. CASE ScriptFetch
  <2> DEFINE g == Call("fetch", "ScriptRequest")
             f == [g EXCEPT !.doc = doc]
  <2>1. g \in FrameSet /\ ~g.follow /\ g.pc = "ScriptRequest"
    BY NewFrames, CallFrames, PcNames
  <2>2. Push(f) /\ sp < MaxNesting /\ obs' = obs /\ owed' = owed
    BY <1>2 DEF ScriptFetch, session
  <2> HIDE DEF g
  <2>3. f \in FrameSet /\ ~f.follow /\ f.pc = "ScriptRequest"
    BY <2>1 DEF FrameSet, TypeOK
  <2> HIDE DEF f
  <2>4. NestedCall(f)
    BY <2>3 DEF NestedCall
  <2> QED BY <2>2, <2>3, <2>4, CallPushed
<1> QED BY <1>1, <1>2 DEF PageScript

NestedPcs == {"SessionDestroyed", "ScriptRequest", "ScriptException", "Acting"}
LEMMA OuterAt ==
  ASSUME TypeOK, KeptInv, NEW pc, pc \notin NestedPcs, At(pc)
  PROVE  sp = 1 /\ sp > 0 /\ Top = frames[1] /\ KeepsOwed(Top, obs, owed) /\ Top \in FrameSet /\ Top.pc = pc
<1>1. sp > 0 /\ Top.pc = pc /\ Top \in FrameSet
  BY TopCall DEF At
<1>2. ~NestedCall(Top)
  BY <1>1 DEF NestedCall, NestedPcs
<1> QED BY <1>1, <1>2, IsOutermost

(* A step that may throw, and else goes on with what was observed.          *)
LEMMA LoadKeeps ==
  ASSUME TypeOK, KeptInv,
         AfterBeforeRequest \/ AfterDocumentCreated \/ AfterDomMutation \/ AfterBeforeScript \/ AfterAfterScript
  PROVE  KeptInv'
<1>1. CASE AfterBeforeRequest
  <2>1. sp = 1 /\ owed' = owed
    BY <1>1, OuterAt DEF AfterBeforeRequest, NestedPcs
  <2>2. CASE Throw(Top)
    BY <2>1, <2>2, ThrowKeeps
  <2>3. CASE Step(Top, "AfterResponse") /\ obs' = obs
    BY <2>1, <2>3, OuterSteps, PcNames DEF FollowPcs
  <2> QED BY <1>1, <2>2, <2>3 DEF AfterBeforeRequest
<1>2. CASE AfterDocumentCreated
  <2>1. sp = 1 /\ owed' = owed
    BY <1>2, OuterAt DEF AfterDocumentCreated, NestedPcs
  <2>2. CASE Throw(Top)
    BY <2>1, <2>2, ThrowKeeps
  <2>3. CASE (Step(Top, "DomMutation") \/ Step(Top, "Installed")) /\ obs' = obs
    BY <2>1, <2>3, OuterSteps, PcNames DEF FollowPcs
  <2> QED BY <1>2, <2>2, <2>3 DEF AfterDocumentCreated
<1>3. CASE AfterDomMutation
  <2>1. sp = 1 /\ owed' = owed /\ KeepsOwed(Top, obs, owed) /\ Top \in FrameSet
    BY <1>3, OuterAt DEF AfterDomMutation, NestedPcs
  <2>2. CASE Throw(Top)
    BY <2>1, <2>2, ThrowKeeps
  <2>3. ASSUME NEW n \in 0..MaxScripts, Goto([Top EXCEPT !.pc = "Scripts", !.left = n]), obs' = obs PROVE KeptInv'
    <3> DEFINE f == [Top EXCEPT !.pc = "Scripts", !.left = n]
    <3>0. "Scripts" \in Pcs /\ n \in Nat
      BY PcNames
    <3>1. f \in FrameSet /\ f.pc = "Scripts" /\ f.follow = Top.follow /\ f.prior = Top.prior
      BY <2>1, <3>0 DEF FrameSet
    <3>2. Goto(f)
      BY <2>3
    <3> HIDE DEF f
    <3>3. KeepsOwed(f, obs', owed')
      BY <2>1, <2>3, <3>1 DEF KeepsOwed, FollowPcs
    <3> QED BY <2>1, <3>1, <3>2, <3>3, OuterGoes
  <2> QED BY <1>3, <2>2, <2>3 DEF AfterDomMutation
<1>4. CASE AfterBeforeScript
  <2>1. sp = 1 /\ owed' = owed
    BY <1>4, OuterAt DEF AfterBeforeScript, NestedPcs
  <2>2. CASE Throw(Top)
    BY <2>1, <2>2, ThrowKeeps
  <2>3. CASE (Step(Top, "Lifecycle") \/ Step(Top, "AfterScript") \/ Step(Top, "Running")) /\ obs' = obs
    BY <2>1, <2>3, OuterSteps, PcNames DEF FollowPcs
  <2> QED BY <1>4, <2>2, <2>3 DEF AfterBeforeScript
<1>5. CASE AfterAfterScript
  <2>1. sp = 1 /\ owed' = owed
    BY <1>5, OuterAt DEF AfterAfterScript, NestedPcs
  <2>2. CASE Throw(Top)
    BY <2>1, <2>2, ThrowKeeps
  <2>3. CASE (Step(Top, "Lifecycle") \/ Step(Top, "Scripts")) /\ obs' = obs
    BY <2>1, <2>3, OuterSteps, PcNames DEF FollowPcs
  <2> QED BY <1>5, <2>2, <2>3 DEF AfterAfterScript
<1> QED BY <1>1, <1>2, <1>3, <1>4, <1>5

(* A response, and the document made of it.                                 *)
LEMMA ResponseKeeps ==
  ASSUME TypeOK, KeptInv, AfterAfterResponse
  PROVE  KeptInv'
<1>1. sp = 1 /\ KeepsOwed(Top, obs, owed) /\ Top \in FrameSet
  BY OuterAt DEF AfterAfterResponse, NestedPcs
<1>2. CASE Throw(Top) /\ owed' = owed
  BY <1>1, <1>2, ThrowKeeps
<1>3. CASE Install(Top) /\ Goto(Installing(Top))
  <2> DEFINE d == doc + 1
             f == [Top EXCEPT !.pc = "DocumentCreated", !.doc = d, !.passes = 0]
  <2>1. "DocumentCreated" \in Pcs /\ d \in Nat
    BY PcNames DEF TypeOK
  <2>2. Goto(f) /\ obs' = {} /\ owed' = (IF Top.follow THEN owed ELSE {})
    BY <1>3 DEF Install, Installing
  <2> HIDE DEF d
  <2>3. f \in FrameSet /\ f.pc = "DocumentCreated" /\ f.follow = Top.follow /\ f.prior = Top.prior
    BY <1>1, <2>1 DEF FrameSet
  <2> HIDE DEF f
  <2>4. KeepsOwed(f, obs', owed')
    BY <1>1, <2>2, <2>3 DEF KeepsOwed, FollowPcs
  <2> QED BY <1>1, <2>2, <2>3, <2>4, OuterGoes
<1> QED BY <1>2, <1>3 DEF AfterAfterResponse

(* The loop over the scripts, and the lifecycle.                            *)
LEMMA ScriptsKeep ==
  ASSUME TypeOK, KeptInv, NextScript \/ AfterFetchScript \/ ScriptReturn \/ Lifecycle \/ FlushReturn
  PROVE  KeptInv'
<1>1. CASE NextScript
  <2>1. sp = 1 /\ owed' = owed /\ obs' = obs /\ KeepsOwed(Top, obs, owed) /\ Top \in FrameSet
    BY <1>1, OuterAt DEF NextScript, NestedPcs, session
  <2>2. CASE Step(Top, "Lifecycle")
    BY <2>1, <2>2, OuterSteps, PcNames DEF FollowPcs
  <2>3. ASSUME NEW pc \in {"BeforeScript", "FetchScript", "Scripts"}, Top.left > 0,
               Goto([Top EXCEPT !.pc = pc, !.left = @ - 1])
        PROVE  KeptInv'
    <3> DEFINE n == Top.left - 1
               f == [Top EXCEPT !.pc = pc, !.left = n]
    <3>1. pc \in Pcs /\ Goto(f)
      BY <2>3, PcNames
    <3>2. n \in Nat
      BY <2>1, <2>3 DEF FrameSet
    <3> HIDE DEF n
    <3>3. f \in FrameSet /\ f.pc = pc /\ f.follow = Top.follow /\ f.prior = Top.prior
      BY <2>1, <3>1, <3>2 DEF FrameSet
    <3> HIDE DEF f
    <3>4. KeepsOwed(f, obs', owed')
      BY <2>1, <3>3 DEF KeepsOwed, FollowPcs
    <3> QED BY <2>1, <3>1, <3>3, <3>4, OuterGoes
  <2> QED BY <1>1, <2>2, <2>3 DEF NextScript
<1>2. CASE AfterFetchScript
  <2>1. sp = 1 /\ owed' = owed
    BY <1>2, OuterAt DEF AfterFetchScript, NestedPcs
  <2>2. (Step(Top, "Scripts") \/ Step(Top, "BeforeScript")) /\ obs \subseteq obs'
    BY <1>2 DEF AfterFetchScript
  <2> QED BY <2>1, <2>2, OuterSteps, PcNames DEF FollowPcs
<1>3. CASE ScriptReturn
  <2>1. sp = 1 /\ owed' = owed /\ obs' = obs /\ Step(Top, "AfterScript")
    BY <1>3, OuterAt DEF ScriptReturn, NestedPcs
  <2> QED BY <2>1, OuterSteps, PcNames DEF FollowPcs
<1>4. ASSUME sp = 1, Step(Top, AfterLifecycle(Top)), owed' = owed, obs' = obs PROVE KeptInv'
  <2>1. AfterLifecycle(Top) \in Pcs /\ (AfterLifecycle(Top) \in FollowPcs \/ ~Top.follow)
    BY PcNames DEF AfterLifecycle, FollowPcs
  <2> DEFINE pc == AfterLifecycle(Top)
  <2>2. Step(Top, pc) /\ pc \in Pcs /\ (pc \in FollowPcs \/ ~Top.follow)
    BY <1>4, <2>1
  <2> HIDE DEF pc
  <2> QED BY <1>4, <2>2, OuterSteps
<1>5. CASE Lifecycle
  <2>1. sp = 1 /\ owed' = owed /\ obs' = obs
    BY <1>5, OuterAt DEF Lifecycle, NestedPcs
  <2>2. CASE Step(Top, AfterLifecycle(Top))
    BY <1>4, <2>1, <2>2
  <2>3. CASE Step(Top, "Flushing")
    BY <2>1, <2>3, OuterSteps, PcNames DEF FollowPcs
  <2> QED BY <1>5, <2>2, <2>3 DEF Lifecycle
<1>6. CASE FlushReturn
  <2>1. sp = 1 /\ owed' = owed /\ obs' = obs /\ KeepsOwed(Top, obs, owed) /\ Top \in FrameSet
    BY <1>6, OuterAt DEF FlushReturn, NestedPcs
  <2>2. CASE Step(Top, AfterLifecycle(Top))
    BY <1>4, <2>1, <2>2
  <2>3. CASE Goto([Top EXCEPT !.pc = "Lifecycle", !.passes = @ + 1])
    <3> DEFINE n == Top.passes + 1
               f == [Top EXCEPT !.pc = "Lifecycle", !.passes = n]
    <3>1. "Lifecycle" \in Pcs /\ Goto(f)
      BY <2>3, PcNames
    <3>2. n \in Nat
      BY <2>1 DEF FrameSet
    <3> HIDE DEF n
    <3>3. f \in FrameSet /\ f.pc = "Lifecycle" /\ f.follow = Top.follow /\ f.prior = Top.prior
      BY <2>1, <3>1, <3>2 DEF FrameSet
    <3> HIDE DEF f
    <3>4. KeepsOwed(f, obs', owed')
      BY <2>1, <3>3 DEF KeepsOwed, FollowPcs
    <3> QED BY <2>1, <3>1, <3>3, <3>4, OuterGoes
  <2> QED BY <1>6, <2>2, <2>3 DEF FlushReturn
<1> QED BY <1>1, <1>2, <1>3, <1>5, <1>6

(* A navigation of the page's is recorded, followed or given up.            *)
LEMMA FollowKeeps ==
  ASSUME TypeOK, KeptInv, AfterBeforeNavigation \/ Installed \/ Follow
  PROVE  KeptInv'
<1>1. CASE AfterBeforeNavigation
  <2>1. sp = 1 /\ owed' = owed /\ obs' = obs /\ KeepsOwed(Top, obs, owed) /\ Top.pc = "BeforeNavigation"
    BY <1>1, OuterAt DEF AfterBeforeNavigation, NestedPcs, session
  <2>2. owed \subseteq obs
    BY <2>1 DEF KeepsOwed, FollowPcs
  <2>3. CASE Return
    BY <2>1, <2>2, <2>3, OuterReturns
  <2>4. CASE Step(Top, "BeforeRequest")
    BY <2>1, <2>4, OuterSteps, PcNames DEF FollowPcs
  <2> QED BY <1>1, <2>3, <2>4 DEF AfterBeforeNavigation
<1>2. CASE Installed
  <2>1. sp = 1 /\ owed' = owed /\ KeepsOwed(Top, obs, owed) /\ Top \in FrameSet
    BY <1>2, OuterAt DEF Installed, NestedPcs
  <2>2. CASE Top.follow /\ obs' = obs \cup Top.prior \cup {Top.doc}
             /\ Goto([Top EXCEPT !.pc = "Following", !.follow = FALSE, !.prior = {}])
    <3> DEFINE f == [Top EXCEPT !.pc = "Following", !.follow = FALSE, !.prior = {}]
    <3>0. "Following" \in Pcs
      BY PcNames
    <3>1. f \in FrameSet /\ ~f.follow
      BY <2>1, <3>0 DEF FrameSet
    <3>2. Goto(f) /\ owed' \subseteq obs'
      BY <2>1, <2>2 DEF KeepsOwed
    <3> HIDE DEF f
    <3>3. KeepsOwed(f, obs', owed')
      BY <3>1, <3>2 DEF KeepsOwed
    <3> QED BY <2>1, <3>1, <3>2, <3>3, OuterGoes
  <2>3. CASE ~Top.follow /\ Return /\ obs' = obs
    BY <2>1, <2>3, OuterReturns DEF KeepsOwed
  <2>4. CASE ~Top.follow /\ Step(Top, "Following") /\ obs' = obs
    BY <2>1, <2>4, OuterSteps, PcNames
  <2> QED BY <1>2, <2>2, <2>3, <2>4 DEF Installed
<1>3. CASE Follow
  <2>1. sp = 1 /\ obs' = obs /\ KeepsOwed(Top, obs, owed) /\ Top \in FrameSet /\ Top.pc = "Following"
    BY <1>3, OuterAt DEF Follow, NestedPcs
  <2>2. owed \subseteq obs
    BY <2>1 DEF KeepsOwed, FollowPcs
  <2>3. owed' \subseteq obs'
    BY <1>3, <2>1, <2>2 DEF Follow
  <2>4. CASE FinishFollow(Top)
    BY <2>1, <2>3, <2>4, FinishKeeps
  <2>5. CASE Goto([Top EXCEPT !.pc = "BeforeRequest", !.hops = @ + 1, !.follow = TRUE, !.via = pending, !.prior = obs])
    <3> DEFINE n == Top.hops + 1
               f == [Top EXCEPT !.pc = "BeforeRequest", !.hops = n, !.follow = TRUE, !.via = pending, !.prior = obs]
    <3>1. "BeforeRequest" \in Pcs /\ Goto(f) /\ pending \in {"none", "page", "offline"} /\ obs \in SUBSET Nat
      BY <2>5, PcNames DEF TypeOK
    <3>2. n \in Nat
      BY <2>1 DEF FrameSet
    <3> HIDE DEF n
    <3>3. f \in FrameSet /\ f.pc = "BeforeRequest" /\ f.follow = TRUE /\ f.prior = obs
      BY <2>1, <3>1, <3>2 DEF FrameSet
    <3> HIDE DEF f
    <3>4. KeepsOwed(f, obs', owed')
      BY <2>1, <2>3, <3>3 DEF KeepsOwed, FollowPcs
    <3> QED BY <2>1, <3>1, <3>3, <3>4, OuterGoes
  <2> QED BY <1>3, <2>4, <2>5 DEF Follow
<1> QED BY <1>1, <1>2, <1>3

(* The ends of calls: of the outermost, or of one nested in it.             *)
LEMMA EndsKeep ==
  ASSUME TypeOK, KeptInv, ActionReturn \/ LastEvent \/ AfterScriptRequest
  PROVE  KeptInv'
<1>0. sp \in Nat /\ sp > 0 /\ Top \in FrameSet /\ owed' = owed /\ obs \subseteq obs' /\ Top.pc \notin FollowPcs
  <2>1. sp > 0 /\ Top.pc \notin FollowPcs /\ owed' = owed /\ obs \subseteq obs'
    BY DEF ActionReturn, LastEvent, AfterScriptRequest, At, FollowPcs, session
  <2> QED BY <2>1, TopCall DEF TypeOK
<1>1. ASSUME sp = 1 PROVE KeepsOwed(Top, obs, owed) /\ ~Top.follow /\ owed \subseteq obs
  <2>1. KeepsOwed(Top, obs, owed)
    BY <1>1 DEF KeptInv, Top
  <2> QED BY <1>0, <2>1 DEF KeepsOwed
<1>2. ASSUME sp > 1 PROVE NestedCall(Top)
  BY <1>0, <1>2 DEF KeptInv, Top
<1>3. CASE Return
  <2>1. CASE sp = 1
    BY <1>0, <1>1, <1>3, <2>1, OuterReturns
  <2>2. CASE sp > 1
    BY <1>0, <1>3, <2>2, NestedReturns
  <2> QED BY <1>0, <2>1, <2>2
<1>4. CASE Step(Top, "ScriptException")
  <2>1. CASE sp = 1
    BY <1>0, <1>1, <1>4, <2>1, OuterSteps, PcNames
  <2>2. CASE sp > 1
    <3> DEFINE f == [Top EXCEPT !.pc = "ScriptException"]
    <3>0. "ScriptException" \in Pcs
      BY PcNames
    <3>1. f \in FrameSet /\ f.pc = "ScriptException" /\ Goto(f)
      BY <1>0, <1>4, <3>0, StepFrame DEF Step
    <3> HIDE DEF f
    <3>2. NestedCall(f)
      BY <3>1 DEF NestedCall
    <3> QED BY <1>0, <2>2, <3>1, <3>2, NestedGoes
  <2> QED BY <1>0, <2>1, <2>2
<1>5. CASE ActionReturn /\ Top.op # "evaluate_js" /\ Step(Top, "Lifecycle")
  <2>1. ~NestedCall(Top)
    BY <1>5 DEF NestedCall, ActionReturn, At
  <2>2. sp = 1
    BY <1>0, <1>2, <2>1
  <2> QED BY <1>0, <1>1, <1>5, <2>2, OuterSteps, PcNames
<1> QED BY <1>3, <1>4, <1>5 DEF ActionReturn, LastEvent, AfterScriptRequest

LEMMA KeptStep ==
  ASSUME HookCalls \subseteq {"close", "evaluate_js"}, TypeOK, KeptInv, [Next]_vars
  PROVE  KeptInv'
<1>1. CASE HostCall
  BY <1>1, HostCallKeeps
<1>2. CASE PageScript
  BY <1>2, PageScriptKeeps
<1>3. CASE Progress
  BY <1>3, LoadKeeps, ResponseKeeps, ScriptsKeep, FollowKeeps, EndsKeep DEF Progress
<1>4. CASE UNCHANGED vars
  BY <1>4 DEF vars, KeptInv
<1> QED BY <1>1, <1>2, <1>3, <1>4 DEF Next

(* Session::follow_script_navigations: what a page had observed when a      *)
(* script of it navigated is still there when the call returns, whether the *)
(* navigation succeeded, failed or was cut off by close(), as long as the   *)
(* host's handlers call nothing but close and evaluate_js.                  *)
THEOREM ObservationsStayKept ==
  ASSUME HookCalls \subseteq {"close", "evaluate_js"}
  PROVE  Spec => []PriorObservationsKept
<1>1. Init => KeptInv
  BY DEF Init, KeptInv
<1>2. Inv /\ KeptInv /\ [Next]_vars => KeptInv'
  BY KeptStep DEF Inv
<1>3. KeptInv => PriorObservationsKept
  BY DEF KeptInv, PriorObservationsKept
<1> QED BY <1>1, <1>2, <1>3, InitInv, NextInv, PTL DEF Spec

-----------------------------------------------------------------------------
(* The event loop of the page.                                              *)
Periods == Delays \cup {Once}
Timers == [id : Nat \ {0}, when : Nat, period : Periods]
FlushRecords == [at : {"flush"}, phase : {"top", "jobs"}, ran : Nat, fired : Nat]
ScriptFrames == [at : {"script"}, id : Nat, period : Periods]
DeliverFrames == [at : {"deliver"}, left : SUBSET Observers]
FrameLists == [at : {"frames"}, left : Seq(Nat)]
LoopFrames == FlushRecords \cup ScriptFrames \cup DeliverFrames \cup FrameLists

(* A timer that is armed was not cleared, and its callback is not running.  *)
TimersHold(ts, dead, next) ==
  /\ ts \in Seq(Timers) /\ dead \subseteq Nat /\ next \in Nat \ {0}
  /\ \A d \in dead : d < next
  /\ \A i \in DOMAIN ts : ts[i].id \notin dead /\ ts[i].id < next
Runs(f, id) == f.at = "script" /\ f.id = id
StackHolds(s, ts, next) ==
  /\ s \in Seq(LoopFrames)
  /\ \A i \in DOMAIN s : s[i].at = "script" =>
       /\ s[i].id < next /\ (s[i].id = 0 => s[i].period = Once)
       /\ \A k \in DOMAIN ts : ts[k].id # s[i].id
  /\ \A i, k \in DOMAIN s : i < k /\ s[i].at = "script" /\ s[k].at = "script" /\ s[i].id # 0 => s[i].id # s[k].id
Owed(js) == \E i \in DOMAIN js : js[i] = "deliver"
Covered(s, o) == \E i \in DOMAIN s : s[i].at = "deliver" /\ o \in s[i].left
DeliveryHolds(rs, js, s, cuts) == cuts = 0 => \A o \in rs : Owed(js) \/ Covered(s, o)
LoopInv ==
  /\ clock \in Nat /\ raf \in Seq(Nat) /\ ~ghost /\ interrupts \in Nat
  /\ TimersHold(timers, cancelled, nextId) /\ StackHolds(stack, timers, nextId)
  /\ pageJobs \in Seq({"deliver", "task"}) /\ records \subseteq Observers
  /\ scheduled => Owed(pageJobs)
  /\ DeliveryHolds(records, pageJobs, stack, interrupts)

-----------------------------------------------------------------------------
(* Frames that bring no timer's callback.                                   *)
Plain(f) == f \in LoopFrames /\ (f.at = "script" => f.id = 0 /\ f.period = Once)

LEMMA PlainFrames ==
  /\ Plain(Flush) /\ Plain(Script(0, Once))
  /\ \A s \in SUBSET Observers : Plain([at |-> "deliver", left |-> s])
  /\ \A s \in Seq(Nat) : Plain([at |-> "frames", left |-> s])
<1>1. Flush \in FlushRecords /\ Script(0, Once) \in ScriptFrames
  BY DEF Flush, FlushRecords, Script, ScriptFrames, Periods
<1>2. \A s \in SUBSET Observers : [at |-> "deliver", left |-> s] \in DeliverFrames
  BY DEF DeliverFrames
<1>3. \A s \in Seq(Nat) : [at |-> "frames", left |-> s] \in FrameLists
  BY DEF FrameLists
<1> QED
  BY <1>1, <1>2, <1>3 DEF Plain, LoopFrames, Flush, Script

LEMMA FrameKinds ==
  ASSUME NEW f \in LoopFrames
  PROVE  /\ f.at = "flush" => f \in FlushRecords
         /\ f.at = "script" => f \in ScriptFrames
         /\ f.at = "deliver" => f \in DeliverFrames
         /\ f.at = "frames" => f \in FrameLists
  BY DEF LoopFrames, FlushRecords, ScriptFrames, DeliverFrames, FrameLists

LEMMA BeneathIs ==
  ASSUME NEW S, NEW s \in Seq(S), s # <<>>
  PROVE  /\ Beneath(s) \in Seq(S) /\ Len(s) \in Nat \ {0} /\ Len(Beneath(s)) = Len(s) - 1
         /\ \A i \in 1..(Len(s) - 1) : Beneath(s)[i] = s[i]
         /\ s[Len(s)] \in S
<1>1. Len(s) \in Nat \ {0}
  BY EmptySeq, LenProperties
<1>2. s[Len(s)] \in S
  BY <1>1, ElementOfSeq
<1>3. \A i \in 1..(Len(s) - 1) : s[i] \in S
  BY <1>1, ElementOfSeq
<1> DEFINE m == Len(s) - 1
<1>4. m \in Nat /\ m \in Int /\ 1 \in Int /\ \A i \in 1..m : s[i] \in S
  BY <1>1, <1>3
<1> HIDE DEF m
<1>5. /\ SubSeq(s, 1, m) \in Seq(S) /\ Len(SubSeq(s, 1, m)) = IF 1 <= m THEN m - 1 + 1 ELSE 0
      /\ \A i \in 1..(m - 1 + 1) : SubSeq(s, 1, m)[i] = s[1 + i - 1]
  BY <1>4, SubSeqProperties
<1>6. m - 1 + 1 = m /\ (~(1 <= m) => m = 0) /\ \A i \in 1..m : 1 + i - 1 = i
  BY <1>4
<1>7. /\ SubSeq(s, 1, m) \in Seq(S) /\ Len(SubSeq(s, 1, m)) = m
      /\ \A i \in 1..m : SubSeq(s, 1, m)[i] = s[i]
  BY <1>5, <1>6
<1> QED
  BY <1>1, <1>2, <1>7 DEF Beneath, m

LEMMA PushedPlain ==
  ASSUME NEW s, NEW ts, NEW dead, NEW next, StackHolds(s, ts, next), TimersHold(ts, dead, next), NEW f, Plain(f)
  PROVE  StackHolds(Append(s, f), ts, next)
<1> DEFINE F == LoopFrames
           r == Append(s, f)
<1>0. s \in Seq(F) /\ f \in F
  BY DEF StackHolds, Plain
<1> HIDE DEF F
<1>1. /\ r \in Seq(F) /\ Len(r) = Len(s) + 1 /\ DOMAIN r = 1..(Len(s) + 1) /\ Len(s) \in Nat /\ DOMAIN s = 1..Len(s)
      /\ \A i \in 1..Len(s) : r[i] = s[i]
      /\ r[Len(s) + 1] = f
  BY <1>0, AppendProperties, LenProperties
<1> HIDE DEF r
<1>2. \A k \in DOMAIN ts : ts[k].id # 0
  <2> DEFINE T == Timers
  <2>1. ts \in Seq(T)
    BY DEF TimersHold
  <2> HIDE DEF T
  <2>2. \A k \in DOMAIN ts : ts[k] \in T
    BY <2>1, ElementOfSeq, LenProperties
  <2> QED
    BY <2>2 DEF T, Timers
<1>3. ASSUME NEW i \in DOMAIN r, r[i].at = "script"
      PROVE  r[i].id < next /\ (r[i].id = 0 => r[i].period = Once) /\ \A k \in DOMAIN ts : ts[k].id # r[i].id
  <2>1. CASE i = Len(s) + 1
    BY <2>1, <1>1, <1>2, <1>3 DEF Plain, TimersHold
  <2>2. CASE i \in 1..Len(s)
    BY <2>2, <1>1, <1>3 DEF StackHolds
  <2> QED
    BY <2>1, <2>2, <1>1
<1>4. ASSUME NEW i \in DOMAIN r, NEW k \in DOMAIN r, i < k, r[i].at = "script", r[k].at = "script", r[i].id # 0
      PROVE  r[i].id # r[k].id
  <2>1. i \in 1..Len(s)
    BY <1>1, <1>4
  <2>2. CASE k = Len(s) + 1
    BY <2>2, <1>1, <1>4 DEF Plain
  <2>3. CASE k \in 1..Len(s)
    BY <2>1, <2>3, <1>1, <1>4 DEF StackHolds
  <2> QED
    BY <2>2, <2>3, <1>1
<1> QED
  BY <1>1, <1>3, <1>4 DEF StackHolds, r, F

LEMMA PoppedHolds ==
  ASSUME NEW s, NEW ts, NEW next, StackHolds(s, ts, next), s # <<>>
  PROVE  StackHolds(Beneath(s), ts, next)
<1> DEFINE F == LoopFrames
           r == Beneath(s)
<1>0. s \in Seq(F)
  BY DEF StackHolds
<1> HIDE DEF F
<1>1. /\ r \in Seq(F) /\ Len(r) = Len(s) - 1 /\ DOMAIN r = 1..(Len(s) - 1) /\ Len(s) \in Nat /\ DOMAIN s = 1..Len(s)
      /\ \A i \in 1..(Len(s) - 1) : r[i] = s[i] /\ i \in DOMAIN s
  BY <1>0, BeneathIs, LenProperties
<1> HIDE DEF r
<1>2. StackHolds(r, ts, next)
  BY <1>1 DEF StackHolds, F
<1> QED
  BY <1>2 DEF r

(* The callback of a timer starts; it is armed no longer.                   *)
LEMMA PushedTimer ==
  ASSUME NEW s, NEW ts, NEW next, NEW ts2, NEW f \in ScriptFrames, StackHolds(s, ts, next),
         f.id # 0, f.id < next, \E k \in DOMAIN ts : ts[k].id = f.id,
         \A i \in DOMAIN ts2 : ts2[i].id # f.id /\ \E k \in DOMAIN ts : ts2[i].id = ts[k].id
  PROVE  StackHolds(Append(s, f), ts2, next)
<1> DEFINE F == LoopFrames
           r == Append(s, f)
<1>0. s \in Seq(F) /\ f \in F /\ f.at = "script"
  BY DEF StackHolds, LoopFrames, ScriptFrames
<1> HIDE DEF F
<1>1. /\ r \in Seq(F) /\ Len(r) = Len(s) + 1 /\ DOMAIN r = 1..(Len(s) + 1) /\ Len(s) \in Nat /\ DOMAIN s = 1..Len(s)
      /\ \A i \in 1..Len(s) : r[i] = s[i]
      /\ r[Len(s) + 1] = f
  BY <1>0, AppendProperties, LenProperties
<1> HIDE DEF r
<1>3. ASSUME NEW i \in DOMAIN r, r[i].at = "script"
      PROVE  r[i].id < next /\ (r[i].id = 0 => r[i].period = Once) /\ \A k \in DOMAIN ts2 : ts2[k].id # r[i].id
  <2>1. CASE i = Len(s) + 1
    BY <2>1, <1>1, <1>3
  <2>2. CASE i \in 1..Len(s)
    BY <2>2, <1>1, <1>3 DEF StackHolds
  <2> QED
    BY <2>1, <2>2, <1>1
<1>4. ASSUME NEW i \in DOMAIN r, NEW k \in DOMAIN r, i < k, r[i].at = "script", r[k].at = "script", r[i].id # 0
      PROVE  r[i].id # r[k].id
  <2>1. i \in 1..Len(s)
    BY <1>1, <1>4
  <2>2. CASE k = Len(s) + 1
    BY <2>1, <2>2, <1>1, <1>4 DEF StackHolds
  <2>3. CASE k \in 1..Len(s)
    BY <2>1, <2>3, <1>1, <1>4 DEF StackHolds
  <2> QED
    BY <2>2, <2>3, <1>1
<1> QED
  BY <1>1, <1>3, <1>4 DEF StackHolds, r, F

(* What a frame that is pushed or popped covers.                            *)
LEMMA PushedCovers ==
  ASSUME NEW s \in Seq(LoopFrames), NEW f \in LoopFrames, NEW o
  PROVE  Covered(Append(s, f), o) <=> Covered(s, o) \/ (f.at = "deliver" /\ o \in f.left)
<1> DEFINE F == LoopFrames
           r == Append(s, f)
<1>0. s \in Seq(F) /\ f \in F
  OBVIOUS
<1> HIDE DEF F
<1>1. /\ DOMAIN r = 1..(Len(s) + 1) /\ Len(s) \in Nat /\ DOMAIN s = 1..Len(s)
      /\ \A i \in 1..Len(s) : r[i] = s[i]
      /\ r[Len(s) + 1] = f
  BY <1>0, AppendProperties, LenProperties
<1> HIDE DEF r
<1>2. \A i \in DOMAIN r : i = Len(s) + 1 \/ i \in DOMAIN s
  BY <1>1
<1>3. Len(s) + 1 \in DOMAIN r /\ \A i \in DOMAIN s : i \in DOMAIN r
  BY <1>1
<1>4. Covered(r, o) <=> Covered(s, o) \/ (f.at = "deliver" /\ o \in f.left)
  BY <1>1, <1>2, <1>3 DEF Covered
<1> QED
  BY <1>4 DEF r

LEMMA PoppedCovers ==
  ASSUME NEW s \in Seq(LoopFrames), s # <<>>, NEW o
  PROVE  Covered(s, o) <=> Covered(Beneath(s), o) \/ (s[Len(s)].at = "deliver" /\ o \in s[Len(s)].left)
<1> DEFINE F == LoopFrames
           r == Beneath(s)
<1>0. s \in Seq(F)
  OBVIOUS
<1> HIDE DEF F
<1>1. /\ DOMAIN r = 1..(Len(s) - 1) /\ Len(s) \in Nat \ {0} /\ DOMAIN s = 1..Len(s)
      /\ \A i \in 1..(Len(s) - 1) : r[i] = s[i]
  BY <1>0, BeneathIs, LenProperties
<1> HIDE DEF r
<1>2. \A i \in DOMAIN s : i = Len(s) \/ i \in DOMAIN r
  BY <1>1
<1>3. Len(s) \in DOMAIN s /\ \A i \in DOMAIN r : i \in DOMAIN s
  BY <1>1
<1>4. Covered(s, o) <=> Covered(r, o) \/ (s[Len(s)].at = "deliver" /\ o \in s[Len(s)].left)
  BY <1>1, <1>2, <1>3 DEF Covered
<1> QED
  BY <1>4 DEF r

-----------------------------------------------------------------------------
(* What the top frame may become.                                           *)
LEMMA TopIs ==
  ASSUME StackHolds(stack, timers, nextId), stack # <<>>
  PROVE  /\ stack \in Seq(LoopFrames) /\ TopFrame \in LoopFrames /\ TopFrame = stack[Len(stack)]
         /\ Beneath(stack) \in Seq(LoopFrames)
<1> DEFINE F == LoopFrames
<1>0. stack \in Seq(F)
  BY DEF StackHolds
<1> HIDE DEF F
<1>1. stack[Len(stack)] \in F /\ Beneath(stack) \in Seq(F)
  BY <1>0, BeneathIs
<1> QED
  BY <1>0, <1>1 DEF F, TopFrame

LEMMA OnIsTop == \A at : On(at) => stack # <<>> /\ TopFrame.at = at
  BY DEF On

(* A step that changes the stack only, by frames that start no timer and    *)
(* cover what was covered.                                                  *)
LEMMA StackMoves ==
  ASSUME LoopInv, StackHolds(stack', timers, nextId), DeliveryHolds(records', pageJobs', stack', interrupts),
         UNCHANGED <<timers, cancelled, nextId, ghost, interrupts>>, raf' \in Seq(Nat), clock' \in Nat,
         pageJobs' \in Seq({"deliver", "task"}), records' \subseteq Observers, scheduled' => Owed(pageJobs')
  PROVE  LoopInv'
<1>1. TimersHold(timers, cancelled, nextId) /\ ~ghost /\ interrupts \in Nat
  BY DEF LoopInv
<1>2. TimersHold(timers, cancelled, nextId)' /\ StackHolds(stack, timers, nextId)' /\ DeliveryHolds(records, pageJobs, stack, interrupts)'
      /\ ~ghost' /\ interrupts' \in Nat
  BY <1>1
<1> QED
  BY <1>2 DEF LoopInv

LEMMA Same == LoopInv /\ UNCHANGED LoopVars => LoopInv'
  BY DEF LoopInv, LoopVars

LEMMA WaitKeeps == LoopInv /\ (Load \/ Wait) => LoopInv'
<1> SUFFICES ASSUME LoopInv, Load \/ Wait PROVE LoopInv'
  OBVIOUS
<1>1. UNCHANGED <<timers, cancelled, nextId, raf, pageJobs, records, scheduled, stack, ghost, interrupts>>
  BY DEF Load, Wait
<1>2. clock' \in Nat
  BY DEF LoopInv, Load, Wait
<1> QED
  BY <1>1, <1>2 DEF LoopInv

LEMMA PushKeeps == LoopInv /\ (Evaluate \/ Pump \/ Click) => LoopInv'
<1> SUFFICES ASSUME LoopInv, Evaluate \/ Pump \/ Click PROVE LoopInv'
  OBVIOUS
<1>1. PICK f : Plain(f) /\ stack' = Append(stack, f)
  BY PlainFrames DEF Evaluate, Pump, Click, PushFrame
<1>2. UNCHANGED <<timers, cancelled, nextId, ghost, interrupts, raf, clock, pageJobs, records, scheduled>>
  BY DEF Evaluate, Pump, Click
<1>3. StackHolds(stack', timers, nextId)
  BY <1>1, PushedPlain DEF LoopInv
<1>4. stack \in Seq(LoopFrames) /\ f \in LoopFrames
  BY <1>1 DEF LoopInv, StackHolds, Plain
<1>5. \A o : Covered(stack, o) => Covered(stack', o)
  BY <1>1, <1>4, PushedCovers
<1>6. DeliveryHolds(records', pageJobs', stack', interrupts)
  BY <1>2, <1>5 DEF LoopInv, DeliveryHolds
<1> QED
  BY <1>2, <1>3, <1>6, StackMoves DEF LoopInv

(* A frame that is no delivery, or one that owes nothing, is popped.        *)
LEMMA PopKeeps ==
  ASSUME LoopInv, stack # <<>>, stack' = Beneath(stack),
         TopFrame.at = "deliver" => TopFrame.left = {},
         UNCHANGED <<timers, cancelled, nextId, ghost, interrupts, raf, clock, pageJobs, records, scheduled>>
  PROVE  LoopInv'
<1>1. StackHolds(stack', timers, nextId)
  BY PoppedHolds DEF LoopInv
<1>2. stack \in Seq(LoopFrames) /\ TopFrame = stack[Len(stack)]
  BY TopIs DEF LoopInv
<1>3. \A o : Covered(stack, o) => Covered(stack', o)
  BY <1>2, PoppedCovers
<1>4. DeliveryHolds(records', pageJobs', stack', interrupts)
  BY <1>3 DEF LoopInv, DeliveryHolds
<1> QED
  BY <1>1, <1>4, StackMoves DEF LoopInv

LEMMA EnterCovers ==
  ASSUME LoopInv, stack # <<>>, NEW g, NEW f, Plain(g), Plain(f)
  PROVE  LET one == Append(Beneath(stack), g)
             two == Append(Append(Beneath(stack), g), f)
         IN  /\ StackHolds(one, timers, nextId) /\ StackHolds(two, timers, nextId)
             /\ \A o : \/ Covered(Beneath(stack), o)
                       \/ (g.at = "deliver" /\ o \in g.left)
                     => Covered(one, o) /\ Covered(two, o)
             /\ \A o : f.at = "deliver" /\ o \in f.left => Covered(two, o)
<1> DEFINE b == Beneath(stack)
           one == Append(b, g)
           two == Append(one, f)
<1>0. StackHolds(b, timers, nextId) /\ TimersHold(timers, cancelled, nextId)
  BY PoppedHolds DEF LoopInv
<1>1. b \in Seq(LoopFrames) /\ f \in LoopFrames /\ g \in LoopFrames
  BY <1>0 DEF StackHolds, Plain
<1> HIDE DEF b
<1>2. StackHolds(one, timers, nextId)
  BY <1>0, PushedPlain
<1>3. one \in Seq(LoopFrames)
  BY <1>2 DEF StackHolds
<1>4. \A o : Covered(one, o) <=> Covered(b, o) \/ (g.at = "deliver" /\ o \in g.left)
  BY <1>1, PushedCovers
<1> HIDE DEF one
<1>5. StackHolds(two, timers, nextId)
  BY <1>0, <1>2, PushedPlain
<1>6. \A o : Covered(two, o) <=> Covered(one, o) \/ (f.at = "deliver" /\ o \in f.left)
  BY <1>1, <1>3, PushedCovers
<1> HIDE DEF two
<1>7. /\ StackHolds(one, timers, nextId) /\ StackHolds(two, timers, nextId)
      /\ \A o : Covered(b, o) \/ (g.at = "deliver" /\ o \in g.left) => Covered(one, o) /\ Covered(two, o)
      /\ \A o : f.at = "deliver" /\ o \in f.left => Covered(two, o)
  BY <1>2, <1>4, <1>5, <1>6
<1> QED
  BY <1>7 DEF one, two, b

(* The flush frame goes on, and may call a frame.                           *)
LEMMA FlushGoesOn ==
  ASSUME LoopInv, On("flush"), NEW g \in FlushRecords, NEW f, Plain(f),
         stack' = Append(Beneath(stack), g) \/ stack' = Append(Append(Beneath(stack), g), f)
  PROVE  StackHolds(stack', timers, nextId) /\ \A o : Covered(stack, o) => Covered(stack', o)
<1>1. stack # <<>> /\ TopFrame.at = "flush"
  BY OnIsTop
<1>2. stack \in Seq(LoopFrames) /\ TopFrame = stack[Len(stack)]
  BY <1>1, TopIs DEF LoopInv
<1>3. \A o : Covered(stack, o) => Covered(Beneath(stack), o)
  BY <1>1, <1>2, PoppedCovers
<1>4. Plain(g)
  BY DEF Plain, LoopFrames, FlushRecords
<1> QED
  BY <1>1, <1>3, <1>4, EnterCovers

LEMMA FlushFrame == LoopInv /\ On("flush") => TopFrame \in FlushRecords
  BY OnIsTop, TopIs, FrameKinds DEF LoopInv

LEMMA FlushUpdates ==
  ASSUME NEW f \in FlushRecords
  PROVE  /\ [f EXCEPT !.phase = "jobs", !.ran = 1] \in FlushRecords
         /\ [f EXCEPT !.phase = "top", !.ran = 0, !.fired = @ + f.ran] \in FlushRecords
         /\ [f EXCEPT !.phase = "top", !.fired = @ + 1] \in FlushRecords
         /\ [f EXCEPT !.phase = "jobs", !.ran = @ + 1] \in FlushRecords
<1>1. f.ran \in Nat /\ f.fired \in Nat
  BY DEF FlushRecords
<1>2. f.ran + 1 \in Nat /\ f.fired + 1 \in Nat /\ f.fired + f.ran \in Nat /\ 0 \in Nat /\ 1 \in Nat
  BY <1>1
<1>3. \A p \in {"top", "jobs"} : [f EXCEPT !.phase = p] \in FlushRecords
  BY DEF FlushRecords
<1>4. \A p \in {"top", "jobs"}, n \in Nat : [f EXCEPT !.phase = p, !.ran = n] \in FlushRecords
  BY Zenon DEF FlushRecords
<1>5. \A p \in {"top", "jobs"}, n \in Nat : [f EXCEPT !.phase = p, !.fired = n] \in FlushRecords
  BY Zenon DEF FlushRecords
<1>6. \A p \in {"top", "jobs"}, n, k \in Nat : [f EXCEPT !.phase = p, !.ran = n, !.fired = k] \in FlushRecords
  BY Zenon DEF FlushRecords
<1> QED
  BY <1>2, <1>4, <1>5, <1>6

LEMMA JobTaken ==
  ASSUME NEW js \in Seq({"deliver", "task"}), js # <<>>
  PROVE  /\ Tail(js) \in Seq({"deliver", "task"})
         /\ Head(js) = "task" => (Owed(js) => Owed(Tail(js)))
<1>1. /\ Tail(js) \in Seq({"deliver", "task"}) /\ Len(js) \in Nat \ {0} /\ Len(Tail(js)) = Len(js) - 1 /\ Head(js) = js[1]
      /\ \A i \in 1..Len(Tail(js)) : Tail(js)[i] = js[i + 1]
  BY HeadTailProperties, LenProperties, EmptySeq
<1>2. DOMAIN js = 1..Len(js) /\ DOMAIN Tail(js) = 1..Len(Tail(js))
  BY <1>1, LenProperties
<1>3. ASSUME Head(js) = "task", NEW i \in DOMAIN js, js[i] = "deliver" PROVE Owed(Tail(js))
  <2>1. i # 1 /\ i - 1 \in 1..Len(Tail(js)) /\ (i - 1) + 1 = i
    BY <1>1, <1>2, <1>3
  <2> QED
    BY <2>1, <1>1, <1>2, <1>3 DEF Owed
<1> QED
  BY <1>1, <1>3 DEF Owed

LEMMA JobAdded ==
  ASSUME NEW js \in Seq({"deliver", "task"}), NEW j \in {"deliver", "task"}
  PROVE  /\ Append(js, j) \in Seq({"deliver", "task"})
         /\ Owed(js) => Owed(Append(js, j))
         /\ j = "deliver" => Owed(Append(js, j))
<1>1. /\ Append(js, j) \in Seq({"deliver", "task"}) /\ DOMAIN Append(js, j) = 1..(Len(js) + 1) /\ Len(js) \in Nat
      /\ DOMAIN js = 1..Len(js)
      /\ \A i \in 1..Len(js) : Append(js, j)[i] = js[i] /\ i \in 1..(Len(js) + 1)
      /\ Append(js, j)[Len(js) + 1] = j /\ Len(js) + 1 \in 1..(Len(js) + 1)
  BY AppendProperties, LenProperties
<1> QED
  BY <1>1 DEF Owed

LEMMA FlushKeeps == LoopInv /\ (FlushLifecycle \/ FlushJob \/ FlushRound \/ FlushFrames) => LoopInv'
<1> SUFFICES ASSUME LoopInv, FlushLifecycle \/ FlushJob \/ FlushRound \/ FlushFrames PROVE LoopInv'
  OBVIOUS
<1>0. /\ On("flush") /\ TopFrame \in FlushRecords
      /\ UNCHANGED <<timers, cancelled, nextId, ghost, interrupts, clock, records>>
  BY FlushFrame DEF FlushLifecycle, FlushJob, FlushRound, FlushFrames, Draining, Looping, Quiet
<1>1. /\ clock' \in Nat /\ records' \subseteq Observers /\ Plain(Script(0, Once))
      /\ pageJobs \in Seq({"deliver", "task"}) /\ raf \in Seq(Nat) /\ (scheduled => Owed(pageJobs))
  BY <1>0, PlainFrames DEF LoopInv
<1>2. CASE FlushLifecycle
  <2> DEFINE g == [TopFrame EXCEPT !.phase = "jobs", !.ran = 1]
  <2>1. g \in FlushRecords
    BY <1>0, FlushUpdates
  <2>2. stack' = Append(Append(Beneath(stack), g), Script(0, Once)) /\ UNCHANGED <<raf, pageJobs, scheduled>>
    BY <1>2 DEF FlushLifecycle, EnterFrame
  <2> HIDE DEF g
  <2>3. StackHolds(stack', timers, nextId) /\ \A o : Covered(stack, o) => Covered(stack', o)
    BY <1>0, <1>1, <2>1, <2>2, FlushGoesOn
  <2>4. DeliveryHolds(records', pageJobs', stack', interrupts)
    BY <1>0, <2>2, <2>3 DEF LoopInv, DeliveryHolds
  <2> QED
    BY <1>0, <1>1, <2>2, <2>3, <2>4, StackMoves
<1>3. CASE FlushRound
  <2> DEFINE g == [TopFrame EXCEPT !.phase = "top", !.ran = 0, !.fired = @ + TopFrame.ran]
  <2>1. g \in FlushRecords
    BY <1>0, FlushUpdates
  <2>2. stack' = Append(Beneath(stack), g) /\ UNCHANGED <<raf, pageJobs, scheduled>>
    BY <1>3 DEF FlushRound
  <2> HIDE DEF g
  <2>3. StackHolds(stack', timers, nextId) /\ \A o : Covered(stack, o) => Covered(stack', o)
    BY <1>0, <1>1, <2>1, <2>2, FlushGoesOn
  <2>4. DeliveryHolds(records', pageJobs', stack', interrupts)
    BY <1>0, <2>2, <2>3 DEF LoopInv, DeliveryHolds
  <2> QED
    BY <1>0, <1>1, <2>2, <2>3, <2>4, StackMoves
<1>4. CASE FlushFrames
  <2> DEFINE g == NextFlush
             f == [at |-> "frames", left |-> raf]
  <2>1. g \in FlushRecords
    BY <1>0, FlushUpdates DEF NextFlush
  <2>2. stack' = Append(Append(Beneath(stack), g), f) /\ UNCHANGED <<pageJobs, scheduled>> /\ raf' = <<>>
    BY <1>4 DEF FlushFrames, EnterFrame
  <2>3. Plain(f)
    BY <1>1, PlainFrames
  <2> HIDE DEF g, f
  <2>4. StackHolds(stack', timers, nextId) /\ \A o : Covered(stack, o) => Covered(stack', o)
    BY <1>0, <2>1, <2>2, <2>3, FlushGoesOn
  <2>5. DeliveryHolds(records', pageJobs', stack', interrupts)
    BY <1>0, <2>2, <2>4 DEF LoopInv, DeliveryHolds
  <2>6. raf' \in Seq(Nat)
    BY <2>2, EmptySeq
  <2> QED
    BY <1>0, <1>1, <2>2, <2>4, <2>5, <2>6, StackMoves
<1>5. CASE FlushJob
  <2> DEFINE g == [TopFrame EXCEPT !.phase = "jobs", !.ran = @ + 1]
             d == [at |-> "deliver", left |-> Observers]
  <2>1. g \in FlushRecords /\ Plain(d)
    BY <1>0, PlainFrames, FlushUpdates
  <2>2. pageJobs # <<>> /\ pageJobs' = Tail(pageJobs) /\ raf' = raf
    BY <1>5 DEF FlushJob, More
  <2>3. /\ pageJobs' \in Seq({"deliver", "task"})
        /\ Head(pageJobs) = "task" => (Owed(pageJobs) => Owed(pageJobs'))
    BY <1>1, <2>2, JobTaken
  <2>4. CASE Head(pageJobs) = "task"
    <3>1. stack' = Append(Append(Beneath(stack), g), Script(0, Once)) /\ scheduled' = scheduled
      BY <1>5, <2>4 DEF FlushJob, EnterFrame
    <3> HIDE DEF g, d
    <3>2. StackHolds(stack', timers, nextId) /\ \A o : Covered(stack, o) => Covered(stack', o)
      BY <1>0, <1>1, <2>1, <3>1, FlushGoesOn
    <3>3. DeliveryHolds(records', pageJobs', stack', interrupts)
      BY <1>0, <2>3, <2>4, <3>2 DEF LoopInv, DeliveryHolds
    <3> QED
      BY <1>0, <1>1, <2>2, <2>3, <2>4, <3>1, <3>2, <3>3, StackMoves
  <2>5. CASE Head(pageJobs) # "task"
    <3>1. stack' = Append(Append(Beneath(stack), g), d) /\ scheduled' = FALSE
      BY <1>5, <2>5 DEF FlushJob, EnterFrame
    <3>2. d.at = "deliver" /\ d.left = Observers
      OBVIOUS
    <3> HIDE DEF g, d
    <3>3. StackHolds(stack', timers, nextId)
      BY <1>0, <2>1, <3>1, FlushGoesOn
    <3>4. \A o \in Observers : Covered(stack', o)
      <4>1. Plain(g) /\ stack # <<>>
        BY <2>1, <1>0, OnIsTop DEF Plain, LoopFrames, FlushRecords
      <4> QED
        BY <4>1, <2>1, <3>1, <3>2, EnterCovers
    <3>5. DeliveryHolds(records', pageJobs', stack', interrupts)
      BY <1>1, <3>4 DEF DeliveryHolds
    <3> QED
      BY <1>0, <1>1, <2>2, <2>3, <3>1, <3>3, <3>5, StackMoves
  <2> QED
    BY <2>4, <2>5
<1> QED
  BY <1>2, <1>3, <1>4, <1>5

LEMMA DeliverKeeps == ASSUME LoopInv, NEW o \in Observers, Deliver(o) PROVE LoopInv'
<1> DEFINE g == [TopFrame EXCEPT !.left = TopFrame.left \ {o}]
<1>0. /\ stack # <<>> /\ TopFrame.at = "deliver" /\ TopFrame \in DeliverFrames /\ stack \in Seq(LoopFrames)
      /\ TopFrame = stack[Len(stack)]
  BY OnIsTop, TopIs, FrameKinds DEF LoopInv, Deliver
<1>1. /\ g \in DeliverFrames /\ g.at = "deliver" /\ g.left = TopFrame.left \ {o}
  BY <1>0 DEF DeliverFrames
<1>2. /\ UNCHANGED <<timers, cancelled, nextId, ghost, interrupts, clock, raf, pageJobs, scheduled>>
      /\ \/ o \in records /\ stack' = Append(Append(Beneath(stack), g), Script(0, Once)) /\ records' = records \ {o}
         \/ o \notin records /\ stack' = Append(Beneath(stack), g) /\ records' = records
  BY DEF Deliver, EnterFrame, With
<1> HIDE DEF g
<1>3. Plain(g) /\ Plain(Script(0, Once))
  BY <1>1, PlainFrames DEF Plain, LoopFrames
<1> DEFINE f == Script(0, Once)
           one == Append(Beneath(stack), g)
           two == Append(Append(Beneath(stack), g), f)
<1> HIDE DEF f
<1>e. /\ StackHolds(one, timers, nextId) /\ StackHolds(two, timers, nextId)
      /\ \A x : \/ Covered(Beneath(stack), x)
                \/ (g.at = "deliver" /\ x \in g.left)
              => Covered(one, x) /\ Covered(two, x)
  BY <1>0, <1>3, EnterCovers DEF f
<1>s. stack' = one \/ stack' = two
  BY <1>2 DEF f
<1> HIDE DEF one, two
<1>4. StackHolds(stack', timers, nextId)
  BY <1>e, <1>s
<1>5. \A x : Covered(stack, x) /\ x # o => Covered(stack', x)
  <2> SUFFICES ASSUME NEW x, Covered(stack, x), x # o PROVE Covered(stack', x)
    OBVIOUS
  <2>1. Covered(Beneath(stack), x) \/ x \in TopFrame.left
    BY <1>0, PoppedCovers
  <2>2. Covered(Beneath(stack), x) \/ x \in g.left
    BY <2>1, <1>1
  <2> QED
    BY <2>2, <1>1, <1>e, <1>s
<1>6. DeliveryHolds(records', pageJobs', stack', interrupts)
  BY <1>2, <1>5 DEF LoopInv, DeliveryHolds
<1> QED
  BY <1>2, <1>4, <1>6, StackMoves DEF LoopInv

LEMMA FrameKeeps == LoopInv /\ Frame => LoopInv'
<1> SUFFICES ASSUME LoopInv, Frame PROVE LoopInv'
  OBVIOUS
<1>0. /\ stack # <<>> /\ TopFrame.at = "frames" /\ TopFrame \in FrameLists /\ stack \in Seq(LoopFrames)
      /\ TopFrame = stack[Len(stack)]
      /\ UNCHANGED <<timers, cancelled, nextId, ghost, interrupts, clock, raf, pageJobs, records, scheduled>>
  BY OnIsTop, TopIs, FrameKinds DEF LoopInv, Frame
<1>1. CASE TopFrame.left = <<>>
  BY <1>0, <1>1, PopKeeps DEF Frame, Pop
<1>2. CASE TopFrame.left # <<>>
  <2> DEFINE g == [TopFrame EXCEPT !.left = Tail(TopFrame.left)]
  <2>1. stack' = Append(Append(Beneath(stack), g), Script(0, Once))
    BY <1>2 DEF Frame, EnterFrame, With
  <2>2. TopFrame.left \in Seq(Nat)
    BY <1>0 DEF FrameLists
  <2>3. Tail(TopFrame.left) \in Seq(Nat)
    BY <2>2, <1>2, HeadTailProperties
  <2>4. g \in FrameLists /\ g.at = "frames"
    BY <1>0, <2>3 DEF FrameLists
  <2> HIDE DEF g
  <2>5. Plain(g) /\ Plain(Script(0, Once))
    BY <2>4, PlainFrames DEF Plain, LoopFrames
  <2>6. StackHolds(stack', timers, nextId)
    BY <1>0, <2>1, <2>5, EnterCovers
  <2>7. \A o : Covered(stack, o) => Covered(Beneath(stack), o)
    BY <1>0, PoppedCovers
  <2>8. \A o : Covered(stack, o) => Covered(stack', o)
    BY <1>0, <2>1, <2>5, <2>7, EnterCovers
  <2>9. DeliveryHolds(records', pageJobs', stack', interrupts)
    BY <1>0, <2>8 DEF LoopInv, DeliveryHolds
  <2> QED
    BY <1>0, <2>6, <2>9, StackMoves DEF LoopInv
<1> QED
  BY <1>1, <1>2

LEMMA ElementsOf ==
  ASSUME NEW S, NEW s \in Seq(S)
  PROVE  \A i \in DOMAIN s : s[i] \in S
  BY ElementOfSeq, LenProperties

LEMMA TimerAdded ==
  ASSUME NEW ts \in Seq(Timers), NEW t \in Timers
  PROVE  /\ Append(ts, t) \in Seq(Timers)
         /\ \A i \in DOMAIN Append(ts, t) : Append(ts, t)[i] = t \/ \E k \in DOMAIN ts : Append(ts, t)[i] = ts[k]
<1> DEFINE T == Timers
           r == Append(ts, t)
<1>0. ts \in Seq(T) /\ t \in T
  OBVIOUS
<1> HIDE DEF T
<1>1. /\ r \in Seq(T) /\ DOMAIN r = 1..(Len(ts) + 1) /\ Len(ts) \in Nat /\ DOMAIN ts = 1..Len(ts)
      /\ \A i \in 1..Len(ts) : r[i] = ts[i]
      /\ r[Len(ts) + 1] = t
  BY <1>0, AppendProperties, LenProperties
<1> HIDE DEF r
<1>2. \A i \in DOMAIN r : i = Len(ts) + 1 \/ i \in DOMAIN ts
  BY <1>1
<1>3. r \in Seq(Timers) /\ \A i \in DOMAIN r : r[i] = t \/ \E k \in DOMAIN ts : r[i] = ts[k]
  BY <1>1, <1>2 DEF T
<1> QED
  BY <1>3 DEF r

LEMMA TimersKept ==
  ASSUME NEW ts \in Seq(Timers), NEW kept, kept \subseteq DOMAIN ts
  PROVE  /\ AtPositions(ts, kept) \in Seq(Timers)
         /\ \A i \in DOMAIN AtPositions(ts, kept) : \E k \in kept : AtPositions(ts, kept)[i] = ts[k]
<1> DEFINE T == Timers
           r == AtPositions(ts, kept)
<1>0. ts \in Seq(T)
  OBVIOUS
<1> HIDE DEF T
<1>1. r \in Seq(T) /\ IsPart(r, ts, kept)
  BY <1>0, PartOfSequence
<1> HIDE DEF r
<1>2. r \in Seq(Timers) /\ \A i \in DOMAIN r : \E k \in kept : r[i] = ts[k]
  BY <1>1 DEF T, IsPart
<1> QED
  BY <1>2 DEF r

LEMMA SetTimerKeeps ==
  ASSUME LoopInv, NEW delay \in Delays, NEW period \in Periods, SetTimer(delay, period)
  PROVE  LoopInv'
<1> DEFINE t == [id |-> nextId, when |-> clock + delay, period |-> period]
<1>0. TimersHold(timers, cancelled, nextId) /\ StackHolds(stack, timers, nextId) /\ nextId \in Nat \ {0} /\ timers \in Seq(Timers)
  BY DEF LoopInv, TimersHold
<1>1. /\ timers' = Append(timers, t) /\ nextId' = nextId + 1
      /\ UNCHANGED <<clock, cancelled, raf, pageJobs, records, scheduled, stack, ghost, interrupts>>
  BY DEF SetTimer
<1>2. t \in Timers /\ t.id = nextId
  BY <1>0, LoopConstants DEF LoopInv, Timers
<1> HIDE DEF t
<1>3. /\ timers' \in Seq(Timers)
      /\ \A i \in DOMAIN timers' : timers'[i] = t \/ \E k \in DOMAIN timers : timers'[i] = timers[k]
  BY <1>0, <1>1, <1>2, TimerAdded
<1>4. \A k \in DOMAIN timers : timers[k].id \in Nat /\ timers[k].id < nextId /\ timers[k].id \notin cancelled
  <2>1. \A k \in DOMAIN timers : timers[k] \in Timers
    BY <1>0, ElementsOf
  <2> QED
    BY <2>1, <1>0 DEF TimersHold, Timers
<1>5. \A d \in cancelled : d \in Nat /\ d < nextId
  BY <1>0 DEF TimersHold
<1>6. TimersHold(timers', cancelled, nextId')
  <2>1. \A d \in cancelled : d < nextId + 1 /\ d # nextId
    BY <1>0, <1>5
  <2>2. \A k \in DOMAIN timers : timers[k].id < nextId + 1
    BY <1>0, <1>4
  <2>3. nextId \notin cancelled /\ nextId < nextId + 1 /\ nextId + 1 \in Nat \ {0}
    BY <1>0, <2>1
  <2>4. \A i \in DOMAIN timers' : timers'[i].id \notin cancelled /\ timers'[i].id < nextId + 1
    BY <1>2, <1>3, <1>4, <2>2, <2>3
  <2> QED
    BY <1>0, <1>1, <1>3, <2>1, <2>3, <2>4 DEF TimersHold
<1>7. StackHolds(stack, timers', nextId')
  <2>1. \A i \in DOMAIN stack : stack[i] \in LoopFrames
    <3> DEFINE F == LoopFrames
    <3>1. stack \in Seq(F)
      BY <1>0 DEF StackHolds
    <3> HIDE DEF F
    <3>2. \A i \in DOMAIN stack : stack[i] \in F
      BY <3>1, ElementsOf
    <3> QED
      BY <3>2 DEF F
  <2>2. ASSUME NEW i \in DOMAIN stack, stack[i].at = "script"
        PROVE  stack[i].id < nextId + 1 /\ \A k \in DOMAIN timers' : timers'[k].id # stack[i].id
    <3>1. stack[i].id \in Nat /\ stack[i].id < nextId
      BY <1>0, <2>1, <2>2, FrameKinds DEF StackHolds, ScriptFrames
    <3>2. stack[i].id < nextId + 1 /\ stack[i].id # nextId
      BY <1>0, <3>1
    <3>3. \A k \in DOMAIN timers : timers[k].id # stack[i].id
      BY <1>0, <2>2 DEF StackHolds
    <3> QED
      BY <1>2, <1>3, <3>2, <3>3
  <2> QED
    BY <1>0, <1>1, <2>2 DEF StackHolds
<1> QED
  BY <1>1, <1>6, <1>7 DEF LoopInv

LEMMA CancelKeeps ==
  ASSUME LoopInv, NEW id \in LoopIds, CancelTimer(id)
  PROVE  LoopInv'
<1> DEFINE kept == {i \in DOMAIN timers : timers[i].id \notin cancelled'}
<1>0. TimersHold(timers, cancelled, nextId) /\ StackHolds(stack, timers, nextId) /\ timers \in Seq(Timers)
  BY DEF LoopInv, TimersHold
<1>1. /\ timers' = AtPositions(timers, kept) /\ cancelled' = cancelled \cup {id} /\ id < nextId
      /\ raf' = AtPositions(raf, {i \in DOMAIN raf : raf[i] # id})
      /\ UNCHANGED <<clock, nextId, pageJobs, records, scheduled, stack, ghost, interrupts>>
  BY DEF CancelTimer, Listed
<1>2. kept \subseteq DOMAIN timers /\ \A k \in kept : timers[k].id \notin cancelled'
  OBVIOUS
<1> HIDE DEF kept
<1>3. timers' \in Seq(Timers) /\ \A i \in DOMAIN timers' : \E k \in kept : timers'[i] = timers[k]
  BY <1>0, <1>1, <1>2, TimersKept
<1>4. raf' \in Seq(Nat)
  <2>1. raf \in Seq(Nat) /\ {i \in DOMAIN raf : raf[i] # id} \subseteq DOMAIN raf
    BY DEF LoopInv
  <2> QED
    BY <2>1, <1>1, PartOfSequence
<1>5. id \in Nat
  BY LoopConstants DEF LoopIds
<1>6. TimersHold(timers', cancelled', nextId)
  BY <1>0, <1>1, <1>2, <1>3, <1>5 DEF TimersHold
<1>7. StackHolds(stack, timers', nextId)
  BY <1>0, <1>2, <1>3 DEF StackHolds
<1> QED
  BY <1>1, <1>4, <1>6, <1>7 DEF LoopInv

LEMMA FramesKeep == LoopInv /\ RequestFrame => LoopInv'
<1> SUFFICES ASSUME LoopInv, RequestFrame PROVE LoopInv'
  OBVIOUS
<1>0. TimersHold(timers, cancelled, nextId) /\ StackHolds(stack, timers, nextId) /\ nextId \in Nat \ {0} /\ timers \in Seq(Timers)
  BY DEF LoopInv, TimersHold
<1>1. /\ raf' = Append(raf, nextId) /\ nextId' = nextId + 1
      /\ UNCHANGED <<clock, timers, cancelled, pageJobs, records, scheduled, stack, ghost, interrupts>>
  BY DEF RequestFrame
<1>2. raf' \in Seq(Nat)
  BY <1>0, <1>1, AppendProperties DEF LoopInv
<1>3. \A k \in DOMAIN timers : timers[k].id \in Nat
  <2>1. \A k \in DOMAIN timers : timers[k] \in Timers
    BY <1>0, ElementsOf
  <2> QED
    BY <2>1 DEF Timers
<1>4. TimersHold(timers, cancelled, nextId + 1)
  <2>1. \A d \in cancelled : d \in Nat /\ d < nextId
    BY <1>0 DEF TimersHold
  <2>2. \A d \in cancelled : d < nextId + 1
    BY <1>0, <2>1
  <2>3. \A k \in DOMAIN timers : timers[k].id < nextId
    BY <1>0 DEF TimersHold
  <2>4. \A k \in DOMAIN timers : timers[k].id < nextId + 1
    BY <1>0, <1>3, <2>3
  <2> QED
    BY <1>0, <2>2, <2>4 DEF TimersHold
<1>5. StackHolds(stack, timers, nextId + 1)
  <2>1. \A i \in DOMAIN stack : stack[i] \in LoopFrames
    <3> DEFINE F == LoopFrames
    <3>1. stack \in Seq(F)
      BY <1>0 DEF StackHolds
    <3> HIDE DEF F
    <3>2. \A i \in DOMAIN stack : stack[i] \in F
      BY <3>1, ElementsOf
    <3> QED
      BY <3>2 DEF F
  <2>2. ASSUME NEW i \in DOMAIN stack, stack[i].at = "script" PROVE stack[i].id < nextId + 1
    <3>1. stack[i].id \in Nat /\ stack[i].id < nextId
      BY <1>0, <2>1, <2>2, FrameKinds DEF StackHolds, ScriptFrames
    <3> QED
      BY <1>0, <3>1
  <2> QED
    BY <1>0, <2>2 DEF StackHolds
<1> QED
  BY <1>1, <1>2, <1>4, <1>5 DEF LoopInv

LEMMA ReturnKeeps == LoopInv /\ ReturnScript => LoopInv'
<1> SUFFICES ASSUME LoopInv, ReturnScript PROVE LoopInv'
  OBVIOUS
<1>0. /\ TimersHold(timers, cancelled, nextId) /\ StackHolds(stack, timers, nextId) /\ timers \in Seq(Timers)
      /\ stack # <<>> /\ TopFrame.at = "script" /\ stack' = Beneath(stack)
      /\ UNCHANGED <<clock, cancelled, nextId, raf, pageJobs, records, scheduled, ghost, interrupts>>
  BY OnIsTop DEF LoopInv, TimersHold, ReturnScript, Pop
<1>1. CASE timers' = timers
  BY <1>0, <1>1, PopKeeps
<1>2. CASE /\ TopFrame.period # Once /\ TopFrame.id \notin cancelled
           /\ timers' = Append(timers, [id |-> TopFrame.id, when |-> clock + TopFrame.period, period |-> TopFrame.period])
  <2> DEFINE t == [id |-> TopFrame.id, when |-> clock + TopFrame.period, period |-> TopFrame.period]
             F == LoopFrames
             n == Len(stack)
  <2>1. stack \in Seq(F) /\ TopFrame = stack[n] /\ TopFrame \in ScriptFrames
    BY <1>0, TopIs, FrameKinds
  <2> HIDE DEF F
  <2>2. /\ n \in Nat \ {0} /\ DOMAIN stack = 1..n /\ n \in DOMAIN stack
        /\ DOMAIN Beneath(stack) = 1..(n - 1) /\ \A i \in 1..(n - 1) : Beneath(stack)[i] = stack[i] /\ i \in 1..n /\ i < n
    BY <2>1, <1>0, BeneathIs, LenProperties
  <2> HIDE DEF n
  <2>3. TopFrame.id # 0 /\ TopFrame.id < nextId
    BY <1>0, <1>2, <2>1, <2>2 DEF StackHolds
  <2>4. t \in Timers /\ t.id = TopFrame.id
    <3>1. TopFrame.id \in Nat /\ TopFrame.period \in Delays
      BY <1>2, <2>1 DEF ScriptFrames, Periods
    <3>a. clock \in Nat
      BY DEF LoopInv
    <3>b. TopFrame.period \in Nat
      BY <3>1, LoopConstants
    <3>2. clock + TopFrame.period \in Nat
      BY <3>a, <3>b
    <3> QED
      BY <3>1, <3>2, <2>3 DEF Timers, Periods
  <2> HIDE DEF t
  <2>5. /\ timers' \in Seq(Timers)
        /\ \A i \in DOMAIN timers' : timers'[i] = t \/ \E k \in DOMAIN timers : timers'[i] = timers[k]
    BY <1>0, <1>2, <2>4, TimerAdded DEF t
  <2>6. TimersHold(timers', cancelled, nextId)
    BY <1>0, <1>2, <2>3, <2>4, <2>5 DEF TimersHold
  <2>7. StackHolds(Beneath(stack), timers, nextId)
    BY <1>0, PoppedHolds
  <2>8. \A i \in DOMAIN Beneath(stack) : Beneath(stack)[i].at = "script" => Beneath(stack)[i].id # t.id
    <3> SUFFICES ASSUME NEW i \in 1..(n - 1), stack[i].at = "script", stack[i].id = TopFrame.id PROVE FALSE
      BY <2>2, <2>4
    <3> QED
      BY <1>0, <2>1, <2>2, <2>3 DEF StackHolds
  <2>9. StackHolds(stack', timers', nextId)
    BY <1>0, <2>5, <2>7, <2>8 DEF StackHolds
  <2>10. \A o : Covered(stack, o) => Covered(stack', o)
    BY <1>0, <2>1, PoppedCovers DEF F, n
  <2>11. DeliveryHolds(records', pageJobs', stack', interrupts')
    BY <1>0, <2>10 DEF LoopInv, DeliveryHolds
  <2> QED
    BY <1>0, <2>6, <2>9, <2>11 DEF LoopInv
<1> QED
  BY <1>1, <1>2 DEF ReturnScript

LEMMA TimerKeeps == LoopInv /\ FlushTimer => LoopInv'
<1> SUFFICES ASSUME LoopInv, FlushTimer PROVE LoopInv'
  OBVIOUS
<1>0. /\ TimersHold(timers, cancelled, nextId) /\ StackHolds(stack, timers, nextId) /\ timers \in Seq(Timers)
  BY DEF LoopInv, TimersHold
<1>1. PICK i \in DOMAIN timers :
        /\ Quiet
        /\ timers' = AtPositions(timers, {k \in DOMAIN timers : timers[k].id # timers[i].id})
        /\ stack' = Append(Append(Beneath(stack), NextFlush), Script(timers[i].id, timers[i].period))
        /\ ghost' = (ghost \/ timers[i].id \in cancelled)
        /\ UNCHANGED <<clock, cancelled, nextId, raf, pageJobs, records, scheduled, interrupts>>
  BY DEF FlushTimer, EnterFrame
<1> DEFINE kept == {k \in DOMAIN timers : timers[k].id # timers[i].id}
           f == Script(timers[i].id, timers[i].period)
           g == NextFlush
           b == Append(Beneath(stack), g)
<1>2. /\ kept \subseteq DOMAIN timers /\ \A k \in kept : timers[k].id # timers[i].id
      /\ timers' = AtPositions(timers, kept) /\ stack' = Append(b, f)
  BY <1>1
<1> HIDE DEF kept
<1>3. timers' \in Seq(Timers) /\ \A j \in DOMAIN timers' : \E k \in kept : timers'[j] = timers[k]
  BY <1>0, <1>2, TimersKept
<1>4. timers[i] \in Timers
  BY <1>0, ElementsOf
<1>5. f \in ScriptFrames /\ f.id = timers[i].id /\ f.id # 0 /\ f.at = "script"
  BY <1>4 DEF Script, ScriptFrames, Timers
<1>6. f.id < nextId /\ f.id \notin cancelled
  BY <1>0, <1>5 DEF TimersHold
<1> HIDE DEF f
<1>7. On("flush") /\ stack # <<>>
  BY <1>1, OnIsTop DEF Quiet, Draining, Looping
<1>8. g \in FlushRecords
  BY <1>7, FlushFrame, FlushUpdates DEF NextFlush
<1>9. Plain(g)
  BY <1>8 DEF Plain, LoopFrames, FlushRecords
<1> HIDE DEF g
<1>10. StackHolds(Beneath(stack), timers, nextId)
  BY <1>0, <1>7, PoppedHolds
<1>11. StackHolds(b, timers, nextId)
  BY <1>0, <1>9, <1>10, PushedPlain
<1> HIDE DEF b
<1>12. StackHolds(stack', timers', nextId)
  BY <1>2, <1>3, <1>5, <1>6, <1>11, PushedTimer
<1>13. TimersHold(timers', cancelled, nextId)
  BY <1>0, <1>2, <1>3 DEF TimersHold
<1>14. \A o : Covered(stack, o) => Covered(stack', o)
  <2>1. /\ Beneath(stack) \in Seq(LoopFrames) /\ b \in Seq(LoopFrames) /\ stack \in Seq(LoopFrames) /\ g \in LoopFrames /\ f \in LoopFrames
    BY <1>0, <1>10, <1>11, <1>9, <1>5 DEF StackHolds, Plain, LoopFrames
  <2>2. TopFrame.at = "flush" /\ TopFrame = stack[Len(stack)]
    BY <1>7, OnIsTop DEF TopFrame
  <2>3. \A o : Covered(stack, o) => Covered(Beneath(stack), o)
    BY <1>7, <2>1, <2>2, PoppedCovers
  <2>4. \A o : Covered(Beneath(stack), o) => Covered(b, o)
    BY <2>1, PushedCovers DEF b
  <2>5. \A o : Covered(b, o) => Covered(stack', o)
    BY <2>1, <1>2, PushedCovers
  <2> QED
    BY <2>3, <2>4, <2>5
<1>15. DeliveryHolds(records', pageJobs', stack', interrupts')
  BY <1>1, <1>14 DEF LoopInv, DeliveryHolds
<1>16. ~ghost'
  BY <1>1, <1>5, <1>6 DEF LoopInv
<1> QED
  BY <1>1, <1>12, <1>13, <1>15, <1>16 DEF LoopInv

LEMMA JobsKeep ==
  ASSUME LoopInv, QueueTask \/ (\E w \in SUBSET Observers : Mutate(w)) \/ \E o \in Observers : TakeRecords(o)
  PROVE  LoopInv'
<1>0. /\ UNCHANGED <<clock, timers, cancelled, nextId, raf, stack, ghost, interrupts>>
      /\ pageJobs \in Seq({"deliver", "task"}) /\ records \subseteq Observers /\ (scheduled => Owed(pageJobs))
      /\ DeliveryHolds(records, pageJobs, stack, interrupts)
  BY DEF LoopInv, QueueTask, Mutate, TakeRecords
<1>1. CASE QueueTask
  <2>1. pageJobs' = Append(pageJobs, "task") /\ UNCHANGED <<records, scheduled>>
    BY <1>1 DEF QueueTask
  <2>2. pageJobs' \in Seq({"deliver", "task"}) /\ (Owed(pageJobs) => Owed(pageJobs'))
    BY <1>0, <2>1, JobAdded
  <2> QED
    BY <1>0, <2>1, <2>2 DEF LoopInv, DeliveryHolds
<1>2. ASSUME NEW w \in SUBSET Observers, Mutate(w) PROVE LoopInv'
  <2>1. pageJobs' \in Seq({"deliver", "task"}) /\ Owed(pageJobs')
    BY <1>0, <1>2, JobAdded DEF Mutate
  <2>2. records' \subseteq Observers
    BY <1>0, <1>2 DEF Mutate
  <2> QED
    BY <1>0, <2>1, <2>2 DEF LoopInv, DeliveryHolds
<1>3. ASSUME NEW o \in Observers, TakeRecords(o) PROVE LoopInv'
  <2>1. records' \subseteq records /\ UNCHANGED <<pageJobs, scheduled>>
    BY <1>3 DEF TakeRecords
  <2> QED
    BY <1>0, <2>1 DEF LoopInv, DeliveryHolds
<1> QED
  BY <1>1, <1>2, <1>3

LEMMA InterruptKeeps == LoopInv /\ InterruptScript => LoopInv'
<1> SUFFICES ASSUME LoopInv, InterruptScript PROVE LoopInv'
  OBVIOUS
<1>1. /\ stack' = <<>> /\ interrupts' = interrupts + 1
      /\ UNCHANGED <<clock, timers, cancelled, nextId, raf, pageJobs, records, scheduled, ghost>>
  BY DEF InterruptScript
<1>2. StackHolds(<<>>, timers, nextId)
  <2> DEFINE F == LoopFrames
  <2> HIDE DEF F
  <2>1. <<>> \in Seq(F) /\ DOMAIN <<>> = {}
    BY EmptySeq
  <2> QED
    BY <2>1 DEF StackHolds, F
<1>3. interrupts' \in Nat /\ interrupts' # 0
  BY <1>1 DEF LoopInv
<1> QED
  BY <1>1, <1>2, <1>3 DEF LoopInv, DeliveryHolds

LEMMA LoopStarts == LoopInit => LoopInv
<1> SUFFICES ASSUME LoopInit PROVE LoopInv
  OBVIOUS
<1>1. DOMAIN <<>> = {} /\ <<>> \in Seq(Nat) /\ <<>> \in Seq({"deliver", "task"})
  BY EmptySeq
<1>2. <<>> \in Seq(LoopFrames) /\ <<>> \in Seq(Timers)
  <2> DEFINE F == LoopFrames
             T == Timers
  <2> HIDE DEF F, T
  <2>1. <<>> \in Seq(F) /\ <<>> \in Seq(T)
    BY EmptySeq
  <2> QED
    BY <2>1 DEF F, T
<1> QED
  BY <1>1, <1>2 DEF LoopInit, LoopInv, TimersHold, StackHolds, DeliveryHolds

(* __prowsetkFlush, clearTimeout and the delivery microtask: whatever their *)
(* callbacks flush, clear, arm, mutate or take, and however deep they nest, *)
(* no cleared timer runs, none is entered twice, and no record is stranded. *)
THEOREM LoopWordIsKept == LoopSpec => []LoopKeepsItsWord
<1>1. LoopInv /\ [LoopNext]_LoopVars => LoopInv'
  <2> SUFFICES ASSUME LoopInv, [LoopNext]_LoopVars PROVE LoopInv'
    OBVIOUS
  <2>1. CASE Load \/ Wait
    BY <2>1, WaitKeeps
  <2>2. CASE Evaluate \/ Pump \/ Click
    BY <2>2, PushKeeps
  <2>3. CASE Delivered \/ FlushEnd
    <3>1. /\ stack # <<>> /\ stack' = Beneath(stack) /\ (TopFrame.at = "deliver" => TopFrame.left = {})
          /\ UNCHANGED <<timers, cancelled, nextId, ghost, interrupts, raf, clock, pageJobs, records, scheduled>>
      BY <2>3 DEF Delivered, FlushEnd, On, Pop
    <3> QED
      BY <3>1, PopKeeps
  <2>4. CASE FlushLifecycle \/ FlushJob \/ FlushRound \/ FlushFrames
    BY <2>4, FlushKeeps
  <2>5. CASE \E o \in Observers : Deliver(o)
    BY <2>5, DeliverKeeps
  <2>6. CASE Frame
    BY <2>6, FrameKeeps
  <2>7. CASE FlushTimer
    BY <2>7, TimerKeeps
  <2>8. CASE ReturnScript
    BY <2>8, ReturnKeeps
  <2>9. CASE \E d \in Delays : SetTimer(d, Once) \/ SetTimer(d, d)
    <3>1. PICK d \in Delays : SetTimer(d, Once) \/ SetTimer(d, d)
      BY <2>9
    <3>2. Once \in Periods /\ d \in Periods
      BY DEF Periods
    <3> QED
      BY <3>1, <3>2, SetTimerKeeps
  <2>10. CASE \E id \in LoopIds : CancelTimer(id)
    BY <2>10, CancelKeeps
  <2>11. CASE RequestFrame
    BY <2>11, FramesKeep
  <2>12. CASE QueueTask \/ (\E w \in SUBSET Observers : Mutate(w)) \/ \E o \in Observers : TakeRecords(o)
    BY <2>12, JobsKeep
  <2>13. CASE InterruptScript
    BY <2>13, InterruptKeeps
  <2>14. CASE UNCHANGED LoopVars
    BY <2>14, Same
  <2> QED
    BY <2>1, <2>2, <2>3, <2>4, <2>5, <2>6, <2>7, <2>8, <2>9, <2>10, <2>11, <2>12, <2>13, <2>14 DEF LoopNext, ScriptOp, LoopStep
<1>2. LoopInv => LoopKeepsItsWord
  BY DEF LoopInv, LoopKeepsItsWord, ClearedTimersAreDead, RecordsAreDelivered, StackHolds, DeliveryHolds, Owed, Covered
<1> QED
  BY <1>1, <1>2, LoopStarts, PTL DEF LoopSpec
=============================================================================
