----------------------------- MODULE QuteBridge ------------------------------
(***************************************************************************)
(* The qutebrowser bridge (tools/qutebrowser-bridge): the broker's         *)
(* Conversation, the drivers that ask it for browser actions, and the      *)
(* marionettes, userscripts that poll for an action, run it in the page    *)
(* and have a sender publish a fresh capture.  A handler of the broker     *)
(* holds the condition's lock except while it waits, so it is one step up  *)
(* to the wait and one after it.  An action's id is its number.            *)
(***************************************************************************)
EXTENDS Integers, FiniteSets

CONSTANTS
  Drivers,      \* callers of act
  Marionettes,  \* controller ids, one per marionette process
  MaxActions    \* Conversation.max_actions

ASSUME BridgeConstants == MaxActions \in Nat

Absent  == "absent"
Actions == 1..MaxActions

VARIABLES
  qClosed, controller, pending, qSent, result, actionCount, latest, \* Conversation
  drv,      \* each driver: "idle", or the action its act waits for
  poll,     \* the next requests the broker holds, by controller id
  ctl,      \* each marionette: see CtlPlaces
  holds,    \* the action each marionette has received
  senders,  \* spawned senders that have not published yet
  ran,      \* history: how often each action was run in the page
  handed,   \* history: how many actions next has handed out
  answered  \* history: actions whose act returned a snapshot

conversation == <<qClosed, controller, pending, qSent, result, actionCount, latest>>
QbVars == <<conversation, drv, poll, ctl, holds, senders, ran, handed, answered>>

CtlPlaces == {"off", "attached", "polling", "run", "spawn", "leaving", "gone"}

QbInit ==
  /\ qClosed = FALSE /\ controller = Absent /\ pending = 0 /\ qSent = FALSE
  /\ result = 0 /\ actionCount = 0 /\ latest = FALSE
  /\ drv = [d \in Drivers |-> 0] /\ poll = {}
  /\ ctl = [m \in Marionettes |-> "off"] /\ holds = [m \in Marionettes |-> 0]
  /\ senders = {} /\ ran = [a \in Actions |-> 0] /\ handed = 0 /\ answered = {}

Go(m, place) == ctl' = [ctl EXCEPT ![m] = place]

-----------------------------------------------------------------------------
(* finish, the end of the broker's lifetime, and close(): nothing reopens.  *)
FinishConversation ==
  /\ ~qClosed /\ qClosed' = TRUE
  /\ UNCHANGED <<controller, pending, qSent, result, actionCount, latest,
                 drv, poll, ctl, holds, senders, ran, handed, answered>>

(* act: up to its wait, and after it (a result, a close or the timeout).    *)
Act(d) ==
  /\ drv[d] = 0 /\ ~qClosed /\ controller # Absent /\ latest
  /\ pending = 0 /\ actionCount < MaxActions
  /\ actionCount' = actionCount + 1 /\ pending' = actionCount + 1
  /\ qSent' = FALSE /\ result' = 0 /\ drv' = [drv EXCEPT ![d] = actionCount + 1]
  /\ UNCHANGED <<qClosed, controller, latest, poll, ctl, holds, senders, ran, handed, answered>>
(* Mutant: an act that times out leaves the conversation open. *)
ActReturnsOpen(d) ==
  /\ drv[d] # 0 /\ drv' = [drv EXCEPT ![d] = 0]
  /\ pending' = 0 /\ result' = 0
  /\ answered' = IF result = 0 \/ qClosed THEN answered ELSE answered \cup {drv[d]}
  /\ UNCHANGED <<qClosed, controller, qSent, actionCount, latest, poll, ctl, holds, senders, ran, handed>>

ActReturns(d) ==
  /\ drv[d] # 0 /\ drv' = [drv EXCEPT ![d] = 0]
  /\ pending' = 0 /\ result' = 0
  /\ IF result = 0 \/ qClosed
     THEN qClosed' = TRUE /\ UNCHANGED answered
     ELSE answered' = answered \cup {drv[d]} /\ UNCHANGED qClosed
  /\ UNCHANGED <<controller, qSent, actionCount, latest, poll, ctl, holds, senders, ran, handed>>

-----------------------------------------------------------------------------
(* marionette(): attach, publish the first capture, then poll.              *)
Attach(m) ==
  /\ ctl[m] = "off"
  /\ IF qClosed \/ controller # Absent
     THEN Go(m, "gone") /\ UNCHANGED controller
     ELSE Go(m, "attached") /\ controller' = m
  /\ UNCHANGED <<qClosed, pending, qSent, result, actionCount, latest,
                 drv, poll, holds, senders, ran, handed, answered>>
PublishPage(m) ==
  /\ ctl[m] = "attached"
  /\ IF qClosed THEN Go(m, "leaving") /\ UNCHANGED latest ELSE Go(m, "polling") /\ latest' = TRUE
  /\ UNCHANGED <<qClosed, controller, pending, qSent, result, actionCount,
                 drv, poll, holds, senders, ran, handed, answered>>

(* next: the controller is checked before the wait, not after it.           *)
NextRequest(m) ==
  /\ ctl[m] = "polling" /\ m \notin poll /\ controller = m
  /\ IF qClosed THEN Go(m, "leaving") /\ UNCHANGED poll ELSE poll' = poll \cup {m} /\ UNCHANGED ctl
  /\ UNCHANGED <<conversation, drv, holds, senders, ran, handed, answered>>

Delivery == ~qClosed /\ pending # 0 /\ ~qSent
NextReturns(m) ==
  /\ m \in poll /\ poll' = poll \ {m}
  /\ qSent' = (qSent \/ Delivery) /\ handed' = handed + (IF Delivery THEN 1 ELSE 0)
  /\ IF ctl[m] # "polling" THEN UNCHANGED <<ctl, holds>>       \* nobody reads the reply
     ELSE IF Delivery THEN Go(m, "run") /\ holds' = [holds EXCEPT ![m] = pending]
     ELSE (IF qClosed THEN Go(m, "leaving") ELSE UNCHANGED ctl) /\ UNCHANGED holds
  /\ UNCHANGED <<qClosed, controller, pending, result, actionCount, latest,
                 drv, senders, ran, answered>>

(* jseval of the action file, the settling delay, then the sender.          *)
Run(m) ==
  /\ ctl[m] = "run" /\ Go(m, "spawn") /\ ran' = [ran EXCEPT ![holds[m]] = @ + 1]
  /\ UNCHANGED <<conversation, drv, poll, holds, senders, handed, answered>>
Spawn(m) ==
  /\ ctl[m] = "spawn" /\ Go(m, "polling") /\ senders' = senders \cup {holds[m]}
  /\ UNCHANGED <<conversation, drv, poll, holds, ran, handed, answered>>

(* ptk-qute-send: only the capture of the pending action completes it.      *)
Publish(a) ==
  /\ a \in senders /\ senders' = senders \ {a}
  /\ result' = IF ~qClosed /\ pending = a /\ qSent THEN a ELSE result
  /\ UNCHANGED <<qClosed, controller, pending, qSent, actionCount, latest,
                 drv, poll, ctl, holds, ran, handed, answered>>

(* The finally clause detaches; a killed marionette does not.               *)
InterruptMarionette(m) ==
  /\ ctl[m] \in {"attached", "polling", "run", "spawn"}
  /\ \/ Go(m, "leaving") \/ Go(m, "gone")
  /\ UNCHANGED <<conversation, drv, poll, holds, senders, ran, handed, answered>>
Detach(m) ==
  /\ ctl[m] = "leaving" /\ Go(m, "gone")
  /\ IF qClosed \/ controller # m THEN UNCHANGED <<controller, qClosed>>
     ELSE controller' = Absent /\ qClosed' = (pending # 0)
  /\ UNCHANGED <<pending, qSent, result, actionCount, latest,
                 drv, poll, holds, senders, ran, handed, answered>>

-----------------------------------------------------------------------------
QbNext ==
  \/ FinishConversation \/ \E d \in Drivers : Act(d) \/ ActReturns(d)
  \/ \E a \in Actions : Publish(a)
  \/ \E m \in Marionettes :
       \/ Attach(m) \/ PublishPage(m) \/ NextRequest(m) \/ NextReturns(m)
       \/ Run(m) \/ Spawn(m) \/ InterruptMarionette(m) \/ Detach(m)
QbSpec == QbInit /\ [][QbNext]_QbVars

-----------------------------------------------------------------------------
QbTypeOK ==
  /\ qClosed \in BOOLEAN /\ controller \in Marionettes \cup {Absent} /\ qSent \in BOOLEAN
  /\ pending \in 0..MaxActions /\ result \in {0, pending} /\ actionCount \in 0..MaxActions
  /\ latest \in BOOLEAN /\ drv \in [Drivers -> 0..MaxActions] /\ poll \subseteq Marionettes
  /\ ctl \in [Marionettes -> CtlPlaces] /\ holds \in [Marionettes -> 0..MaxActions]
  /\ senders \subseteq Actions /\ ran \in [Actions -> Nat] /\ handed \in Nat /\ answered \subseteq Actions

(* manual/33: "only its matching fresh action capture can complete the      *)
(* waiting call": no action runs twice, an action whose act returned a      *)
(* snapshot did run, and one act waits at a time.                           *)
NoActionTwice ==
  /\ \A a \in Actions : ran[a] <= 1 /\ (a \in answered => ran[a] = 1)
  /\ Cardinality({d \in Drivers : drv[d] # 0}) <= 1

(* The bridge is an ActionSlot: an action that was asked for is handed to   *)
(* one poller, or the conversation closes; it is not dropped, offered again *)
(* or run twice when a poll outlives its controller or an act times out.    *)
Slot == INSTANCE ActionSlot WITH
  Budget <- MaxActions, asked <- actionCount, taken <- handed,
  slot   <- IF qClosed THEN "over" ELSE IF pending = 0 THEN "free"
            ELSE IF qSent THEN "taken" ELSE "asked"
BridgeIsActionSlot == Slot!SlotSpec /\ []NoActionTwice
=============================================================================
