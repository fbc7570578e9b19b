--------------------------- MODULE ServiceProofs ----------------------------
(***************************************************************************)
(* The servers and watchers. The mutex of the web interface, for any       *)
(* number of clients, embedding threads, sessions and documents. The       *)
(* qutebrowser bridge implements ActionSlot and runs no action twice, for  *)
(* every set of drivers and marionettes and every action limit. Beacon     *)
(* gives a driver no page its tab had left before the user's click, for    *)
(* every set of Flashes and tabs. Pagewatch loses no change and runs no    *)
(* action twice or out of order, for every set of watchers and contents.   *)
(* The crawl engine's record stays sound, for every site and limit.        *)
(***************************************************************************)
EXTENDS WebInterface, QuteBridge, Beacon, Pagewatch, SpiderEngine, FiniteSetTheorems, SequenceTheorems, TLAPS

-----------------------------------------------------------------------------
(* The web interface.                                                      *)

Places == {"accept", "read", "want", "returned", "crashed", "idle"} \cup Inside
Caller == [at : Places, req : WebRequests]
Client == [at : {"off", "queued", "ready", "open", "sent", "ws", "closing"}, req : WebRequests]

(* The shapes of what the callers and the server thread share *)
WireOK ==
  /\ clients \in [Clients -> Client] /\ callers \in [Callers -> Caller]
  /\ backlog \in Seq(Clients) /\ serving \in Clients \cup {Nobody}

(* A caller is inside handle() or handle_websocket() exactly while it holds *)
(* the mutex; the server thread has a client while it works on a request.   *)
HolderIsInside == \A c \in Callers : callers[c].at \in Inside <=> lock = c
ServerHasClient == callers[Server].at \in {"read", "want"} \cup Inside => serving \in Clients

(* Hosts call handle(), which serves no WebSocket.                          *)
HostsCallHandle == \A h \in Hosts : callers[h].req.op # "upgrade"

WebInv == WireOK /\ HolderIsInside /\ ServerHasClient /\ HostsCallHandle /\ OwnResponsesOnly

LEMMA CallersDiffer == Nobody \notin Callers /\ Server \notin Hosts /\ Server \in Callers /\ Hosts \subseteq Callers
  BY WebConstants DEF Callers, Server, Nobody

LEMMA PageIsRequest == PageRequest \in WebRequests /\ PageRequest.op # "upgrade"
  BY DEF PageRequest, WebRequests

LEMMA WebInitInv == WebInit => WebInv
<1> SUFFICES ASSUME WebInit PROVE WebInv
  OBVIOUS
<1>1. WireOK
  BY PageIsRequest DEF WebInit, WireOK, Client, Caller, Places
<1>2. \A c \in Callers : callers[c].at \notin Inside \cup {"read", "want", "observing"} /\ callers[c].req.op # "upgrade"
  BY PageIsRequest DEF WebInit, Inside
<1>3. lock = Nobody /\ observer = Unobserved
  BY DEF WebInit
<1> QED BY <1>1, <1>2, <1>3, CallersDiffer DEF WebInv, HolderIsInside, ServerHasClient, HostsCallHandle, OwnResponsesOnly

(* What a step does to where its caller is: the mutex follows.              *)
LEMMA LeaveIs ==
  ASSUME WebInv, NEW c \in Callers, callers[c].at \in Inside, Leave(c)
  PROVE  WireOK' /\ HolderIsInside' /\ ServerHasClient' /\ HostsCallHandle'
         /\ lock' = Nobody /\ \A d \in Callers : callers'[d].at \notin Inside
<1> USE DEF WebInv
<1>1. lock = c /\ lock' = Nobody
  BY DEF Leave, HolderIsInside
<1>2. PICK p \in {"accept", "idle"} : callers' = [callers EXCEPT ![c] = [at |-> p, req |-> PageRequest]]
  BY DEF Leave
<1>3. callers' \in [Callers -> Caller]
  BY <1>2, PageIsRequest DEF WireOK, Caller, Places
<1>4. clients' \in [Clients -> Client] /\ serving' \in Clients \cup {Nobody} /\ backlog' \in Seq(Clients)
  BY PageIsRequest DEF Leave, WireOK, Client
<1>5. \A d \in Callers : d # c => callers'[d] = callers[d] /\ callers[d].at \notin Inside
  BY <1>1, <1>2 DEF HolderIsInside, WireOK
<1>6. callers'[c].at = p /\ callers'[c].req = PageRequest
  BY <1>2 DEF WireOK
<1>7. \A d \in Callers : callers'[d].at \notin Inside
  BY <1>5, <1>6 DEF Inside
<1>8. HolderIsInside'
  BY <1>1, <1>7, CallersDiffer DEF HolderIsInside
<1>9. HostsCallHandle'
  BY <1>5, <1>6, PageIsRequest, CallersDiffer DEF HostsCallHandle
<1>10. ServerHasClient'
  <2>1. CASE c = Server
    BY <1>6, <2>1 DEF ServerHasClient, Inside
  <2>2. CASE c # Server
    <3>1. serving' = serving
      BY <2>2 DEF Leave
    <3> QED BY <1>5, <2>2, <3>1, CallersDiffer DEF ServerHasClient
  <2> QED BY <2>1, <2>2
<1> QED BY <1>1, <1>3, <1>4, <1>7, <1>8, <1>9, <1>10 DEF WireOK

(* A step of the wire moves nobody into or out of the critical section.     *)
LEMMA OutsideStep ==
  ASSUME WebInv, UNCHANGED <<lock, observer, observed>>, WireOK',
         \A c \in Callers : callers'[c].at = callers[c].at \/ {callers[c].at, callers'[c].at} \cap Inside = {}
  PROVE  HolderIsInside' /\ OwnResponsesOnly'
<1>1. HolderIsInside'
  BY DEF WebInv, HolderIsInside
<1>2. \A c \in Callers : callers'[c].at = "observing" <=> callers[c].at = "observing"
  BY DEF Inside
<1>3. OwnResponsesOnly'
  BY <1>2 DEF WebInv, OwnResponsesOnly
<1> QED BY <1>1, <1>3

LEMMA WebStep == WebInv /\ [WebNext]_WebVars => WebInv'
<1> SUFFICES ASSUME WebInv, [WebNext]_WebVars PROVE WebInv'
  OBVIOUS
<1>0. WireOK /\ HolderIsInside /\ ServerHasClient /\ HostsCallHandle /\ OwnResponsesOnly
  BY DEF WebInv
<1>1. \A c \in Callers : callers[c].at \in Inside => lock = c /\ \A d \in Callers : callers[d].at \in Inside => d = c
  BY <1>0 DEF HolderIsInside
<1>2. ASSUME NEW k \in Clients, Connect(k) \/ HangUp(k) \/ \E r \in Sent : Send(k, r) PROVE WebInv'
  <2>1. UNCHANGED <<lock, observer, observed, callers, serving>>
    BY <1>2 DEF Connect, HangUp, Send
  <2>2. backlog' \in Seq(Clients)
    BY <1>0, <1>2 DEF Connect, HangUp, Send, WireOK
  <2>3. clients' \in [Clients -> Client]
    BY <1>0, <1>2, WebRequestsAssumption DEF Connect, HangUp, Send, WireOK, Client
  <2>4. WireOK'
    BY <1>0, <2>1, <2>2, <2>3 DEF WireOK
  <2>5. HolderIsInside' /\ OwnResponsesOnly'
    BY <2>1, <2>4, OutsideStep
  <2> QED BY <1>0, <2>1, <2>4, <2>5 DEF WebInv, ServerHasClient, HostsCallHandle
<1>3. CASE Accept
  <2>1. UNCHANGED <<lock, observer, observed>>
    BY <1>3 DEF Accept
  <2>2. Head(backlog) \in Clients /\ Tail(backlog) \in Seq(Clients)
    BY <1>0, <1>3 DEF Accept, WireOK
  <2>3. serving' \in Clients /\ backlog' \in Seq(Clients)
    BY <1>3, <2>2 DEF Accept
  <2>4. clients' \in [Clients -> Client]
    BY <1>0, <1>3, <2>2 DEF Accept, WireOK, Client
  <2>5. callers' = [callers EXCEPT ![Server].at = "read"] /\ callers[Server].at = "accept"
    BY <1>3 DEF Accept, At
  <2>6. /\ callers' \in [Callers -> Caller] /\ callers'[Server].at = "read" /\ callers'[Server].req = callers[Server].req
        /\ \A c \in Callers : c # Server => callers'[c] = callers[c]
    BY <1>0, <2>5, CallersDiffer DEF WireOK, Caller, Places
  <2>7. WireOK'
    BY <2>3, <2>4, <2>6 DEF WireOK
  <2>8. HolderIsInside' /\ OwnResponsesOnly'
    BY <2>1, <2>5, <2>6, <2>7, OutsideStep DEF Inside
  <2> QED BY <1>0, <2>3, <2>6, <2>7, <2>8, CallersDiffer DEF WebInv, ServerHasClient, HostsCallHandle
<1>4. CASE ReadRequest
  <2>1. UNCHANGED <<lock, observer, observed, clients, backlog, serving>>
    BY <1>4 DEF ReadRequest, wire
  <2>2. serving \in Clients /\ callers[Server].at = "read"
    BY <1>0, <1>4 DEF ReadRequest, ServerHasClient
  <2>3. clients[serving].req \in WebRequests
    BY <1>0, <2>2 DEF WireOK, Client
  <2>4. callers' = [callers EXCEPT ![Server] = [at |-> "want", req |-> clients[serving].req]]
    BY <1>4 DEF ReadRequest
  <2>5. /\ callers' \in [Callers -> Caller] /\ callers'[Server].at = "want"
        /\ \A c \in Callers : c # Server => callers'[c] = callers[c]
    BY <1>0, <2>3, <2>4, CallersDiffer DEF WireOK, Caller, Places
  <2>6. WireOK'
    BY <1>0, <2>1, <2>5 DEF WireOK
  <2>7. HolderIsInside' /\ OwnResponsesOnly'
    BY <2>1, <2>2, <2>5, <2>6, OutsideStep DEF Inside
  <2> QED BY <1>0, <2>1, <2>2, <2>5, <2>6, <2>7, CallersDiffer DEF WebInv, ServerHasClient, HostsCallHandle
<1>5. CASE Return
  <2>1. UNCHANGED <<lock, observer, observed, clients, backlog, serving>> /\ callers[Server].at = "accept"
    BY <1>5 DEF Return, wire
  <2>2. callers' = [callers EXCEPT ![Server].at = "returned"]
    BY <1>5 DEF Return, At
  <2>3. /\ callers' \in [Callers -> Caller] /\ callers'[Server].at = "returned"
        /\ \A c \in Callers : c # Server => callers'[c] = callers[c]
    BY <1>0, <2>2, CallersDiffer DEF WireOK, Caller, Places
  <2>4. WireOK'
    BY <1>0, <2>1, <2>3 DEF WireOK
  <2>5. HolderIsInside' /\ OwnResponsesOnly'
    BY <2>1, <2>3, <2>4, OutsideStep DEF Inside
  <2> QED BY <1>0, <2>3, <2>4, <2>5, CallersDiffer DEF WebInv, ServerHasClient, HostsCallHandle, Inside
<1>6. CASE Stop \/ UNCHANGED WebVars
  <2>1. UNCHANGED <<lock, observer, observed, clients, backlog, serving, callers>>
    BY <1>6 DEF Stop, WebVars
  <2>2. WireOK'
    BY <1>0, <2>1 DEF WireOK
  <2>3. HolderIsInside' /\ OwnResponsesOnly'
    BY <2>1, <2>2, OutsideStep
  <2> QED BY <1>0, <2>1, <2>2, <2>3 DEF WebInv, ServerHasClient, HostsCallHandle
<1>7. ASSUME NEW h \in Hosts, NEW r \in Called, Call(h, r) PROVE WebInv'
  <2>1. UNCHANGED <<lock, observer, observed, clients, backlog, serving>> /\ callers[h].at = "idle"
    BY <1>7 DEF Call, wire
  <2>2. r \in WebRequests /\ r.op # "upgrade"
    BY WebRequestsAssumption
  <2>3. callers' = [callers EXCEPT ![h] = [at |-> "want", req |-> r]]
    BY <1>7 DEF Call
  <2>4. /\ callers' \in [Callers -> Caller] /\ callers'[h].at = "want" /\ callers'[h].req = r
        /\ \A c \in Callers : c # h => callers'[c] = callers[c]
    BY <1>0, <2>2, <2>3, CallersDiffer DEF WireOK, Caller, Places
  <2>5. WireOK'
    BY <1>0, <2>1, <2>4 DEF WireOK
  <2>6. HolderIsInside' /\ OwnResponsesOnly'
    BY <2>1, <2>4, <2>5, OutsideStep DEF Inside
  <2> QED BY <1>0, <2>1, <2>2, <2>4, <2>5, <2>6, CallersDiffer DEF WebInv, ServerHasClient, HostsCallHandle
<1>8. ASSUME NEW c \in Callers, Enter(c) PROVE WebInv'
  <2>1. lock = Nobody /\ lock' = c /\ UNCHANGED <<observer, observed, backlog, serving>> /\ callers[c].at = "want"
    BY <1>8 DEF Enter
  <2>2. \A d \in Callers : callers[d].at \notin Inside
    BY <1>0, <2>1, CallersDiffer DEF HolderIsInside
  <2>3. PICK p \in {"ws", "run"} : callers' = [callers EXCEPT ![c].at = p]
    BY <1>8 DEF Enter, At
  <2>4. /\ callers' \in [Callers -> Caller] /\ callers'[c].at = p /\ callers'[c].req = callers[c].req
        /\ \A d \in Callers : d # c => callers'[d] = callers[d]
    BY <1>0, <2>3 DEF WireOK, Caller, Places, Inside
  <2>5. clients' \in [Clients -> Client]
    <3>1. CASE UNCHANGED clients
      BY <1>0, <3>1 DEF WireOK
    <3>2. CASE callers[c].req.op = "upgrade" /\ clients' = [clients EXCEPT ![serving].at = "ws"]
      <4>1. c = Server
        BY <1>0, <3>2 DEF HostsCallHandle, Callers
      <4>2. serving \in Clients
        BY <1>0, <2>1, <4>1 DEF ServerHasClient
      <4> QED BY <1>0, <3>2, <4>2 DEF WireOK, Client
    <3> QED BY <1>8, <3>1, <3>2 DEF Enter
  <2>6. WireOK'
    BY <1>0, <2>1, <2>4, <2>5 DEF WireOK
  <2>7. HolderIsInside'
    BY <2>1, <2>2, <2>4 DEF HolderIsInside, Inside
  <2>8. OwnResponsesOnly'
    BY <1>0, <2>1, <2>2, <2>4 DEF OwnResponsesOnly, Inside
  <2>9. ServerHasClient'
    BY <1>0, <2>1, <2>4, CallersDiffer DEF ServerHasClient
  <2>10. HostsCallHandle'
    BY <1>0, <2>4, CallersDiffer DEF HostsCallHandle
  <2> QED BY <2>6, <2>7, <2>8, <2>9, <2>10 DEF WebInv
<1>9. ASSUME NEW c \in Callers, Observe(c) PROVE WebInv'
  <2>1. UNCHANGED <<lock, clients, backlog, serving>> /\ callers[c].at = "run" /\ observed' = {}
    BY <1>9 DEF Observe, Running, wire
  <2>2. callers' = [callers EXCEPT ![c].at = "observing"]
    BY <1>9 DEF Observe, At
  <2>3. /\ callers' \in [Callers -> Caller] /\ callers'[c].at = "observing" /\ callers'[c].req = callers[c].req
        /\ \A d \in Callers : d # c => callers'[d] = callers[d]
    BY <1>0, <2>2 DEF WireOK, Caller, Places, Inside
  <2>4. WireOK'
    BY <1>0, <2>1, <2>3 DEF WireOK
  <2>5. HolderIsInside'
    BY <1>0, <2>1, <2>3 DEF HolderIsInside, Inside
  <2>6. OwnResponsesOnly'
    BY <2>1, <2>3 DEF OwnResponsesOnly
  <2>7. ServerHasClient' /\ HostsCallHandle'
    BY <1>0, <2>1, <2>3, CallersDiffer DEF ServerHasClient, HostsCallHandle, Inside
  <2> QED BY <2>4, <2>5, <2>6, <2>7 DEF WebInv
(* A handler that ends: nobody is inside afterwards. *)
<1>10. ASSUME NEW c \in Callers, callers[c].at \in Inside, Leave(c), observer' = Unobserved PROVE WebInv'
  <2>1. WireOK' /\ HolderIsInside' /\ ServerHasClient' /\ HostsCallHandle'
        /\ \A d \in Callers : callers'[d].at \notin Inside
    BY <1>10, LeaveIs
  <2>2. OwnResponsesOnly'
    BY <1>10, <2>1 DEF OwnResponsesOnly, Inside
  <2> QED BY <2>1, <2>2 DEF WebInv
<1>11. ASSUME NEW c \in Callers, callers[c].at \in {"run", "ws"} PROVE observer = Unobserved /\ callers[c].at \in Inside
  BY <1>0, <1>1, <1>11 DEF OwnResponsesOnly, Inside
<1>12. ASSUME NEW c \in Callers, AnswerOnly(c) \/ CreateSession(c) \/ Navigate(c) \/ FindElement(c) \/ UseElement(c) \/ DeleteSession(c)
       PROVE  WebInv'
  <2>1. callers[c].at = "run" /\ Leave(c) /\ UNCHANGED observer
    BY <1>12 DEF AnswerOnly, CreateSession, Navigate, FindElement, UseElement, DeleteSession, Running
  <2> QED BY <1>10, <1>11, <2>1
<1>13. ASSUME NEW c \in Callers, Extract(c) PROVE WebInv'
  BY <1>10, <1>13 DEF Extract, Inside
<1>14. CASE CdpClose
  BY <1>10, <1>11, <1>14, CallersDiffer DEF CdpClose
<1>15. CASE CdpNavigate
  <2>1. callers[Server].at = "ws" /\ UNCHANGED <<observer, clients, backlog, serving>>
    BY <1>15 DEF CdpNavigate, wire
  <2>2. observer = Unobserved /\ lock = Server
    BY <1>1, <1>11, <2>1, CallersDiffer
  <2>3. CASE UNCHANGED <<lock, callers, observed>>
    <3>1. WireOK'
      BY <1>0, <2>1, <2>3 DEF WireOK
    <3>2. HolderIsInside' /\ OwnResponsesOnly'
      BY <2>1, <2>3, <3>1, OutsideStep
    <3> QED BY <1>0, <2>1, <2>3, <3>1, <3>2 DEF WebInv, ServerHasClient, HostsCallHandle
  <2>4. CASE lock' = Nobody /\ callers' = [callers EXCEPT ![Server].at = "crashed"]
    <3>1. /\ callers' \in [Callers -> Caller] /\ callers'[Server].at = "crashed"
          /\ \A d \in Callers : d # Server => callers'[d] = callers[d]
      BY <1>0, <2>4, CallersDiffer DEF WireOK, Caller, Places
    <3>2. WireOK'
      BY <1>0, <2>1, <3>1 DEF WireOK
    <3>3. \A d \in Callers : callers'[d].at \notin Inside
      BY <1>1, <2>1, <3>1, CallersDiffer DEF Inside
    <3>4. HolderIsInside' /\ OwnResponsesOnly'
      BY <2>1, <2>2, <2>4, <3>3, CallersDiffer DEF HolderIsInside, OwnResponsesOnly, Inside
    <3>5. ServerHasClient' /\ HostsCallHandle'
      BY <1>0, <3>1, CallersDiffer DEF ServerHasClient, HostsCallHandle, Inside
    <3> QED BY <3>2, <3>4, <3>5 DEF WebInv
  <2> QED BY <1>15, <2>2, <2>3, <2>4 DEF CdpNavigate, Responded, At
<1> QED BY <1>2, <1>3, <1>4, <1>5, <1>6, <1>7, <1>8, <1>9, <1>12, <1>13, <1>14, <1>15, CallersDiffer
        DEF WebNext, ServerStep, Handle

(* One caller is inside the interface at a time, whoever calls.             *)
THEOREM WebInvariant == WebSpec => []WebInv
  BY WebInitInv, WebStep, PTL DEF WebSpec

(* OwnResponsesOnly, for any number of callers: the record of an endpoints  *)
(* request holds nobody else's responses, and its subscription ends with it.*)
THEOREM OwnResponses == WebSpec => []OwnResponsesOnly
  BY WebInvariant, PTL DEF WebInv

-----------------------------------------------------------------------------
(* The qutebrowser bridge.                                                 *)

(* One act waits at a time, and for the action that is pending, which is   *)
(* the one asked for last; a result is that of the pending action.         *)
OneWaits ==
  /\ \A d \in Drivers : drv[d] # 0 => drv[d] = pending
  /\ \A d, e \in Drivers : drv[d] # 0 /\ drv[e] # 0 => d = e
  /\ pending # 0 => pending = actionCount
  /\ result # 0 => qSent

(* An action that was not handed out is held by nobody and has not run.    *)
Unsent(a) == a > actionCount \/ (a = pending /\ ~qSent)
HeldOnce ==
  /\ \A a \in Actions : Unsent(a) => ran[a] = 0
  /\ \A m \in Marionettes : holds[m] \in Actions => ~Unsent(holds[m])
  /\ \A m \in Marionettes : ctl[m] \in {"run", "spawn"} => holds[m] \in Actions
  /\ \A m \in Marionettes : ctl[m] = "run" => ran[holds[m]] = 0
  /\ \A m, n \in Marionettes :
       ctl[m] = "run" /\ ctl[n] = "run" /\ holds[m] = holds[n] => m = n

(* Whatever is published, or was answered, did run, once.                  *)
RanOnce ==
  /\ \A a \in Actions : ran[a] \in 0..1
  /\ \A m \in Marionettes : ctl[m] = "spawn" => ran[holds[m]] = 1
  /\ \A a \in Actions : a \in senders \/ a \in answered \/ a = result => ran[a] = 1

QbInv == QbTypeOK /\ OneWaits /\ HeldOnce /\ RanOnce

(* The type invariant in two parts, one for each prover.                   *)
Flags == qClosed \in BOOLEAN /\ qSent \in BOOLEAN /\ latest \in BOOLEAN
Shapes ==
  /\ controller \in Marionettes \cup {Absent}
  /\ pending \in 0..MaxActions /\ result \in {0, pending} /\ actionCount \in 0..MaxActions
  /\ drv \in [Drivers -> 0..MaxActions] /\ poll \subseteq Marionettes
  /\ ctl \in [Marionettes -> CtlPlaces] /\ holds \in [Marionettes -> 0..MaxActions]
  /\ senders \subseteq Actions /\ ran \in [Actions -> Nat] /\ handed \in Nat /\ answered \subseteq Actions

LEMMA TypeParts == (QbTypeOK <=> Flags /\ Shapes) /\ (QbTypeOK' <=> Flags' /\ Shapes')
  BY Zenon DEF QbTypeOK, Flags, Shapes

LEMMA QbInitInv == QbInit => QbInv
<1> SUFFICES ASSUME QbInit PROVE QbInv
  OBVIOUS
<1>1. QbTypeOK
  <2>1. Flags
    BY DEF QbInit, Flags
  <2>2. Shapes
    BY BridgeConstants DEF QbInit, Shapes, Actions, CtlPlaces
  <2> QED BY <2>1, <2>2, TypeParts
<1>2. OneWaits
  BY DEF QbInit, OneWaits
<1>3. HeldOnce
  BY DEF QbInit, HeldOnce, Actions
<1>4. RanOnce
  BY DEF QbInit, RanOnce, Actions
<1> QED BY <1>1, <1>2, <1>3, <1>4 DEF QbInv

LEMMA FlagsStep == Flags /\ [QbNext]_QbVars => Flags'
<1> SUFFICES ASSUME Flags, [QbNext]_QbVars PROVE Flags'
  OBVIOUS
<1>1. qClosed' \in BOOLEAN
  BY Zenon DEF Flags, QbNext, QbVars, conversation, FinishConversation, Act, ActReturns, Publish, Attach,
    PublishPage, NextRequest, NextReturns, Run, Spawn, InterruptMarionette, Detach
<1>2. qSent' \in BOOLEAN
  BY Zenon DEF Flags, QbNext, QbVars, conversation, FinishConversation, Act, ActReturns, Publish, Attach,
    PublishPage, NextRequest, NextReturns, Run, Spawn, InterruptMarionette, Detach
<1>3. latest' \in BOOLEAN
  BY Zenon DEF Flags, QbNext, QbVars, conversation, FinishConversation, Act, ActReturns, Publish, Attach,
    PublishPage, NextRequest, NextReturns, Run, Spawn, InterruptMarionette, Detach
<1> QED BY <1>1, <1>2, <1>3 DEF Flags

LEMMA ShapesStep == QbInv /\ [QbNext]_QbVars => Shapes'
<1> SUFFICES ASSUME QbInv, [QbNext]_QbVars PROVE Shapes'
  OBVIOUS
<1>0. Shapes
  BY TypeParts DEF QbInv
<1> USE <1>0, BridgeConstants DEF QbInv, Shapes, OneWaits, HeldOnce, Actions, CtlPlaces, Go
<1>2. ASSUME NEW d \in Drivers, Act(d) PROVE Shapes'
  BY <1>2 DEF Act
<1>3. ASSUME NEW d \in Drivers, ActReturns(d) PROVE Shapes'
  <2>1. /\ drv[d] # 0 /\ drv' = [drv EXCEPT ![d] = 0] /\ pending' = 0 /\ result' = 0
        /\ answered' \subseteq answered \cup {drv[d]}
        /\ UNCHANGED <<controller, actionCount, poll, ctl, holds, senders, ran, handed>>
    BY <1>3, Zenon DEF ActReturns
  <2> QED BY <2>1
<1>4. ASSUME NEW a \in Actions, Publish(a) PROVE Shapes'
  BY <1>4 DEF Publish
<1>5. ASSUME NEW m \in Marionettes, Attach(m) PROVE Shapes'
  BY <1>5 DEF Attach
<1>6. ASSUME NEW m \in Marionettes, PublishPage(m) PROVE Shapes'
  BY <1>6 DEF PublishPage
<1>7. ASSUME NEW m \in Marionettes, NextRequest(m) PROVE Shapes'
  BY <1>7 DEF NextRequest, conversation
<1>8. ASSUME NEW m \in Marionettes, NextReturns(m) PROVE Shapes'
  <2>1. handed' = handed + 1 \/ handed' = handed + 0
    BY <1>8, Zenon DEF NextReturns
  <2>2. /\ poll' = poll \ {m}
        /\ UNCHANGED <<controller, pending, result, actionCount, drv, senders, ran, answered>>
        /\ \/ UNCHANGED ctl \/ Go(m, "run") \/ Go(m, "leaving")
        /\ holds' = holds \/ holds' = [holds EXCEPT ![m] = pending]
    BY <1>8, Zenon DEF NextReturns
  <2>3. ctl' \in [Marionettes -> CtlPlaces]
    <3>1. ctl' = ctl \/ ctl' = [ctl EXCEPT ![m] = "run"] \/ ctl' = [ctl EXCEPT ![m] = "leaving"]
      BY <2>2, Zenon DEF Go
    <3> HIDE DEF QbInv
    <3> QED BY <3>1
  <2>4. holds' \in [Marionettes -> 0..MaxActions]
    BY <2>2
  <2>5. handed' \in Nat
    BY <2>1
  <2> QED BY <2>2, <2>3, <2>4, <2>5
<1>9. ASSUME NEW m \in Marionettes, Run(m) PROVE Shapes'
  BY <1>9 DEF Run, conversation
<1>10. ASSUME NEW m \in Marionettes, Spawn(m) PROVE Shapes'
  BY <1>10 DEF Spawn, conversation
<1>11. ASSUME NEW m \in Marionettes, InterruptMarionette(m) PROVE Shapes'
  BY <1>11 DEF InterruptMarionette, conversation
<1>12. ASSUME NEW m \in Marionettes, Detach(m) PROVE Shapes'
  BY <1>12 DEF Detach
<1>1. CASE FinishConversation
  BY <1>1 DEF FinishConversation
<1>13. CASE UNCHANGED QbVars
  BY <1>13 DEF QbVars, conversation
<1> QED
  BY <1>1, <1>2, <1>3, <1>4, <1>5, <1>6, <1>7, <1>8, <1>9, <1>10, <1>11, <1>12, <1>13 DEF QbNext

LEMMA OneWaitsStep == QbInv /\ [QbNext]_QbVars => OneWaits'
<1> SUFFICES ASSUME QbInv, [QbNext]_QbVars PROVE OneWaits'
  OBVIOUS
<1>0. Shapes /\ Flags
  BY TypeParts DEF QbInv
<1> USE <1>0, BridgeConstants DEF QbInv, Shapes, Flags, OneWaits, Actions
<1>1. CASE FinishConversation
  BY <1>1 DEF FinishConversation
<1>2. ASSUME NEW d \in Drivers, Act(d) PROVE OneWaits'
  BY <1>2 DEF Act
<1>3. ASSUME NEW d \in Drivers, ActReturns(d) PROVE OneWaits'
  BY <1>3 DEF ActReturns
<1>4. ASSUME NEW a \in Actions, Publish(a) PROVE OneWaits'
  BY <1>4 DEF Publish
<1>5. ASSUME NEW m \in Marionettes, Attach(m) PROVE OneWaits'
  BY <1>5 DEF Attach
<1>6. ASSUME NEW m \in Marionettes, PublishPage(m) PROVE OneWaits'
  BY <1>6 DEF PublishPage
<1>7. ASSUME NEW m \in Marionettes, NextRequest(m) PROVE OneWaits'
  BY <1>7 DEF NextRequest, conversation
<1>8. ASSUME NEW m \in Marionettes, NextReturns(m) PROVE OneWaits'
  BY <1>8 DEF NextReturns, Delivery
<1>9. ASSUME NEW m \in Marionettes, Run(m) PROVE OneWaits'
  BY <1>9 DEF Run, conversation
<1>10. ASSUME NEW m \in Marionettes, Spawn(m) PROVE OneWaits'
  BY <1>10 DEF Spawn, conversation
<1>11. ASSUME NEW m \in Marionettes, InterruptMarionette(m) PROVE OneWaits'
  BY <1>11 DEF InterruptMarionette, conversation
<1>12. ASSUME NEW m \in Marionettes, Detach(m) PROVE OneWaits'
  BY <1>12 DEF Detach
<1>13. CASE UNCHANGED QbVars
  BY <1>13 DEF QbVars, conversation
<1> QED
  BY <1>1, <1>2, <1>3, <1>4, <1>5, <1>6, <1>7, <1>8, <1>9, <1>10, <1>11, <1>12, <1>13 DEF QbNext

LEMMA HeldOnceStep == QbInv /\ [QbNext]_QbVars => HeldOnce'
<1> SUFFICES ASSUME QbInv, [QbNext]_QbVars PROVE HeldOnce'
  OBVIOUS
<1>0. Shapes /\ Flags
  BY TypeParts DEF QbInv
<1> USE <1>0, BridgeConstants DEF QbInv, Shapes, Flags, OneWaits, HeldOnce, Unsent, Actions, Go
<1>1. CASE FinishConversation
  BY <1>1 DEF FinishConversation
<1>2. ASSUME NEW d \in Drivers, Act(d) PROVE HeldOnce'
  BY <1>2 DEF Act
<1>3. ASSUME NEW d \in Drivers, ActReturns(d) PROVE HeldOnce'
  BY <1>3 DEF ActReturns
<1>4. ASSUME NEW a \in Actions, Publish(a) PROVE HeldOnce'
  BY <1>4 DEF Publish
<1>5. ASSUME NEW m \in Marionettes, Attach(m) PROVE HeldOnce'
  <2>1. Go(m, "gone") \/ Go(m, "attached")
    BY <1>5, Zenon DEF Attach
  <2>2. UNCHANGED <<pending, qSent, actionCount, holds, ran>>
    BY <1>5 DEF Attach
  <2> QED BY <2>1, <2>2
<1>6. ASSUME NEW m \in Marionettes, PublishPage(m) PROVE HeldOnce'
  <2>1. Go(m, "leaving") \/ Go(m, "polling")
    BY <1>6, Zenon DEF PublishPage
  <2>2. UNCHANGED <<pending, qSent, actionCount, holds, ran>>
    BY <1>6 DEF PublishPage
  <2> QED BY <2>1, <2>2
<1>7. ASSUME NEW m \in Marionettes, NextRequest(m) PROVE HeldOnce'
  BY <1>7 DEF NextRequest, conversation
<1>8. ASSUME NEW m \in Marionettes, NextReturns(m) PROVE HeldOnce'
  <2>1. UNCHANGED <<pending, actionCount, ran>>
    BY <1>8 DEF NextReturns
  <2>2. CASE Delivery /\ ctl[m] = "polling"
    <3>1. qSent' /\ Go(m, "run") /\ holds' = [holds EXCEPT ![m] = pending]
      BY <1>8, <2>2, Zenon DEF NextReturns
    <3>2. pending \in Actions /\ ~qSent /\ pending = actionCount
      BY <2>2 DEF Delivery
    <3>3. Unsent(pending)
      BY <3>2
    <3> QED BY <2>1, <3>1, <3>2, <3>3
  <2>3. CASE ~(Delivery /\ ctl[m] = "polling")
    <3>1. UNCHANGED holds /\ (UNCHANGED ctl \/ Go(m, "leaving"))
      BY <1>8, <2>3, Zenon DEF NextReturns
    <3>2. \A x \in Actions : Unsent(x)' => Unsent(x)
      <4>1. qSent => qSent'
        BY <1>8, Zenon DEF NextReturns
      <4> QED BY <2>1, <4>1
    <3>3. \A n \in Marionettes : ctl'[n] \in {"run", "spawn"} => ctl'[n] = ctl[n]
      BY <3>1
    <3> HIDE DEF Unsent
    <3> QED BY <2>1, <3>1, <3>2, <3>3
  <2> QED BY <2>2, <2>3
<1>9. ASSUME NEW m \in Marionettes, Run(m) PROVE HeldOnce'
  BY <1>9 DEF Run, conversation
<1>10. ASSUME NEW m \in Marionettes, Spawn(m) PROVE HeldOnce'
  BY <1>10 DEF Spawn, conversation
<1>11. ASSUME NEW m \in Marionettes, InterruptMarionette(m) PROVE HeldOnce'
  BY <1>11 DEF InterruptMarionette, conversation
<1>12. ASSUME NEW m \in Marionettes, Detach(m) PROVE HeldOnce'
  BY <1>12 DEF Detach
<1>13. CASE UNCHANGED QbVars
  BY <1>13 DEF QbVars, conversation
<1> QED
  BY <1>1, <1>2, <1>3, <1>4, <1>5, <1>6, <1>7, <1>8, <1>9, <1>10, <1>11, <1>12, <1>13 DEF QbNext

LEMMA RanOnceStep == QbInv /\ [QbNext]_QbVars => RanOnce'
<1> SUFFICES ASSUME QbInv, [QbNext]_QbVars PROVE RanOnce'
  OBVIOUS
<1>0. Shapes /\ Flags
  BY TypeParts DEF QbInv
<1> USE <1>0, BridgeConstants DEF QbInv, Shapes, Flags, OneWaits, HeldOnce, RanOnce, Unsent, Actions, Go
<1>1. CASE FinishConversation
  BY <1>1 DEF FinishConversation
<1>2. ASSUME NEW d \in Drivers, Act(d) PROVE RanOnce'
  BY <1>2 DEF Act
<1>3. ASSUME NEW d \in Drivers, ActReturns(d) PROVE RanOnce'
  BY <1>3 DEF ActReturns
<1>4. ASSUME NEW a \in Actions, Publish(a) PROVE RanOnce'
  BY <1>4 DEF Publish
<1>5. ASSUME NEW m \in Marionettes, Attach(m) PROVE RanOnce'
  BY <1>5 DEF Attach
<1>6. ASSUME NEW m \in Marionettes, PublishPage(m) PROVE RanOnce'
  BY <1>6 DEF PublishPage
<1>7. ASSUME NEW m \in Marionettes, NextRequest(m) PROVE RanOnce'
  BY <1>7 DEF NextRequest, conversation
<1>8. ASSUME NEW m \in Marionettes, NextReturns(m) PROVE RanOnce'
  BY <1>8 DEF NextReturns, Delivery
<1>9. ASSUME NEW m \in Marionettes, Run(m) PROVE RanOnce'
  BY <1>9 DEF Run, conversation
<1>10. ASSUME NEW m \in Marionettes, Spawn(m) PROVE RanOnce'
  BY <1>10 DEF Spawn, conversation
<1>11. ASSUME NEW m \in Marionettes, InterruptMarionette(m) PROVE RanOnce'
  BY <1>11 DEF InterruptMarionette, conversation
<1>12. ASSUME NEW m \in Marionettes, Detach(m) PROVE RanOnce'
  BY <1>12 DEF Detach
<1>13. CASE UNCHANGED QbVars
  BY <1>13 DEF QbVars, conversation
<1> QED
  BY <1>1, <1>2, <1>3, <1>4, <1>5, <1>6, <1>7, <1>8, <1>9, <1>10, <1>11, <1>12, <1>13 DEF QbNext

-----------------------------------------------------------------------------
(* The invariant holds: one act waits, an action is held by one marionette *)
(* until it ran, and only what ran is published or answered.               *)
THEOREM BridgeInvariant == QbSpec => []QbInv
<1>1. QbInv /\ [QbNext]_QbVars => QbInv'
  <2> SUFFICES ASSUME QbInv, [QbNext]_QbVars PROVE QbInv'
    OBVIOUS
  <2>1. QbTypeOK'
    BY TypeParts, FlagsStep, ShapesStep DEF QbInv
  <2> QED BY <2>1, OneWaitsStep, HeldOnceStep, RanOnceStep DEF QbInv
<1> QED BY <1>1, QbInitInv, PTL DEF QbSpec

(* No action runs twice, an action whose act returned a snapshot did run,  *)
(* and one act waits at a time, whatever is interrupted or times out.      *)
THEOREM NeverTwice == QbSpec => []NoActionTwice
<1>1. QbInv => NoActionTwice
  <2> SUFFICES ASSUME QbInv PROVE NoActionTwice
    OBVIOUS
  <2>1. \A a \in Actions : ran[a] <= 1 /\ (a \in answered => ran[a] = 1)
    BY DEF QbInv, RanOnce
  <2> DEFINE W == {d \in Drivers : drv[d] # 0}
  <2>2. Cardinality(W) <= 1
    <3>1. CASE W = {}
      BY <3>1, FS_EmptySet
    <3>2. CASE W # {}
      <4>1. PICK d \in W : TRUE
        BY <3>2
      <4>2. W = {d}
        BY <4>1 DEF QbInv, OneWaits
      <4> QED BY <4>2, FS_Singleton
    <3> QED BY <3>1, <3>2
  <2> QED BY <2>1, <2>2 DEF NoActionTwice
<1> QED BY <1>1, BridgeInvariant, PTL

(* The bridge implements ActionSlot: an action that was asked for is       *)
(* handed out once, and answered after that or the conversation is over.   *)
THEOREM BridgeRefinesSlot == QbSpec => Slot!SlotSpec
<1> DEFINE S == IF qClosed THEN "over" ELSE IF pending = 0 THEN "free" ELSE IF qSent THEN "taken" ELSE "asked"
<1>1. QbInit => Slot!SlotInit
  BY DEF QbInit, Slot!SlotInit
<1>2. QbInv /\ [QbNext]_QbVars => [Slot!SlotNext]_<<S, actionCount, handed>>
  <2> SUFFICES ASSUME QbInv, [QbNext]_QbVars PROVE [Slot!SlotNext]_<<S, actionCount, handed>>
    OBVIOUS
  <2>0. Shapes /\ Flags
    BY TypeParts DEF QbInv
  <2> USE DEF Slot!SlotNext, Slot!Ask, Slot!Take, Slot!Settle, Slot!Over
  <2> DEFINE Steps == [Slot!SlotNext]_<<S, actionCount, handed>>
  <2>6. CASE UNCHANGED <<qClosed, pending, qSent, actionCount, handed>>
    BY <2>6
  <2>1. CASE FinishConversation
    BY <2>1 DEF FinishConversation
  <2>2. ASSUME NEW d \in Drivers, Act(d) PROVE Steps
    BY <2>0, <2>2 DEF Act, Shapes
  <2>3. ASSUME NEW d \in Drivers, ActReturns(d) PROVE Steps
    BY <2>0, <2>3 DEF ActReturns, Shapes, Flags, QbInv, OneWaits
  <2>4. ASSUME NEW m \in Marionettes, NextReturns(m) PROVE Steps
    <3>1. CASE Delivery
      <4>1. qSent' /\ ~qSent /\ ~qClosed /\ pending # 0 /\ UNCHANGED <<qClosed, pending, actionCount>>
        BY ONLY <2>4, <3>1, Zenon DEF NextReturns, Delivery
      <4>2. handed' = handed + 1
        BY ONLY <2>4, <3>1, Zenon DEF NextReturns
      <4> QED BY <2>0, <4>1, <4>2 DEF Shapes
    <3>2. CASE ~Delivery
      <4>1. qSent' = qSent
        BY ONLY <2>0, <2>4, <3>2, Zenon DEF NextReturns, Flags
      <4>2. handed' = handed + 0 /\ UNCHANGED <<qClosed, pending, actionCount>>
        BY ONLY <2>4, <3>2, Zenon DEF NextReturns
      <4> QED BY <2>0, <2>6, <4>1, <4>2 DEF Shapes
    <3> QED BY <3>1, <3>2
  <2>5. ASSUME NEW m \in Marionettes, Detach(m) PROVE Steps
    BY <2>0, <2>5 DEF Detach, Flags
  <2>7. ASSUME NEW a \in Actions, Publish(a) PROVE Steps
    BY <2>6, <2>7 DEF Publish
  <2>8. ASSUME NEW m \in Marionettes,
               \/ Attach(m) \/ PublishPage(m) \/ NextRequest(m) \/ Run(m) \/ Spawn(m) \/ InterruptMarionette(m)
        PROVE  Steps
    BY <2>6, <2>8 DEF Attach, PublishPage, NextRequest, Run, Spawn, InterruptMarionette, conversation
  <2>9. CASE UNCHANGED QbVars
    BY <2>6, <2>9 DEF QbVars, conversation
  <2> QED BY <2>1, <2>2, <2>3, <2>4, <2>5, <2>7, <2>8, <2>9 DEF QbNext
<1> QED BY <1>1, <1>2, BridgeInvariant, PTL DEF QbSpec, Slot!SlotSpec

(* Both together, as the run states it of small conversations.             *)
THEOREM BridgeImplementsSlot == QbSpec => BridgeIsActionSlot
  BY BridgeRefinesSlot, NeverTwice, PTL DEF BridgeIsActionSlot

-----------------------------------------------------------------------------
(* Beacon: the state's types, and how old what it holds may be.            *)

BeaconStatuses == {"none", "seeking", "connected"}
NativeTypes == {"flash_list_request", "flash_connect", "flash_disconnect", "flash_data"}
NativeReplies == [type : {"error", "flash_list", "flash_connected", "flash_closed", "flash_queued"},
                  list : [Flashes -> BeaconStatuses]]
NativeMessages == [type : NativeTypes, flash : Flashes \cup {"none"}, tab : Tabs \cup {"none"}, serial : Nat, pages : SUBSET Nat]
BrokerEntries == [status : BeaconStatuses, tab : Tabs \cup {"none"}, seen : SUBSET Nat, idle : Nat, messages : Seq(SUBSET Nat)]
Connections == [flash : Flashes \cup {"none"}, tab : Tabs \cup {"none"}, serial : Nat]

(* A page number of first is never above one of later.                      *)
NotAfter(first, later) == \A shown \in first, taken \in later : shown <= taken

(* A message of the addon names a Flash and a tab, and a request to connect *)
(* is about a page its tab has shown.                                       *)
MessageHolds(m, where) ==
  /\ m.type # "flash_list_request" => m.flash \in Flashes
  /\ m.type \in {"flash_connect", "flash_data"} => m.tab \in Tabs
  /\ m.type = "flash_connect" => \A shown \in m.pages : shown <= where[m.tab]

(* The port keeps the order of the posts, so page data behind a connect     *)
(* was taken after the click.                                               *)
PortHolds(q, where) ==
  /\ q \in Seq(NativeMessages)
  /\ \A i \in DOMAIN q : MessageHolds(q[i], where)
  /\ \A i, j \in DOMAIN q :
       i < j /\ q[i].type = "flash_connect" /\ q[j].type = "flash_data" /\ q[i].tab = q[j].tab => NotAfter(q[i].pages, q[j].pages)

(* The broker's entry: what it queued, and what is on its way to it from    *)
(* its tab, is not from before the click.                                   *)
EntryHolds(e, q, where) ==
  /\ e \in BrokerEntries
  /\ e.status # "connected" => e.messages = <<>>
  /\ \A i \in DOMAIN e.messages : NotAfter(e.seen, e.messages[i])
  /\ e.status = "connected" =>
       /\ e.tab \in Tabs /\ \A shown \in e.seen : shown <= where[e.tab]
       /\ \A j \in DOMAIN q : q[j].type = "flash_data" /\ q[j].tab = e.tab => NotAfter(e.seen, q[j].pages)

BrokerHolds(es, q, where) ==
  /\ es = [f \in Flashes |-> es[f]]
  /\ \A f \in Flashes : EntryHolds(es[f], q, where)

(* A click is answered once: the promises of clicks are in order, behind    *)
(* the connection and behind whatever was selected under an earlier one.    *)
ClicksInOrder(waiting, n, c, extractions) ==
  /\ waiting \in Seq(NativeMessages) /\ n \in Nat
  /\ \A i \in DOMAIN waiting : waiting[i].type = "flash_connect" =>
       /\ waiting[i].flash \in Flashes /\ waiting[i].tab \in Tabs
       /\ c.serial < waiting[i].serial /\ waiting[i].serial <= n
       /\ \A x \in extractions : x.selected.serial < waiting[i].serial
       /\ \A j \in DOMAIN waiting : i < j /\ waiting[j].type = "flash_connect" => waiting[i].serial < waiting[j].serial
  /\ c.serial <= n /\ \A x \in extractions : x.selected.serial <= n

(* What the addon holds to send for its connection is of the page the tab   *)
(* shows now.                                                               *)
ConnectionHolds(c, extractions, taken, where) ==
  /\ c \in Connections
  /\ c # NoConnection => c.flash \in Flashes /\ c.tab \in Tabs /\ c.serial > 0 /\ taken \subseteq {where[c.tab]}
  /\ \A x \in extractions :
       /\ x.selected \in Connections /\ x.selected.serial > 0
       /\ x.selected = c => x.pages = {where[c.tab]}

TabsHold(where) == where \in [Tabs -> Nat]

BeaconInv ==
  /\ TabsHold(pageOf)
  /\ PortHolds(port, pageOf)
  /\ BrokerHolds(flashes, port, pageOf)
  /\ ClicksInOrder(promises, serial, connection, extracting)
  /\ ConnectionHolds(connection, extracting, captured, pageOf)
  /\ replies \in Seq(NativeReplies) /\ Len(promises) = Len(replies) + Len(port)
  /\ \A c \in stopping : c.flash \in Flashes /\ c.tab \in Tabs
  /\ asking \subseteq Flashes
  /\ \A p \in polled : NotAfter(p.seen, p.pages)

-----------------------------------------------------------------------------
(* How the parts of the invariant fare when the port moves and when tabs   *)
(* navigate.                                                               *)

LEMMA NoEntryHolds == ASSUME NEW q, NEW where PROVE EntryHolds(NoEntry, q, where)
<1>1. NoEntry.messages = <<>> /\ NoEntry.status = "none" /\ NoEntry.seen = {}
  BY DEF NoEntry
<1>2. NoEntry \in BrokerEntries
  BY DEF NoEntry, BrokerEntries, BeaconStatuses
<1> QED BY <1>1, <1>2 DEF EntryHolds, NotAfter

LEMMA TailOfPort ==
  ASSUME NEW q \in Seq(NativeMessages), q # <<>>
  PROVE  /\ Tail(q) \in Seq(NativeMessages) /\ Len(Tail(q)) = Len(q) - 1 /\ Head(q) = q[1] /\ Head(q) \in NativeMessages
         /\ 1 \in DOMAIN q
         /\ \A i \in DOMAIN Tail(q) : i \in Nat /\ i + 1 \in DOMAIN q /\ Tail(q)[i] = q[i + 1]
<1> HIDE DEF NativeMessages
<1> QED BY HeadTailProperties, Z3

LEMMA PortTaken ==
  ASSUME NEW q, NEW where, PortHolds(q, where), q # <<>>
  PROVE  PortHolds(Tail(q), where)
<1>1. q \in Seq(NativeMessages)
  BY DEF PortHolds
<1>2. \A i \in DOMAIN Tail(q) : i \in Nat /\ i + 1 \in DOMAIN q /\ Tail(q)[i] = q[i + 1]
  BY <1>1, TailOfPort
<1>3. \A i, j \in DOMAIN Tail(q) : i < j => i + 1 < j + 1
  BY <1>2
<1>4. \A i \in DOMAIN Tail(q) : MessageHolds(Tail(q)[i], where)
  BY <1>2 DEF PortHolds
<1>5. ASSUME NEW i \in DOMAIN Tail(q), NEW j \in DOMAIN Tail(q), i < j, Tail(q)[i].type = "flash_connect",
             Tail(q)[j].type = "flash_data", Tail(q)[i].tab = Tail(q)[j].tab
      PROVE  NotAfter(Tail(q)[i].pages, Tail(q)[j].pages)
  BY <1>2, <1>3, <1>5 DEF PortHolds
<1> QED BY <1>1, <1>4, <1>5, TailOfPort DEF PortHolds

LEMMA EntryAfterTaken ==
  ASSUME NEW q, NEW where, NEW e, q \in Seq(NativeMessages), EntryHolds(e, q, where), q # <<>>
  PROVE  EntryHolds(e, Tail(q), where)
<1>2. \A i \in DOMAIN Tail(q) : i + 1 \in DOMAIN q /\ Tail(q)[i] = q[i + 1]
  BY TailOfPort
<1> QED BY <1>2 DEF EntryHolds

LEMMA AppendedMessage ==
  ASSUME NEW q \in Seq(NativeMessages), NEW m \in NativeMessages
  PROVE  /\ Append(q, m) \in Seq(NativeMessages) /\ Len(Append(q, m)) = Len(q) + 1
         /\ Append(q, m)[Len(q) + 1] = m
         /\ \A i \in DOMAIN Append(q, m) : i \in Nat /\ i <= Len(q) + 1 /\ (i # Len(q) + 1 => i \in DOMAIN q /\ Append(q, m)[i] = q[i])
<1> HIDE DEF NativeMessages
<1> QED BY AppendProperties, Z3

(* A message is posted: page data only of the page its tab shows.           *)
PostHolds(m, where) ==
  m \in NativeMessages /\ MessageHolds(m, where) /\ (m.type = "flash_data" => m.pages \subseteq {where[m.tab]})

LEMMA PortPosted ==
  ASSUME NEW q, NEW where, NEW m, PortHolds(q, where), PostHolds(m, where)
  PROVE  PortHolds(Append(q, m), where)
<1> DEFINE r == Append(q, m)
<1>1. q \in Seq(NativeMessages) /\ m \in NativeMessages
  BY DEF PortHolds, PostHolds
<1>2. /\ r \in Seq(NativeMessages) /\ r[Len(q) + 1] = m /\ Len(q) \in Nat
      /\ \A i \in DOMAIN r : i \in Nat /\ i <= Len(q) + 1 /\ (i # Len(q) + 1 => i \in DOMAIN q /\ r[i] = q[i])
  BY <1>1, AppendedMessage
<1> HIDE DEF r
<1>3. \A i \in DOMAIN r : MessageHolds(r[i], where)
  BY <1>2 DEF PortHolds, PostHolds
<1>4. ASSUME NEW i \in DOMAIN r, NEW j \in DOMAIN r, i < j, r[i].type = "flash_connect", r[j].type = "flash_data", r[i].tab = r[j].tab
      PROVE  NotAfter(r[i].pages, r[j].pages)
  <2>1. i # Len(q) + 1 /\ i \in DOMAIN q /\ r[i] = q[i]
    BY <1>2, <1>4
  <2>2. CASE j # Len(q) + 1
    BY <1>2, <1>4, <2>1, <2>2 DEF PortHolds
  <2>3. CASE j = Len(q) + 1
    BY <1>2, <1>4, <2>1, <2>3 DEF PortHolds, PostHolds, MessageHolds, NotAfter
  <2> QED BY <2>2, <2>3
<1> QED BY <1>2, <1>3, <1>4 DEF PortHolds, r

LEMMA EntryAfterPosted ==
  ASSUME NEW q, NEW where, NEW m, NEW e, q \in Seq(NativeMessages), EntryHolds(e, q, where), PostHolds(m, where)
  PROVE  EntryHolds(e, Append(q, m), where)
<1> DEFINE r == Append(q, m)
<1>1. m \in NativeMessages
  BY DEF PostHolds
<1>2. /\ r[Len(q) + 1] = m
      /\ \A i \in DOMAIN r : i # Len(q) + 1 => i \in DOMAIN q /\ r[i] = q[i]
  BY <1>1, AppendedMessage
<1> HIDE DEF r
<1>3. ASSUME NEW j \in DOMAIN r, e.status = "connected", r[j].type = "flash_data", r[j].tab = e.tab
      PROVE  NotAfter(e.seen, r[j].pages)
  BY <1>2, <1>3 DEF EntryHolds, PostHolds, NotAfter
<1> QED BY <1>3 DEF EntryHolds, r

(* Tabs only go on to later pages.                                          *)
LEMMA TabsGoOn ==
  ASSUME NEW q, NEW earlier, NEW later, TabsHold(earlier), TabsHold(later), \A t \in Tabs : earlier[t] <= later[t]
  PROVE  /\ PortHolds(q, earlier) => PortHolds(q, later)
         /\ \A e : EntryHolds(e, q, earlier) => EntryHolds(e, q, later)
<1>1. ASSUME NEW t \in Tabs, NEW n \in Nat, n <= earlier[t] PROVE n <= later[t]
  BY <1>1 DEF TabsHold
<1>2. ASSUME PortHolds(q, earlier) PROVE PortHolds(q, later)
  <2>1. \A i \in DOMAIN q : q[i] \in NativeMessages
    <3> HIDE DEF NativeMessages
    <3> QED BY <1>2, ElementOfSeq DEF PortHolds
  <2>2. \A i \in DOMAIN q : q[i].pages \subseteq Nat
    BY <2>1 DEF NativeMessages
  <2> QED BY <1>1, <1>2, <2>2 DEF PortHolds, MessageHolds
<1>3. ASSUME NEW e, EntryHolds(e, q, earlier) PROVE EntryHolds(e, q, later)
  <2>1. e.seen \subseteq Nat
    BY <1>3 DEF EntryHolds, BrokerEntries
  <2> QED BY <1>1, <1>3, <2>1 DEF EntryHolds
<1> QED BY <1>2, <1>3

-----------------------------------------------------------------------------
(* The broker's operations.                                                *)

LEMMA ExpireHolds ==
  ASSUME NEW es, NEW q, NEW where, BrokerHolds(es, q, where)
  PROVE  BrokerHolds(ExpireStale(es), q, where)
  BY NoEntryHolds DEF BrokerHolds, ExpireStale

(* An entry is replaced by one that holds.                                  *)
LEMMA EntryReplaced ==
  ASSUME NEW es, NEW q, NEW where, BrokerHolds(es, q, where), NEW f \in Flashes, NEW e, EntryHolds(e, q, where)
  PROVE  BrokerHolds([es EXCEPT ![f] = e], q, where)
<1>1. \A g \in Flashes : [es EXCEPT ![f] = e][g] = IF g = f THEN e ELSE es[g]
  BY DEF BrokerHolds
<1> QED BY <1>1 DEF BrokerHolds

LEMMA CreateHolds ==
  ASSUME NEW q, NEW where, BrokerHolds(flashes, q, where), NEW f \in Flashes
  PROVE  BrokerHolds(CreateFlash(f).entries, q, where)
<1> DEFINE e == [NoEntry EXCEPT !.status = "seeking"]
<1>1. NoEntry \in BrokerEntries /\ NoEntry.messages = <<>> /\ NoEntry.seen = {}
  BY DEF NoEntry, BrokerEntries, BeaconStatuses
<1>5. e.status = "seeking" /\ e.messages = <<>> /\ e.seen = {}
  BY <1>1 DEF BrokerEntries
<1>6. e \in BrokerEntries
  BY <1>1 DEF BrokerEntries, BeaconStatuses
<1> HIDE DEF e
<1>2. EntryHolds(e, q, where)
  BY <1>5, <1>6 DEF EntryHolds, NotAfter
<1>3. BrokerHolds(ExpireStale([flashes EXCEPT ![f] = e]), q, where)
  BY <1>2, EntryReplaced, ExpireHolds
<1>4. BrokerHolds(ExpireStale(flashes), q, where)
  BY ExpireHolds
<1> QED BY <1>3, <1>4 DEF CreateFlash, Served, RefusedFlash, e

LEMMA CloseHolds ==
  ASSUME NEW q, NEW where, BrokerHolds(flashes, q, where), NEW f \in Flashes
  PROVE  BrokerHolds(CloseFlash(f).entries, q, where)
<1>1. BrokerHolds(ExpireStale([flashes EXCEPT ![f] = NoEntry]), q, where)
  BY NoEntryHolds, EntryReplaced, ExpireHolds
<1>2. BrokerHolds(ExpireStale(flashes), q, where)
  BY ExpireHolds
<1> QED BY <1>1, <1>2 DEF CloseFlash, Served, RefusedFlash

LEMMA PollHolds ==
  ASSUME NEW q, NEW where, BrokerHolds(flashes, q, where), NEW f \in Flashes
  PROVE  BrokerHolds(PollFlash(f).entries, q, where)
<1> DEFINE old == flashes[f]
           idle == [old EXCEPT !.idle = 0]
           rest == [idle EXCEPT !.messages = Tail(@)]
<1>0. EntryHolds(old, q, where)
  BY DEF BrokerHolds
<1>1. old \in BrokerEntries /\ old.messages \in Seq(SUBSET Nat)
  BY <1>0 DEF EntryHolds, BrokerEntries
<1>2. /\ idle \in BrokerEntries /\ idle.status = old.status /\ idle.seen = old.seen /\ idle.tab = old.tab
      /\ idle.messages = old.messages
  BY <1>1 DEF BrokerEntries
<1>3. EntryHolds(idle, q, where)
  <2> HIDE DEF idle, old
  <2> QED BY <1>0, <1>2 DEF EntryHolds
<1>4. ASSUME old.messages # <<>> PROVE EntryHolds(rest, q, where)
  <2>1. /\ Tail(old.messages) \in Seq(SUBSET Nat)
        /\ \A i \in DOMAIN Tail(old.messages) : i + 1 \in DOMAIN old.messages /\ Tail(old.messages)[i] = old.messages[i + 1]
    BY <1>1, <1>4, HeadTailProperties, Z3
  <2>2. /\ rest \in BrokerEntries /\ rest.status = old.status /\ rest.seen = old.seen /\ rest.tab = old.tab
        /\ rest.messages = Tail(old.messages)
    BY <1>1, <1>2, <2>1 DEF BrokerEntries
  <2>3. old.status = "connected"
    BY <1>0, <1>4 DEF EntryHolds
  <2> HIDE DEF rest, idle, old
  <2> QED BY <1>0, <2>1, <2>2, <2>3 DEF EntryHolds
<1>5. [flashes EXCEPT ![f].idle = 0] = [flashes EXCEPT ![f] = idle]
  OBVIOUS
<1>6. [flashes EXCEPT ![f].idle = 0, ![f].messages = Tail(@)] = [flashes EXCEPT ![f] = rest]
  BY <1>1 DEF BrokerHolds, BrokerEntries
<1> HIDE DEF idle, rest
<1>7. BrokerHolds(ExpireStale([flashes EXCEPT ![f].idle = 0]), q, where)
  BY <1>3, <1>5, EntryReplaced, ExpireHolds
<1>8. flashes[f].messages # <<>> => BrokerHolds(ExpireStale([flashes EXCEPT ![f].idle = 0, ![f].messages = Tail(@)]), q, where)
  BY <1>4, <1>6, EntryReplaced, ExpireHolds
<1>9. BrokerHolds(ExpireStale(flashes), q, where)
  BY ExpireHolds
<1> QED BY <1>7, <1>8, <1>9 DEF PollFlash, Served, RefusedFlash

(* A connect at the head of the port: what is behind it is not from before. *)
LEMMA ConnectHolds ==
  ASSUME NEW q, NEW where, PortHolds(q, where), q # <<>>, BrokerHolds(flashes, Tail(q), where),
         NEW f, NEW t, NEW seen, Head(q).type = "flash_connect", f = Head(q).flash, t = Head(q).tab, seen = Head(q).pages
  PROVE  BrokerHolds(ConnectTab(f, t, seen).entries, Tail(q), where)
<1> DEFINE old == flashes[f]
           e == [[[[old EXCEPT !.status = "connected"] EXCEPT !.tab = t] EXCEPT !.seen = seen] EXCEPT !.idle = 0]
<1>0. q \in Seq(NativeMessages) /\ Head(q) = q[1] /\ Head(q) \in NativeMessages /\ 1 \in DOMAIN q
      /\ \A i \in DOMAIN Tail(q) : i \in Nat /\ i + 1 \in DOMAIN q /\ Tail(q)[i] = q[i + 1]
  BY TailOfPort DEF PortHolds
<1>1. f \in Flashes /\ t \in Tabs /\ seen \subseteq Nat /\ \A shown \in seen : shown <= where[t]
  BY <1>0 DEF PortHolds, MessageHolds, NativeMessages
<1>2. EntryHolds(old, Tail(q), where)
  BY <1>1 DEF BrokerHolds
<1>3. old \in BrokerEntries
  BY <1>2 DEF EntryHolds
<1>4. /\ e \in BrokerEntries /\ e.status = "connected" /\ e.seen = seen /\ e.tab = t /\ e.messages = old.messages
  BY <1>1, <1>3 DEF BrokerEntries, BeaconStatuses
<1>5. ASSUME NEW j \in DOMAIN Tail(q), Tail(q)[j].type = "flash_data", Tail(q)[j].tab = t
      PROVE  NotAfter(seen, Tail(q)[j].pages)
  <2>1. j \in Nat /\ j + 1 \in DOMAIN q /\ Tail(q)[j] = q[j + 1] /\ j # 0
    <3>1. j \in 1..Len(Tail(q))
      <4>1. Tail(q) \in Seq(NativeMessages)
        BY <1>0, TailOfPort
      <4> QED BY <4>1, LenProperties
    <3> QED BY <1>0, <3>1
  <2>2. 1 < j + 1
    BY <2>1
  <2> QED BY <1>0, <1>5, <2>1, <2>2 DEF PortHolds
<1>6. old.status = "seeking" => EntryHolds(e, Tail(q), where)
  <2> HIDE DEF e, old
  <2> QED BY <1>1, <1>2, <1>4, <1>5 DEF EntryHolds
<1>7. [flashes EXCEPT ![f].status = "connected", ![f].tab = t, ![f].seen = seen, ![f].idle = 0] = [flashes EXCEPT ![f] = e]
  BY <1>1, <1>3 DEF BrokerHolds, BrokerEntries
<1> HIDE DEF e
<1>8. old.status = "seeking" =>
        BrokerHolds(ExpireStale([flashes EXCEPT ![f].status = "connected", ![f].tab = t, ![f].seen = seen, ![f].idle = 0]), Tail(q), where)
  BY <1>1, <1>6, <1>7, EntryReplaced, ExpireHolds
<1>9. BrokerHolds(ExpireStale(flashes), Tail(q), where)
  BY ExpireHolds
<1> QED BY <1>8, <1>9 DEF ConnectTab, Served, RefusedFlash

(* Page data at the head of the port is queued for a Flash of its tab.      *)
LEMMA PublishHolds ==
  ASSUME NEW q, NEW where, PortHolds(q, where), q # <<>>, BrokerHolds(flashes, q, where),
         NEW f, NEW t, NEW pages, Head(q).type = "flash_data", f = Head(q).flash, t = Head(q).tab, pages = Head(q).pages
  PROVE  BrokerHolds(PublishData(f, t, pages).entries, Tail(q), where)
<1> DEFINE old == flashes[f]
           more == [old EXCEPT !.messages = Append(@, pages)]
           e == [more EXCEPT !.idle = 0]
<1>0. q \in Seq(NativeMessages) /\ Head(q) = q[1] /\ Head(q) \in NativeMessages /\ 1 \in DOMAIN q
  BY TailOfPort DEF PortHolds
<1>1. f \in Flashes /\ t \in Tabs /\ pages \in SUBSET Nat
  BY <1>0 DEF PortHolds, MessageHolds, NativeMessages
<1>2. BrokerHolds(flashes, Tail(q), where)
  BY <1>0, EntryAfterTaken DEF BrokerHolds
<1>3. EntryHolds(old, q, where) /\ EntryHolds(old, Tail(q), where)
  BY <1>1, <1>2 DEF BrokerHolds
<1>4. old \in BrokerEntries /\ old.messages \in Seq(SUBSET Nat)
  BY <1>3 DEF EntryHolds, BrokerEntries
<1>5. /\ Append(old.messages, pages) \in Seq(SUBSET Nat) /\ Append(old.messages, pages)[Len(old.messages) + 1] = pages
      /\ \A i \in DOMAIN Append(old.messages, pages) : i # Len(old.messages) + 1 =>
           i \in DOMAIN old.messages /\ Append(old.messages, pages)[i] = old.messages[i]
  BY <1>1, <1>4, AppendProperties, Z3
<1>6. /\ more \in BrokerEntries /\ more.status = old.status /\ more.seen = old.seen /\ more.tab = old.tab
      /\ more.messages = Append(old.messages, pages)
  BY <1>4, <1>5 DEF BrokerEntries
<1>7. /\ e \in BrokerEntries /\ e.status = old.status /\ e.seen = old.seen /\ e.tab = old.tab
      /\ e.messages = Append(old.messages, pages)
  BY <1>6 DEF BrokerEntries
<1>8. ASSUME old.status = "connected", old.tab = t PROVE EntryHolds(e, Tail(q), where)
  <2>1. NotAfter(old.seen, pages)
    BY <1>0, <1>3, <1>8 DEF EntryHolds
  <2>2. \A i \in DOMAIN e.messages : NotAfter(e.seen, e.messages[i])
    <3> HIDE DEF e, more, old
    <3> QED BY <1>3, <1>5, <1>7, <2>1 DEF EntryHolds
  <2> HIDE DEF e, more, old
  <2> QED BY <1>3, <1>7, <1>8, <2>2 DEF EntryHolds
<1>9. [flashes EXCEPT ![f].messages = Append(@, pages), ![f].idle = 0] = [flashes EXCEPT ![f] = e]
  BY <1>1, <1>4 DEF BrokerHolds, BrokerEntries
<1> HIDE DEF e, more
<1>10. old.status = "connected" /\ old.tab = t =>
         BrokerHolds(ExpireStale([flashes EXCEPT ![f].messages = Append(@, pages), ![f].idle = 0]), Tail(q), where)
  BY <1>1, <1>2, <1>8, <1>9, EntryReplaced, ExpireHolds
<1>11. BrokerHolds(ExpireStale(flashes), Tail(q), where)
  BY <1>2, ExpireHolds
<1> QED BY <1>10, <1>11 DEF PublishData, Served, RefusedFlash

LEMMA HandledHolds ==
  ASSUME PortHolds(port, pageOf), port # <<>>, BrokerHolds(flashes, port, pageOf)
  PROVE  /\ BrokerHolds(HandleMessage(Head(port)).entries, Tail(port), pageOf)
         /\ HandleMessage(Head(port)).reply \in {"error", "flash_list", "flash_connected", "flash_closed", "flash_queued"}
<1> DEFINE m == Head(port)
<1>1. port \in Seq(NativeMessages) /\ m \in NativeMessages /\ MessageHolds(m, pageOf)
  BY TailOfPort DEF PortHolds
<1>2. BrokerHolds(flashes, Tail(port), pageOf)
  BY <1>1, EntryAfterTaken DEF BrokerHolds
<1>3. m.type \in NativeTypes
  BY <1>1 DEF NativeMessages
<1>4. CASE m.type = "flash_list_request"
  <2>1. HandleMessage(m) = Served(flashes, "flash_list")
    BY <1>4 DEF HandleMessage
  <2> QED BY <1>2, <2>1, ExpireHolds DEF Served
<1>5. CASE m.type = "flash_connect"
  <2>1. HandleMessage(m) = ConnectTab(m.flash, m.tab, m.pages)
    BY <1>5 DEF HandleMessage
  <2>2. ConnectTab(m.flash, m.tab, m.pages).reply \in {"error", "flash_connected"}
    BY DEF ConnectTab, Served, RefusedFlash
  <2> QED BY <1>2, <1>5, <2>1, <2>2, ConnectHolds
<1>6. CASE m.type = "flash_disconnect"
  <2>1. HandleMessage(m) = CloseFlash(m.flash)
    BY <1>6 DEF HandleMessage
  <2>2. CloseFlash(m.flash).reply \in {"error", "flash_closed"}
    BY DEF CloseFlash, Served, RefusedFlash
  <2>3. m.flash \in Flashes
    BY <1>1, <1>6 DEF MessageHolds
  <2> QED BY <1>2, <2>1, <2>2, <2>3, CloseHolds
<1>7. CASE m.type = "flash_data"
  <2>1. HandleMessage(m) = PublishData(m.flash, m.tab, m.pages)
    BY <1>7 DEF HandleMessage
  <2>2. PublishData(m.flash, m.tab, m.pages).reply \in {"error", "flash_queued"}
    BY DEF PublishData, Served, RefusedFlash
  <2> QED BY <1>7, <2>1, <2>2, PublishHolds
<1> QED BY <1>3, <1>4, <1>5, <1>6, <1>7 DEF NativeTypes

-----------------------------------------------------------------------------
(* The addon's clicks and its connection.                                  *)

LEMMA PromisePosted ==
  ASSUME NEW waiting, NEW n, NEW k, NEW c, NEW extractions, NEW m, ClicksInOrder(waiting, n, c, extractions), c.serial \in Nat,
         \A x \in extractions : x.selected.serial \in Nat, m \in NativeMessages,
         IF m.type = "flash_connect" THEN m.serial = n + 1 /\ k = n + 1 /\ m.flash \in Flashes /\ m.tab \in Tabs ELSE k = n
  PROVE  ClicksInOrder(Append(waiting, m), k, c, extractions)
<1> DEFINE r == Append(waiting, m)
<1>1. waiting \in Seq(NativeMessages) /\ n \in Nat /\ k \in Nat /\ n <= k
  BY DEF ClicksInOrder
<1>2. /\ r \in Seq(NativeMessages) /\ r[Len(waiting) + 1] = m /\ Len(waiting) \in Nat
      /\ \A i \in DOMAIN r : i \in Nat /\ i <= Len(waiting) + 1 /\ (i # Len(waiting) + 1 => i \in DOMAIN waiting /\ r[i] = waiting[i])
  BY <1>1, AppendedMessage
<1>3. \A i \in DOMAIN waiting : waiting[i].serial \in Nat
  <2>1. \A i \in DOMAIN waiting : waiting[i] \in NativeMessages
    <3> HIDE DEF NativeMessages
    <3> QED BY <1>1, ElementOfSeq
  <2> QED BY <2>1 DEF NativeMessages
<1> HIDE DEF r
<1>4. c.serial <= k /\ \A x \in extractions : x.selected.serial <= k
  BY <1>1 DEF ClicksInOrder
<1>5. ASSUME NEW i \in DOMAIN r, r[i].type = "flash_connect"
      PROVE  /\ r[i].flash \in Flashes /\ r[i].tab \in Tabs /\ c.serial < r[i].serial /\ r[i].serial <= k
             /\ \A x \in extractions : x.selected.serial < r[i].serial
             /\ \A j \in DOMAIN r : i < j /\ r[j].type = "flash_connect" => r[i].serial < r[j].serial
  <2>1. CASE i = Len(waiting) + 1
    <3>1. m.type = "flash_connect" /\ m.serial = n + 1 /\ k = n + 1 /\ m.flash \in Flashes /\ m.tab \in Tabs /\ r[i] = m
      BY <1>2, <1>5, <2>1
    <3>2. c.serial < n + 1 /\ \A x \in extractions : x.selected.serial < n + 1
      BY <1>1 DEF ClicksInOrder
    <3>3. \A j \in DOMAIN r : ~(i < j)
      BY <1>2, <2>1
    <3> QED BY <3>1, <3>2, <3>3, <1>1
  <2>2. CASE i # Len(waiting) + 1
    <3>1. i \in DOMAIN waiting /\ r[i] = waiting[i] /\ waiting[i].type = "flash_connect" /\ waiting[i].serial \in Nat
      BY <1>2, <1>3, <1>5, <2>2
    <3>2. /\ r[i].flash \in Flashes /\ r[i].tab \in Tabs /\ c.serial < r[i].serial /\ r[i].serial <= n
          /\ \A x \in extractions : x.selected.serial < r[i].serial
      BY <3>1 DEF ClicksInOrder
    <3>3. ASSUME NEW j \in DOMAIN r, i < j, r[j].type = "flash_connect" PROVE r[i].serial < r[j].serial
      <4>1. CASE j = Len(waiting) + 1
        BY <1>1, <1>2, <3>1, <3>2, <3>3, <4>1
      <4>2. CASE j # Len(waiting) + 1
        BY <1>2, <3>1, <3>3, <4>2 DEF ClicksInOrder
      <4> QED BY <4>1, <4>2
    <3> QED BY <1>1, <3>1, <3>2, <3>3
  <2> QED BY <2>1, <2>2
<1> QED BY <1>1, <1>2, <1>4, <1>5 DEF ClicksInOrder, r

(* Fewer extractions wait, or the connection is gone.                       *)
LEMMA FewerPending ==
  ASSUME NEW waiting, NEW n, NEW c, NEW extractions, NEW fewer \in SUBSET extractions, NEW taken, NEW where
  PROVE  /\ ClicksInOrder(waiting, n, c, extractions) => ClicksInOrder(waiting, n, c, fewer)
         /\ ConnectionHolds(c, extractions, taken, where) => ConnectionHolds(c, fewer, taken, where)
<1>1. ClicksInOrder(waiting, n, c, extractions) => ClicksInOrder(waiting, n, c, fewer)
  BY DEF ClicksInOrder
<1>2. ConnectionHolds(c, extractions, taken, where) => ConnectionHolds(c, fewer, taken, where)
  BY DEF ConnectionHolds
<1> QED BY <1>1, <1>2

LEMMA NothingConnected == NoConnection \in Connections /\ NoConnection.serial = 0
  BY DEF NoConnection, Connections

LEMMA ConnectionGone ==
  ASSUME NEW waiting, NEW n, NEW c, NEW extractions, NEW taken, NEW where, NEW later,
         ClicksInOrder(waiting, n, c, extractions), ConnectionHolds(c, extractions, taken, where)
  PROVE  ClicksInOrder(waiting, n, NoConnection, extractions) /\ ConnectionHolds(NoConnection, extractions, {}, later)
<1>1. c.serial \in Nat /\ n \in Nat
  BY DEF ConnectionHolds, Connections, ClicksInOrder
<1>2. \A i \in DOMAIN waiting : waiting[i].serial \in Nat
  <2>1. \A i \in DOMAIN waiting : waiting[i] \in NativeMessages
    <3> HIDE DEF NativeMessages
    <3> QED BY ElementOfSeq DEF ClicksInOrder
  <2> QED BY <2>1 DEF NativeMessages
<1>3. \A i \in DOMAIN waiting : c.serial < waiting[i].serial => 0 < waiting[i].serial
  BY <1>1, <1>2
<1>4. ClicksInOrder(waiting, n, NoConnection, extractions)
  BY <1>1, <1>3, NothingConnected DEF ClicksInOrder
<1>5. \A x \in extractions : x.selected # NoConnection
  BY NothingConnected DEF ConnectionHolds
<1> QED BY <1>4, <1>5, NothingConnected DEF ConnectionHolds

-----------------------------------------------------------------------------
(* The steps.                                                              *)

(* A step of the broker and its drivers: the addon does not notice.         *)
LEMMA BrokerStep ==
  ASSUME BeaconInv, UNCHANGED AddonVars, BrokerHolds(flashes', port, pageOf), \A p \in polled' : NotAfter(p.seen, p.pages)
  PROVE  BeaconInv'
  BY DEF BeaconInv, AddonVars

(* A step of the addon that sends m, or nothing, and lets extractions go.   *)
LEMMA SendingNative ==
  ASSUME BeaconInv, NEW m, PostHolds(m, pageOf), m.type # "flash_connect", SendNative(m),
         UNCHANGED <<replies, connection, captured, pageOf, serial, flashes, polled>>,
         extracting' \subseteq extracting, \A c \in stopping' : c.flash \in Flashes /\ c.tab \in Tabs, asking' \subseteq Flashes
  PROVE  BeaconInv'
<1>1. port' = Append(port, m) /\ promises' = Append(promises, m)
  BY DEF SendNative
<1>2. port \in Seq(NativeMessages) /\ promises \in Seq(NativeMessages) /\ m \in NativeMessages /\ replies \in Seq(NativeReplies)
  BY DEF BeaconInv, PortHolds, ClicksInOrder, PostHolds
<1>3. PortHolds(port', pageOf) /\ BrokerHolds(flashes, port', pageOf)
  BY <1>1, <1>2, PortPosted, EntryAfterPosted DEF BeaconInv, BrokerHolds
<1>4. connection.serial \in Nat /\ \A x \in extracting : x.selected.serial \in Nat
  BY DEF BeaconInv, ConnectionHolds, Connections
<1>5. ClicksInOrder(promises', serial, connection, extracting)
  BY <1>1, <1>2, <1>4, PromisePosted DEF BeaconInv
<1>6. ClicksInOrder(promises', serial, connection, extracting') /\ ConnectionHolds(connection, extracting', captured, pageOf)
  BY <1>5, FewerPending DEF BeaconInv
<1>7. Len(promises') = Len(replies) + Len(port')
  <2>1. Len(port') = Len(port) + 1 /\ Len(promises') = Len(promises) + 1 /\ Len(replies) \in Nat /\ Len(port) \in Nat
    BY <1>1, <1>2, AppendedMessage, LenProperties
  <2> QED BY <2>1 DEF BeaconInv
<1> QED BY <1>3, <1>6, <1>7 DEF BeaconInv

LEMMA QuietAddon ==
  ASSUME BeaconInv, NoSend, UNCHANGED <<replies, pageOf, serial, flashes, polled>>,
         ClicksInOrder(promises, serial, connection', extracting'), ConnectionHolds(connection', extracting', captured', pageOf),
         \A c \in stopping' : c.flash \in Flashes /\ c.tab \in Tabs, asking' \subseteq Flashes
  PROVE  BeaconInv'
  BY DEF BeaconInv, NoSend

(* Page data for the connection is of the page it shows.                    *)
LEMMA DataHolds ==
  ASSUME BeaconInv, connection # NoConnection, NEW pages \in SUBSET {pageOf[connection.tab]}
  PROVE  PostHolds(FlashData(connection, pages), pageOf) /\ FlashData(connection, pages).type # "flash_connect"
<1> DEFINE m == FlashData(connection, pages)
<1>1. connection \in Connections /\ connection.flash \in Flashes /\ connection.tab \in Tabs /\ pages \subseteq Nat
  BY DEF BeaconInv, ConnectionHolds, TabsHold
<1>2. /\ m.type = "flash_data" /\ m.flash = connection.flash /\ m.tab = connection.tab /\ m.pages = pages
      /\ m \in NativeMessages
  BY <1>1 DEF FlashData, NativeMessage, NativeMessages, NativeTypes, Connections
<1> HIDE DEF m
<1>3. PostHolds(m, pageOf) /\ m.type # "flash_connect"
  BY <1>1, <1>2 DEF PostHolds, MessageHolds
<1> QED BY <1>3 DEF m

LEMMA TimeHolds ==
  ASSUME BeaconInv, TimePasses
  PROVE  BrokerHolds(flashes', port, pageOf)
<1> DEFINE later(f) == [flashes[f] EXCEPT !.idle = @ + 1]
<1>1. \A f \in Flashes : EntryHolds(flashes[f], port, pageOf)
  BY DEF BeaconInv, BrokerHolds
<1>2. ASSUME NEW f \in Flashes PROVE EntryHolds(later(f), port, pageOf)
  <2>1. flashes[f] \in BrokerEntries
    BY <1>1 DEF EntryHolds
  <2>2. /\ later(f) \in BrokerEntries /\ later(f).status = flashes[f].status /\ later(f).seen = flashes[f].seen
        /\ later(f).tab = flashes[f].tab /\ later(f).messages = flashes[f].messages
    BY <2>1 DEF BrokerEntries
  <2> HIDE DEF later
  <2> QED BY <1>1, <2>2 DEF EntryHolds
<1>3. flashes' = [f \in Flashes |-> IF f \in Registered(flashes) /\ flashes[f].idle <= IdleLimit THEN later(f) ELSE flashes[f]]
  BY DEF TimePasses
<1> HIDE DEF later
<1> QED BY <1>1, <1>2, <1>3 DEF BrokerHolds

LEMMA PolledHolds ==
  ASSUME BeaconInv, NEW f \in Flashes, PollFlash(f).reply = "flash_data"
  PROVE  NotAfter(flashes[f].seen, Head(flashes[f].messages))
<1>1. flashes[f].messages # <<>>
  BY DEF PollFlash, Served, RefusedFlash
<1>2. EntryHolds(flashes[f], port, pageOf)
  BY DEF BeaconInv, BrokerHolds
<1>3. flashes[f].messages \in Seq(SUBSET Nat)
  BY <1>2 DEF EntryHolds, BrokerEntries
<1>4. Head(flashes[f].messages) = flashes[f].messages[1] /\ 1 \in DOMAIN flashes[f].messages
  BY <1>1, <1>3, HeadTailProperties, Z3
<1> QED BY <1>2, <1>4 DEF EntryHolds

LEMMA HostStep ==
  ASSUME BeaconInv, port # <<>>, NEW type, NEW es, HostAnswers(type, es), es = flashes,
         type \in {"error", "flash_list", "flash_connected", "flash_closed", "flash_queued"},
         BrokerHolds(flashes', Tail(port), pageOf)
  PROVE  BeaconInv'
<1>1. /\ port' = Tail(port) /\ replies' = Append(replies, [type |-> type, list |-> ListOf(es)])
      /\ UNCHANGED <<promises, connection, asking, stopping, extracting, captured, pageOf, serial, polled>>
  BY DEF HostAnswers, DriverVars
<1>2. ListOf(es) \in [Flashes -> BeaconStatuses]
  BY DEF BeaconInv, BrokerHolds, EntryHolds, BrokerEntries, ListOf
<1>3. [type |-> type, list |-> ListOf(es)] \in NativeReplies
  BY <1>2 DEF NativeReplies
<1>4. PortHolds(port', pageOf)
  BY <1>1, PortTaken DEF BeaconInv
<1>5. replies' \in Seq(NativeReplies) /\ Len(promises) = Len(replies') + Len(port')
  <2>1. port \in Seq(NativeMessages) /\ replies \in Seq(NativeReplies)
    BY DEF BeaconInv, PortHolds
  <2>2. replies' \in Seq(NativeReplies) /\ Len(replies') = Len(replies) + 1 /\ Len(replies) \in Nat
    <3> HIDE DEF NativeReplies
    <3> QED BY <1>1, <1>3, <2>1, AppendProperties, LenProperties
  <2>3. Len(port') = Len(port) - 1 /\ Len(port) \in Nat
    BY <1>1, <2>1, TailOfPort, LenProperties
  <2> QED BY <2>2, <2>3 DEF BeaconInv
<1> QED BY <1>1, <1>4, <1>5 DEF BeaconInv

LEMMA AskStep == ASSUME BeaconInv, AskBroker PROVE BeaconInv'
<1>1. PICK f \in asking, t \in Tabs :
        /\ asking' = asking \ {f}
        /\ IF <<f, t>> \in MatchingTabs
           THEN serial' = serial + 1 /\ SendNative(NativeMessage("flash_connect", f, t, serial + 1, {pageOf[t]}))
           ELSE NoSend /\ UNCHANGED serial
        /\ UNCHANGED <<replies, connection, stopping, extracting, captured, pageOf, flashes, polled>>
  BY DEF AskBroker, BrokerVars, DriverVars
<1>2. f \in Flashes /\ asking' \subseteq Flashes /\ pageOf[t] \in Nat /\ serial \in Nat
  BY <1>1 DEF BeaconInv, TabsHold, ClicksInOrder
<1>3. CASE <<f, t>> \in MatchingTabs
  <2> DEFINE m == NativeMessage("flash_connect", f, t, serial + 1, {pageOf[t]})
  <2>1. /\ m \in NativeMessages /\ m.type = "flash_connect" /\ m.flash = f /\ m.tab = t /\ m.serial = serial + 1
        /\ m.pages = {pageOf[t]}
    BY <1>2 DEF NativeMessage, NativeMessages, NativeTypes
  <2>2. port' = Append(port, m) /\ promises' = Append(promises, m) /\ serial' = serial + 1
    BY <1>1, <1>3 DEF SendNative
  <2> HIDE DEF m
  <2>3. PostHolds(m, pageOf)
    BY <1>2, <2>1 DEF PostHolds, MessageHolds
  <2>4. port \in Seq(NativeMessages) /\ promises \in Seq(NativeMessages) /\ replies \in Seq(NativeReplies)
    BY DEF BeaconInv, PortHolds, ClicksInOrder
  <2>5. PortHolds(port', pageOf) /\ BrokerHolds(flashes, port', pageOf)
    BY <2>2, <2>3, <2>4, PortPosted, EntryAfterPosted DEF BeaconInv, BrokerHolds
  <2>6. connection.serial \in Nat /\ \A x \in extracting : x.selected.serial \in Nat
    BY DEF BeaconInv, ConnectionHolds, Connections
  <2>7. ClicksInOrder(promises', serial', connection, extracting)
    BY <1>2, <2>1, <2>2, <2>6, PromisePosted DEF BeaconInv
  <2>8. Len(promises') = Len(replies) + Len(port')
    <3>1. Len(port') = Len(port) + 1 /\ Len(promises') = Len(promises) + 1 /\ Len(replies) \in Nat /\ Len(port) \in Nat
      BY <2>1, <2>2, <2>4, AppendedMessage, LenProperties
    <3> QED BY <3>1 DEF BeaconInv
  <2> QED BY <1>1, <1>2, <2>5, <2>7, <2>8 DEF BeaconInv
<1>4. CASE <<f, t>> \notin MatchingTabs
  <2>1. NoSend /\ UNCHANGED serial
    BY <1>1, <1>4
  <2> QED BY <1>1, <1>2, <2>1, QuietAddon DEF BeaconInv
<1> QED BY <1>3, <1>4

LEMMA NavigateStep == ASSUME BeaconInv, TabNavigates PROVE BeaconInv'
<1>1. PICK t \in Tabs :
        /\ pageOf' = [pageOf EXCEPT ![t] = @ + 1]
        /\ IF connection.tab = t THEN DropConnection ELSE UNCHANGED <<connection, captured, stopping>>
        /\ UNCHANGED <<port, promises, replies, asking, extracting, serial, flashes, polled>>
  BY DEF TabNavigates, NoSend, BrokerVars, DriverVars
<1>2. TabsHold(pageOf) /\ TabsHold(pageOf') /\ \A u \in Tabs : pageOf[u] <= pageOf'[u] /\ (u # t => pageOf'[u] = pageOf[u])
  BY <1>1 DEF BeaconInv, TabsHold
<1>3. PortHolds(port', pageOf') /\ BrokerHolds(flashes', port', pageOf')
  BY <1>1, <1>2, TabsGoOn DEF BeaconInv, BrokerHolds
<1>4. CASE connection.tab = t
  <2>1. DropConnection
    BY <1>1, <1>4
  <2>2. ClicksInOrder(promises, serial, NoConnection, extracting) /\ ConnectionHolds(NoConnection, extracting, {}, pageOf')
    BY ConnectionGone DEF BeaconInv
  <2>3. \A c \in stopping' : c.flash \in Flashes /\ c.tab \in Tabs
    BY <2>1 DEF DropConnection, BeaconInv, ConnectionHolds
  <2>4. connection' = NoConnection /\ captured' = {}
    BY <2>1 DEF DropConnection
  <2> QED BY <1>1, <1>2, <1>3, <2>2, <2>3, <2>4 DEF BeaconInv
<1>5. CASE connection.tab # t
  <2>1. UNCHANGED <<connection, captured, stopping>>
    BY <1>1, <1>5
  <2>2. ConnectionHolds(connection, extracting, captured, pageOf')
    <3>1. ASSUME connection # NoConnection PROVE pageOf'[connection.tab] = pageOf[connection.tab]
      BY <1>2, <1>5, <3>1 DEF BeaconInv, ConnectionHolds
    <3>2. \A x \in extracting : x.selected # NoConnection
      BY NothingConnected DEF BeaconInv, ConnectionHolds
    <3> QED BY <3>1, <3>2 DEF BeaconInv, ConnectionHolds
  <2> QED BY <1>1, <1>2, <1>3, <2>1, <2>2 DEF BeaconInv
<1> QED BY <1>4, <1>5

(* A reply settles the oldest promise; one for a click makes a connection   *)
(* no extraction was started under.                                         *)
LEMMA ReplyStep == ASSUME BeaconInv, OnMessage PROVE BeaconInv'
<1> DEFINE m == Head(promises)
<1>1. /\ replies # <<>> /\ replies' = Tail(replies) /\ promises' = Tail(promises)
      /\ \/ /\ m.type = "flash_connect" /\ captured' = {}
            /\ connection' = [flash |-> m.flash, tab |-> m.tab, serial |-> m.serial]
         \/ UNCHANGED <<connection, captured>>
      /\ UNCHANGED <<port, asking, stopping, extracting, pageOf, serial, flashes, polled>>
  BY DEF OnMessage, BrokerVars, DriverVars
<1>2. port \in Seq(NativeMessages) /\ promises \in Seq(NativeMessages) /\ replies \in Seq(NativeReplies)
  BY DEF BeaconInv, PortHolds, ClicksInOrder
<1>3. /\ Tail(replies) \in Seq(NativeReplies) /\ Len(Tail(replies)) = Len(replies) - 1 /\ Len(replies) \in Nat \ {0}
  <2> HIDE DEF NativeReplies
  <2> QED BY <1>1, <1>2, HeadTailProperties, LenProperties, EmptySeq
<1>4. promises # <<>> /\ Len(port) \in Nat
  <2>1. Len(port) \in Nat /\ Len(promises) = Len(replies) + Len(port)
    BY <1>2, LenProperties DEF BeaconInv
  <2>2. Len(promises) # 0
    BY <1>3, <2>1
  <2> QED BY <1>2, <2>1, <2>2, EmptySeq
<1>5. /\ Tail(promises) \in Seq(NativeMessages) /\ Len(Tail(promises)) = Len(promises) - 1 /\ m = promises[1] /\ m \in NativeMessages
      /\ 1 \in DOMAIN promises
      /\ \A i \in DOMAIN Tail(promises) : i \in Nat /\ i + 1 \in DOMAIN promises /\ Tail(promises)[i] = promises[i + 1]
  BY <1>2, <1>4, TailOfPort
<1>6. \A i \in DOMAIN Tail(promises) : i > 0
  BY <1>5, LenProperties
<1>7. Len(promises') = Len(replies') + Len(port)
  BY <1>1, <1>3, <1>4, <1>5 DEF BeaconInv
<1>8. ClicksInOrder(Tail(promises), serial, connection, extracting)
  BY <1>5 DEF BeaconInv, ClicksInOrder
<1>9. CASE UNCHANGED <<connection, captured>>
  BY <1>1, <1>3, <1>7, <1>8, <1>9 DEF BeaconInv
<1>10. CASE /\ m.type = "flash_connect" /\ captured' = {}
            /\ connection' = [flash |-> m.flash, tab |-> m.tab, serial |-> m.serial]
  <2> DEFINE c == [flash |-> m.flash, tab |-> m.tab, serial |-> m.serial]
  <2>1. /\ m.flash \in Flashes /\ m.tab \in Tabs /\ connection.serial < m.serial /\ m.serial <= serial
        /\ \A x \in extracting : x.selected.serial < m.serial
        /\ \A j \in DOMAIN promises : 1 < j /\ promises[j].type = "flash_connect" => m.serial < promises[j].serial
    BY <1>5, <1>10 DEF BeaconInv, ClicksInOrder
  <2>2. m.serial \in Nat /\ connection.serial \in Nat
    BY <1>5 DEF NativeMessages, BeaconInv, ConnectionHolds, Connections
  <2>3. c \in Connections /\ c.flash = m.flash /\ c.tab = m.tab /\ c.serial = m.serial
    BY <2>1, <2>2 DEF Connections
  <2> HIDE DEF c
  <2>4. m.serial > 0
    BY <2>1, <2>2
  <2>5. \A x \in extracting : x.selected \in Connections /\ x.selected.serial > 0
    BY DEF BeaconInv, ConnectionHolds
  <2>6. \A x \in extracting : x.selected # c
    <3>1. \A x \in extracting : x.selected.serial # m.serial
      BY <2>1, <2>2, <2>5 DEF Connections
    <3> QED BY <2>3, <3>1
  <2>7. ConnectionHolds(c, extracting, {}, pageOf)
    BY <2>1, <2>3, <2>4, <2>5, <2>6 DEF ConnectionHolds
  <2>8. ClicksInOrder(Tail(promises), serial, c, extracting)
    <3>1. \A i \in DOMAIN Tail(promises) : Tail(promises)[i].type = "flash_connect" => m.serial < Tail(promises)[i].serial
      <4>1. \A i \in DOMAIN Tail(promises) : 1 < i + 1
        BY <1>5, <1>6
      <4> QED BY <1>5, <2>1, <4>1
    <3> QED BY <1>8, <2>1, <2>3, <3>1 DEF ClicksInOrder
  <2>9. connection' = c /\ captured' = {}
    BY <1>10 DEF c
  <2> QED BY <1>1, <1>3, <1>7, <2>7, <2>8, <2>9 DEF BeaconInv
<1> QED BY <1>1, <1>9, <1>10

LEMMA BeaconStep == BeaconInv /\ [BeaconNext]_BeaconVars => BeaconInv'
<1> SUFFICES ASSUME BeaconInv, [BeaconNext]_BeaconVars PROVE BeaconInv'
  OBVIOUS
<1>0. BrokerHolds(flashes, port, pageOf) /\ \A p \in polled : NotAfter(p.seen, p.pages)
  BY DEF BeaconInv
(* The broker and its drivers. *)
<1>1. CASE ServeAbandoned
  <2>1. BrokerHolds(flashes', port, pageOf)
    BY <1>1, NoEntryHolds DEF ServeAbandoned, BrokerHolds
  <2> QED BY <1>0, <1>1, <2>1, BrokerStep DEF ServeAbandoned, DriverVars
<1>2. CASE Restart \/ DriverGivesUp \/ UNCHANGED BeaconVars
  <2>1. UNCHANGED AddonVars /\ UNCHANGED <<flashes, polled>>
    BY <1>2 DEF Restart, DriverGivesUp, BeaconVars, BrokerVars, DriverVars
  <2> QED BY <1>0, <2>1, BrokerStep
<1>3. CASE TimePasses
  BY <1>0, <1>3, TimeHolds, BrokerStep DEF TimePasses, DriverVars
<1>4. CASE DriverCreates
  BY <1>0, <1>4, CreateHolds, BrokerStep DEF DriverCreates, DriverServed
<1>5. CASE DriverDisconnects
  BY <1>0, <1>5, CloseHolds, BrokerStep DEF DriverDisconnects, DriverServed
<1>6. CASE DriverPolls
  <2>1. PICK f \in Flashes :
          /\ DriverServed(PollFlash(f))
          /\ \/ UNCHANGED polled
             \/ /\ PollFlash(f).reply = "flash_data"
                /\ polled' = polled \cup {[pages |-> Head(flashes[f].messages), seen |-> flashes[f].seen]}
    BY <1>6 DEF DriverPolls
  <2>2. UNCHANGED AddonVars /\ BrokerHolds(flashes', port, pageOf)
    BY <1>0, <2>1, PollHolds DEF DriverServed
  <2>3. \A p \in polled' : NotAfter(p.seen, p.pages)
    BY <1>0, <2>1, PolledHolds
  <2> QED BY <2>2, <2>3, BrokerStep
(* The native host. *)
<1>7. CASE Forward
  <2>1. /\ port # <<>> /\ flashes' = HandleMessage(Head(port)).entries
        /\ HostAnswers(HandleMessage(Head(port)).reply, flashes) \/ HostAnswers("error", flashes)
    BY <1>7 DEF Forward
  <2>2. /\ BrokerHolds(flashes', Tail(port), pageOf)
        /\ HandleMessage(Head(port)).reply \in {"error", "flash_list", "flash_connected", "flash_closed", "flash_queued"}
    BY <2>1, HandledHolds DEF BeaconInv
  <2> QED BY <2>1, <2>2, HostStep
<1>8. CASE ForwardFails
  <2>1. port # <<>> /\ HostAnswers("error", flashes) /\ UNCHANGED flashes
    BY <1>8 DEF ForwardFails
  <2>2. BrokerHolds(flashes', Tail(port), pageOf)
    BY <1>0, <2>1, EntryAfterTaken DEF BrokerHolds, BeaconInv, PortHolds
  <2> QED BY <2>1, <2>2, HostStep
<1>9. CASE OnDisconnect
  <2>1. /\ port' = <<>> /\ replies' = <<>> /\ promises' = <<>> /\ connection' = NoConnection /\ captured' = {}
        /\ UNCHANGED <<asking, stopping, extracting, pageOf, serial, flashes, polled>>
    BY <1>9 DEF OnDisconnect, BrokerVars, DriverVars
  <2>2. PortHolds(<<>>, pageOf) /\ BrokerHolds(flashes, <<>>, pageOf)
    BY <1>0 DEF PortHolds, BrokerHolds, EntryHolds
  <2>3. ClicksInOrder(promises, serial, NoConnection, extracting) /\ ConnectionHolds(NoConnection, extracting, {}, pageOf)
    BY ConnectionGone DEF BeaconInv
  <2>4. ClicksInOrder(<<>>, serial, NoConnection, extracting)
    BY <2>3 DEF ClicksInOrder
  <2>5. <<>> \in Seq(NativeReplies) /\ Len(<<>>) = Len(<<>>) + Len(<<>>)
    OBVIOUS
  <2> QED BY <2>1, <2>2, <2>3, <2>4, <2>5 DEF BeaconInv
(* The addon. *)
<1>10. CASE ListFlashes
  <2> DEFINE m == NativeMessage("flash_list_request", "none", "none", 0, {})
  <2>1. SendNative(m) /\ UNCHANGED <<replies, connection, captured, pageOf, serial, flashes, polled, extracting, stopping, asking>>
    BY <1>10 DEF ListFlashes, UserClicks, BrokerVars, DriverVars
  <2>2. m \in NativeMessages /\ m.type = "flash_list_request"
    BY DEF NativeMessage, NativeMessages, NativeTypes
  <2> HIDE DEF m
  <2>3. PostHolds(m, pageOf) /\ m.type # "flash_connect"
    BY <2>2 DEF PostHolds, MessageHolds
  <2> QED BY <2>1, <2>3, SendingNative DEF BeaconInv
<1>11. CASE ConnectFlash
  <2>1. /\ NoSend /\ asking' \subseteq Flashes
        /\ UNCHANGED <<replies, pageOf, serial, flashes, polled, connection, captured, stopping, extracting>>
    BY <1>11 DEF ConnectFlash, UserClicks, BrokerVars, DriverVars, BeaconInv
  <2> QED BY <2>1, QuietAddon DEF BeaconInv
<1>12. CASE AskBroker
  BY <1>12, AskStep
<1>13. CASE DisconnectFlash
  <2>1. /\ NoSend /\ DropConnection
        /\ UNCHANGED <<replies, pageOf, serial, flashes, polled, asking, extracting>>
    BY <1>13 DEF DisconnectFlash, UserClicks, BrokerVars, DriverVars
  <2>2. connection' = NoConnection /\ captured' = {} /\ \A c \in stopping' : c.flash \in Flashes /\ c.tab \in Tabs
    BY <2>1 DEF DropConnection, BeaconInv, ConnectionHolds
  <2>3. ClicksInOrder(promises, serial, NoConnection, extracting) /\ ConnectionHolds(NoConnection, extracting, {}, pageOf)
    BY ConnectionGone DEF BeaconInv
  <2> QED BY <2>1, <2>2, <2>3, QuietAddon DEF BeaconInv
<1>14. CASE TraceStopped
  <2>1. PICK c \in stopping :
          /\ SendNative(NativeMessage("flash_disconnect", c.flash, c.tab, 0, {})) /\ stopping' \subseteq stopping
          /\ UNCHANGED <<replies, connection, captured, pageOf, serial, flashes, polled, extracting, asking>>
    BY <1>14 DEF TraceStopped, BrokerVars, DriverVars
  <2> DEFINE m == NativeMessage("flash_disconnect", c.flash, c.tab, 0, {})
  <2>2. c.flash \in Flashes /\ c.tab \in Tabs \cup {"none"}
    BY <2>1 DEF BeaconInv
  <2>3. m \in NativeMessages /\ m.type = "flash_disconnect" /\ m.flash = c.flash
    BY <2>2 DEF NativeMessage, NativeMessages, NativeTypes
  <2> HIDE DEF m
  <2>4. PostHolds(m, pageOf) /\ m.type # "flash_connect"
    BY <2>2, <2>3 DEF PostHolds, MessageHolds
  <2>5. SendNative(m)
    BY <2>1 DEF m
  <2> QED BY <2>1, <2>4, <2>5, SendingNative DEF BeaconInv
<1>15. CASE SendNetwork
  <2>1. /\ connection # NoConnection /\ SendNative(FlashData(connection, captured))
        /\ UNCHANGED <<replies, connection, captured, pageOf, serial, flashes, polled, extracting, stopping, asking>>
    BY <1>15 DEF SendNetwork, UserClicks, BrokerVars, DriverVars
  <2>2. captured \in SUBSET {pageOf[connection.tab]}
    BY <2>1 DEF BeaconInv, ConnectionHolds
  <2> QED BY <2>1, <2>2, DataHolds, SendingNative DEF BeaconInv
<1>16. CASE SendPage
  <2> DEFINE x == FromTab("page")
  <2>1. /\ connection # NoConnection /\ NoSend /\ extracting' = extracting \cup {x}
        /\ UNCHANGED <<replies, connection, captured, pageOf, serial, flashes, polled, stopping, asking>>
    BY <1>16 DEF SendPage, UserClicks, BrokerVars, DriverVars
  <2>2. x.selected = connection /\ x.pages = {pageOf[connection.tab]}
    BY DEF FromTab
  <2> HIDE DEF x
  <2>3. ClicksInOrder(promises, serial, connection, extracting')
    BY <2>1, <2>2 DEF BeaconInv, ClicksInOrder
  <2>4. ConnectionHolds(connection, extracting', captured, pageOf)
    BY <2>1, <2>2 DEF BeaconInv, ConnectionHolds
  <2> QED BY <2>1, <2>3, <2>4, QuietAddon DEF BeaconInv
<1>17. CASE PageExtracted
  <2>1. PICK x \in extracting :
          /\ extracting' = extracting \ {x}
          /\ IF connection = x.selected THEN SendNative(FlashData(x.selected, x.pages)) ELSE NoSend
          /\ UNCHANGED <<replies, connection, captured, pageOf, serial, flashes, polled, stopping, asking>>
    BY <1>17 DEF PageExtracted, StillSelected, BrokerVars, DriverVars
  <2>2. CASE connection = x.selected
    <3>1. SendNative(FlashData(connection, x.pages)) /\ connection # NoConnection /\ x.pages \in SUBSET {pageOf[connection.tab]}
      BY <2>1, <2>2, NothingConnected DEF BeaconInv, ConnectionHolds
    <3> QED BY <2>1, <3>1, DataHolds, SendingNative DEF BeaconInv
  <2>3. CASE connection # x.selected
    BY <2>1, <2>3, FewerPending, QuietAddon DEF BeaconInv
  <2> QED BY <2>2, <2>3
<1>18. CASE StartTrace
  <2>1. NoSend /\ UNCHANGED <<replies, pageOf, serial, flashes, polled, connection, captured, stopping, extracting, asking>>
    BY <1>18 DEF StartTrace, UserClicks, BrokerVars, DriverVars
  <2> QED BY <2>1, QuietAddon DEF BeaconInv
<1>19. CASE TracepointFires
  <2> DEFINE x == FromTab("report")
  <2>1. /\ NoSend /\ UNCHANGED <<replies, connection, captured, pageOf, serial, flashes, polled, stopping, asking>>
        /\ (connection # NoConnection /\ extracting' = extracting \cup {x}) \/ extracting' = extracting
    BY <1>19 DEF TracepointFires, BrokerVars, DriverVars
  <2>2. x.selected = connection /\ x.pages = {pageOf[connection.tab]}
    BY DEF FromTab
  <2> HIDE DEF x
  <2>3. CASE connection # NoConnection /\ extracting' = extracting \cup {x}
    <3>1. ClicksInOrder(promises, serial, connection, extracting')
      BY <2>2, <2>3 DEF BeaconInv, ClicksInOrder
    <3>2. ConnectionHolds(connection, extracting', captured, pageOf)
      BY <2>2, <2>3 DEF BeaconInv, ConnectionHolds
    <3> QED BY <2>1, <3>1, <3>2, QuietAddon DEF BeaconInv
  <2>4. CASE extracting' = extracting
    BY <2>1, <2>4, QuietAddon DEF BeaconInv
  <2> QED BY <2>1, <2>3, <2>4
<1>23. CASE ReportArrives
  <2>1. /\ UNCHANGED <<replies, connection, captured, pageOf, serial, flashes, polled, stopping, asking>>
        /\ extracting' \subseteq extracting
        /\ \/ NoSend
           \/ \E pages : /\ connection # NoConnection /\ SendNative(FlashData(connection, pages))
                         /\ (pages = {} \/ \E x \in extracting : x.selected = connection /\ pages = x.pages)
    BY <1>23 DEF ReportArrives, SendReport, StillSelected, BrokerVars, DriverVars
  <2>2. CASE NoSend
    BY <2>1, <2>2, FewerPending, QuietAddon DEF BeaconInv
  <2>3. ASSUME NEW pages, connection # NoConnection, SendNative(FlashData(connection, pages)),
               pages = {} \/ \E x \in extracting : x.selected = connection /\ pages = x.pages
        PROVE  BeaconInv'
    <3>1. pages \in SUBSET {pageOf[connection.tab]}
      BY <2>3 DEF BeaconInv, ConnectionHolds
    <3> QED BY <2>1, <2>3, <3>1, DataHolds, SendingNative DEF BeaconInv
  <2> QED BY <2>1, <2>2, <2>3
<1>20. CASE OnBeforeRequest
  <2>1. /\ connection # NoConnection /\ NoSend /\ captured' = captured \cup {pageOf[connection.tab]}
        /\ UNCHANGED <<replies, connection, pageOf, serial, flashes, polled, extracting, stopping, asking>>
    BY <1>20 DEF OnBeforeRequest, BrokerVars, DriverVars
  <2>2. ConnectionHolds(connection, extracting, captured', pageOf)
    BY <2>1 DEF BeaconInv, ConnectionHolds
  <2> QED BY <2>1, <2>2, QuietAddon DEF BeaconInv
<1>21. CASE TabNavigates
  BY <1>21, NavigateStep
<1>22. CASE OnMessage
  BY <1>22, ReplyStep
<1> QED BY <1>1, <1>2, <1>3, <1>4, <1>5, <1>6, <1>7, <1>8, <1>9, <1>10, <1>11, <1>12, <1>13, <1>14, <1>15, <1>16, <1>17,
      <1>18, <1>19, <1>20, <1>21, <1>22, <1>23 DEF BeaconNext

(* PolledIsConsented, for any number of Flashes, tabs, pages and faults: a  *)
(* driver never gets a page its tab had left before the user's click.       *)
THEOREM PolledStaysConsented == BeaconSpec => []PolledIsConsented
<1>1. BeaconInit => BeaconInv
  <2> SUFFICES ASSUME BeaconInit PROVE BeaconInv
    OBVIOUS
  <2>1. TabsHold(pageOf) /\ PortHolds(port, pageOf)
    BY DEF BeaconInit, TabsHold, PortHolds
  <2>2. BrokerHolds(flashes, port, pageOf)
    BY NoEntryHolds DEF BeaconInit, BrokerHolds
  <2>3. ClicksInOrder(promises, serial, connection, extracting) /\ ConnectionHolds(connection, extracting, captured, pageOf)
    BY NothingConnected DEF BeaconInit, ClicksInOrder, ConnectionHolds
  <2> QED BY <2>1, <2>2, <2>3 DEF BeaconInit, BeaconInv
<1>2. BeaconInv => PolledIsConsented
  BY DEF BeaconInv, BrokerHolds, EntryHolds, NotAfter, PolledIsConsented
<1> QED BY <1>1, <1>2, BeaconStep, PTL DEF BeaconSpec

-----------------------------------------------------------------------------
(* Pagewatch.                                                              *)

(* Pagewatch.  While no write has failed the history of a watcher is the    *)
(* changes up to its number, without a gap.  The number on disk is the      *)
(* daemon's, and bounds what was queued and started; the jobs of a watcher  *)
(* are in the order of their changes and later than what was started.       *)
Samples == Contents \cup {NoData}
WatchStates == [deployed : BOOLEAN, pid : {"none", "up", "hung"}, data : Samples, seq : Nat, updates : Seq(Nat)]
FileStates == [deployed : BOOLEAN, tab : Samples, seq : Nat]
WorkerMessages == [kind : {"sample", "fatal"}, data : Samples]
ActionJobs == [name : Watchers, seq : Nat]
Counters == [edits : Nat, deploys : Nat, faults : Nat, unwritten : Nat]
Consecutive(wt) == Len(wt.updates) <= wt.seq /\ \A i \in DOMAIN wt.updates : wt.updates[i] = (wt.seq - Len(wt.updates)) + i

WatchesHold(ws, clean) ==
  /\ ws \in [Watchers -> WatchStates]
  /\ clean => \A w \in Watchers : Consecutive(ws[w])
NumbersHold(up, ws, fs) ==
  /\ fs \in [Watchers -> FileStates]
  /\ up => \A w \in Watchers : fs[w].seq = ws[w].seq
StartedHold(st, fs) ==
  /\ st \in [Watchers -> Seq(Nat)]
  /\ \A w \in Watchers : \A k \in DOMAIN st[w] : st[w][k] <= fs[w].seq
  /\ \A w \in Watchers : \A j, k \in DOMAIN st[w] : j < k => st[w][j] < st[w][k]
JobsHold(js, st, fs) ==
  /\ js \in Seq(ActionJobs)
  /\ \A i \in DOMAIN js : js[i].seq <= fs[js[i].name].seq /\ \A k \in DOMAIN st[js[i].name] : st[js[i].name][k] < js[i].seq
  /\ \A i, j \in DOMAIN js : i < j /\ js[i].name = js[j].name => js[i].seq < js[j].seq
OnePerWatcher(as) == \A a, b \in as : a.name = b.name => a = b
PgInv ==
  /\ page \in Contents /\ pgBounds \in Counters /\ ipc \in [Watchers -> Seq(WorkerMessages)]
  /\ WatchesHold(watch, pgBounds.unwritten = 0) /\ NumbersHold(pgUp, watch, files)
  /\ StartedHold(started, files) /\ JobsHold(jobs, started, files) /\ OnePerWatcher(running)

-----------------------------------------------------------------------------
(* What the handlers make of a watch.                                       *)
LEMMA IdleWatch == Idle \in WatchStates /\ Consecutive(Idle) /\ Idle.seq = 0
<1>1. <<>> \in Seq(Nat) /\ Len(<<>>) = 0 /\ DOMAIN <<>> = {}
  BY EmptySeq
<1>2. Idle.updates = <<>> /\ Idle.seq = 0
  BY DEF Idle
<1> QED BY <1>1, <1>2 DEF Idle, WatchStates, Samples, Consecutive

LEMMA SameNumbers ==
  ASSUME NEW old, NEW new, new.seq = old.seq, new.updates = old.updates
  PROVE  Consecutive(old) => Consecutive(new)
BY DEF Consecutive

LEMMA HaltedWatch ==
  ASSUME NEW wt \in WatchStates
  PROVE  Halted(wt) \in WatchStates /\ Halted(wt).seq = wt.seq /\ Halted(wt).updates = wt.updates
BY DEF Halted, WatchStates

LEMMA StartedWatch ==
  ASSUME NEW wt \in WatchStates
  PROVE  Started(wt) \in WatchStates /\ Started(wt).seq = wt.seq /\ Started(wt).updates = wt.updates
BY DEF Started, WatchStates

LEMMA SampledWatch ==
  ASSUME NEW wt \in WatchStates, NEW data \in Samples
  PROVE  /\ Sampled(wt, data) \in WatchStates /\ Sampled(wt, data).seq = wt.seq + 1
         /\ Consecutive(wt) => Consecutive(Sampled(wt, data))
<1> DEFINE old == wt.updates
           kept == Append(old, wt.seq + 1)
           ups == IF Len(kept) > MaxHistory THEN Tail(kept) ELSE kept
<1>0. wt.seq \in Nat /\ old \in Seq(Nat)
  BY DEF WatchStates
<1>1. /\ kept \in Seq(Nat) /\ Len(kept) = Len(old) + 1 /\ kept[Len(old) + 1] = wt.seq + 1
      /\ \A i \in 1..Len(old) : kept[i] = old[i]
  BY <1>0, AppendProperties
<1>2. Len(old) \in Nat /\ DOMAIN old = 1..Len(old) /\ DOMAIN kept = 1..(Len(old) + 1) /\ kept # <<>>
  BY <1>0, <1>1, LenProperties
<1>3. /\ Tail(kept) \in Seq(Nat) /\ Len(Tail(kept)) = Len(old) /\ DOMAIN Tail(kept) = 1..Len(old)
      /\ \A i \in 1..Len(old) : Tail(kept)[i] = kept[i + 1]
  BY <1>1, <1>2, HeadTailProperties, LenProperties, Z3
<1>4. Sampled(wt, data) = [wt EXCEPT !.data = data, !.seq = @ + 1, !.updates = ups]
  BY DEF Sampled
<1>5. ups \in Seq(Nat)
  BY <1>1, <1>3
<1>6. Sampled(wt, data) \in WatchStates /\ Sampled(wt, data).seq = wt.seq + 1 /\ Sampled(wt, data).updates = ups
  <2> DEFINE a == [wt EXCEPT !.data = data]
             b == [a EXCEPT !.seq = wt.seq + 1]
             c == [b EXCEPT !.updates = ups]
  <2> HIDE DEF ups, old
  <2>0. wt.seq + 1 \in Nat
    BY <1>0
  <2>1. a \in WatchStates
    BY Zenon DEF WatchStates
  <2>2. b \in WatchStates /\ b.seq = wt.seq + 1
    <3> HIDE DEF a
    <3> QED BY <2>0, <2>1 DEF WatchStates
  <2>3. c \in WatchStates /\ c.seq = wt.seq + 1 /\ c.updates = ups
    <3> HIDE DEF b
    <3> QED BY <1>5, <2>2 DEF WatchStates
  <2>4. Sampled(wt, data) = c
    BY <1>4
  <2> HIDE DEF c
  <2> QED BY <2>3, <2>4
<1>7. ASSUME Consecutive(wt) PROVE Len(ups) <= wt.seq + 1 /\ \A i \in DOMAIN ups : ups[i] = ((wt.seq + 1) - Len(ups)) + i
  <2>0. Len(old) <= wt.seq /\ \A i \in 1..Len(old) : old[i] = (wt.seq - Len(old)) + i
    BY <1>2, <1>7 DEF Consecutive
  <2> HIDE DEF old, kept
  <2>1. \A i \in 1..(Len(old) + 1) : kept[i] = (wt.seq - Len(old)) + i
    <3> SUFFICES ASSUME NEW i \in 1..(Len(old) + 1) PROVE kept[i] = (wt.seq - Len(old)) + i
      OBVIOUS
    <3>1. CASE i \in 1..Len(old)
      BY <1>1, <2>0, <3>1
    <3>2. CASE i \notin 1..Len(old)
      <4>1. i = Len(old) + 1
        BY <1>2, <3>2
      <4> QED BY <1>0, <1>1, <1>2, <4>1
    <3> QED BY <3>1, <3>2
  <2>2. CASE ups = kept
    <3>1. /\ Len(ups) = Len(old) + 1 /\ DOMAIN ups = 1..(Len(old) + 1)
          /\ \A i \in 1..(Len(old) + 1) : ups[i] = (wt.seq - Len(old)) + i
      BY <1>1, <1>2, <2>1, <2>2
    <3> DEFINE n == Len(old)
               q == wt.seq
    <3> HIDE DEF ups, n, q
    <3>2. n \in Nat /\ q \in Nat /\ n <= q
      BY <1>0, <1>2, <2>0 DEF n, q
    <3>3. Len(ups) = n + 1 /\ DOMAIN ups = 1..(n + 1) /\ \A i \in 1..(n + 1) : ups[i] = (q - n) + i
      BY <3>1 DEF n, q
    <3>4. Len(ups) <= q + 1
      BY <3>2, <3>3
    <3>5. ASSUME NEW i \in 1..(n + 1) PROVE ups[i] = ((q + 1) - (n + 1)) + i
      BY <3>2, <3>3
    <3>6. Len(ups) <= q + 1 /\ \A i \in DOMAIN ups : ups[i] = ((q + 1) - Len(ups)) + i
      BY <3>3, <3>4, <3>5
    <3> QED BY <3>6 DEF q
  <2>3. CASE ups = Tail(kept)
    <3>1. \A i \in 1..Len(old) : i + 1 \in 1..(Len(old) + 1) /\ Tail(kept)[i] = (wt.seq - Len(old)) + (i + 1)
      BY <1>2, <1>3, <2>1
    <3>2. Len(ups) = Len(old) /\ DOMAIN ups = 1..Len(old) /\ \A i \in 1..Len(old) : ups[i] = (wt.seq - Len(old)) + (i + 1)
      BY <1>3, <2>3, <3>1
    <3> HIDE DEF ups
    <3> QED BY <1>0, <1>2, <2>0, <3>2
  <2> QED BY <2>2, <2>3
<1> HIDE DEF ups
<1> QED BY <1>6, <1>7 DEF Consecutive

(* A change of one watch.                                                   *)
LEMMA OneWatchChanges ==
  ASSUME NEW w \in Watchers, NEW new \in WatchStates, NEW clean, NEW later,
         WatchesHold(watch, clean), later => clean, clean => Consecutive(new)
  PROVE  WatchesHold([watch EXCEPT ![w] = new], later)
BY DEF WatchesHold

(* What has no say in the numbers.                                          *)
LEMMA CountersCount ==
  ASSUME pgBounds \in Counters, NEW field \in {"edits", "deploys", "faults", "unwritten"}, NEW max, Below(field, max)
  PROVE  /\ pgBounds' \in Counters /\ pgBounds.unwritten \in Nat
         /\ field # "unwritten" => pgBounds'.unwritten = pgBounds.unwritten
         /\ field = "unwritten" => pgBounds'.unwritten = pgBounds.unwritten + 1
BY DEF Counters, Below

LEMMA PgStarts == PgInit => PgInv
<1> SUFFICES ASSUME PgInit PROVE PgInv
  OBVIOUS
<1>1. pgBounds \in Counters
  BY DEF PgInit, Counters
<1>2. ipc \in [Watchers -> Seq(WorkerMessages)] /\ started \in [Watchers -> Seq(Nat)] /\ jobs \in Seq(ActionJobs)
  <2> HIDE DEF WorkerMessages, ActionJobs
  <2> QED BY EmptySeq DEF PgInit
<1>3. WatchesHold(watch, pgBounds.unwritten = 0)
  <2> HIDE DEF WatchStates, Idle
  <2> QED BY IdleWatch DEF PgInit, WatchesHold
<1>4. NoFiles \in FileStates /\ NoFiles.seq = 0
  BY DEF NoFiles, FileStates, Samples
<1>5. NumbersHold(pgUp, watch, files)
  <2> HIDE DEF FileStates, NoFiles, Idle
  <2> QED BY <1>4, IdleWatch DEF PgInit, NumbersHold
<1>6. DOMAIN <<>> = {}
  OBVIOUS
<1>7. StartedHold(started, files) /\ JobsHold(jobs, started, files) /\ OnePerWatcher(running)
  <2> HIDE DEF ActionJobs
  <2> QED BY <1>2, <1>6 DEF PgInit, StartedHold, JobsHold, OnePerWatcher
<1> QED BY <1>1, <1>2, <1>3, <1>5, <1>7 DEF PgInit, PgInv

-----------------------------------------------------------------------------
(* Steps that leave the numbers, the jobs and the actions alone.            *)
LEMMA QuietStep ==
  ASSUME PgInv, page' \in Contents, pgBounds' \in Counters, ipc' \in [Watchers -> Seq(WorkerMessages)],
         pgBounds'.unwritten = pgBounds.unwritten,
         watch' \in [Watchers -> WatchStates],
         \A w \in Watchers : watch'[w].seq = watch[w].seq /\ watch'[w].updates = watch[w].updates,
         files' \in [Watchers -> FileStates], \A w \in Watchers : files'[w].seq = files[w].seq,
         UNCHANGED <<pgUp, jobs, started>>, running' \subseteq running
  PROVE  PgInv'
<1> HIDE DEF WatchStates, FileStates, Counters, WorkerMessages, ActionJobs
<1>1. WatchesHold(watch', pgBounds'.unwritten = 0)
  BY SameNumbers DEF PgInv, WatchesHold
<1>2. NumbersHold(pgUp', watch', files')
  BY DEF PgInv, NumbersHold
<1>3. StartedHold(started', files')
  BY DEF PgInv, StartedHold
<1>4. JobsHold(jobs', started', files')
  <2>1. \A i \in DOMAIN jobs : jobs[i].name \in Watchers
    <3>1. \A i \in DOMAIN jobs : jobs[i] \in ActionJobs
      BY ElementOfSeq, LenProperties DEF PgInv, JobsHold
    <3> QED BY <3>1 DEF ActionJobs
  <2> QED BY <2>1 DEF PgInv, JobsHold
<1>5. OnePerWatcher(running')
  BY DEF PgInv, OnePerWatcher
<1> QED BY <1>1, <1>2, <1>3, <1>4, <1>5 DEF PgInv

(* The messages of a worker.                                                *)
LEMMA MessagesAreTyped ==
  ASSUME PgInv, NEW w \in Watchers
  PROVE  /\ [ipc EXCEPT ![w] = <<>>] \in [Watchers -> Seq(WorkerMessages)]
         /\ \A m \in WorkerMessages : [ipc EXCEPT ![w] = Append(@, m)] \in [Watchers -> Seq(WorkerMessages)]
         /\ ipc[w] # <<>> => /\ [ipc EXCEPT ![w] = Tail(@)] \in [Watchers -> Seq(WorkerMessages)]
                             /\ Head(ipc[w]) \in WorkerMessages /\ Head(ipc[w]).data \in Samples
<1>1. ipc \in [Watchers -> Seq(WorkerMessages)] /\ ipc[w] \in Seq(WorkerMessages)
  BY DEF PgInv
<1>2. \A m \in WorkerMessages : m.data \in Samples
  BY DEF WorkerMessages
<1> HIDE DEF WorkerMessages, Samples
<1>3. <<>> \in Seq(WorkerMessages) /\ \A m \in WorkerMessages : Append(ipc[w], m) \in Seq(WorkerMessages)
  BY <1>1, EmptySeq, AppendProperties
<1>4. ipc[w] # <<>> => Head(ipc[w]) \in WorkerMessages /\ Tail(ipc[w]) \in Seq(WorkerMessages)
  BY <1>1, HeadTailProperties
<1> QED BY <1>1, <1>2, <1>3, <1>4

-----------------------------------------------------------------------------
LEMMA JobsAreTyped ==
  ASSUME NEW js \in Seq(ActionJobs)
  PROVE  \A i \in DOMAIN js : i \in Nat /\ js[i] \in ActionJobs /\ js[i].name \in Watchers /\ js[i].seq \in Nat
<1>1. \A i \in DOMAIN js : i \in Nat /\ js[i] \in ActionJobs
  <2> HIDE DEF ActionJobs
  <2> QED BY ElementOfSeq, LenProperties
<1> QED BY <1>1 DEF ActionJobs

(* A number that grows leaves the order as it is.                           *)
LEMMA LaterFiles ==
  ASSUME NEW js, NEW st, NEW fs, NEW fs2, StartedHold(st, fs), JobsHold(js, st, fs),
         \A v \in Watchers : fs[v].seq \in Nat /\ fs2[v].seq \in Nat /\ fs[v].seq <= fs2[v].seq
  PROVE  StartedHold(st, fs2) /\ JobsHold(js, st, fs2)
<1>1. st \in [Watchers -> Seq(Nat)] /\ js \in Seq(ActionJobs)
  BY DEF StartedHold, JobsHold
<1>2. \A v \in Watchers : \A k \in DOMAIN st[v] : st[v][k] \in Nat
  BY <1>1, ElementOfSeq, LenProperties
<1>3. \A i \in DOMAIN js : js[i].name \in Watchers /\ js[i].seq \in Nat
  BY <1>1, JobsAreTyped
<1>4. StartedHold(st, fs2)
  BY <1>1, <1>2 DEF StartedHold
<1>5. JobsHold(js, st, fs2)
  BY <1>1, <1>3 DEF JobsHold
<1> QED BY <1>4, <1>5

(* Whatever jobs go, the others stay in order; the started ones must stay   *)
(* behind them.                                                             *)
LEMMA FewerJobs ==
  ASSUME NEW js, NEW st, NEW fs, JobsHold(js, st, fs), NEW kept, kept \subseteq DOMAIN js, NEW st2, NEW fs2,
         \A i \in kept : /\ js[i].seq <= fs2[js[i].name].seq
                         /\ \A k \in DOMAIN st2[js[i].name] : st2[js[i].name][k] < js[i].seq
  PROVE  JobsHold(AtPositions(js, kept), st2, fs2)
<1> DEFINE r == AtPositions(js, kept)
<1>1. js \in Seq(ActionJobs)
  BY DEF JobsHold
<1>2. \A i \in DOMAIN js : i \in Nat
  BY <1>1, JobsAreTyped
<1> HIDE DEF ActionJobs
<1>3. r \in Seq(ActionJobs) /\ IsPart(r, js, kept)
  BY <1>1, PartOfSequence
<1> HIDE DEF r
<1>4. PICK from \in [DOMAIN r -> kept] :
        /\ \A k \in DOMAIN r : r[k] = js[from[k]]
        /\ \A k, l \in DOMAIN r : k < l => from[k] < from[l]
  BY <1>3 DEF IsPart
<1>5. \A i \in DOMAIN r : r[i].seq <= fs2[r[i].name].seq /\ \A k \in DOMAIN st2[r[i].name] : st2[r[i].name][k] < r[i].seq
  BY <1>4
<1>6. \A i, j \in DOMAIN r : i < j /\ r[i].name = r[j].name => r[i].seq < r[j].seq
  <2> SUFFICES ASSUME NEW i \in DOMAIN r, NEW j \in DOMAIN r, i < j, r[i].name = r[j].name PROVE r[i].seq < r[j].seq
    OBVIOUS
  <2>1. from[i] \in DOMAIN js /\ from[j] \in DOMAIN js /\ from[i] < from[j] /\ r[i] = js[from[i]] /\ r[j] = js[from[j]]
    BY <1>4
  <2> QED BY <2>1 DEF JobsHold
<1>7. JobsHold(r, st2, fs2)
  BY <1>3, <1>5, <1>6 DEF JobsHold
<1> QED BY <1>7 DEF r

LEMMA SampleKeeps == ASSUME PgInv, NEW w \in Watchers, Sample(w) PROVE PgInv'
<1> DEFINE data == Head(ipc[w]).data
           new == Sampled(watch[w], data)
<1>1. /\ ipc[w] # <<>> /\ ipc' = [ipc EXCEPT ![w] = Tail(@)] /\ UNCHANGED <<page, pgUp, running, started, pgBounds>> /\ pgUp
      /\ IF watch[w].data = data
         THEN UNCHANGED <<watch, files, jobs>>
         ELSE /\ watch' = [watch EXCEPT ![w] = new]
              /\ files' = [files EXCEPT ![w].tab = data, ![w].seq = watch[w].seq + 1]
              /\ jobs' = Queued(w, watch[w])
  BY DEF Sample, Received, Rest
<1>2. ipc' \in [Watchers -> Seq(WorkerMessages)] /\ data \in Samples
  BY <1>1, MessagesAreTyped
<1>3. /\ watch \in [Watchers -> WatchStates] /\ files \in [Watchers -> FileStates] /\ pgBounds \in Counters
      /\ watch[w] \in WatchStates /\ files[w].seq = watch[w].seq
  BY <1>1 DEF PgInv, WatchesHold, NumbersHold
<1>4. CASE watch[w].data = data
  <2> HIDE DEF WatchStates, FileStates, Counters, WorkerMessages, data
  <2> QED BY <1>1, <1>2, <1>3, <1>4, QuietStep DEF PgInv
<1>5. CASE watch[w].data # data
  <2> DEFINE file == [files[w] EXCEPT !.tab = data, !.seq = watch[w].seq + 1]
             seq == watch[w].seq
             job == [name |-> w, seq |-> seq + 1]
  <2>1a. new \in WatchStates /\ new.seq = seq + 1 /\ (Consecutive(watch[w]) => Consecutive(new)) /\ seq \in Nat
    <3>1. new \in WatchStates /\ new.seq = seq + 1 /\ (Consecutive(watch[w]) => Consecutive(new))
      BY <1>2, <1>3, SampledWatch
    <3>2. seq \in Nat
      BY <1>3 DEF WatchStates
    <3> QED BY <3>1, <3>2
  <2>2. file \in FileStates /\ file.seq = seq + 1 /\ files' = [files EXCEPT ![w] = file]
    <3>1. files[w] \in FileStates /\ seq + 1 \in Nat
      BY <1>3, <2>1a
    <3>2. file \in FileStates /\ file.seq = seq + 1
      BY <1>2, <3>1 DEF FileStates
    <3>3. files' = [files EXCEPT ![w] = file]
      BY <1>1, <1>3, <1>5
    <3> QED BY <3>2, <3>3
  <2>3. /\ \A v \in Watchers : v # w => files'[v] = files[v] /\ watch'[v] = watch[v]
        /\ files'[w] = file /\ watch'[w] = new /\ files' \in [Watchers -> FileStates]
    <3> HIDE DEF file, new, FileStates
    <3> QED BY <1>1, <1>3, <1>5, <2>2
  <2> HIDE DEF new, file, data
  <2>4. WatchesHold(watch', pgBounds'.unwritten = 0)
    <3>1. WatchesHold(watch, pgBounds.unwritten = 0)
      BY DEF PgInv
    <3>2. pgBounds.unwritten = 0 => Consecutive(new)
      BY <2>1a, <3>1 DEF WatchesHold
    <3> HIDE DEF WatchStates
    <3>3. WatchesHold([watch EXCEPT ![w] = new], pgBounds.unwritten = 0)
      BY <2>1a, <3>1, <3>2, OneWatchChanges
    <3> QED BY <1>1, <1>5, <3>3
  <2>5. NumbersHold(pgUp', watch', files')
    <3>1. \A v \in Watchers : files[v].seq = watch[v].seq
      BY <1>1 DEF PgInv, NumbersHold
    <3> HIDE DEF FileStates
    <3> QED BY <2>1a, <2>2, <2>3, <3>1 DEF NumbersHold
  <2>6. \A v \in Watchers : files[v].seq \in Nat /\ files'[v].seq \in Nat /\ files[v].seq <= files'[v].seq
    <3>1. \A v \in Watchers : files[v].seq \in Nat
      BY <1>3 DEF FileStates
    <3> QED BY <1>3, <2>1a, <2>2, <2>3, <3>1
  <2>7. started \in [Watchers -> Seq(Nat)] /\ \A v \in Watchers : \A k \in DOMAIN started[v] : started[v][k] \in Nat
    <3>1. started \in [Watchers -> Seq(Nat)]
      BY DEF PgInv, StartedHold
    <3> QED BY <3>1, ElementOfSeq, LenProperties
  <2>8. StartedHold(started', files')
    BY <1>1, <2>6, <2>7 DEF PgInv, StartedHold
  <2>9. JobsHold(jobs, started, files)
    BY DEF PgInv
  <2>10. jobs \in Seq(ActionJobs) /\ \A i \in DOMAIN jobs : jobs[i].name \in Watchers /\ jobs[i].seq \in Nat /\ i \in Nat
    BY <2>9, JobsAreTyped DEF JobsHold
  <2>11. JobsHold(jobs, started, files')
    BY <2>6, <2>9, <2>10 DEF JobsHold
  <2>12. JobsHold(Append(jobs, job), started, files')
    <3>1. job \in ActionJobs /\ job.name = w /\ job.seq = seq + 1
      BY <2>1a DEF ActionJobs
    <3> DEFINE more == Append(jobs, job)
    <3> HIDE DEF job, ActionJobs
    <3>2. /\ more \in Seq(ActionJobs) /\ Len(more) = Len(jobs) + 1
          /\ \A i \in 1..Len(jobs) : more[i] = jobs[i]
          /\ more[Len(jobs) + 1] = job
      BY <2>10, <3>1, AppendProperties
    <3>3. Len(jobs) \in Nat /\ DOMAIN jobs = 1..Len(jobs) /\ DOMAIN more = 1..(Len(jobs) + 1)
      BY <2>10, <3>2, LenProperties
    <3> HIDE DEF more
    <3>4. \A i \in DOMAIN more : (i \in DOMAIN jobs /\ more[i] = jobs[i]) \/ (i = Len(jobs) + 1 /\ more[i] = job)
      BY <3>2, <3>3
    <3>5. job.seq <= files'[w].seq /\ \A k \in DOMAIN started[w] : started[w][k] < job.seq
      <4>1. \A k \in DOMAIN started[w] : started[w][k] <= seq /\ started[w][k] \in Nat
        BY <1>3, <2>7 DEF PgInv, StartedHold
      <4> QED BY <2>1a, <2>2, <2>3, <3>1, <4>1
    <3>6. \A i \in DOMAIN more : /\ more[i].seq <= files'[more[i].name].seq
                                 /\ \A k \in DOMAIN started[more[i].name] : started[more[i].name][k] < more[i].seq
      BY <2>11, <3>1, <3>4, <3>5 DEF JobsHold
    <3>7. \A i \in DOMAIN jobs : jobs[i].name = w => jobs[i].seq < job.seq
      <4>1. \A i \in DOMAIN jobs : jobs[i].name = w => jobs[i].seq <= seq
        BY <1>3, <2>9 DEF JobsHold
      <4> QED BY <2>1a, <2>10, <3>1, <4>1
    <3>8. \A i, j \in DOMAIN more : i < j /\ more[i].name = more[j].name => more[i].seq < more[j].seq
      <4> SUFFICES ASSUME NEW i \in DOMAIN more, NEW j \in DOMAIN more, i < j, more[i].name = more[j].name
                   PROVE  more[i].seq < more[j].seq
        OBVIOUS
      <4>1. i \in DOMAIN jobs /\ more[i] = jobs[i]
        BY <3>3, <3>4
      <4>2. CASE j \in DOMAIN jobs /\ more[j] = jobs[j]
        BY <2>9, <4>1, <4>2 DEF JobsHold
      <4>3. CASE more[j] = job
        BY <3>1, <3>7, <4>1, <4>3
      <4> QED BY <3>4, <4>2, <4>3
    <3>9. JobsHold(more, started, files')
      BY <3>2, <3>6, <3>8 DEF JobsHold
    <3> QED BY <3>9 DEF more
  <2>13. JobsHold(jobs', started', files')
    <3>1. jobs' \in {jobs, Append(jobs, job)}
      BY <1>1, <1>5 DEF Queued
    <3> HIDE DEF job
    <3> QED BY <1>1, <2>11, <2>12, <3>1
  <2> HIDE DEF Counters, WorkerMessages
  <2> QED BY <1>1, <1>2, <2>4, <2>5, <2>8, <2>13 DEF PgInv
<1> QED BY <1>4, <1>5

LEMMA UnwrittenKeeps == ASSUME PgInv, NEW w \in Watchers, SampleUnwritten(w) PROVE PgInv'
<1> DEFINE data == Head(ipc[w]).data
           seq == watch[w].seq
           halted == Halted(watch[w])
           new == [halted EXCEPT !.data = data, !.seq = seq + 1]
           file == [files[w] EXCEPT !.seq = seq + 1]
<1>1. /\ pgUp /\ ipc[w] # <<>> /\ watch' = [watch EXCEPT ![w] = new] /\ files' = [files EXCEPT ![w].seq = seq + 1]
      /\ ipc' = [ipc EXCEPT ![w] = <<>>] /\ UNCHANGED <<page, pgUp, jobs, running, started>> /\ Below("unwritten", MaxUnwritten)
  BY DEF SampleUnwritten, Received, Cut
<1>2. ipc' \in [Watchers -> Seq(WorkerMessages)] /\ data \in Samples
  BY <1>1, MessagesAreTyped
<1>3. /\ watch \in [Watchers -> WatchStates] /\ files \in [Watchers -> FileStates] /\ pgBounds \in Counters
      /\ watch[w] \in WatchStates /\ files[w] \in FileStates /\ files[w].seq = seq
  BY <1>1 DEF PgInv, WatchesHold, NumbersHold
<1>4. pgBounds' \in Counters /\ pgBounds'.unwritten # 0
  BY <1>1, <1>3, CountersCount
<1>5. seq \in Nat /\ halted \in WatchStates /\ halted.seq = seq
  <2>1. seq \in Nat
    BY <1>3 DEF WatchStates
  <2> QED BY <1>3, <2>1, HaltedWatch
<1>6. new \in WatchStates /\ new.seq = seq + 1
  <2> DEFINE a == [halted EXCEPT !.data = data]
             b == [a EXCEPT !.seq = seq + 1]
  <2> HIDE DEF halted, data, seq
  <2>1. a \in WatchStates /\ a.seq = seq
    BY <1>2, <1>5 DEF WatchStates
  <2>2. b \in WatchStates /\ b.seq = seq + 1
    <3>1. seq + 1 \in Nat
      BY <1>5
    <3> HIDE DEF a
    <3> QED BY <2>1, <3>1 DEF WatchStates
  <2>3. new = b
    OBVIOUS
  <2> HIDE DEF new, b
  <2> QED BY <2>2, <2>3
<1>7. file \in FileStates /\ file.seq = seq + 1 /\ files' = [files EXCEPT ![w] = file]
  <2>1. seq + 1 \in Nat
    BY <1>5
  <2> HIDE DEF seq
  <2>2. file \in FileStates /\ file.seq = seq + 1
    BY <1>3, <2>1 DEF FileStates
  <2> QED BY <1>1, <1>3, <2>2
<1> HIDE DEF new, file, WatchStates, FileStates
<1>8. /\ \A v \in Watchers : v # w => files'[v] = files[v] /\ watch'[v] = watch[v]
      /\ files'[w] = file /\ watch'[w] = new /\ files' \in [Watchers -> FileStates] /\ watch' \in [Watchers -> WatchStates]
  BY <1>1, <1>3, <1>6, <1>7
<1>9. NumbersHold(pgUp', watch', files')
  BY <1>1, <1>6, <1>7, <1>8 DEF PgInv, NumbersHold
<1>10. \A v \in Watchers : files[v].seq \in Nat /\ files'[v].seq \in Nat /\ files[v].seq <= files'[v].seq
  <2>1. \A v \in Watchers : files[v].seq \in Nat
    BY <1>3 DEF FileStates
  <2> QED BY <1>3, <1>5, <1>7, <1>8, <2>1
<1>11. StartedHold(started', files') /\ JobsHold(jobs', started', files')
  <2>1. StartedHold(started, files) /\ JobsHold(jobs, started, files)
    BY DEF PgInv
  <2>2. StartedHold(started, files') /\ JobsHold(jobs, started, files')
    BY <1>10, <2>1, LaterFiles
  <2> QED BY <1>1, <2>2
<1>12. WatchesHold(watch', pgBounds'.unwritten = 0)
  BY <1>4, <1>8 DEF WatchesHold
<1> HIDE DEF Counters, WorkerMessages
<1> QED BY <1>1, <1>2, <1>4, <1>9, <1>11, <1>12 DEF PgInv

(* remove: nothing of the watcher is left.                                  *)
LEMMA RemoveKeeps == ASSUME PgInv, NEW w \in Watchers, Remove(w) PROVE PgInv'
<1> DEFINE kept == {i \in DOMAIN jobs : jobs[i].name # w}
<1>1. /\ pgUp /\ watch' = [watch EXCEPT ![w] = Idle] /\ files' = [files EXCEPT ![w] = NoFiles]
      /\ jobs' = AtPositions(jobs, kept) /\ running' \subseteq running /\ started' = [started EXCEPT ![w] = <<>>]
      /\ ipc' = [ipc EXCEPT ![w] = <<>>] /\ UNCHANGED <<page, pgUp, pgBounds>>
  BY DEF Remove, Cut
<1>2. ipc' \in [Watchers -> Seq(WorkerMessages)]
  BY <1>1, MessagesAreTyped
<1>3. NoFiles \in FileStates /\ NoFiles.seq = 0
  BY DEF NoFiles, FileStates, Samples
<1> HIDE DEF WatchStates, FileStates, Idle, NoFiles
<1>4. WatchesHold(watch', pgBounds'.unwritten = 0)
  BY <1>1, IdleWatch DEF PgInv, WatchesHold
<1>5. /\ \A v \in Watchers : v # w => files'[v] = files[v] /\ watch'[v] = watch[v] /\ started'[v] = started[v]
      /\ files'[w].seq = 0 /\ watch'[w].seq = 0 /\ started'[w] = <<>>
      /\ files' \in [Watchers -> FileStates] /\ started' \in [Watchers -> Seq(Nat)]
  <2>1. <<>> \in Seq(Nat)
    BY EmptySeq
  <2> QED BY <1>1, <1>3, <2>1, IdleWatch DEF PgInv, WatchesHold, NumbersHold, StartedHold
<1>6. NumbersHold(pgUp', watch', files')
  BY <1>1, <1>5 DEF PgInv, NumbersHold
<1>7. DOMAIN <<>> = {}
  OBVIOUS
<1>8. StartedHold(started', files')
  BY <1>5, <1>7 DEF PgInv, StartedHold
<1>9. JobsHold(jobs, started, files)
  BY DEF PgInv
<1>10. \A i \in DOMAIN jobs : jobs[i].name \in Watchers
  BY <1>9, JobsAreTyped DEF JobsHold
<1>11. \A i \in kept : /\ jobs[i].seq <= files'[jobs[i].name].seq
                       /\ \A k \in DOMAIN started'[jobs[i].name] : started'[jobs[i].name][k] < jobs[i].seq
  BY <1>5, <1>9, <1>10 DEF JobsHold
<1>12. JobsHold(jobs', started', files')
  <2>1. kept \subseteq DOMAIN jobs
    OBVIOUS
  <2> HIDE DEF kept
  <2> QED BY <1>1, <1>9, <1>11, <2>1, FewerJobs
<1>13. OnePerWatcher(running')
  BY <1>1 DEF PgInv, OnePerWatcher
<1> HIDE DEF Counters, WorkerMessages
<1> QED BY <1>1, <1>2, <1>4, <1>6, <1>8, <1>12, <1>13 DEF PgInv

(* The first job of a watcher is its oldest, so what it starts is later     *)
(* than what was started and earlier than what waits.                       *)
LEMMA StartKeeps == ASSUME PgInv, StartAction PROVE PgInv'
<1>1. PICK i \in DOMAIN jobs :
        /\ Eligible(i) /\ \A k \in 1..(i - 1) : ~Eligible(k)
        /\ jobs' = AtPositions(jobs, DOMAIN jobs \ {i}) /\ running' = running \cup {jobs[i]}
        /\ started' = [started EXCEPT ![jobs[i].name] = Append(@, jobs[i].seq)]
        /\ UNCHANGED <<page, pgUp, watch, files, ipc, pgBounds>>
  BY DEF StartAction
<1> DEFINE w == jobs[i].name
           seq == jobs[i].seq
<1>2. JobsHold(jobs, started, files) /\ StartedHold(started, files)
  BY DEF PgInv
<1>3. jobs \in Seq(ActionJobs) /\ \A k \in DOMAIN jobs : k \in Nat /\ jobs[k].name \in Watchers /\ jobs[k].seq \in Nat
  BY <1>2, JobsAreTyped DEF JobsHold
<1>4. DOMAIN jobs = 1..Len(jobs) /\ Len(jobs) \in Nat
  <2> HIDE DEF ActionJobs
  <2> QED BY <1>3, LenProperties
<1>5. w \in Watchers /\ seq \in Nat /\ i \in 1..Len(jobs) /\ started[w] \in Seq(Nat)
  BY <1>2, <1>3, <1>4 DEF StartedHold
<1>6. \A k \in DOMAIN jobs : jobs[k].name = w /\ k # i => seq < jobs[k].seq
  <2> SUFFICES ASSUME NEW k \in DOMAIN jobs, jobs[k].name = w, k # i PROVE seq < jobs[k].seq
    OBVIOUS
  <2>1. Eligible(k)
    BY <1>1 DEF Eligible
  <2>2. ~(k \in 1..(i - 1))
    BY <1>1, <2>1
  <2>3. i < k
    BY <1>4, <1>5, <2>2
  <2> QED BY <1>2, <2>3 DEF JobsHold
<1> DEFINE new == Append(started[w], seq)
<1>7. /\ new \in Seq(Nat) /\ Len(new) = Len(started[w]) + 1 /\ new[Len(started[w]) + 1] = seq
      /\ \A k \in 1..Len(started[w]) : new[k] = started[w][k]
  BY <1>5, AppendProperties
<1>8. Len(started[w]) \in Nat /\ DOMAIN started[w] = 1..Len(started[w]) /\ DOMAIN new = 1..(Len(started[w]) + 1)
  BY <1>5, <1>7, LenProperties
<1>9. /\ started'[w] = new /\ started' \in [Watchers -> Seq(Nat)] /\ \A v \in Watchers : v # w => started'[v] = started[v]
  BY <1>1, <1>2, <1>5, <1>7 DEF StartedHold
<1> HIDE DEF new, w, seq
<1>10. \A k \in DOMAIN new : (k \in DOMAIN started[w] /\ new[k] = started[w][k]) \/ (k = Len(started[w]) + 1 /\ new[k] = seq)
  BY <1>7, <1>8
<1>11. (\A k \in DOMAIN started[w] : started[w][k] < seq) /\ seq <= files[w].seq
  BY <1>2 DEF JobsHold, w, seq
<1>12. \A k \in DOMAIN new : new[k] <= files[w].seq
  BY <1>2, <1>5, <1>10, <1>11 DEF StartedHold
<1>13. \A j, k \in DOMAIN new : j < k => new[j] < new[k]
  <2> SUFFICES ASSUME NEW j \in DOMAIN new, NEW k \in DOMAIN new, j < k PROVE new[j] < new[k]
    OBVIOUS
  <2>1. j \in DOMAIN started[w] /\ new[j] = started[w][j]
    BY <1>8, <1>10
  <2>2. CASE k \in DOMAIN started[w] /\ new[k] = started[w][k]
    BY <1>2, <1>5, <2>1, <2>2 DEF StartedHold
  <2>3. CASE new[k] = seq
    BY <1>11, <2>1, <2>3
  <2> QED BY <1>10, <2>2, <2>3
<1>14. StartedHold(started', files')
  <2> SUFFICES ASSUME NEW v \in Watchers
               PROVE  /\ \A k \in DOMAIN started'[v] : started'[v][k] <= files'[v].seq
                      /\ \A j, k \in DOMAIN started'[v] : j < k => started'[v][j] < started'[v][k]
    BY <1>9 DEF StartedHold
  <2>1. CASE v = w
    BY <1>1, <1>9, <1>12, <1>13, <2>1
  <2>2. CASE v # w
    BY <1>1, <1>2, <1>9, <2>2 DEF StartedHold
  <2> QED BY <2>1, <2>2
<1>15. \A k \in DOMAIN new : new[k] \in Nat /\ new[k] <= seq
  <2>1. \A k \in DOMAIN new : new[k] \in Nat
    BY <1>7, ElementOfSeq, LenProperties
  <2> QED BY <1>5, <1>10, <1>11, <2>1
<1>16. JobsHold(jobs', started', files')
  <2> DEFINE kept == DOMAIN jobs \ {i}
  <2>1. ASSUME NEW k \in kept
        PROVE  /\ jobs[k].seq <= files[jobs[k].name].seq
               /\ \A n \in DOMAIN started'[jobs[k].name] : started'[jobs[k].name][n] < jobs[k].seq
    <3>1. jobs[k].seq <= files[jobs[k].name].seq /\ jobs[k].name \in Watchers /\ jobs[k].seq \in Nat
      BY <1>2, <1>3 DEF JobsHold
    <3>2. CASE jobs[k].name = w
      <4>1. seq < jobs[k].seq
        BY <1>6, <3>2
      <4> QED BY <1>5, <1>9, <1>15, <3>1, <3>2, <4>1
    <3>3. CASE jobs[k].name # w
      BY <1>2, <1>9, <3>1, <3>3 DEF JobsHold
    <3> QED BY <3>2, <3>3
  <2>2. kept \subseteq DOMAIN jobs /\ jobs' = AtPositions(jobs, kept) /\ files' = files
    BY <1>1
  <2> HIDE DEF kept
  <2> QED BY <1>2, <2>1, <2>2, FewerJobs
<1>17. OnePerWatcher(running')
  BY <1>1 DEF PgInv, OnePerWatcher, Eligible
<1> HIDE DEF Counters, WorkerMessages
<1> QED BY <1>1, <1>14, <1>16, <1>17 DEF PgInv, WatchesHold, NumbersHold

(* A crash: the next daemon goes on from the number on disk.                *)
LEMMA CrashKeeps ==
  ASSUME PgInv, Die, files' \in [Watchers -> FileStates], \A w \in Watchers : files'[w].seq = files[w].seq
  PROVE  PgInv'
<1>1. /\ ~pgUp' /\ jobs' = <<>> /\ running' = {} /\ watch' = [w \in Watchers |-> Idle] /\ ipc' = [w \in Watchers |-> <<>>]
      /\ Below("faults", MaxFaults) /\ UNCHANGED <<page, started>>
  BY DEF Die
<1>2. pgBounds' \in Counters
  BY <1>1, CountersCount DEF PgInv
<1> HIDE DEF Counters, WorkerMessages, ActionJobs, WatchStates, FileStates, Idle
<1>3. ipc' \in [Watchers -> Seq(WorkerMessages)] /\ jobs' \in Seq(ActionJobs) /\ DOMAIN <<>> = {}
  BY <1>1, EmptySeq
<1>4. WatchesHold(watch', pgBounds'.unwritten = 0)
  BY <1>1, IdleWatch DEF WatchesHold
<1>5. NumbersHold(pgUp', watch', files') /\ StartedHold(started', files')
  BY <1>1 DEF PgInv, NumbersHold, StartedHold
<1>6. JobsHold(jobs', started', files') /\ OnePerWatcher(running')
  BY <1>1, <1>3 DEF JobsHold, OnePerWatcher
<1> QED BY <1>1, <1>2, <1>3, <1>4, <1>5, <1>6 DEF PgInv

LEMMA RestartKeeps == ASSUME PgInv, PgRestart PROVE PgInv'
<1> DEFINE again(w) == [Idle EXCEPT !.deployed = files[w].deployed, !.data = files[w].tab, !.seq = files[w].seq]
<1>1. /\ watch' = [w \in Watchers |-> again(w)]
      /\ UNCHANGED <<page, files, ipc, jobs, running, started, pgBounds>>
  BY DEF PgRestart
<1>2. ASSUME NEW w \in Watchers PROVE again(w) \in WatchStates /\ again(w).seq = files[w].seq /\ Consecutive(again(w))
  <2>1. files[w] \in FileStates
    BY DEF PgInv, NumbersHold
  <2>2. files[w].deployed \in BOOLEAN /\ files[w].tab \in Samples /\ files[w].seq \in Nat
    BY <2>1 DEF FileStates
  <2>4. <<>> \in Seq(Nat) /\ Len(<<>>) = 0 /\ DOMAIN <<>> = {}
    BY EmptySeq
  <2> DEFINE a == [Idle EXCEPT !.deployed = files[w].deployed]
             b == [a EXCEPT !.data = files[w].tab]
             c == [b EXCEPT !.seq = files[w].seq]
  <2>5. Idle \in WatchStates /\ Idle.updates = <<>>
    BY IdleWatch DEF Idle
  <2> HIDE DEF Idle, again
  <2>6. a \in WatchStates /\ a.updates = <<>>
    BY <2>2, <2>5 DEF WatchStates
  <2>7. b \in WatchStates /\ b.updates = <<>>
    <3> HIDE DEF a
    <3> QED BY <2>2, <2>6 DEF WatchStates
  <2>8. c \in WatchStates /\ c.updates = <<>> /\ c.seq = files[w].seq
    <3> HIDE DEF b
    <3> QED BY <2>2, <2>7 DEF WatchStates
  <2>9. again(w) = c
    BY DEF again
  <2> HIDE DEF c
  <2> QED BY <2>2, <2>4, <2>8, <2>9 DEF Consecutive
<1> HIDE DEF again, Counters, WorkerMessages, ActionJobs, WatchStates, FileStates
<1>3. WatchesHold(watch', pgBounds'.unwritten = 0) /\ NumbersHold(pgUp', watch', files')
  BY <1>1, <1>2 DEF PgInv, WatchesHold, NumbersHold
<1> QED BY <1>1, <1>3 DEF PgInv

LEMMA QuietSteps ==
  ASSUME PgInv, NEW w \in Watchers,
         \/ Fatal(w) \/ Timeout(w) \/ Poll(w) \/ GiveUp(w) \/ Hang(w) \/ Deploy(w) \/ PauseWatch(w) \/ ResumeWatch(w)
  PROVE  PgInv'
<1>0. /\ watch \in [Watchers -> WatchStates] /\ watch[w] \in WatchStates /\ files \in [Watchers -> FileStates]
      /\ files[w] \in FileStates /\ pgBounds \in Counters /\ page \in Contents /\ ipc \in [Watchers -> Seq(WorkerMessages)]
  BY DEF PgInv, WatchesHold, NumbersHold
<1>1. UNCHANGED <<page, pgUp, jobs, running, started>>
  BY DEF Fatal, Timeout, Poll, GiveUp, Hang, Deploy, PauseWatch, ResumeWatch, Work
<1>2. pgBounds' \in Counters /\ pgBounds'.unwritten = pgBounds.unwritten
  <2>1. UNCHANGED pgBounds \/ Below("faults", MaxFaults) \/ Below("deploys", MaxDeploys)
    BY DEF Fatal, Timeout, Poll, GiveUp, Hang, Deploy, PauseWatch, ResumeWatch
  <2> HIDE DEF Counters
  <2> QED BY <1>0, <2>1, CountersCount
<1>3. ipc' \in [Watchers -> Seq(WorkerMessages)]
  <2>1. \/ UNCHANGED ipc \/ ipc' = [ipc EXCEPT ![w] = <<>>]
        \/ ipc' = [ipc EXCEPT ![w] = Append(@, [kind |-> "sample", data |-> page])]
        \/ ipc' = [ipc EXCEPT ![w] = Append(@, [kind |-> "fatal", data |-> NoData])]
    BY DEF Fatal, Timeout, Poll, GiveUp, Hang, Deploy, PauseWatch, ResumeWatch, Cut, Begin, Work
  <2>2. [kind |-> "sample", data |-> page] \in WorkerMessages /\ [kind |-> "fatal", data |-> NoData] \in WorkerMessages
    BY <1>0 DEF WorkerMessages, Samples
  <2> DEFINE m == [kind |-> "sample", data |-> page]
             f == [kind |-> "fatal", data |-> NoData]
  <2>3. /\ [ipc EXCEPT ![w] = <<>>] \in [Watchers -> Seq(WorkerMessages)]
        /\ [ipc EXCEPT ![w] = Append(@, m)] \in [Watchers -> Seq(WorkerMessages)]
        /\ [ipc EXCEPT ![w] = Append(@, f)] \in [Watchers -> Seq(WorkerMessages)]
    <3> HIDE DEF m, f
    <3>1. m \in WorkerMessages /\ f \in WorkerMessages
      BY <2>2 DEF m, f
    <3> QED BY <3>1, MessagesAreTyped
  <2>4. UNCHANGED ipc \/ ipc' = [ipc EXCEPT ![w] = <<>>] \/ ipc' = [ipc EXCEPT ![w] = Append(@, m)]
        \/ ipc' = [ipc EXCEPT ![w] = Append(@, f)]
    BY <2>1
  <2> HIDE DEF m, f, WorkerMessages
  <2> QED BY <1>0, <2>3, <2>4
<1>4. PICK new \in WatchStates : /\ new.seq = watch[w].seq /\ new.updates = watch[w].updates
                                 /\ watch' = watch \/ watch' = [watch EXCEPT ![w] = new]
  <2> DEFINE halted == Halted(watch[w])
             hung == [watch[w] EXCEPT !.pid = "hung"]
             again == Started(watch[w])
             fresh == Started(halted)
             deployed == [fresh EXCEPT !.deployed = TRUE]
  <2>1. halted \in WatchStates /\ halted.seq = watch[w].seq /\ halted.updates = watch[w].updates
    BY <1>0, HaltedWatch
  <2>2. again \in WatchStates /\ again.seq = watch[w].seq /\ again.updates = watch[w].updates
    BY <1>0, StartedWatch
  <2>3. hung \in WatchStates /\ hung.seq = watch[w].seq /\ hung.updates = watch[w].updates
    BY <1>0 DEF WatchStates
  <2>4. fresh \in WatchStates /\ fresh.seq = watch[w].seq /\ fresh.updates = watch[w].updates
    <3> HIDE DEF halted
    <3> QED BY <2>1, StartedWatch
  <2>5. deployed \in WatchStates /\ deployed.seq = watch[w].seq /\ deployed.updates = watch[w].updates
    <3> HIDE DEF fresh
    <3> QED BY <2>4 DEF WatchStates
  <2>6. \/ UNCHANGED watch \/ watch' = [watch EXCEPT ![w] = halted] \/ watch' = [watch EXCEPT ![w] = hung]
        \/ watch' = [watch EXCEPT ![w] = again] \/ watch' = [watch EXCEPT ![w] = deployed]
    BY DEF Fatal, Timeout, Poll, GiveUp, Hang, Deploy, PauseWatch, ResumeWatch, Work
  <2> HIDE DEF halted, hung, again, deployed, WatchStates
  <2> QED BY <1>0, <2>1, <2>2, <2>3, <2>5, <2>6
<1>5. /\ watch' \in [Watchers -> WatchStates]
      /\ \A v \in Watchers : watch'[v].seq = watch[v].seq /\ watch'[v].updates = watch[v].updates
  <2> HIDE DEF WatchStates
  <2> QED BY <1>0, <1>4
<1>6. files' \in [Watchers -> FileStates] /\ \A v \in Watchers : files'[v].seq = files[v].seq
  <2>1. CASE UNCHANGED files
    BY <1>0, <2>1
  <2>2. CASE Deploy(w)
    <3> DEFINE a == [files[w] EXCEPT !.deployed = TRUE]
               b == [a EXCEPT !.seq = watch[w].seq]
    <3>1. files' = [files EXCEPT ![w] = b] /\ files[w].seq = watch[w].seq /\ watch[w].seq \in Nat
      <4>1. files[w].seq = watch[w].seq
        BY <2>2 DEF Deploy, PgInv, NumbersHold
      <4>2. watch[w].seq \in Nat
        BY <1>0 DEF WatchStates
      <4>3. files' = [files EXCEPT ![w] = b]
        BY <1>0, <2>2 DEF Deploy
      <4> QED BY <4>1, <4>2, <4>3
    <3>2. a \in FileStates
      BY <1>0 DEF FileStates
    <3>3. b \in FileStates /\ b.seq = watch[w].seq
      <4> HIDE DEF a
      <4> QED BY <3>1, <3>2 DEF FileStates
    <3> HIDE DEF b, FileStates
    <3> QED BY <1>0, <3>1, <3>3
  <2> QED BY <2>1, <2>2 DEF Fatal, Timeout, Poll, GiveUp, Hang, PauseWatch, ResumeWatch, Work
<1> HIDE DEF WatchStates, FileStates, Counters, WorkerMessages
<1> QED BY <1>0, <1>1, <1>2, <1>3, <1>5, <1>6, QuietStep

LEMMA PgStep == PgInv /\ [PgNext]_PgVars => PgInv'
<1> SUFFICES ASSUME PgInv, [PgNext]_PgVars PROVE PgInv'
  OBVIOUS
<1>0. /\ watch \in [Watchers -> WatchStates] /\ files \in [Watchers -> FileStates]
      /\ pgBounds \in Counters /\ page \in Contents /\ ipc \in [Watchers -> Seq(WorkerMessages)]
  BY DEF PgInv, WatchesHold, NumbersHold
<1>1. ASSUME UNCHANGED PgVars \/ Edit \/ (\E a \in running : FinishAction(a)) PROVE PgInv'
  <2>1. UNCHANGED <<pgUp, watch, files, ipc, jobs, started>> /\ running' \subseteq running
    BY <1>1 DEF PgVars, Edit, FinishAction
  <2>2. page' \in Contents /\ pgBounds' \in Counters /\ pgBounds'.unwritten = pgBounds.unwritten
    <3>1. (page' = page \/ page' \in Contents) /\ (UNCHANGED pgBounds \/ Below("edits", MaxEdits))
      BY <1>1 DEF PgVars, Edit, FinishAction
    <3> HIDE DEF Counters
    <3> QED BY <1>0, <3>1, CountersCount
  <2> HIDE DEF WatchStates, FileStates, Counters, WorkerMessages
  <2> QED BY <1>0, <2>1, <2>2, QuietStep
<1>2. CASE StartAction
  BY <1>2, StartKeeps
<1>3. CASE PgCrash
  <2>1. Die /\ files' = files
    BY <1>3 DEF PgCrash
  <2> HIDE DEF FileStates
  <2> QED BY <1>0, <2>1, CrashKeeps
<1>4. CASE PgRestart
  BY <1>4, RestartKeeps
<1>5. ASSUME NEW w \in Watchers, PgCrashTorn(w) PROVE PgInv'
  <2> DEFINE data == Head(ipc[w]).data
             file == [files[w] EXCEPT !.tab = data]
  <2>1. ipc[w] # <<>> /\ Die /\ files' = [files EXCEPT ![w].tab = data]
    BY <1>5 DEF PgCrashTorn, Received
  <2>2. data \in Samples
    BY <2>1, MessagesAreTyped
  <2> HIDE DEF data
  <2>3. file \in FileStates /\ file.seq = files[w].seq
    BY <1>0, <2>2 DEF FileStates
  <2>4. files' = [files EXCEPT ![w] = file]
    BY <1>0, <2>1
  <2> HIDE DEF file, FileStates
  <2>5. files' \in [Watchers -> FileStates] /\ \A v \in Watchers : files'[v].seq = files[v].seq
    BY <1>0, <2>3, <2>4
  <2> QED BY <2>1, <2>5, CrashKeeps
<1>6. ASSUME NEW w \in Watchers,
             \/ Fatal(w) \/ Timeout(w) \/ Poll(w) \/ GiveUp(w) \/ Hang(w) \/ Deploy(w) \/ PauseWatch(w) \/ ResumeWatch(w)
      PROVE  PgInv'
  BY <1>6, QuietSteps
<1>7. ASSUME NEW w \in Watchers, Sample(w) PROVE PgInv'
  BY <1>7, SampleKeeps
<1>8. ASSUME NEW w \in Watchers, SampleUnwritten(w) PROVE PgInv'
  BY <1>8, UnwrittenKeeps
<1>9. ASSUME NEW w \in Watchers, Remove(w) PROVE PgInv'
  BY <1>9, RemoveKeeps
<1> QED BY <1>1, <1>2, <1>3, <1>4, <1>5, <1>6, <1>7, <1>8, <1>9 DEF PgNext

(* A history without a gap answers updates --since completely, or says      *)
(* that something is lost.                                                  *)
LEMMA ConsecutiveIsComplete ==
  ASSUME NEW wt \in WatchStates, Consecutive(wt), NEW since \in 0..wt.seq, ~Lost(wt, since)
  PROVE  Events(wt, since) = (since + 1)..wt.seq
<1> DEFINE n == Len(wt.updates)
           low == wt.seq - n
<1>1. wt.seq \in Nat /\ wt.updates \in Seq(Nat)
  BY DEF WatchStates
<1>2. n \in Nat /\ DOMAIN wt.updates = 1..n /\ n <= wt.seq /\ \A i \in 1..n : wt.updates[i] = low + i
  BY <1>1, LenProperties DEF Consecutive
<1>3. low \in Nat /\ low + n = wt.seq
  BY <1>1, <1>2
<1>4. since >= low
  <2>1. CASE since = wt.seq
    BY <1>1, <1>2, <2>1
  <2>2. CASE since # wt.seq
    <3>1. wt.updates # <<>> /\ ~(since < wt.updates[1] - 1)
      BY <1>1, <2>2 DEF Lost
    <3>2. 1 \in 1..n
      BY <1>1, <1>2, <3>1, EmptySeq
    <3> QED BY <1>2, <1>3, <3>1, <3>2
  <2> QED BY <2>1, <2>2
<1> DEFINE all == {wt.updates[i] : i \in DOMAIN wt.updates}
<1> HIDE DEF n, low
<1>5. \A x : x \in all <=> x \in (low + 1)..wt.seq
  <2> SUFFICES ASSUME NEW x PROVE x \in all <=> x \in (low + 1)..wt.seq
    OBVIOUS
  <2>1. ASSUME x \in all PROVE x \in (low + 1)..wt.seq
    <3>1. PICK i \in 1..n : x = low + i
      BY <1>2, <2>1
    <3> QED BY <1>2, <1>3, <3>1
  <2>2. ASSUME x \in (low + 1)..wt.seq PROVE x \in all
    <3>1. x - low \in 1..n /\ low + (x - low) = x
      BY <1>1, <1>2, <1>3, <2>2
    <3> QED BY <1>2, <3>1
  <2> QED BY <2>1, <2>2
<1> HIDE DEF all
<1>6. Events(wt, since) = all \ 0..since
  BY DEF Events, all
<1>7. \A x : x \in all \ 0..since <=> x \in (since + 1)..wt.seq
  BY <1>1, <1>3, <1>4, <1>5
<1> QED BY <1>6, <1>7

(* The sample of the newest number: it is in tab.json and, while the daemon *)
(* runs, in its memory, unless the two files came apart.                    *)
NumberStates == [data : Samples, apart : BOOLEAN]
NamedAt(up, wt, f, n) == ~n.apart => f.tab = n.data /\ (up => wt.data = n.data)
PgNamed ==
  /\ newest \in [Watchers -> NumberStates]
  /\ \A w \in Watchers : NamedAt(pgUp, watch[w], files[w], newest[w])

LEMMA NamedStarts == PgInit => PgNamed
<1> SUFFICES ASSUME PgInit PROVE PgNamed
  OBVIOUS
<1>1. Unnumbered \in NumberStates /\ NamedAt(TRUE, Idle, NoFiles, Unnumbered)
  BY DEF Unnumbered, NumberStates, Samples, NamedAt, Idle, NoFiles
<1> HIDE DEF NumberStates, Unnumbered, NamedAt, Idle, NoFiles
<1> QED BY <1>1 DEF PgInit, PgNamed

(* A step that gives no number keeps the samples as they are.               *)
LEMMA NamedQuietly ==
  ASSUME PgNamed, UNCHANGED newest, pgUp' => pgUp,
         \A w \in Watchers : files'[w].tab = files[w].tab /\ (pgUp' => watch'[w].data = watch[w].data)
  PROVE  PgNamed'
BY DEF PgNamed, NamedAt

(* A step of one watcher.                                                   *)
LEMMA NamedOne ==
  ASSUME PgNamed, NEW w \in Watchers, NEW n \in NumberStates, newest' = [newest EXCEPT ![w] = n],
         NamedAt(pgUp', watch'[w], files'[w], n), pgUp' => pgUp,
         \A v \in Watchers \ {w} : files'[v].tab = files[v].tab /\ (pgUp' => watch'[v].data = watch[v].data)
  PROVE  PgNamed'
<1> HIDE DEF NumberStates
<1>1. newest' \in [Watchers -> NumberStates] /\ newest'[w] = n /\ \A v \in Watchers \ {w} : newest'[v] = newest[v]
  BY DEF PgNamed
<1> QED BY <1>1 DEF PgNamed, NamedAt

LEMMA NamedSample == ASSUME PgInv, PgNamed, NEW w \in Watchers, Sample(w) PROVE PgNamed'
<1> DEFINE data == Head(ipc[w]).data
           new == Sampled(watch[w], data)
<1>0. watch \in [Watchers -> WatchStates] /\ files \in [Watchers -> FileStates] /\ data \in Samples
  <2>1. Head(ipc[w]) \in WorkerMessages
    BY MessagesAreTyped DEF Sample, Received
  <2> QED BY <2>1 DEF PgInv, WatchesHold, NumbersHold, WorkerMessages
<1> HIDE DEF data
<1>1. CASE watch[w].data = data
  BY <1>1, NamedQuietly DEF Sample, data
<1>2. CASE watch[w].data # data
  <2>1. /\ watch' = [watch EXCEPT ![w] = new] /\ UNCHANGED pgUp
        /\ files' = [files EXCEPT ![w].tab = data, ![w].seq = watch[w].seq + 1]
        /\ newest' = [newest EXCEPT ![w] = [data |-> data, apart |-> FALSE]]
    BY <1>2 DEF Sample, data
  <2>2. new.data = data
    BY <1>0 DEF Sampled, WatchStates
  <2> HIDE DEF new
  <2>3. [data |-> data, apart |-> FALSE] \in NumberStates
    BY <1>0 DEF NumberStates
  <2>4. files'[w].tab = data /\ watch'[w] = new
    BY <1>0, <2>1 DEF FileStates
  <2>5. \A v \in Watchers \ {w} : files'[v] = files[v] /\ watch'[v] = watch[v]
    BY <1>0, <2>1
  <2>6. NamedAt(pgUp', watch'[w], files'[w], [data |-> data, apart |-> FALSE])
    BY <2>2, <2>4 DEF NamedAt
  <2> QED BY <2>1, <2>3, <2>5, <2>6, NamedOne
<1> QED BY <1>1, <1>2

LEMMA NamedStep == PgInv /\ PgNamed /\ [PgNext]_PgVars => PgNamed'
<1> SUFFICES ASSUME PgInv, PgNamed, [PgNext]_PgVars PROVE PgNamed'
  OBVIOUS
<1>0. watch \in [Watchers -> WatchStates] /\ files \in [Watchers -> FileStates]
  BY DEF PgInv, WatchesHold, NumbersHold
<1>1. CASE UNCHANGED PgVars \/ Edit \/ StartAction \/ (\E a \in running : FinishAction(a))
  <2>1. UNCHANGED <<pgUp, watch, files, newest>>
    BY <1>1 DEF PgVars, Edit, StartAction, FinishAction
  <2> QED BY <2>1, NamedQuietly
<1>2. CASE PgCrash
  BY <1>2, NamedQuietly DEF PgCrash, Die
<1>3. CASE PgRestart
  <2>1. UNCHANGED <<files, newest>>
    BY <1>3 DEF PgRestart
  <2>2. \A w \in Watchers : watch'[w].data = files[w].tab
    BY <1>3 DEF PgRestart, Idle
  <2> QED BY <2>1, <2>2 DEF PgNamed, NamedAt
<1>4. ASSUME NEW w \in Watchers, Sample(w) PROVE PgNamed'
  BY <1>4, NamedSample
<1>5. ASSUME NEW w \in Watchers, SampleUnwritten(w) PROVE PgNamed'
  <2> DEFINE n == [data |-> Head(ipc[w]).data, apart |-> TRUE]
             new == [Halted(watch[w]) EXCEPT !.data = Head(ipc[w]).data, !.seq = watch[w].seq + 1]
  <2>1. /\ newest' = [newest EXCEPT ![w] = n] /\ watch' = [watch EXCEPT ![w] = new]
        /\ files' = [files EXCEPT ![w].seq = watch[w].seq + 1] /\ UNCHANGED pgUp
    BY <1>5 DEF SampleUnwritten
  <2>2. Head(ipc[w]) \in WorkerMessages
    BY <1>5, MessagesAreTyped DEF SampleUnwritten, Received
  <2>3. n \in NumberStates /\ n.apart
    BY <2>2 DEF NumberStates, WorkerMessages
  <2> HIDE DEF n, new
  <2>4. \A v \in Watchers \ {w} : files'[v] = files[v] /\ watch'[v] = watch[v]
    BY <1>0, <2>1
  <2>5. NamedAt(pgUp', watch'[w], files'[w], n)
    BY <2>3 DEF NamedAt
  <2> QED BY <2>1, <2>3, <2>4, <2>5, NamedOne
<1>6. ASSUME NEW w \in Watchers, Remove(w) PROVE PgNamed'
  <2>1. /\ newest' = [newest EXCEPT ![w] = Unnumbered] /\ watch' = [watch EXCEPT ![w] = Idle]
        /\ files' = [files EXCEPT ![w] = NoFiles] /\ UNCHANGED pgUp
    BY <1>6 DEF Remove
  <2>2. Unnumbered \in NumberStates /\ NamedAt(pgUp', Idle, NoFiles, Unnumbered)
    BY DEF Unnumbered, NumberStates, Samples, NamedAt, Idle, NoFiles
  <2> HIDE DEF NumberStates, Unnumbered, NamedAt, Idle, NoFiles
  <2>3. watch'[w] = Idle /\ files'[w] = NoFiles /\ \A v \in Watchers \ {w} : files'[v] = files[v] /\ watch'[v] = watch[v]
    BY <1>0, <2>1
  <2> QED BY <2>1, <2>2, <2>3, NamedOne
<1>7. ASSUME NEW w \in Watchers, PgCrashTorn(w) PROVE PgNamed'
  <2> DEFINE n == [newest[w] EXCEPT !.apart = TRUE]
  <2>1. /\ newest' = [newest EXCEPT ![w] = n] /\ pgUp' = FALSE
        /\ files' = [files EXCEPT ![w].tab = Head(ipc[w]).data]
    BY <1>7 DEF PgCrashTorn, Die
  <2>2. newest[w] \in NumberStates
    BY DEF PgNamed
  <2>3. n \in NumberStates /\ n.apart
    BY <2>2 DEF NumberStates
  <2> HIDE DEF n
  <2>4. NamedAt(pgUp', watch'[w], files'[w], n)
    BY <2>3 DEF NamedAt
  <2>5. \A v \in Watchers \ {w} : files'[v] = files[v]
    BY <1>0, <2>1
  <2> QED BY <2>1, <2>3, <2>4, <2>5, NamedOne
<1>8. ASSUME NEW w \in Watchers, Fatal(w) \/ Timeout(w) \/ PauseWatch(w) \/ Hang(w) \/ ResumeWatch(w) \/ Poll(w) \/ GiveUp(w) PROVE PgNamed'
  <2>1. UNCHANGED <<pgUp, files, newest>>
    BY <1>8 DEF Fatal, Timeout, PauseWatch, Hang, ResumeWatch, Poll, GiveUp, Work
  <2>2. \A v \in Watchers : watch'[v].data = watch[v].data
    <3>1. \/ UNCHANGED watch \/ watch' = [watch EXCEPT ![w] = Halted(@)]
          \/ watch' = [watch EXCEPT ![w] = Started(@)] \/ watch' = [watch EXCEPT ![w].pid = "hung"]
      BY <1>8 DEF Fatal, Timeout, PauseWatch, Hang, ResumeWatch, Poll, GiveUp, Work
    <3>2. /\ Halted(watch[w]).data = watch[w].data /\ Started(watch[w]).data = watch[w].data
          /\ [watch[w] EXCEPT !.pid = "hung"].data = watch[w].data
      BY <1>0 DEF Halted, Started, WatchStates
    <3> HIDE DEF WatchStates
    <3> QED BY <1>0, <3>1, <3>2
  <2> QED BY <2>1, <2>2, NamedQuietly
<1>9. ASSUME NEW w \in Watchers, Deploy(w) PROVE PgNamed'
  <2> DEFINE new == [Started(Halted(watch[w])) EXCEPT !.deployed = TRUE]
  <2>1. /\ watch' = [watch EXCEPT ![w] = new] /\ UNCHANGED <<pgUp, newest>>
        /\ files' = [files EXCEPT ![w].deployed = TRUE, ![w].seq = watch[w].seq]
    BY <1>9 DEF Deploy
  <2>2. new.data = watch[w].data
    BY <1>0 DEF Halted, Started, WatchStates
  <2> HIDE DEF new
  <2>3. \A v \in Watchers : watch'[v].data = watch[v].data
    <3> HIDE DEF WatchStates
    <3> QED BY <1>0, <2>1, <2>2
  <2>4. \A v \in Watchers : files'[v].tab = files[v].tab
    BY <1>0, <2>1 DEF FileStates
  <2> QED BY <2>1, <2>3, <2>4, NamedQuietly
<1> QED BY <1>1, <1>2, <1>3, <1>4, <1>5, <1>6, <1>7, <1>8, <1>9 DEF PgNext

(* A client is told of every numbered change or of the loss, a sample is    *)
(* answered with its own number unless a kill or a failed write parted its  *)
(* two files, and the actions of a watcher run one by one in the order of   *)
(* the changes, for every number of watchers, limits, crashes and restarts. *)
THEOREM ChangesStayAccountedFor == PgSpec => []ChangesAreAccountedFor
<1>1. PgInv /\ PgNamed => ChangesAreAccountedFor
  <2> SUFFICES ASSUME PgInv, PgNamed PROVE ChangesAreAccountedFor
    OBVIOUS
  <2>1. UpdatesAreComplete
    <3> SUFFICES ASSUME pgBounds.unwritten = 0, NEW w \in Watchers, NEW since \in 0..watch[w].seq, ~Lost(watch[w], since)
                 PROVE  Events(watch[w], since) = (since + 1)..watch[w].seq
      BY DEF UpdatesAreComplete, LossIsReported
    <3>1. watch[w] \in WatchStates /\ Consecutive(watch[w])
      BY DEF PgInv, WatchesHold
    <3> QED BY <3>1, ConsecutiveIsComplete
  <2>2. \A w \in Watchers : Cardinality({a \in running : a.name = w}) <= 1
    <3> SUFFICES ASSUME NEW w \in Watchers PROVE Cardinality({a \in running : a.name = w}) <= 1
      OBVIOUS
    <3> DEFINE own == {a \in running : a.name = w}
    <3>1. \A a, b \in own : a = b
      BY DEF PgInv, OnePerWatcher
    <3> HIDE DEF own
    <3>2. CASE own = {}
      <4>1. Cardinality(own) = 0
        BY <3>2, FS_EmptySet
      <4> QED BY <4>1 DEF own
    <3>3. CASE own # {}
      <4>1. PICK a : own = {a}
        BY <3>1, <3>3
      <4>2. Cardinality(own) = 1
        BY <4>1, FS_Singleton
      <4> QED BY <4>2 DEF own
    <3> QED BY <3>2, <3>3
  <2>3. \A w \in Watchers : \A i, j \in DOMAIN started[w] : i < j => started[w][i] < started[w][j]
    BY DEF PgInv, StartedHold
  <2>4. SnapshotsAreNumbered
    BY DEF PgInv, NumbersHold, PgNamed, NamedAt, SnapshotsAreNumbered
  <2> QED BY <2>1, <2>2, <2>3, <2>4 DEF ChangesAreAccountedFor, ActionsInOrder
<1> QED BY <1>1, PgStarts, PgStep, NamedStarts, NamedStep, PTL DEF PgSpec

-----------------------------------------------------------------------------
(* The crawl engine.                                                        *)
Tasks == [url : Urls, depth : Nat, attempts : Nat]
Crawls == [origin : BOOLEAN, max_pages : Nat \ {0}, max_depth : Nat,
           frontier : Seq(Tasks), seen : SUBSET Urls, pages : Nat,
           watch : Urls \cup {None}, due : BOOLEAN, done : SUBSET Urls, manual : BOOLEAN]

QueueHolds(q, known, over) ==
  /\ \A i, j \in DOMAIN q : i # j => q[i].url # q[j].url
  /\ \A i \in DOMAIN q : q[i].url \in known /\ q[i].url \notin over
BreadthFirst(q) == \A i, j \in DOMAIN q : i < j => q[j].depth - q[i].depth \in 0..1
Sound(st) ==
  /\ st \in Crawls /\ IsFiniteSet(st.seen) /\ st.done \subseteq st.seen
  /\ QueueHolds(st.frontier, st.seen, st.done)
  /\ st.pages = Cardinality(st.done) /\ st.pages <= st.max_pages
  /\ ~st.manual => BreadthFirst(st.frontier)
EngInv ==
  /\ Sound(mem) /\ Sound(disk) /\ Sound(before) /\ failed \in Nat
  /\ period \in Urls \cup {None} /\ paused \in BOOLEAN
  /\ acked.watch # "unknown" /\ ~acked.apart => disk.watch = acked.watch
  /\ parted \in {"no", "may", "yes"} /\ (parted = "yes" => ~Crawling)
  /\ pc # "down" /\ parted # "yes" => mem = disk
  /\ pc = "fetch" /\ parted = "no" => before = disk
  /\ pc = "watch" => parted = "may"
  /\ pc = "fetch" => ~paused /\ mem.frontier # <<>> /\ mem.pages < mem.max_pages

-----------------------------------------------------------------------------
(* The records of the engine and their fields.                              *)
LEMMA CrawlFields ==
  ASSUME NEW st \in Crawls
  PROVE  /\ st.origin \in BOOLEAN /\ st.max_pages \in Nat \ {0} /\ st.max_depth \in Nat
         /\ st.frontier \in Seq(Tasks) /\ st.seen \subseteq Urls /\ st.pages \in Nat
         /\ st.watch \in Urls \cup {None} /\ st.due \in BOOLEAN /\ st.done \subseteq Urls /\ st.manual \in BOOLEAN
  BY DEF Crawls

LEMMA FreshIsSound == Sound(Fresh)
<1> DEFINE T == Tasks
<1> HIDE DEF T
<1>1. <<>> \in Seq(T) /\ DOMAIN <<>> = {}
  BY EmptySeq
<1>2. Fresh \in Crawls
  BY <1>1, EngineConstants DEF Fresh, Crawls, T, None
<1>3. IsFiniteSet({}) /\ Cardinality({}) = 0
  BY FS_EmptySet
<1>4. Fresh.max_pages \in Nat \ {0}
  BY <1>2, CrawlFields
<1>5. QueueHolds(Fresh.frontier, Fresh.seen, Fresh.done) /\ BreadthFirst(Fresh.frontier)
  BY <1>1 DEF QueueHolds, BreadthFirst, Fresh
<1>6. Fresh.seen = {} /\ Fresh.done = {} /\ Fresh.pages = 0
  BY DEF Fresh
<1> QED BY <1>2, <1>3, <1>4, <1>5, <1>6 DEF Sound

(* A task at the end of the frontier.                                       *)
Wide(st, depth) == ~st.manual => \A i \in DOMAIN st.frontier : depth - st.frontier[i].depth \in 0..1

LEMMA EnqueuedIs ==
  ASSUME NEW st \in Crawls, NEW u \in Urls, NEW depth \in Nat, ~Passed(st, u, depth)
  PROVE  LET r == Enqueued(st, u, depth)
             t == [url |-> u, depth |-> depth, attempts |-> 0]
         IN  /\ r \in Crawls /\ t \in Tasks /\ r.frontier = Append(st.frontier, t) /\ r.seen = st.seen \cup {u}
             /\ r.origin = st.origin /\ r.max_pages = st.max_pages /\ r.max_depth = st.max_depth /\ r.pages = st.pages
             /\ r.watch = st.watch /\ r.due = st.due /\ r.done = st.done /\ r.manual = st.manual
<1> DEFINE t == [url |-> u, depth |-> depth, attempts |-> 0]
           T == Tasks
           q == Append(st.frontier, t)
           k == st.seen \cup {u}
           a == [st EXCEPT !.seen = k]
           r == [a EXCEPT !.frontier = q]
<1>1. t \in T
  BY DEF Tasks
<1>2. st.frontier \in Seq(T) /\ k \in SUBSET Urls
  BY CrawlFields
<1> HIDE DEF T, t
<1>3. q \in Seq(T)
  BY <1>1, <1>2, AppendProperties
<1> HIDE DEF q, k
<1>4. a \in Crawls /\ a.frontier = st.frontier /\ a.seen = k /\ a.origin = st.origin /\ a.max_pages = st.max_pages /\ a.max_depth = st.max_depth /\ a.pages = st.pages
             /\ a.watch = st.watch /\ a.due = st.due /\ a.done = st.done /\ a.manual = st.manual
  BY <1>2 DEF Crawls
<1> HIDE DEF a
<1>5. r \in Crawls /\ r.frontier = q /\ r.seen = a.seen /\ r.origin = a.origin /\ r.max_pages = a.max_pages /\ r.max_depth = a.max_depth /\ r.pages = a.pages
             /\ r.watch = a.watch /\ r.due = a.due /\ r.done = a.done /\ r.manual = a.manual
  BY <1>3, <1>4 DEF Crawls, T
<1>6. Enqueued(st, u, depth) = r
  BY Zenon DEF Enqueued, r, a, q, k, t
<1> HIDE DEF r
<1> QED BY <1>1, <1>4, <1>5, <1>6 DEF T, q, k, t

LEMMA AddedHolds ==
  ASSUME NEW q \in Seq(Tasks), NEW t \in Tasks, NEW known, NEW over, QueueHolds(q, known, over),
         t.url \notin known, over \subseteq known
  PROVE  /\ QueueHolds(Append(q, t), known \cup {t.url}, over)
         /\ BreadthFirst(q) /\ (\A i \in DOMAIN q : t.depth - q[i].depth \in 0..1) => BreadthFirst(Append(q, t))
<1> DEFINE T == Tasks
           r == Append(q, t)
<1>0. q \in Seq(T) /\ t \in T
  OBVIOUS
<1> HIDE DEF T
<1>1. /\ DOMAIN r = 1..(Len(q) + 1) /\ Len(q) \in Nat /\ DOMAIN q = 1..Len(q)
      /\ \A i \in 1..Len(q) : r[i] = q[i]
      /\ r[Len(q) + 1] = t
  BY <1>0, AppendProperties, LenProperties
<1> HIDE DEF r
<1>2. \A i \in DOMAIN r : i = Len(q) + 1 \/ i \in DOMAIN q
  BY <1>1
<1>3. QueueHolds(r, known \cup {t.url}, over)
  BY <1>1, <1>2 DEF QueueHolds
<1>4. ASSUME BreadthFirst(q), \A i \in DOMAIN q : t.depth - q[i].depth \in 0..1 PROVE BreadthFirst(r)
  <2> SUFFICES ASSUME NEW i \in DOMAIN r, NEW j \in DOMAIN r, i < j PROVE r[j].depth - r[i].depth \in 0..1
    BY DEF BreadthFirst
  <2>1. i \in DOMAIN q
    BY <1>1
  <2>2. CASE j = Len(q) + 1
    BY <2>1, <2>2, <1>1, <1>4
  <2>3. CASE j \in DOMAIN q
    BY <2>1, <2>3, <1>1, <1>4 DEF BreadthFirst
  <2> QED BY <2>2, <2>3, <1>2
<1> QED BY <1>3, <1>4 DEF r

SameRun(st, r) ==
  /\ r.origin = st.origin /\ r.max_pages = st.max_pages /\ r.max_depth = st.max_depth /\ r.pages = st.pages
  /\ r.watch = st.watch /\ r.due = st.due /\ r.done = st.done /\ r.manual = st.manual
Grown(st, r, depth) ==
  /\ Sound(r) /\ Wide(r, depth) /\ SameRun(st, r)
  /\ st.frontier # <<>> => r.frontier # <<>> /\ r.frontier[1] = st.frontier[1]

LEMMA EnqueuedGrows ==
  ASSUME NEW st, Sound(st), NEW u \in Urls, NEW depth \in Nat, Wide(st, depth)
  PROVE  Grown(st, Enqueued(st, u, depth), depth)
<1>1. CASE Passed(st, u, depth)
  <2>1. Enqueued(st, u, depth) = st
    BY <1>1 DEF Enqueued
  <2> QED BY <2>1 DEF Grown, SameRun
<1>2. CASE ~Passed(st, u, depth)
  <2> DEFINE r == Enqueued(st, u, depth)
             t == [url |-> u, depth |-> depth, attempts |-> 0]
             q == st.frontier
             T == Tasks
  <2>0. t.url = u /\ t.depth = depth
    OBVIOUS
  <2>1. st \in Crawls /\ q \in Seq(Tasks)
    BY CrawlFields DEF Sound
  <2>2. r \in Crawls /\ t \in Tasks /\ r.frontier = Append(q, t) /\ r.seen = st.seen \cup {u} /\ SameRun(st, r)
    BY <1>2, <2>1, EnqueuedIs DEF SameRun
  <2> HIDE DEF r, t
  <2>3. /\ QueueHolds(Append(q, t), st.seen \cup {u}, st.done)
        /\ BreadthFirst(q) /\ (\A i \in DOMAIN q : depth - q[i].depth \in 0..1) => BreadthFirst(Append(q, t))
    BY <1>2, <2>0, <2>1, <2>2, AddedHolds DEF Sound, Passed
  <2>4. IsFiniteSet(st.seen \cup {u})
    BY FS_AddElement DEF Sound
  <2>5. Sound(r)
    BY <2>2, <2>3, <2>4 DEF Sound, SameRun, Wide
  <2> HIDE DEF T
  <2>6. q \in Seq(T) /\ t \in T
    BY <2>1, <2>2 DEF T
  <2>7. /\ DOMAIN Append(q, t) = 1..(Len(q) + 1) /\ Len(q) \in Nat /\ DOMAIN q = 1..Len(q)
        /\ \A i \in 1..Len(q) : Append(q, t)[i] = q[i]
        /\ Append(q, t)[Len(q) + 1] = t
        /\ Append(q, t) # <<>> /\ (q # <<>> => 1 \in 1..Len(q))
    BY <2>6, AppendProperties, LenProperties, EmptySeq
  <2>8. Wide(r, depth)
    <3>0. 0 \in 0..1 /\ depth - depth = 0
      OBVIOUS
    <3>1. \A i \in DOMAIN Append(q, t) : i = Len(q) + 1 \/ i \in DOMAIN q
      BY <2>7
    <3> QED BY <2>0, <2>2, <2>7, <3>0, <3>1 DEF Wide, SameRun
  <2> QED BY <2>2, <2>5, <2>7, <2>8 DEF Grown, r
<1> QED BY <1>1, <1>2

LEMMA GrownFurther ==
  ASSUME NEW st, NEW r, NEW x, NEW depth, Grown(st, r, depth), Grown(r, x, depth)
  PROVE  Grown(st, x, depth)
  BY DEF Grown, SameRun

(* The link loop.                                                           *)
LinkStep(p, u, depth) ==
  IF ~p.open \/ Refused(p.st, u) THEN p
  ELSE IF Full(p.st, u, depth) THEN [p EXCEPT !.open = FALSE]
  ELSE [p EXCEPT !.st = Enqueued(p.st, u, depth)]

IsLoop(f, st, links, depth, n) ==
  f = [i \in 0..n |-> IF i = 0 THEN [st |-> st, open |-> TRUE] ELSE LinkStep(f[i - 1], links[i], depth)]

LEMMA LoopExists ==
  ASSUME NEW st, NEW links, NEW depth, NEW n \in Nat
  PROVE  \E f : IsLoop(f, st, links, depth, n)
<1> DEFINE Runs(f, k) == f = [i \in 0..k |-> IF i = 0 THEN [st |-> st, open |-> TRUE] ELSE LinkStep(f[i - 1], links[i], depth)]
           S == {k \in Nat : \E f : Runs(f, k)}
<1>1. 0 \in S
  <2> DEFINE f == [i \in 0..0 |-> [st |-> st, open |-> TRUE]]
  <2>1. Runs(f, 0)
    OBVIOUS
  <2> QED BY <2>1
<1>2. ASSUME NEW k \in Nat, k \in S PROVE k + 1 \in S
  <2>1. PICK f : Runs(f, k)
    BY <1>2
  <2> DEFINE g == [i \in 0..(k + 1) |-> IF i = k + 1 THEN LinkStep(f[k], links[k + 1], depth) ELSE f[i]]
  <2>2. ASSUME NEW i \in 0..(k + 1) PROVE g[i] = IF i = 0 THEN [st |-> st, open |-> TRUE] ELSE LinkStep(g[i - 1], links[i], depth)
    <3>1. CASE i = k + 1
      BY <3>1
    <3>2. CASE i = 0
      BY <3>2, <2>1
    <3>3. CASE i # 0 /\ i # k + 1
      <4>1. i \in 0..k /\ i - 1 \in 0..k /\ i - 1 # k + 1 /\ i - 1 \in 0..(k + 1)
        BY <3>3
      <4>2. f[i] = LinkStep(f[i - 1], links[i], depth)
        BY <2>1, <3>3, <4>1
      <4>3. g[i] = f[i] /\ g[i - 1] = f[i - 1]
        BY <3>3, <4>1
      <4> QED BY <3>3, <4>2, <4>3
    <3> QED BY <3>1, <3>2, <3>3
  <2>3. Runs(g, k + 1)
    BY <2>2
  <2> HIDE DEF g, Runs
  <2> QED BY <2>3
<1> HIDE DEF S
<1>3. Nat \subseteq S
  BY <1>1, <1>2, SetInduction
<1> QED BY <1>3 DEF S, IsLoop

LEMMA LoopFields ==
  ASSUME NEW a, NEW b, NEW c
  PROVE  /\ [[st |-> a, open |-> b] EXCEPT !.open = c] = [st |-> a, open |-> c]
         /\ [[st |-> a, open |-> b] EXCEPT !.st = c] = [st |-> c, open |-> b]
         /\ [st |-> a, open |-> b].st = a /\ [st |-> a, open |-> b].open = b
  OBVIOUS

LEMMA DiscoveredGrows ==
  ASSUME NEW st, Sound(st), NEW links \in Seq(Urls \cup {Outside}), NEW depth \in Nat, Wide(st, depth)
  PROVE  Grown(st, Discovered(st, links, depth), depth)
<1> DEFINE after[i \in 0..Len(links)] ==
             IF i = 0 THEN [st |-> st, open |-> TRUE]
             ELSE LET p == after[i - 1] IN
                  IF ~p.open \/ Refused(p.st, links[i]) THEN p
                  ELSE IF Full(p.st, links[i], depth) THEN [p EXCEPT !.open = FALSE]
                  ELSE [p EXCEPT !.st = Enqueued(p.st, links[i], depth)]
<1>1. Discovered(st, links, depth) = after[Len(links)].st
  BY DEF Discovered
<1>2. Len(links) \in Nat
  BY LenProperties
<1>3. \E f : f = [i \in 0..Len(links) |-> IF i = 0 THEN [st |-> st, open |-> TRUE] ELSE LinkStep(f[i - 1], links[i], depth)]
  <2> DEFINE n == Len(links)
  <2>1. n \in Nat
    BY <1>2
  <2> HIDE DEF after, n
  <2>2. \E f : IsLoop(f, st, links, depth, n)
    BY <2>1, LoopExists
  <2> QED BY <2>2 DEF n, IsLoop
<1>4. after = [i \in 0..Len(links) |-> IF i = 0 THEN [st |-> st, open |-> TRUE] ELSE LinkStep(after[i - 1], links[i], depth)]
  BY <1>3 DEF LinkStep
<1> HIDE DEF after
<1> DEFINE Good(p) == \E a, b : p = [st |-> a, open |-> b] /\ Grown(st, a, depth)
           S == {k \in Nat : k <= Len(links) => Good(after[k])}
<1>5. 0 \in S
  <2>1. after[0] = [st |-> st, open |-> TRUE]
    BY <1>2, <1>4
  <2> QED BY <2>1 DEF Grown, SameRun
<1>6. ASSUME NEW k \in Nat, k \in S PROVE k + 1 \in S
  <2> HIDE DEF Good
  <2>a. k + 1 <= Len(links) => k <= Len(links)
    BY <1>2
  <2> SUFFICES ASSUME k + 1 <= Len(links) PROVE Good(after[k + 1])
    OBVIOUS
  <2>b. Good(after[k])
    BY <1>6, <2>a
  <2> DEFINE p == after[k]
             u == links[k + 1]
  <2>1. PICK a, b : p = [st |-> a, open |-> b] /\ Grown(st, a, depth)
    BY <2>b DEF Good
  <2>2. k + 1 \in 0..Len(links) /\ k + 1 # 0 /\ (k + 1) - 1 = k /\ k + 1 \in 1..Len(links)
    BY <1>2
  <2>3. after[k + 1] = LinkStep(p, u, depth)
    BY <1>4, <2>2
  <2>4. u \in Urls \cup {Outside}
    BY <2>2, ElementOfSeq
  <2> HIDE DEF p, u
  <2>5. p.st = a /\ p.open = b
    BY <2>1, LoopFields
  <2>6. Good(LinkStep(p, u, depth))
    <3>1. CASE ~b \/ Refused(a, u)
      <4>1. LinkStep(p, u, depth) = p
        BY <2>5, <3>1 DEF LinkStep
      <4> QED BY <2>1, <4>1 DEF Good
    <3>2. CASE ~(~b \/ Refused(a, u)) /\ Full(a, u, depth)
      <4>1. LinkStep(p, u, depth) = [p EXCEPT !.open = FALSE]
        BY <2>5, <3>2 DEF LinkStep
      <4>2. LinkStep(p, u, depth) = [st |-> a, open |-> FALSE]
        BY <2>1, <4>1, LoopFields
      <4> QED BY <2>1, <4>2 DEF Good
    <3>3. CASE ~(~b \/ Refused(a, u)) /\ ~Full(a, u, depth)
      <4> DEFINE e == Enqueued(a, u, depth)
      <4>1. LinkStep(p, u, depth) = [p EXCEPT !.st = e]
        BY <2>5, <3>3 DEF LinkStep
      <4> HIDE DEF e
      <4>2. LinkStep(p, u, depth) = [st |-> e, open |-> b]
        BY <2>1, <4>1, LoopFields
      <4>3. u \in Urls
        BY <2>4, <3>3 DEF Refused
      <4>4. Grown(a, e, depth)
        BY <2>1, <4>3, EnqueuedGrows DEF Grown, e
      <4>5. Grown(st, e, depth)
        BY <2>1, <4>4, GrownFurther
      <4> QED BY <4>2, <4>5 DEF Good
    <3> QED BY <3>1, <3>2, <3>3
  <2> QED BY <2>3, <2>6
<1>7. Nat \subseteq S
  <2> HIDE DEF S
  <2> QED BY <1>5, <1>6, SetInduction
<1>8. Good(after[Len(links)])
  <2> HIDE DEF Good
  <2>1. Len(links) \in S /\ Len(links) <= Len(links)
    BY <1>2, <1>7
  <2> QED BY <2>1
<1>9. PICK a, b : after[Len(links)] = [st |-> a, open |-> b] /\ Grown(st, a, depth)
  BY <1>8
<1> QED BY <1>1, <1>9

(* The operations a driver staged.                                          *)
OpStep(p, op) ==
  IF ~p.ok \/ Refused(p.st, op.url) \/ Full(p.st, op.url, op.depth) THEN [p EXCEPT !.ok = FALSE]
  ELSE [p EXCEPT !.st = Enqueued(p.st, op.url, op.depth)]

IsStaging(f, st, ops, n) ==
  f = [i \in 0..n |-> IF i = 0 THEN [st |-> st, ok |-> TRUE] ELSE OpStep(f[i - 1], ops[i])]

LEMMA StagingExists ==
  ASSUME NEW st, NEW ops, NEW n \in Nat
  PROVE  \E f : IsStaging(f, st, ops, n)
<1> DEFINE Runs(f, k) == f = [i \in 0..k |-> IF i = 0 THEN [st |-> st, ok |-> TRUE] ELSE OpStep(f[i - 1], ops[i])]
           S == {k \in Nat : \E f : Runs(f, k)}
<1>1. 0 \in S
  <2> DEFINE f == [i \in 0..0 |-> [st |-> st, ok |-> TRUE]]
  <2>1. Runs(f, 0)
    OBVIOUS
  <2> QED BY <2>1
<1>2. ASSUME NEW k \in Nat, k \in S PROVE k + 1 \in S
  <2>1. PICK f : Runs(f, k)
    BY <1>2
  <2> DEFINE g == [i \in 0..(k + 1) |-> IF i = k + 1 THEN OpStep(f[k], ops[k + 1]) ELSE f[i]]
  <2>2. ASSUME NEW i \in 0..(k + 1) PROVE g[i] = IF i = 0 THEN [st |-> st, ok |-> TRUE] ELSE OpStep(g[i - 1], ops[i])
    <3>1. CASE i = k + 1
      BY <3>1
    <3>2. CASE i = 0
      BY <3>2, <2>1
    <3>3. CASE i # 0 /\ i # k + 1
      <4>1. i \in 0..k /\ i - 1 \in 0..k /\ i - 1 # k + 1 /\ i - 1 \in 0..(k + 1)
        BY <3>3
      <4>2. f[i] = OpStep(f[i - 1], ops[i])
        BY <2>1, <3>3, <4>1
      <4>3. g[i] = f[i] /\ g[i - 1] = f[i - 1]
        BY <3>3, <4>1
      <4> QED BY <3>3, <4>2, <4>3
    <3> QED BY <3>1, <3>2, <3>3
  <2>3. Runs(g, k + 1)
    BY <2>2
  <2> HIDE DEF g, Runs
  <2> QED BY <2>3
<1> HIDE DEF S
<1>3. Nat \subseteq S
  BY <1>1, <1>2, SetInduction
<1> QED BY <1>3 DEF S, IsStaging

LEMMA StagingFields ==
  ASSUME NEW a, NEW b, NEW c
  PROVE  /\ [[st |-> a, ok |-> b] EXCEPT !.ok = c] = [st |-> a, ok |-> c]
         /\ [[st |-> a, ok |-> b] EXCEPT !.st = c] = [st |-> c, ok |-> b]
         /\ [st |-> a, ok |-> b].st = a /\ [st |-> a, ok |-> b].ok = b
  OBVIOUS

LEMMA ManualIsSound ==
  ASSUME NEW st, Sound(st)
  PROVE  Sound([st EXCEPT !.manual = TRUE]) /\ [st EXCEPT !.manual = TRUE].manual
<1> DEFINE r == [st EXCEPT !.manual = TRUE]
<1>1. st \in Crawls
  BY DEF Sound
<1>2. r \in Crawls /\ r.frontier = st.frontier /\ r.seen = st.seen /\ r.done = st.done /\ r.pages = st.pages
      /\ r.max_pages = st.max_pages /\ r.manual
  BY <1>1 DEF Crawls
<1> HIDE DEF r
<1>3. Sound(r)
  BY <1>2 DEF Sound
<1> QED BY <1>2, <1>3 DEF r

LEMMA StagedIsSound ==
  ASSUME Sound(mem), NEW ops \in DriverOps
  PROVE  Sound(Staged(ops).st)
<1> DEFINE s0 == [mem EXCEPT !.manual = TRUE]
           after[i \in 0..Len(ops)] ==
             IF i = 0 THEN [st |-> [mem EXCEPT !.manual = TRUE], ok |-> TRUE]
             ELSE LET p == after[i - 1] u == ops[i].url d == ops[i].depth IN
                  IF ~p.ok \/ Refused(p.st, u) \/ Full(p.st, u, d) THEN [p EXCEPT !.ok = FALSE]
                  ELSE [p EXCEPT !.st = Enqueued(p.st, u, d)]
           Op == [url : Urls \cup {Outside}, depth : Nat]
<1>1. Staged(ops) = after[Len(ops)]
  BY DEF Staged
<1>2. ops \in Seq(Op)
  BY EngineConstants
<1> HIDE DEF Op
<1>3. Len(ops) \in Nat
  BY <1>2, LenProperties
<1>4. after = [i \in 0..Len(ops) |-> IF i = 0 THEN [st |-> s0, ok |-> TRUE] ELSE OpStep(after[i - 1], ops[i])]
  <2> DEFINE n == Len(ops)
  <2>1. n \in Nat
    BY <1>3
  <2>2. \E f : IsStaging(f, s0, ops, n)
    <3> HIDE DEF after, n, s0
    <3> QED BY <2>1, StagingExists
  <2> QED BY <2>2 DEF IsStaging, OpStep
<1>5. Sound(s0) /\ s0.manual
  BY ManualIsSound
<1> HIDE DEF after, s0
<1> DEFINE Good(p) == \E a, b : p = [st |-> a, ok |-> b] /\ Sound(a) /\ a.manual
           S == {k \in Nat : k <= Len(ops) => Good(after[k])}
<1>6. 0 \in S
  <2>1. after[0] = [st |-> s0, ok |-> TRUE]
    BY <1>3, <1>4
  <2> QED BY <1>5, <2>1
<1>7. ASSUME NEW k \in Nat, k \in S PROVE k + 1 \in S
  <2> HIDE DEF Good
  <2>a. k + 1 <= Len(ops) => k <= Len(ops)
    BY <1>3
  <2> SUFFICES ASSUME k + 1 <= Len(ops) PROVE Good(after[k + 1])
    OBVIOUS
  <2>b. Good(after[k])
    BY <1>7, <2>a
  <2> DEFINE p == after[k]
             op == ops[k + 1]
  <2>1. PICK a, b : p = [st |-> a, ok |-> b] /\ Sound(a) /\ a.manual
    BY <2>b DEF Good
  <2>2. k + 1 \in 0..Len(ops) /\ k + 1 # 0 /\ (k + 1) - 1 = k /\ k + 1 \in 1..Len(ops)
    BY <1>3
  <2>3. after[k + 1] = OpStep(p, op)
    BY <1>4, <2>2
  <2>4. op \in Op
    BY <1>2, <2>2, ElementOfSeq
  <2> HIDE DEF p, op
  <2>5. p.st = a /\ p.ok = b
    BY <2>1, StagingFields
  <2>6. Good(OpStep(p, op))
    <3>1. CASE ~b \/ Refused(a, op.url) \/ Full(a, op.url, op.depth)
      <4>1. OpStep(p, op) = [p EXCEPT !.ok = FALSE]
        BY <2>5, <3>1 DEF OpStep
      <4>2. OpStep(p, op) = [st |-> a, ok |-> FALSE]
        BY <2>1, <4>1, StagingFields
      <4> QED BY <2>1, <4>2 DEF Good
    <3>2. CASE ~(~b \/ Refused(a, op.url) \/ Full(a, op.url, op.depth))
      <4> DEFINE e == Enqueued(a, op.url, op.depth)
      <4>1. OpStep(p, op) = [p EXCEPT !.st = e]
        BY <2>5, <3>2 DEF OpStep
      <4> HIDE DEF e
      <4>2. OpStep(p, op) = [st |-> e, ok |-> b]
        BY <2>1, <4>1, StagingFields
      <4>3. op.url \in Urls /\ op.depth \in Nat
        BY <2>4, <3>2 DEF Refused, Op
      <4>4. Wide(a, op.depth)
        BY <2>1 DEF Wide
      <4>5. Grown(a, e, op.depth)
        BY <2>1, <4>3, <4>4, EnqueuedGrows DEF e
      <4>6. Sound(e) /\ e.manual
        BY <2>1, <4>5 DEF Grown, SameRun
      <4> QED BY <4>2, <4>6 DEF Good
    <3> QED BY <3>1, <3>2
  <2> QED BY <2>3, <2>6
<1>8. Nat \subseteq S
  <2> HIDE DEF S
  <2> QED BY <1>6, <1>7, SetInduction
<1>9. Good(after[Len(ops)])
  <2> HIDE DEF Good
  <2>1. Len(ops) \in S /\ Len(ops) <= Len(ops)
    BY <1>3, <1>8
  <2> QED BY <2>1
<1>10. PICK a, b : after[Len(ops)] = [st |-> a, ok |-> b] /\ Sound(a)
  BY <1>9
<1> QED BY <1>1, <1>10

(* A new epoch.                                                             *)
LEMMA Emptied ==
  ASSUME NEW st \in Crawls, NEW q \in Seq(Tasks)
  PROVE  LET z == [st EXCEPT !.frontier = q, !.seen = {}, !.pages = 0, !.due = FALSE, !.done = {}, !.manual = FALSE]
         IN  /\ z \in Crawls /\ z.frontier = q /\ z.seen = {} /\ z.pages = 0 /\ z.done = {} /\ z.manual = FALSE
             /\ z.max_pages = st.max_pages /\ z.max_depth = st.max_depth /\ z.watch = st.watch
<1> DEFINE Q == Seq(Tasks)
<1>1. q \in Q
  OBVIOUS
<1> HIDE DEF Q
<1>2. Crawls = [origin : BOOLEAN, max_pages : Nat \ {0}, max_depth : Nat,
           frontier : Q, seen : SUBSET Urls, pages : Nat,
           watch : Urls \cup {None}, due : BOOLEAN, done : SUBSET Urls, manual : BOOLEAN]
  BY DEF Crawls, Q
<1> QED BY <1>1, <1>2

LEMMA EpochIsSound ==
  ASSUME NEW st \in Crawls, NEW u \in Urls
  PROVE  LET e == Epoch(st, u)
         IN  Sound(e) /\ e.frontier # <<>> /\ e.pages = 0 /\ e.max_pages = st.max_pages /\ e.watch = st.watch
<1> DEFINE z == [st EXCEPT !.frontier = <<>>, !.seen = {}, !.pages = 0, !.due = FALSE, !.done = {}, !.manual = FALSE]
           e == Enqueued(z, u, 0)
<1>1. <<>> \in Seq(Tasks) /\ DOMAIN <<>> = {}
  <2> DEFINE T == Tasks
  <2> HIDE DEF T
  <2>1. <<>> \in Seq(T) /\ DOMAIN <<>> = {}
    BY EmptySeq
  <2> QED BY <2>1 DEF T
<1>2. /\ z \in Crawls /\ z.frontier = <<>> /\ z.seen = {} /\ z.pages = 0 /\ z.done = {} /\ z.manual = FALSE
      /\ z.max_pages = st.max_pages /\ z.max_depth = st.max_depth /\ z.watch = st.watch
  BY <1>1, Emptied
<1>3. Epoch(st, u) = e
  BY Zenon DEF Epoch
<1> HIDE DEF z
<1>4. IsFiniteSet({}) /\ Cardinality({}) = 0
  BY FS_EmptySet
<1>5. z.max_pages \in Nat \ {0} /\ z.max_depth \in Nat
  BY <1>2, CrawlFields
<1>6. QueueHolds(z.frontier, z.seen, z.done) /\ BreadthFirst(z.frontier) /\ Wide(z, 0)
  BY <1>1, <1>2 DEF QueueHolds, BreadthFirst, Wide
<1>7. Sound(z)
  BY <1>2, <1>4, <1>5, <1>6 DEF Sound
<1>8. Grown(z, e, 0)
  BY <1>6, <1>7, EnqueuedGrows
<1>9. ~Passed(z, u, 0)
  BY <1>2, <1>5 DEF Passed
<1>10. e.frontier = Append(<<>>, [url |-> u, depth |-> 0, attempts |-> 0]) /\ [url |-> u, depth |-> 0, attempts |-> 0] \in Tasks
  BY <1>2, <1>9, EnqueuedIs
<1>11. e.frontier # <<>>
  <2> DEFINE T == Tasks
             t == [url |-> u, depth |-> 0, attempts |-> 0]
  <2>1. t \in T /\ <<>> \in Seq(T)
    BY <1>1, <1>10
  <2> HIDE DEF T, t
  <2>2. Append(<<>>, t) # <<>>
    BY <2>1, AppendProperties, EmptySeq
  <2> QED BY <1>10, <2>2 DEF t
<1> QED BY <1>2, <1>3, <1>8, <1>11 DEF Grown, SameRun

LEMMA BegunIsSound ==
  ASSUME Sound(mem), NEW u \in Urls, NEW o \in Options
  PROVE  Sound(Begun(u, o))
<1> DEFINE a == [mem EXCEPT !.origin = TRUE, !.max_pages = o.max_pages, !.max_depth = o.max_depth, !.watch = None]
<1>1. mem \in Crawls
  BY DEF Sound
<1>2. o.max_pages \in Nat \ {0} /\ o.max_depth \in Nat
  BY EngineConstants
<1>3. a \in Crawls
  <2> DEFINE Q == Seq(Tasks)
  <2> HIDE DEF Q
  <2>2. Crawls = [origin : BOOLEAN, max_pages : Nat \ {0}, max_depth : Nat,
           frontier : Q, seen : SUBSET Urls, pages : Nat,
           watch : Urls \cup {None}, due : BOOLEAN, done : SUBSET Urls, manual : BOOLEAN]
    BY DEF Crawls, Q
  <2> QED BY <1>1, <1>2, <2>2
<1>4. Begun(u, o) = Epoch(a, u)
  BY DEF Begun
<1> HIDE DEF a
<1> QED BY <1>3, <1>4, EpochIsSound

(* The front task leaves.                                                   *)
LEMMA TailHolds ==
  ASSUME NEW q \in Seq(Tasks), q # <<>>, NEW known, NEW over, QueueHolds(q, known, over)
  PROVE  /\ Tail(q) \in Seq(Tasks) /\ q[1] \in Tasks /\ 1 \in DOMAIN q
         /\ QueueHolds(Tail(q), known, over \cup {q[1].url})
         /\ BreadthFirst(q) => BreadthFirst(Tail(q))
<1> DEFINE T == Tasks
           r == Tail(q)
<1>0. q \in Seq(T)
  OBVIOUS
<1> HIDE DEF T
<1>1. Len(q) \in Nat \ {0} /\ DOMAIN q = 1..Len(q) /\ q[1] \in T /\ 1 \in DOMAIN q
  BY <1>0, EmptySeq, LenProperties, ElementOfSeq
<1>2. r \in Seq(T) /\ Len(r) = Len(q) - 1 /\ \A i \in 1..Len(r) : r[i] = q[i + 1]
  BY <1>0, HeadTailProperties
<1>3. DOMAIN r = 1..(Len(q) - 1)
  BY <1>2, LenProperties
<1>4. \A i \in DOMAIN r : i \in Nat /\ i + 1 \in DOMAIN q /\ i + 1 # 1 /\ r[i] = q[i + 1]
  BY <1>1, <1>2, <1>3
<1> HIDE DEF r
<1>5. QueueHolds(r, known, over \cup {q[1].url})
  <2>1. ASSUME NEW i \in DOMAIN r, NEW j \in DOMAIN r, i # j PROVE r[i].url # r[j].url
    <3>1. i + 1 # j + 1
      BY <1>4, <2>1
    <3> QED BY <1>4, <3>1 DEF QueueHolds
  <2>2. ASSUME NEW i \in DOMAIN r PROVE r[i].url \in known /\ r[i].url \notin over \cup {q[1].url}
    BY <1>1, <1>4 DEF QueueHolds
  <2> QED BY <2>1, <2>2 DEF QueueHolds
<1>6. ASSUME BreadthFirst(q) PROVE BreadthFirst(r)
  <2> SUFFICES ASSUME NEW i \in DOMAIN r, NEW j \in DOMAIN r, i < j PROVE r[j].depth - r[i].depth \in 0..1
    BY DEF BreadthFirst
  <2>1. i + 1 < j + 1
    BY <1>4
  <2> QED BY <1>4, <1>6, <2>1 DEF BreadthFirst
<1> QED BY <1>1, <1>2, <1>5, <1>6 DEF T, r

LEMMA Requeued ==
  ASSUME NEW st, Sound(st), NEW q \in Seq(Tasks), QueueHolds(q, st.seen, st.done), ~st.manual => BreadthFirst(q)
  PROVE  LET r == [st EXCEPT !.frontier = q]
         IN  Sound(r) /\ r.frontier = q /\ SameRun(st, r) /\ r.seen = st.seen
<1> DEFINE Q == Seq(Tasks)
           r == [st EXCEPT !.frontier = q]
<1>1. st \in Crawls /\ q \in Q
  BY DEF Sound
<1> HIDE DEF Q
<1>2. r \in Crawls /\ r.frontier = q /\ SameRun(st, r) /\ r.seen = st.seen
  BY <1>1 DEF Crawls, SameRun, Q
<1> HIDE DEF r
<1>3. Sound(r)
  BY <1>2 DEF Sound, SameRun
<1> QED BY <1>2, <1>3 DEF r

LEMMA PoppedIsSound ==
  ASSUME NEW st, Sound(st), st.frontier # <<>>
  PROVE  /\ Sound(Popped(st)) /\ SameRun(st, Popped(st)) /\ Popped(st).seen = st.seen
         /\ st.frontier[1] \in Tasks /\ st.frontier[1].url \in st.seen \ st.done
         /\ QueueHolds(Popped(st).frontier, st.seen, st.done \cup {st.frontier[1].url})
<1> DEFINE q == Tail(st.frontier)
<1>1. st.frontier \in Seq(Tasks)
  BY CrawlFields DEF Sound
<1>2. /\ q \in Seq(Tasks) /\ st.frontier[1] \in Tasks /\ 1 \in DOMAIN st.frontier
      /\ QueueHolds(q, st.seen, st.done \cup {st.frontier[1].url})
      /\ BreadthFirst(st.frontier) => BreadthFirst(q)
  BY <1>1, TailHolds DEF Sound
<1>3. Popped(st) = [st EXCEPT !.frontier = q]
  BY DEF Popped
<1> HIDE DEF q
<1>4. QueueHolds(q, st.seen, st.done) /\ (~st.manual => BreadthFirst(q))
  BY <1>2 DEF QueueHolds, Sound
<1>5. Sound(Popped(st)) /\ Popped(st).frontier = q /\ SameRun(st, Popped(st)) /\ Popped(st).seen = st.seen
  <2> DEFINE r == [st EXCEPT !.frontier = q]
  <2>1. Sound(r) /\ r.frontier = q /\ SameRun(st, r) /\ r.seen = st.seen
    BY <1>2, <1>4, Requeued
  <2> HIDE DEF r
  <2>2. Popped(st) = r
    BY <1>3 DEF r
  <2> QED BY <2>1, <2>2
<1>6. st.frontier[1].url \in st.seen /\ st.frontier[1].url \notin st.done
  BY <1>2 DEF Sound, QueueHolds
<1> QED BY <1>2, <1>5, <1>6

LEMMA FrontIs ==
  ASSUME Sound(mem), mem.frontier # <<>>
  PROVE  Front = mem.frontier[1] /\ Front \in Tasks /\ Wide(mem, Front.depth + 1)
<1> DEFINE T == Tasks
           q == mem.frontier
<1>1. q \in Seq(T)
  BY CrawlFields DEF Sound
<1> HIDE DEF T
<1>2. Head(q) = q[1] /\ q[1] \in T /\ DOMAIN q = 1..Len(q) /\ Len(q) \in Nat \ {0}
  BY <1>1, EmptySeq, LenProperties, HeadTailProperties, ElementOfSeq
<1>3. Front = q[1]
  BY <1>2 DEF Front
<1>4. \A i \in DOMAIN q : q[i] \in T
  BY <1>1, <1>2, ElementOfSeq
<1> HIDE DEF q
<1>5. ASSUME BreadthFirst(q), NEW i \in DOMAIN q PROVE (q[1].depth + 1) - q[i].depth \in 0..1
  <2>1. q[1].depth \in Nat /\ q[i].depth \in Nat
    BY <1>2, <1>4 DEF T, Tasks
  <2>2. CASE i = 1
    BY <2>1, <2>2
  <2>3. CASE i # 1
    <3>1. q[i].depth - q[1].depth \in 0..1
      BY <1>2, <1>5, <2>3 DEF BreadthFirst
    <3> QED BY <2>1, <3>1
  <2> QED BY <2>2, <2>3
<1>6. ~mem.manual => BreadthFirst(q)
  BY DEF Sound, q
<1> QED BY <1>2, <1>3, <1>5, <1>6 DEF Wide, q, T

LEMMA VisitedIsSound ==
  ASSUME Sound(mem), mem.frontier # <<>>, mem.pages < mem.max_pages
  PROVE  Sound(Visited) /\ Visited.watch = mem.watch
<1> DEFINE d == Front.depth + 1
           st == IF Front.depth < mem.max_depth THEN Discovered(mem, LinksOf[Front.url], d) ELSE mem
           p == Popped(st)
           u == Front.url
           a == [p EXCEPT !.pages = p.pages + 1]
           v == [a EXCEPT !.done = p.done \cup {u}]
<1>1. Front = mem.frontier[1] /\ Front \in Tasks /\ Wide(mem, d)
  BY FrontIs
<1>2. d \in Nat /\ u \in Urls /\ LinksOf[u] \in Seq(Urls \cup {Outside})
  BY <1>1, EngineConstants DEF Tasks
<1>3. Grown(mem, mem, d)
  BY <1>1 DEF Grown, SameRun
<1>4. Grown(mem, Discovered(mem, LinksOf[u], d), d)
  <2> HIDE DEF d, u
  <2> QED BY <1>1, <1>2, DiscoveredGrows
<1>5. Grown(mem, st, d)
  BY <1>3, <1>4
<1>6. Visited = [p EXCEPT !.pages = p.pages + 1, !.done = p.done \cup {u}]
  BY Zenon DEF Visited
<1>7. Visited = v
  <2> HIDE DEF p, u
  <2>1. p \in Crawls
    <3>1. Sound(st) /\ st.frontier # <<>>
      BY <1>5 DEF Grown
    <3> HIDE DEF st
    <3> QED BY <3>1, PoppedIsSound DEF p, Sound
  <2> QED BY <1>6, <2>1
<1> HIDE DEF st, d
<1>8. Sound(st) /\ SameRun(mem, st) /\ st.frontier # <<>> /\ st.frontier[1] = Front
  BY <1>1, <1>5 DEF Grown
<1>9. /\ Sound(p) /\ SameRun(st, p) /\ p.seen = st.seen /\ u \in st.seen \ st.done
      /\ QueueHolds(p.frontier, st.seen, st.done \cup {u})
  BY <1>8, PoppedIsSound
<1> HIDE DEF p, u
<1>10. p \in Crawls /\ p.pages \in Nat
  BY <1>9, CrawlFields DEF Sound
<1>11. /\ a \in Crawls /\ a.frontier = p.frontier /\ a.seen = p.seen /\ a.done = p.done /\ a.pages = p.pages + 1
       /\ a.max_pages = p.max_pages /\ a.manual = p.manual /\ a.watch = p.watch
  BY <1>10 DEF Crawls
<1> HIDE DEF a
<1>12. p.done \cup {u} \in SUBSET Urls
  BY <1>2, <1>10, CrawlFields
<1>13. /\ v \in Crawls /\ v.frontier = p.frontier /\ v.seen = p.seen /\ v.done = p.done \cup {u} /\ v.pages = p.pages + 1
       /\ v.max_pages = p.max_pages /\ v.manual = p.manual /\ v.watch = p.watch
  BY <1>11, <1>12 DEF Crawls
<1> HIDE DEF v
<1>14. IsFiniteSet(p.done) /\ u \notin p.done
  BY <1>9, FS_Subset DEF Sound, SameRun
<1>15. Cardinality(p.done \cup {u}) = Cardinality(p.done) + 1
  BY <1>14, FS_AddElement
<1>16. p.pages = mem.pages /\ p.max_pages = mem.max_pages /\ p.watch = mem.watch /\ mem.max_pages \in Nat
  BY <1>8, <1>9, CrawlFields DEF SameRun, Sound
<1>17. v.pages <= v.max_pages
  BY <1>10, <1>13, <1>16
<1>18. v.pages = Cardinality(v.done)
  BY <1>9, <1>13, <1>15 DEF Sound
<1>19. QueueHolds(v.frontier, v.seen, v.done)
  BY <1>9, <1>13 DEF SameRun
<1>20. v.done \subseteq v.seen /\ IsFiniteSet(v.seen) /\ (~v.manual => BreadthFirst(v.frontier))
  BY <1>9, <1>13 DEF SameRun, Sound
<1>21. Sound(v)
  BY <1>13, <1>17, <1>18, <1>19, <1>20 DEF Sound
<1> QED BY <1>7, <1>13, <1>16, <1>21

LEMMA RetriedIsSound ==
  ASSUME Sound(mem), mem.frontier # <<>>
  PROVE  Sound(Retried) /\ Retried.watch = mem.watch
<1>0. Front = mem.frontier[1] /\ Front \in Tasks
  BY FrontIs
<1>1. CASE Front.attempts + 1 > MaxRetries
  BY <1>1, PoppedIsSound DEF Retried, SameRun
<1>2. CASE ~(Front.attempts + 1 > MaxRetries)
  <2> DEFINE q == mem.frontier
             t == [Front EXCEPT !.attempts = Front.attempts + 1]
             r == [q EXCEPT ![1] = t]
             T == Tasks
  <2>1. q \in Seq(T)
    BY CrawlFields DEF Sound
  <2>2. t \in T /\ t.url = Front.url /\ t.depth = Front.depth
    BY <1>0 DEF Tasks
  <2> HIDE DEF T
  <2>3. DOMAIN q = 1..Len(q) /\ Len(q) \in Nat \ {0} /\ 1 \in DOMAIN q
    BY <2>1, EmptySeq, LenProperties
  <2>4. Retried = [mem EXCEPT !.frontier = r]
    <3>1. mem.frontier[1].attempts = Front.attempts
      BY <1>0
    <3>2. Retried = [mem EXCEPT !.frontier = [mem.frontier EXCEPT ![1] = [mem.frontier[1] EXCEPT !.attempts = mem.frontier[1].attempts + 1]]]
      BY Zenon, <1>2 DEF Retried
    <3> QED BY <1>0, <3>2
  <2> HIDE DEF t
  <2>5. r \in Seq(T) /\ DOMAIN r = DOMAIN q /\ r[1] = t /\ \A i \in DOMAIN q : i # 1 => r[i] = q[i]
    BY <2>1, <2>2, <2>3, ExceptSeq
  <2> HIDE DEF r
  <2>6. \A i \in DOMAIN q : r[i].url = q[i].url /\ r[i].depth = q[i].depth
    BY <1>0, <2>2, <2>5
  <2>7. QueueHolds(r, mem.seen, mem.done) /\ (~mem.manual => BreadthFirst(r))
    BY <2>5, <2>6 DEF Sound, QueueHolds, BreadthFirst
  <2> QED BY <2>4, <2>5, <2>7, Requeued DEF T, SameRun
<1> QED BY <1>1, <1>2

(* The schedule is set or cleared.                                          *)
LEMMA Rescheduled ==
  ASSUME NEW st, Sound(st), NEW w \in Urls \cup {None}, NEW b \in BOOLEAN
  PROVE  Sound([st EXCEPT !.watch = w, !.due = b])
<1> DEFINE Q == Seq(Tasks)
           r == [st EXCEPT !.watch = w, !.due = b]
<1>1. st \in Crawls
  BY DEF Sound
<1> HIDE DEF Q
<1>2. /\ r \in Crawls /\ r.frontier = st.frontier /\ r.seen = st.seen /\ r.done = st.done /\ r.pages = st.pages
      /\ r.max_pages = st.max_pages /\ r.manual = st.manual
  BY <1>1 DEF Crawls, Q
<1> HIDE DEF r
<1>3. Sound(r)
  BY <1>2 DEF Sound
<1> QED BY <1>3 DEF r

LEMMA Drained ==
  ASSUME NEW st, Sound(st)
  PROVE  Sound([st EXCEPT !.frontier = <<>>, !.due = TRUE]) /\ [st EXCEPT !.frontier = <<>>, !.due = TRUE].watch = st.watch
<1> DEFINE Q == Seq(Tasks)
           z == <<>>
           r == [st EXCEPT !.frontier = z, !.due = TRUE]
<1>1. st \in Crawls
  BY DEF Sound
<1>2. z \in Q /\ DOMAIN z = {}
  <2> DEFINE T == Tasks
  <2> HIDE DEF T
  <2>1. <<>> \in Seq(T) /\ DOMAIN <<>> = {}
    BY EmptySeq
  <2> QED BY <2>1 DEF T
<1> HIDE DEF Q, z
<1>3. /\ r \in Crawls /\ r.frontier = z /\ r.seen = st.seen /\ r.done = st.done /\ r.pages = st.pages
      /\ r.max_pages = st.max_pages /\ r.manual = st.manual /\ r.watch = st.watch
  BY <1>1, <1>2 DEF Crawls, Q
<1> HIDE DEF r
<1>4. QueueHolds(z, st.seen, st.done) /\ BreadthFirst(z)
  BY <1>2 DEF QueueHolds, BreadthFirst
<1>5. Sound(r)
  BY <1>3, <1>4 DEF Sound
<1> QED BY <1>3, <1>5 DEF r, z

-----------------------------------------------------------------------------
(* One transaction.                                                         *)
LEMMA SaveKeeps ==
  ASSUME NEW st, NEW pausing \in BOOLEAN, NEW old, NEW more \in BOOLEAN,
         Sound(st), Sound(old), EngInv, Save(st, pausing, old, more)
  PROVE  /\ Sound(mem') /\ Sound(disk') /\ failed' \in Nat /\ paused' \in BOOLEAN
         /\ failed' = failed => mem' = st /\ disk' = st /\ paused' = pausing /\ parted' = IF more THEN "may" ELSE "no"
         /\ failed' # failed => mem' = old /\ disk' = disk /\ paused' = TRUE /\ parted' = IF parted = "may" THEN "yes" ELSE parted
<1>1. failed \in Nat /\ Sound(disk)
  BY DEF EngInv
<1>2. CASE mem' = st /\ disk' = st /\ paused' = pausing /\ failed' = failed /\ parted' = IF more THEN "may" ELSE "no"
  BY <1>1, <1>2
<1>3. CASE failed' = failed + 1 /\ mem' = old /\ paused' = TRUE /\ disk' = disk /\ parted' = IF parted = "may" THEN "yes" ELSE parted
  <2>1. failed' \in Nat /\ failed' # failed
    BY <1>1, <1>3
  <2>2. paused' \in BOOLEAN /\ paused' = TRUE
    BY <1>3
  <2> QED BY <1>1, <1>3, <2>1, <2>2, Zenon
<1> QED BY <1>2, <1>3 DEF Save, Commits

LEMMA CommandKeeps ==
  ASSUME NEW st, NEW pausing \in BOOLEAN, Sound(st), EngInv, Command(st, pausing)
  PROVE  EngInv'
<1>1. Save(st, pausing, mem, FALSE) /\ Answer(st) /\ pc = "idle" /\ UNCHANGED <<pc, before, period>>
  BY DEF Command, Asked
<1>2. /\ Sound(mem') /\ Sound(disk') /\ failed' \in Nat /\ paused' \in BOOLEAN
      /\ failed' = failed => mem' = st /\ disk' = st /\ paused' = pausing /\ parted' = "no"
      /\ failed' # failed => mem' = mem /\ disk' = disk /\ paused' = TRUE /\ parted' = IF parted = "may" THEN "yes" ELSE parted
  BY <1>1, SaveKeeps DEF EngInv
<1>3. acked'.watch # "unknown" /\ ~acked'.apart => disk'.watch = acked'.watch
  BY <1>1 DEF Answer, Unknown
<1> QED BY <1>1, <1>2, <1>3 DEF EngInv, Crawling

LEMMA ControllerKeeps ==
  ASSUME EngInv, Controller
  PROVE  EngInv'
<1>0. Sound(mem) /\ paused \in BOOLEAN /\ mem \in Crawls
  BY DEF EngInv, Sound
<1>1. CASE Pause \/ Resume \/ Visit
  BY <1>0, <1>1, CommandKeeps DEF Pause, Resume, Visit
<1>6. CASE Status
  <2>1. /\ pc = "idle" /\ acked'.watch = mem.watch /\ acked'.apart = (parted = "yes")
        /\ UNCHANGED <<mem, disk, paused, pc, before, period, parted, failed>>
    BY <1>6 DEF Status
  <2>2. acked'.watch # "unknown" /\ ~acked'.apart => disk'.watch = acked'.watch
    BY <2>1 DEF EngInv
  <2> QED BY <2>1, <2>2 DEF EngInv, Crawling
<1>2. CASE Unwatch
  <2>1. Sound([mem EXCEPT !.watch = None, !.due = FALSE])
    BY <1>0, Rescheduled
  <2> QED BY <1>0, <1>2, <2>1, CommandKeeps DEF Unwatch
<1>3. ASSUME NEW u \in Seeds, NEW o \in Options, Create(u, o) \/ Crawl(u, o) PROVE EngInv'
  <2>1. Sound(Begun(u, o))
    BY <1>0, EngineConstants, BegunIsSound
  <2> QED BY <1>0, <1>3, <2>1, CommandKeeps DEF Create, Crawl
<1>4. ASSUME NEW u \in Seeds, NEW o \in Options, Watch(u, o) PROVE EngInv'
  <2>1. Sound(Begun(u, o)) /\ u \in Urls
    BY <1>0, EngineConstants, BegunIsSound
  <2>2. Save(Begun(u, o), FALSE, mem, TRUE) /\ acked'.watch = "unknown" /\ before' = mem /\ pc = "idle"
    BY <1>4 DEF Watch, Asked, Unknown
  <2>3. period' \in Urls \cup {None} /\ pc' = IF failed' = failed THEN "watch" ELSE "idle"
    BY <1>4, <2>1, <2>2 DEF Watch, EngInv
  <2>4. /\ Sound(mem') /\ Sound(disk') /\ failed' \in Nat /\ paused' \in BOOLEAN
        /\ failed' = failed => mem' = disk' /\ parted' = "may"
        /\ failed' # failed => mem' = mem /\ disk' = disk /\ paused' = TRUE /\ parted' = IF parted = "may" THEN "yes" ELSE parted
    BY <1>0, <2>1, <2>2, SaveKeeps
  <2> QED BY <1>0, <2>2, <2>3, <2>4 DEF EngInv, Crawling
<1>5. ASSUME NEW ops \in DriverOps, Driver(ops) PROVE EngInv'
  <2>1. CASE Staged(ops).ok /\ Command(Staged(ops).st, paused)
    <3>1. Sound(Staged(ops).st)
      BY <1>0, StagedIsSound
    <3> QED BY <1>0, <2>1, <3>1, CommandKeeps
  <2>2. CASE UNCHANGED <<mem, disk, paused, pc, before, period, acked, parted, failed>>
    BY <2>2 DEF EngInv, Crawling
  <2> QED BY <1>5, <2>1, <2>2 DEF Driver
<1> QED BY <1>1, <1>2, <1>3, <1>4, <1>5, <1>6 DEF Controller

LEMMA WatchKeeps ==
  ASSUME EngInv, WatchSave
  PROVE  EngInv'
<1> DEFINE st == [mem EXCEPT !.watch = period, !.due = FALSE]
<1>1. Sound(st)
  BY Rescheduled DEF EngInv
<1>2. pc = "watch" /\ pc' = "idle" /\ period' = None /\ Save(st, paused, before, FALSE) /\ Answer(st) /\ before' = before
  BY DEF WatchSave
<1> HIDE DEF st
<1>3. /\ Sound(mem') /\ Sound(disk') /\ failed' \in Nat /\ paused' \in BOOLEAN
      /\ failed' = failed => mem' = st /\ disk' = st /\ parted' = "no"
      /\ failed' # failed => paused' = TRUE /\ parted' = "yes"
  BY <1>1, <1>2, SaveKeeps DEF EngInv
<1>4. acked'.watch # "unknown" /\ ~acked'.apart => disk'.watch = acked'.watch
  BY <1>2 DEF Answer, Unknown
<1> QED BY <1>2, <1>3, <1>4 DEF EngInv, Crawling

LEMMA OutcomeKeeps ==
  ASSUME EngInv, NEW st, Sound(st), st.watch = mem.watch, Outcome(st)
  PROVE  EngInv'
<1>1. pc = "fetch" /\ pc' = "idle" /\ Save(st, paused, before, FALSE) /\ UNCHANGED <<before, period, acked>>
  BY DEF Outcome
<1>2. /\ Sound(mem') /\ Sound(disk') /\ failed' \in Nat /\ paused' \in BOOLEAN
      /\ failed' = failed => mem' = st /\ disk' = st /\ paused' = paused /\ parted' = "no"
      /\ failed' # failed => mem' = before /\ disk' = disk /\ paused' = TRUE /\ parted' = IF parted = "may" THEN "yes" ELSE parted
  BY <1>1, SaveKeeps DEF EngInv
<1>3. mem.watch = disk.watch
  BY <1>1 DEF EngInv, Crawling
<1>4. disk'.watch = disk.watch
  BY <1>2, <1>3
<1> QED BY <1>1, <1>2, <1>4 DEF EngInv, Crawling

LEMMA TickKeeps ==
  ASSUME EngInv, Tick
  PROVE  EngInv'
<1>0. Sound(mem) /\ Sound(disk) /\ Sound(before) /\ paused \in BOOLEAN /\ mem \in Crawls
  BY DEF EngInv, Sound
<1>1. CASE TickOver
  BY <1>1 DEF TickOver, Ticking, EngInv, Crawling
<1>2. CASE TickSchedule
  <2> DEFINE st == [mem EXCEPT !.frontier = <<>>, !.due = TRUE]
  <2>1. Sound(st) /\ st.watch = mem.watch
    BY <1>0, Drained
  <2>2. pc = "idle" /\ ~paused /\ Save(st, paused, mem, FALSE) /\ UNCHANGED <<pc, before, period, acked>>
    BY <1>2 DEF TickSchedule, Ticking
  <2> HIDE DEF st
  <2>3. /\ Sound(mem') /\ Sound(disk') /\ failed' \in Nat /\ paused' \in BOOLEAN
        /\ failed' = failed => mem' = st /\ disk' = st /\ paused' = paused /\ parted' = "no"
        /\ failed' # failed => mem' = mem /\ disk' = disk /\ paused' = TRUE /\ parted' = IF parted = "may" THEN "yes" ELSE parted
    BY <1>0, <2>1, <2>2, SaveKeeps
  <2>4. disk'.watch = disk.watch
    BY <2>1, <2>2, <2>3 DEF EngInv, Crawling
  <2> QED BY <2>2, <2>3, <2>4 DEF EngInv, Crawling
<1>3. CASE TickRevisit
  <2> DEFINE st == Epoch(mem, mem.watch)
  <2>0. mem.watch \in Urls
    BY <1>0, <1>3, CrawlFields DEF TickRevisit
  <2>1. Sound(st) /\ st.frontier # <<>> /\ st.pages = 0 /\ st.watch = mem.watch /\ st.pages < st.max_pages
    <3>1. Sound(st) /\ st.frontier # <<>> /\ st.pages = 0 /\ st.max_pages = mem.max_pages /\ st.watch = mem.watch
      BY <1>0, <2>0, EpochIsSound
    <3>2. mem.max_pages \in Nat \ {0}
      BY <1>0, CrawlFields
    <3> HIDE DEF st
    <3> QED BY <3>1, <3>2
  <2>2. /\ pc = "idle" /\ ~paused /\ Save(st, paused, mem, TRUE) /\ before' = mem /\ UNCHANGED <<period, acked>>
        /\ pc' = IF failed' = failed THEN "fetch" ELSE "idle"
    BY <1>3 DEF TickRevisit, Ticking
  <2> HIDE DEF st
  <2>3. /\ Sound(mem') /\ Sound(disk') /\ failed' \in Nat /\ paused' \in BOOLEAN
        /\ failed' = failed => mem' = st /\ disk' = st /\ paused' = paused /\ parted' = "may"
        /\ failed' # failed => mem' = mem /\ disk' = disk /\ paused' = TRUE /\ parted' = IF parted = "may" THEN "yes" ELSE parted
    BY <1>0, <2>1, <2>2, SaveKeeps
  <2>4. disk'.watch = disk.watch
    BY <2>1, <2>2, <2>3 DEF EngInv, Crawling
  <2>5. pc' = "fetch" => ~paused' /\ mem'.frontier # <<>> /\ mem'.pages < mem'.max_pages
    BY <2>1, <2>2, <2>3
  <2> QED BY <1>0, <2>2, <2>3, <2>4, <2>5 DEF EngInv, Crawling
<1>4. CASE TickFront
  <2>1. /\ pc = "idle" /\ ~paused /\ ~Over /\ before' = mem /\ pc' = "fetch"
        /\ UNCHANGED <<mem, disk, paused, period, acked, parted, failed>>
    BY <1>4 DEF TickFront, Ticking
  <2>2. mem.frontier # <<>> /\ mem.pages < mem.max_pages
    BY <1>0, <2>1, CrawlFields DEF Over
  <2> QED BY <1>0, <2>1, <2>2 DEF EngInv, Crawling
<1>5. CASE FetchPage \/ FetchRetry \/ FetchDropped
  <2>1. mem.frontier # <<>> /\ mem.pages < mem.max_pages
    BY <1>5 DEF EngInv, FetchPage, FetchRetry, FetchDropped
  <2>2. Sound(Popped(mem)) /\ Popped(mem).watch = mem.watch
    BY <1>0, <2>1, PoppedIsSound DEF SameRun
  <2> QED BY <1>0, <1>5, <2>1, <2>2, VisitedIsSound, RetriedIsSound, OutcomeKeeps DEF FetchPage, FetchRetry, FetchDropped
<1> QED BY <1>1, <1>2, <1>3, <1>4, <1>5 DEF Tick

-----------------------------------------------------------------------------
LEMMA DistinctCount ==
  ASSUME NEW q \in Seq(Tasks), \A i, j \in DOMAIN q : i # j => q[i].url # q[j].url
  PROVE  Cardinality({q[i].url : i \in DOMAIN q}) = Len(q)
<1> DEFINE T == Tasks
           D == 1..Len(q)
           W == {q[i].url : i \in D}
           f == [i \in D |-> q[i].url]
<1>0. q \in Seq(T)
  OBVIOUS
<1> HIDE DEF T
<1>1. DOMAIN q = D /\ Len(q) \in Nat
  BY <1>0, LenProperties
<1>2. IsFiniteSet(D) /\ Cardinality(D) = Len(q)
  BY <1>1, FS_Interval
<1>3. f \in Bijection(D, W)
  <2>1. f \in Injection(D, W)
    BY <1>1 DEF Injection, IsInjective
  <2>2. f \in Surjection(D, W)
    BY DEF Surjection
  <2> QED BY <2>1, <2>2 DEF Bijection
<1>4. Cardinality(W) = Cardinality(D)
  <2> HIDE DEF D, W, f
  <2>1. ExistsBijection(D, W)
    BY <1>3 DEF ExistsBijection
  <2> QED BY <1>2, <2>1, FS_Bijection
<1> QED BY <1>1, <1>2, <1>4

LEMMA SoundFrontier ==
  ASSUME EngInv
  PROVE  FrontierIsSound
<1> SUFFICES ASSUME NEW st, Sound(st)
    PROVE LET waiting == {st.frontier[i].url : i \in DOMAIN st.frontier} IN
    /\ Cardinality(waiting) = Len(st.frontier)
    /\ waiting \cap st.done = {} /\ waiting \cup st.done \subseteq st.seen
    /\ st.pages = Cardinality(st.done) /\ st.pages <= st.max_pages
    /\ ~st.manual => \A i, j \in DOMAIN st.frontier : i < j =>
                       st.frontier[j].depth - st.frontier[i].depth \in 0..1
  BY DEF EngInv, FrontierIsSound, Records
<1>1. st.frontier \in Seq(Tasks)
  BY CrawlFields DEF Sound
<1>2. Cardinality({st.frontier[i].url : i \in DOMAIN st.frontier}) = Len(st.frontier)
  BY <1>1, DistinctCount DEF Sound, QueueHolds
<1> QED BY <1>2 DEF Sound, QueueHolds, BreadthFirst

(* Engine::tick and Engine::command: whatever fails, is retried, rolled     *)
(* back or crashes, no task is lost, doubled or left behind by its page,    *)
(* the frontier stays breadth-first, what was answered is on disk and the   *)
(* record in memory is the one on disk, unless the second transaction of a  *)
(* call failed: then the engine is paused until the next commit.            *)
THEOREM RecordStaysSound == EngineSpec => []RecordIsSound
<1>1. EngineInit => EngInv
  <2> SUFFICES ASSUME EngineInit PROVE EngInv
    OBVIOUS
  <2>1. Fresh.watch = None
    BY DEF Fresh
  <2> QED BY <2>1, FreshIsSound DEF EngineInit, EngInv, Crawling
<1>2. EngInv /\ [EngineNext]_EngineVars => EngInv'
  <2> SUFFICES ASSUME EngInv, [EngineNext]_EngineVars PROVE EngInv'
    OBVIOUS
  <2>1. CASE Controller
    BY <2>1, ControllerKeeps
  <2>2. CASE WatchSave
    BY <2>2, WatchKeeps
  <2>3. CASE Tick
    BY <2>3, TickKeeps
  <2>4. CASE Crash
    BY <2>4, FreshIsSound DEF Crash, EngInv, Crawling
  <2>5. CASE Start
    BY <2>5 DEF Start, EngInv, Crawling
  <2>6. CASE UNCHANGED EngineVars
    BY <2>6 DEF EngineVars, EngInv, Crawling
  <2> QED BY <2>1, <2>2, <2>3, <2>4, <2>5, <2>6 DEF EngineNext
<1>3. EngInv => RecordIsSound
  <2> SUFFICES ASSUME EngInv PROVE RecordIsSound
    OBVIOUS
  <2>1. ScheduleIsDurable
    BY DEF EngInv, ScheduleIsDurable
  <2> QED BY <2>1, SoundFrontier DEF RecordIsSound
<1> QED BY <1>1, <1>2, <1>3, PTL DEF EngineSpec
=============================================================================
