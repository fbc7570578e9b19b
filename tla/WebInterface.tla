---------------------------- MODULE WebInterface ----------------------------
(***************************************************************************)
(* The web interface (src/core/web_interface.cpp, playwright.cpp): REST    *)
(* and WebDriver over one table of sessions, the CDP bridge over a session *)
(* of its own, and the single-threaded HttpServer that feeds them.  The    *)
(* callers are the server thread and the threads of an embedding host that *)
(* call handle() themselves; one mutex serialises them.  A document is a   *)
(* number, 0 for none; a request names what it does to the tables.         *)
(***************************************************************************)
EXTENDS Integers, Sequences, FiniteSets

CONSTANTS
  Clients,      \* TCP clients of the server, each with one connection at a time
  Hosts,        \* embedding threads, each with one call at a time
  MaxSessions,  \* bound: sessions created
  MaxDocs,      \* bound: documents installed
  MaxHandles,   \* bound: element handles given out
  Sent, Called  \* the requests clients send and hosts call with, within WebRequests

ASSUME WebConstants ==
  /\ MaxSessions \in Nat \ {0} /\ MaxDocs \in Nat /\ MaxHandles \in Nat
  /\ Clients \cap Hosts = {} /\ {"server", "nobody"} \cap (Clients \cup Hosts) = {}

Server  == "server"
Nobody  == "nobody"
Unobserved == -1
Callers == {Server} \cup Hosts
Cdp     == 0                     \* the bridge's own session
SessionIds == 1..MaxSessions

(* Every route by its effect: "page" is every route that only reads.        *)
WebRequests ==
  [op : {"page", "create", "upgrade"}, on : {Cdp}, handle : {0}]
    \cup [op : {"navigate", "find", "endpoints", "rest-delete", "wd-delete"},
          on : SessionIds, handle : {0}]
    \cup [op : {"set", "click"}, on : SessionIds, handle : 1..MaxHandles]
ASSUME WebRequestsAssumption ==
  /\ Sent \subseteq WebRequests
  /\ Called \subseteq {r \in WebRequests : r.op # "upgrade"}
PageRequest == [op |-> "page", on |-> Cdp, handle |-> 0]

VARIABLES
  lock,        \* WebInterface::Impl::mutex: its holder
  sessions,    \* Impl::sessions: the document of each live session
  created,     \* sessions created so far; ids are never reused
  elements,    \* WebDriverState::elements: handle -> session and document
  docs,        \* documents installed so far
  cdpDoc,      \* the document of the bridge's session
  observer,    \* the session of the endpoints request that is subscribed, or Unobserved
  observed,    \* the sessions whose responses it has recorded
  clients,     \* each connection: its state and its request
  backlog,     \* the listening socket's queue
  serving,     \* the client the server thread is on, or Nobody
  callers,     \* where each caller is, and the request it handles
  stopped      \* HttpServer::Impl::stopped

WebVars == <<lock, sessions, created, elements, docs, cdpDoc, observer,
             observed, clients, backlog, serving, callers, stopped>>
tables == <<sessions, created, elements, docs, cdpDoc>>
wire   == <<clients, backlog, serving, stopped>>

NoHandle == [session |-> 0, doc |-> 0]

WebInit ==
  /\ lock = Nobody /\ sessions = <<>> /\ created = 0 /\ elements = <<>>
  /\ docs = 1 /\ cdpDoc = 1
  /\ observer = Unobserved /\ observed = {}
  /\ clients = [k \in Clients |-> [at |-> "off", req |-> PageRequest]]
  /\ backlog = <<>> /\ serving = Nobody /\ stopped = FALSE
  /\ callers = [c \in Callers |-> [at |-> IF c = Server THEN "accept" ELSE "idle",
                                   req |-> PageRequest]]

Live == DOMAIN sessions
At(c, place) == callers' = [callers EXCEPT ![c].at = place]

-----------------------------------------------------------------------------
(* The clients: connect, send a request or hang up, close a WebSocket.      *)
Connect(k) ==
  /\ clients[k].at = "off" /\ clients' = [clients EXCEPT ![k].at = "queued"]
  /\ backlog' = Append(backlog, k)
  /\ UNCHANGED <<lock, tables, observer, observed, serving, callers, stopped>>
Send(k, r) ==
  /\ clients[k].at \in {"queued", "open"}
  /\ clients' = [clients EXCEPT ![k] = [at |-> IF @.at = "open" THEN "sent" ELSE "ready", req |-> r]]
  /\ UNCHANGED <<lock, tables, observer, observed, backlog, serving, callers, stopped>>
HangUp(k) ==
  /\ clients[k].at = "ws" /\ clients' = [clients EXCEPT ![k].at = "closing"]
  /\ UNCHANGED <<lock, tables, observer, observed, backlog, serving, callers, stopped>>

-----------------------------------------------------------------------------
(* HttpServer::run: accept, read a whole request, handle it, close.         *)
Accept ==
  /\ callers[Server].at = "accept" /\ ~stopped /\ backlog # <<>>
  /\ serving' = Head(backlog) /\ backlog' = Tail(backlog)
  /\ clients' = [clients EXCEPT ![Head(backlog)].at = IF @ = "ready" THEN "sent" ELSE "open"]
  /\ At(Server, "read")
  /\ UNCHANGED <<lock, tables, observer, observed, stopped>>

(* parse_http_request blocks on the client; no deadline is set. *)
ReadRequest ==
  /\ callers[Server].at = "read" /\ clients[serving].at = "sent"
  /\ callers' = [callers EXCEPT ![Server] = [at |-> "want", req |-> clients[serving].req]]
  /\ UNCHANGED <<lock, tables, observer, observed, wire>>

(* stop() shuts the listening socket down: accept fails and run returns.    *)
Stop == ~stopped /\ stopped' = TRUE
        /\ UNCHANGED <<lock, tables, observer, observed, clients, backlog, serving, callers>>
Return ==
  /\ callers[Server].at = "accept" /\ stopped /\ At(Server, "returned")
  /\ UNCHANGED <<lock, tables, observer, observed, wire>>

(* A host calls WebInterface::handle. *)
Call(h, r) ==
  /\ callers[h].at = "idle" /\ callers' = [callers EXCEPT ![h] = [at |-> "want", req |-> r]]
  /\ UNCHANGED <<lock, tables, observer, observed, wire>>

(* handle() and handle_websocket() take the mutex for as long as they run;  *)
(* an upgrade is for the whole WebSocket conversation.                      *)
Inside == {"run", "observing", "ws"}
(* Mutant: handle() does not take the mutex. *)
EnterUnguarded(c) ==
  /\ callers[c].at = "want" /\ lock' = c
  /\ IF callers[c].req.op = "upgrade"
     THEN At(c, "ws") /\ clients' = [clients EXCEPT ![serving].at = "ws"]
     ELSE At(c, "run") /\ UNCHANGED clients
  /\ UNCHANGED <<tables, observer, observed, backlog, serving, stopped>>

Enter(c) ==
  /\ callers[c].at = "want" /\ lock = Nobody /\ lock' = c
  /\ IF callers[c].req.op = "upgrade"
     THEN At(c, "ws") /\ clients' = [clients EXCEPT ![serving].at = "ws"]
     ELSE At(c, "run") /\ UNCHANGED clients
  /\ UNCHANGED <<tables, observer, observed, backlog, serving, stopped>>

(* Mutant: the mutex is not given back. *)
LeaveLocked(c) ==
  /\ UNCHANGED lock
  /\ IF c = Server
     THEN /\ callers' = [callers EXCEPT ![c] = [at |-> "accept", req |-> PageRequest]]
          /\ serving' = Nobody
          /\ clients' = [clients EXCEPT ![serving] = [at |-> "off", req |-> PageRequest]]
     ELSE /\ callers' = [callers EXCEPT ![c] = [at |-> "idle", req |-> PageRequest]]
          /\ UNCHANGED <<clients, serving>>
  /\ UNCHANGED <<backlog, stopped>>

(* The guard goes, the response is written and the connection closed.       *)
Leave(c) ==
  /\ lock' = IF lock = c THEN Nobody ELSE lock
  /\ IF c = Server
     THEN /\ callers' = [callers EXCEPT ![c] = [at |-> "accept", req |-> PageRequest]]
          /\ serving' = Nobody
          /\ clients' = [clients EXCEPT ![serving] = [at |-> "off", req |-> PageRequest]]
     ELSE /\ callers' = [callers EXCEPT ![c] = [at |-> "idle", req |-> PageRequest]]
          /\ UNCHANGED <<clients, serving>>
  /\ UNCHANGED <<backlog, stopped>>

-----------------------------------------------------------------------------
(* Handlers.  Running(c, ops, s): c is in route() with such a request on    *)
(* session s.                                                               *)
Running(c, op) == callers[c].at = "run" /\ callers[c].req.op = op
Subject(c) == callers[c].req.on

(* A navigation installs a document and its responses reach every           *)
(* subscriber of the browser's events.                                      *)
Responded(s) == observed' = IF observer = Unobserved THEN observed ELSE observed \cup {s}
Installed(s) ==
  /\ docs < MaxDocs /\ docs' = docs + 1
  /\ sessions' = [sessions EXCEPT ![s] = docs + 1]

(* Reads, requests that are malformed or for unknown sessions, elements     *)
(* that are not there, navigations that fail: an answer and nothing else.   *)
AnswerOnly(c) ==
  /\ callers[c].at = "run"
  /\ callers[c].req.op \in {"rest-delete", "wd-delete"} => Subject(c) \notin Live
  /\ Leave(c) /\ UNCHANGED <<tables, observer, observed>>

(* POST /session, /session/{id}/window/new and /api/sessions *)
CreateSession(c) ==
  /\ Running(c, "create") /\ created < MaxSessions
  /\ created' = created + 1
  /\ sessions' = [t \in Live \cup {created + 1} |-> IF t \in Live THEN sessions[t] ELSE 0]
  /\ Leave(c)
  /\ UNCHANGED <<elements, docs, cdpDoc, observer, observed>>

Navigate(c) ==
  /\ Running(c, "navigate") /\ Subject(c) \in Live
  /\ Installed(Subject(c)) /\ Responded(Subject(c)) /\ Leave(c)
  /\ UNCHANGED <<created, elements, cdpDoc, observer>>

(* handle_endpoints: subscribed to the browser's responses while it         *)
(* navigates, unsubscribed whether that succeeds or throws.                 *)
Observe(c) ==
  /\ Running(c, "endpoints") /\ Subject(c) \in Live
  /\ observer' = Subject(c) /\ observed' = {} /\ At(c, "observing")
  /\ UNCHANGED <<lock, tables, wire>>
Extract(c) ==
  /\ callers[c].at = "observing"
  /\ observer' = Unobserved
  /\ \/ Installed(Subject(c)) \/ UNCHANGED <<docs, sessions>>
  /\ observed' = {} /\ Leave(c)
  /\ UNCHANGED <<created, elements, cdpDoc>>

(* element_handle: a fresh id bound to the element and its document *)
FindElement(c) ==
  /\ Running(c, "find") /\ Subject(c) \in Live /\ sessions[Subject(c)] # 0
  /\ Len(elements) < MaxHandles
  /\ elements' = Append(elements, [session |-> Subject(c), doc |-> sessions[Subject(c)]])
  /\ Leave(c)
  /\ UNCHANGED <<sessions, created, docs, cdpDoc, observer, observed>>

(* resolve_element: of this session, and of its current document *)
Resolves(s, h) ==
  /\ s \in Live /\ h \in DOMAIN elements
  /\ elements[h].session = s /\ elements[h].doc = sessions[s]

(* clear, value, send-keys; click also follows the element's link.  The     *)
(* click is marked on the element that was resolved.                        *)
UseElement(c) ==
  LET s == Subject(c) h == callers[c].req.handle IN
  /\ callers[c].at = "run" /\ callers[c].req.op \in {"set", "click"} /\ Resolves(s, h)
  /\ \/ callers[c].req.op = "click" /\ Installed(s) /\ Responded(s)
     \/ UNCHANGED <<docs, sessions, observed>>
  /\ Leave(c)
  /\ UNCHANGED <<created, elements, cdpDoc, observer>>

(* DELETE: close() and erase.  Only WebDriver's drops the handles.          *)
Dropped(es, s) == [h \in DOMAIN es |-> IF es[h].session = s THEN NoHandle ELSE es[h]]
Removed(s) == [t \in Live \ {s} |-> sessions[t]]
DeleteSession(c) ==
  /\ callers[c].at = "run" /\ callers[c].req.op \in {"rest-delete", "wd-delete"} /\ Subject(c) \in Live
  /\ sessions' = Removed(Subject(c))
  /\ elements' = IF callers[c].req.op = "wd-delete" THEN Dropped(elements, Subject(c)) ELSE elements
  /\ Leave(c)
  /\ UNCHANGED <<created, docs, cdpDoc, observer, observed>>

-----------------------------------------------------------------------------
(* CdpServer::handle_websocket: messages until the peer closes.  A command  *)
(* that throws is caught by nobody and ends run().                          *)
CdpNavigate ==
  /\ callers[Server].at = "ws" /\ clients[serving].at = "ws"
  /\ \/ /\ docs < MaxDocs /\ docs' = docs + 1 /\ cdpDoc' = docs + 1 /\ Responded(Cdp)
        /\ UNCHANGED <<lock, callers>>
     \/ /\ lock' = Nobody /\ At(Server, "crashed")
        /\ UNCHANGED <<docs, cdpDoc, observed>>
  /\ UNCHANGED <<sessions, created, elements, observer, wire>>
CdpClose ==
  /\ callers[Server].at = "ws" /\ clients[serving].at = "closing"
  /\ Leave(Server) /\ UNCHANGED <<tables, observer, observed>>

-----------------------------------------------------------------------------
Handle(c) ==
  \/ Enter(c) \/ AnswerOnly(c) \/ CreateSession(c) \/ Navigate(c) \/ Observe(c) \/ Extract(c)
  \/ FindElement(c) \/ UseElement(c) \/ DeleteSession(c)
ServerStep == Accept \/ ReadRequest \/ Return \/ Handle(Server) \/ CdpClose
WebNext ==
  \/ \E k \in Clients : Connect(k) \/ HangUp(k) \/ \E r \in Sent : Send(k, r)
  \/ \E h \in Hosts : Handle(h) \/ \E r \in Called : Call(h, r)
  \/ ServerStep \/ CdpNavigate \/ Stop

(* run() is a loop, a mutex is handed to a caller that keeps asking for it, *)
(* and clients send what they connected for and close their WebSockets; the *)
(* server itself waits for them without a deadline.                         *)
WebFairness ==
  /\ WF_WebVars(ServerStep) /\ SF_WebVars(Enter(Server))
  /\ \A h \in Hosts : WF_WebVars(Handle(h))
  /\ \A k \in Clients :
       WF_WebVars(HangUp(k)) /\ WF_WebVars(\E r \in Sent : Send(k, r))
WebSpec == WebInit /\ [][WebNext]_WebVars /\ WebFairness

-----------------------------------------------------------------------------
WebTypeOK ==
  /\ lock \in Callers \cup {Nobody}
  /\ created \in 0..MaxSessions /\ Live \subseteq 1..created
  /\ \A s \in Live : sessions[s] \in 0..docs
  /\ elements \in Seq([session : 0..created, doc : 0..docs])
  /\ docs \in 1..MaxDocs /\ cdpDoc \in 1..docs
  /\ observer \in SessionIds \cup {Unobserved} /\ observed \subseteq SessionIds \cup {Cdp}
  /\ clients \in [Clients -> [at : {"off", "queued", "ready", "open", "sent", "ws", "closing"},
                              req : WebRequests]]
  /\ backlog \in Seq(Clients) /\ serving \in Clients \cup {Nobody} /\ stopped \in BOOLEAN
  /\ callers \in [Callers -> [at : {"accept", "read", "want", "returned", "crashed", "idle"} \cup Inside,
                              req : WebRequests]]

(* handle_endpoints reports the requests of its own navigation: nothing     *)
(* that another caller or the CDP bridge does on the same browser is in its *)
(* record, and its subscription, which captures the handler's stack, is     *)
(* gone once no handler is observing.                                       *)
OwnResponsesOnly ==
  IF \E c \in Callers : callers[c].at = "observing"
  THEN observed \subseteq {observer} ELSE observer = Unobserved

(* Every request that reaches the server is answered, and stop() ends       *)
(* run(), whatever the other callers do.                                    *)
Gone == callers[Server].at \in {"returned", "crashed"}
EveryoneIsServed ==
  /\ \A k \in Clients : clients[k].at # "off" ~> clients[k].at = "off" \/ Gone
  /\ stopped ~> Gone
=============================================================================
