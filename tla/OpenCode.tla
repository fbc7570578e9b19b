------------------------------ MODULE OpenCode -------------------------------
(***************************************************************************)
(* The clients of external agents: OpenCodeClient and its Lua handle       *)
(* (plugins/opencode-bridge/src) and the AI oracle and its Lua handle      *)
(* (plugins/ai-oracle/src).  A method runs in steps between which the      *)
(* transport, which may be a Lua callback, works: the callback can call    *)
(* the handle again.  The agent server is outside the repository: it takes *)
(* prompts, works on them one after the other and appends messages to the  *)
(* session, at its own pace.                                               *)
(***************************************************************************)
EXTENDS Naturals, Sequences

CONSTANTS
  AgentSessions,     \* the ids the server hands out
  Flavours,          \* "v2": the /api routes, "bare": the older ones, "oracle": the AI oracle
  ListLimit,         \* limit= of the message list
  MaxAgentRequests,  \* max_requests
  MaxAgentRuns,      \* bound: prompts the server takes
  MaxAgentMessages,  \* bound: messages of a session
  MaxAgentEvents,    \* bound: events of a stream (1024 in the code)
  MaxAgentCalls      \* bound: method calls

ASSUME OpenCodeConstants == ListLimit \in Nat /\ MaxAgentEvents \in Nat

VARIABLES
  flavour,     \* which client, and how it is configured
  client,      \* Client: open, busy and request_count_
  acall,       \* the method that runs, NoCall when none does
  opened,     \* the agent sessions that exist
  messages,    \* external: the messages of every session, oldest first
  queue,       \* external: the prompts of every session that are not done
  runsTaken,   \* external: prompts taken so far
  answers,    \* history: the answers prompts returned
  acalls       \* calls so far

OpenCodeVars == <<flavour, client, acall, opened, messages, queue, runsTaken, answers, acalls>>
ServerVars == <<opened, messages, queue, runsTaken>>

NoCall == [op |-> "none"]
InCall == acall # NoCall
OpenCodeInit ==
  /\ flavour \in Flavours
  /\ client = [open |-> TRUE, busy |-> FALSE, used |-> 0]
  /\ acall = NoCall /\ opened = {}
  /\ messages = [s \in AgentSessions |-> <<>>] /\ queue = [s \in AgentSessions |-> <<>>]
  /\ runsTaken = 0 /\ answers = {} /\ acalls = 0

-----------------------------------------------------------------------------
(* The Lua methods.  A call is refused on a closed handle and, by          *)
(* BusyGuard, while another runs; here only calls that get in are steps.   *)

FirstStep(op) ==
  CASE op \in {"create_session", "scrape_with_prompt"} -> "create"
    [] op = "prompt" -> IF flavour = "v2" THEN "baseline" ELSE "message"
    [] op = "prompt_async" -> "async"
    [] op = "stream_events" -> "stream"
    [] op = "abort" -> "interrupt"
    [] op = "ask" -> "ask"
AgentMethods == {"create_session", "prompt", "prompt_async", "stream_events", "abort", "scrape_with_prompt"}
NeedsSession(op) == op \in {"prompt", "prompt_async", "stream_events", "abort"}
EnterMethod(op, s) ==
  /\ client' = [client EXCEPT !.busy = TRUE] /\ acalls' = acalls + 1
  /\ acall' = [op |-> op, session |-> s, at |-> FirstStep(op), baseline |-> {}, run |-> 0,
               clean |-> queue[s] = <<>>, left |-> 0]
MayEnter == client.open /\ ~client.busy /\ acalls < MaxAgentCalls
CallMethod ==
  \E op \in AgentMethods, s \in AgentSessions :
    /\ flavour # "oracle" /\ MayEnter
    /\ NeedsSession(op) <=> s \in opened
    /\ EnterMethod(op, s)
    /\ UNCHANGED <<flavour, ServerVars, answers>>
AskOracle ==
  \E s \in AgentSessions :
    /\ flavour = "oracle" /\ MayEnter
    /\ EnterMethod("ask", s)
    /\ UNCHANGED <<flavour, ServerVars, answers>>
(* ~BusyGuard, however the method ends.                                    *)
Returns(used) == client' = [client EXCEPT !.busy = FALSE, !.used = used] /\ acall' = NoCall
Goes(step) == client' = [client EXCEPT !.used = @ + 1] /\ acall' = [acall EXCEPT !.at = step]

(* close, from the driver or from a callback while a method runs.          *)
CloseClient == client' = IF client.busy THEN client ELSE [client EXCEPT !.open = FALSE]
CloseCalled == client.open /\ CloseClient /\ UNCHANGED <<flavour, acall, ServerVars, answers, acalls>>
(* __gc: the method that runs has its self on the stack.                   *)
Collect ==
  /\ client.open /\ ~InCall
  /\ client' = [client EXCEPT !.open = FALSE]
  /\ UNCHANGED <<flavour, acall, ServerVars, answers, acalls>>

-----------------------------------------------------------------------------
(* OpenCodeClient::send: the budget, then the transport.  What fails after *)
(* the request went out (the transport, a redirect, a status, a size, an   *)
(* answer that does not parse) has spent it, and the server may have done  *)
(* what it was asked.                                                      *)
AgentAt(step) == InCall /\ acall.at = step
WithinBudget == client.used < MaxAgentRequests
TooMuch == acall.at \in {"baseline", "message", "post", "async"}   \* its text may be empty or too large
SendRefused ==
  /\ InCall /\ acall.at \notin {"deliver", "ask"}
  /\ ~WithinBudget \/ TooMuch
  /\ Returns(client.used)
  /\ UNCHANGED <<flavour, ServerVars, answers, acalls>>
Took(s, run) ==
  /\ runsTaken < MaxAgentRuns
  /\ queue' = [queue EXCEPT ![s] = Append(@, run)] /\ runsTaken' = runsTaken + 1
  /\ UNCHANGED <<opened, messages>>
SendFails ==
  /\ InCall /\ acall.at \notin {"deliver", "ask"} /\ WithinBudget
  /\ Returns(client.used + 1)
  /\ \/ UNCHANGED ServerVars
     \/ acall.at \in {"post", "async"} /\ Took(acall.session, runsTaken + 1)
  /\ UNCHANGED <<flavour, answers, acalls>>

(* create_session; scrape_with_prompt goes on with the session it made.    *)
SessionCreated ==
  /\ AgentAt("create") /\ WithinBudget
  /\ opened' = opened \cup {acall.session}
  /\ IF acall.op = "create_session" THEN Returns(client.used + 1) ELSE Goes(FirstStep("prompt"))
  /\ UNCHANGED <<flavour, messages, queue, runsTaken, answers, acalls>>

(* The numbers of the messages the server lists.                           *)
Listed(s) ==
  LET n == Len(messages[s]) IN (IF n > ListLimit THEN n - ListLimit + 1 ELSE 1)..n
NewestOnly(s) == IF messages[s] = <<>> THEN {} ELSE {Len(messages[s])}
Baseline(s) == Listed(s)
BaselineRead ==
  /\ AgentAt("baseline") /\ WithinBudget
  /\ client' = [client EXCEPT !.used = @ + 1]
  /\ acall' = [acall EXCEPT !.at = "post", !.baseline = Baseline(acall.session)]
  /\ UNCHANGED <<flavour, ServerVars, answers, acalls>>
PromptPosted ==
  /\ AgentAt("post") /\ WithinBudget
  /\ Took(acall.session, runsTaken + 1)
  /\ client' = [client EXCEPT !.used = @ + 1]
  /\ acall' = [acall EXCEPT !.at = "poll", !.run = runsTaken + 1]
  /\ UNCHANGED <<flavour, answers, acalls>>

AnswerOf(i) == [run |-> acall.run, session |-> acall.session, message |-> i,
              of |-> messages[acall.session][i].run, clean |-> acall.clean]
Fails(m) == m.state = "failed"
Tells(m) == m.kind = "assistant" /\ m.state = "done" /\ m.text
(* The new messages that say how it went; the newest is looked at first.   *)
Decisive == {i \in Listed(acall.session) \ acall.baseline : Fails(messages[acall.session][i]) \/ Tells(messages[acall.session][i])}
PollMessages ==
  /\ AgentAt("poll") /\ WithinBudget
  /\ \/ \E i \in Decisive :
          /\ \A j \in Decisive : j <= i
          /\ Returns(client.used + 1)
          /\ \/ ~Fails(messages[acall.session][i]) /\ answers' = answers \cup {AnswerOf(i)}
             \/ /\ \/ Fails(messages[acall.session][i])
                   \/ acall.op = "scrape_with_prompt"     \* the answer is not the JSON object asked for
                /\ UNCHANGED answers
     \/ Decisive = {} /\ Goes("poll") /\ UNCHANGED answers
     \/ Decisive = {} /\ Returns(client.used + 1) /\ UNCHANGED answers    \* the deadline
  /\ UNCHANGED <<flavour, ServerVars, acalls>>

(* The bare prompt is answered in the response.                            *)
Replied ==
  /\ AgentAt("message") /\ WithinBudget
  /\ Returns(client.used + 1)
  /\ UNCHANGED <<flavour, ServerVars, answers, acalls>>
(* Oracle::ask refuses before it sends (disabled, no key, too large, an    *)
(* image that is none) and when the budget is spent; else the answer or    *)
(* what is wrong with it is in the response.                               *)
AskRefused ==
  /\ AgentAt("ask") /\ Returns(client.used)
  /\ UNCHANGED <<flavour, ServerVars, answers, acalls>>
OracleReplied ==
  /\ AgentAt("ask") /\ WithinBudget
  /\ Returns(client.used + 1)
  /\ UNCHANGED <<flavour, ServerVars, answers, acalls>>
PromptQueued ==
  /\ AgentAt("async") /\ WithinBudget
  /\ Took(acall.session, runsTaken + 1)
  /\ Returns(client.used + 1)
  /\ UNCHANGED <<flavour, answers, acalls>>

(* stream_events: every event of the response goes to the callback; one    *)
(* that raises ends the call.                                              *)
Streamed ==
  /\ AgentAt("stream") /\ WithinBudget
  /\ \E n \in 0..MaxAgentEvents :
       IF n = 0 THEN Returns(client.used + 1)
       ELSE /\ client' = [client EXCEPT !.used = @ + 1]
            /\ acall' = [acall EXCEPT !.at = "deliver", !.left = n]
  /\ UNCHANGED <<flavour, ServerVars, answers, acalls>>
Delivered ==
  /\ AgentAt("deliver")
  /\ \/ Returns(client.used)
     \/ acall.left > 1 /\ acall' = [acall EXCEPT !.left = @ - 1] /\ UNCHANGED client
  /\ UNCHANGED <<flavour, ServerVars, answers, acalls>>

-----------------------------------------------------------------------------
(* external: the server.                                                   *)

Message(run, kind, state, text) == [run |-> run, kind |-> kind, state |-> state, text |-> text]
(* A run has its messages at the end of the session's.                     *)
Newest(s) == messages[s][Len(messages[s])]
Begun(s) == queue[s] # <<>> /\ messages[s] # <<>> /\ Newest(s).run = Head(queue[s])
Working(s) == Begun(s) /\ Newest(s).state = "working"
Say(s, m) == messages' = [messages EXCEPT ![s] = Append(@, m)]
Amended(s, state, text) ==
  [messages[s] EXCEPT ![Len(messages[s])] = Message(Newest(s).run, Newest(s).kind, state, text)]
Interrupted ==
  LET s == acall.session
      ended == IF Working(s) THEN Amended(s, "failed", FALSE) ELSE messages[s]
  IN  /\ AgentAt("interrupt") /\ WithinBudget /\ Returns(client.used + 1)
      /\ IF queue[s] = <<>> THEN UNCHANGED <<messages, queue>>
         ELSE /\ messages' = [messages EXCEPT ![s] = Append(ended, Message(Head(queue[s]), "idle", "failed", FALSE))]
              /\ queue' = [queue EXCEPT ![s] = Tail(@)]
      /\ UNCHANGED <<flavour, opened, runsTaken, answers, acalls>>
AgentWorks(s) ==
  /\ queue[s] # <<>> /\ ~Working(s) /\ Len(messages[s]) < MaxAgentMessages
  /\ Say(s, Message(Head(queue[s]), "assistant", "working", FALSE)) /\ UNCHANGED queue
AgentSays(s) ==
  /\ Working(s) /\ UNCHANGED queue
  /\ \E state \in {"done", "failed"}, text \in BOOLEAN : messages' = [messages EXCEPT ![s] = Amended(s, state, text)]
AgentRests(s) ==
  /\ Begun(s) /\ ~Working(s)
  /\ Say(s, Message(Head(queue[s]), "idle", IF Fails(Newest(s)) THEN "failed" ELSE "done", FALSE))
  /\ queue' = [queue EXCEPT ![s] = Tail(@)]
Agent ==
  /\ \E s \in AgentSessions : AgentWorks(s) \/ AgentSays(s) \/ AgentRests(s)
  /\ UNCHANGED <<flavour, client, acall, opened, runsTaken, answers, acalls>>

OpenCodeNext ==
  \/ CallMethod \/ CloseCalled \/ Collect \/ SendRefused \/ SendFails \/ SessionCreated \/ BaselineRead \/ PromptPosted
  \/ PollMessages \/ Replied \/ AskOracle \/ AskRefused \/ OracleReplied \/ PromptQueued \/ Streamed \/ Delivered \/ Interrupted \/ Agent
OpenCodeSpec == OpenCodeInit /\ [][OpenCodeNext]_OpenCodeVars

-----------------------------------------------------------------------------
(* What a prompt returns is the answer to it: when the session had nothing *)
(* outstanding, the message is one of the prompt's own run, whatever older *)
(* messages the list still shows, and no message answers two prompts; and  *)
(* while a method runs its handle stays open, whatever the callbacks do    *)
(* (opencode_client.cpp, prompt_v2; lua_bindings.cpp, BusyGuard, close).   *)
AnswersAreTheirs ==
  /\ \A a \in answers : a.clean => a.of = a.run
  /\ \A a, b \in answers : a.session = b.session /\ a.message = b.message => a = b
  /\ InCall => client.open /\ client.busy
=============================================================================
