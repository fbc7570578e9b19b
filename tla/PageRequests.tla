---------------------------- MODULE PageRequests -----------------------------
(***************************************************************************)
(* What a page asks of the network and of itself through the platform shim *)
(* (src/core/web_platform_shim.hpp): XMLHttpRequest, fetch, images and     *)
(* message channels.  Every event of a request calls the page's handlers,  *)
(* which may open, send and abort requests themselves, this one included;  *)
(* and the deadline of the script may interrupt it all between two events. *)
(* A handler that clicks or types flushes the page before it goes on: jobs *)
(* and timers then run inside it.  What a request carries and returns is   *)
(* left out: of an answer only its being there matters.                    *)
(***************************************************************************)
EXTENDS Naturals, Sequences

CONSTANTS
  Xhrs,             \* the XMLHttpRequest objects of the page
  MaxFetches,       \* bound on the calls of fetch
  MaxSources,       \* bound on the assignments of an image's src
  MaxPosts,         \* bound on the messages posted
  MaxPageCalls,     \* bound on the calls of the page, over all objects
  MaxNested         \* bound on the calls inside one another

ASSUME PageRequestsConstants ==
  {MaxFetches, MaxSources, MaxPosts, MaxPageCalls, MaxNested} \subseteq Nat

VARIABLES
  xhr,          \* of each XMLHttpRequest: readyState, __open, __sent and __async
  unfinished,   \* the calls that fire events, the innermost first, with what is left to fire
  microtasks,   \* the jobs queued with queueMicrotask
  fetchPromises, \* of each call of fetch: its promise is "pending", "settled" or "cut"
  source,       \* the image's src, as the number of its assignment
  channel,      \* of port 1 and port 2: closed, and the number of messages posted to it
  inTimers,     \* the deliveries of messages waiting in timers
  pageCalls,    \* the number of calls of the page
  heard,        \* history: the events of each XMLHttpRequest that its handlers heard
  requestsMade, \* history: the requests made for each XMLHttpRequest
  shown,        \* history: the src last requested for the image
  order,        \* history: the fetches settled, in the order they were
  received,     \* history: the messages given to the onmessage of their port, in that order
  listened,     \* history: the messages given to the listeners of their port, in that order
  cut           \* history: the requests, image jobs and messages that the deadline or an exception ended early
RequestVars == <<xhr, unfinished, microtasks, fetchPromises, source, channel, inTimers, pageCalls, heard, requestsMade, shown, order,
                 received, listened, cut>>

Ports == {1, 2}
Image == "image"
NewXhr == [readyState |-> 0, open |-> FALSE, sent |-> FALSE, async |-> TRUE]
NewPort == [closed |-> FALSE, posted |-> 0]
NoEvents == [answer |-> 0, abort |-> 0, loadend |-> 0]

RequestInit ==
  /\ xhr = [x \in Xhrs |-> NewXhr] /\ unfinished = <<>> /\ microtasks = <<>> /\ fetchPromises = <<>> /\ source = 0
  /\ channel = [p \in Ports |-> NewPort] /\ inTimers = <<>> /\ pageCalls = 0
  /\ heard = [x \in Xhrs |-> NoEvents] /\ requestsMade = [x \in Xhrs |-> 0] /\ shown = 0 /\ order = <<>>
  /\ received = <<>> /\ listened = <<>> /\ cut = {}

Histories == <<heard, requestsMade, shown, order, received, listened, cut>>

(* The page's code runs as a script, a job or a handler of the event that  *)
(* was fired last: there is no state in which it cannot.                   *)
PageCall == pageCalls < MaxPageCalls /\ pageCalls' = pageCalls + 1

-----------------------------------------------------------------------------
(* XMLHttpRequest.  A call that fires events takes steps: a readyState, or *)
(* none, and the event fired in it, __fire, whose handlers then run.  An   *)
(* exception in a handler is reported and the call goes on.                *)
Unchanged == 9
Step(readyState, event) == [readyState |-> readyState, event |-> event]
AnsweredSteps == <<Step(2, "readystatechange"), Step(3, "readystatechange"), Step(4, "readystatechange"),
              Step(Unchanged, "load"), Step(Unchanged, "loadend")>>
FailedSteps == <<Step(4, "readystatechange"), Step(Unchanged, "error"), Step(Unchanged, "loadend")>>
AbortedSteps == <<Step(0, "abort"), Step(Unchanged, "loadend")>>
Enters(state, step) == IF step.readyState = Unchanged THEN state ELSE [state EXCEPT !.readyState = step.readyState]
HearsEvent(events, step) ==
  CASE step.event \in {"load", "error"} -> [events EXCEPT !.answer = @ + 1]
    [] step.event = "abort" -> [events EXCEPT !.abort = @ + 1]
    [] step.event = "loadend" -> [events EXCEPT !.loadend = @ + 1]
    [] OTHER -> events
RoomToNest == Len(unfinished) < MaxNested
(* The first step of a call, and then each of the others when the handlers *)
(* of the one before have returned.                                        *)
Begin(x, state, steps) ==
  /\ unfinished' = <<[of |-> x, left |-> Tail(steps)]>> \o unfinished
  /\ xhr' = [xhr EXCEPT ![x] = Enters(state, Head(steps))] /\ heard' = [heard EXCEPT ![x] = HearsEvent(@, Head(steps))]
FireNext ==
  /\ unfinished # <<>> /\ Head(unfinished).left # <<>>
  /\ LET x == Head(unfinished).of
         left == Head(unfinished).left
     IN  /\ xhr' = [xhr EXCEPT ![x] = Enters(@, Head(left))] /\ heard' = [heard EXCEPT ![x] = HearsEvent(@, Head(left))]
         /\ unfinished' = IF Len(left) = 1 THEN Tail(unfinished) ELSE [unfinished EXCEPT ![1].left = Tail(left)]
  /\ UNCHANGED <<microtasks, fetchPromises, source, channel, inTimers, pageCalls, requestsMade, shown, order, received, listened, cut>>

(* open forgets nothing: a request that was sent stays sent.               *)
OpenXhr(x, async) ==
  /\ PageCall /\ xhr' = [xhr EXCEPT ![x] = [@ EXCEPT !.readyState = 1, !.open = TRUE, !.async = async]]
  /\ UNCHANGED <<unfinished, microtasks, fetchPromises, source, channel, inTimers, Histories>>

(* The request is made when its job runs, or at once; a body that cannot   *)
(* be made a string, which the page's toString does, ends the call before. *)
RunXhr(x, state) ==
  \/ /\ RoomToNest /\ \E steps \in {AnsweredSteps, FailedSteps} : Begin(x, state, steps)
     /\ requestsMade' = [requestsMade EXCEPT ![x] = @ + 1] /\ UNCHANGED cut
  \/ cut' = cut \cup {x} /\ xhr' = [xhr EXCEPT ![x] = state] /\ UNCHANGED <<unfinished, heard, requestsMade>>

OnlyOpen(state) == state.open
Sendable(state) == state.open /\ ~state.sent
SendXhr(x) ==
  LET state == [xhr[x] EXCEPT !.sent = TRUE]
  IN  /\ PageCall /\ Sendable(xhr[x])
      /\ \/ /\ xhr[x].async /\ microtasks' = Append(microtasks, [of |-> "xhr", id |-> x])
            /\ xhr' = [xhr EXCEPT ![x] = state] /\ UNCHANGED <<unfinished, heard, requestsMade, cut>>
         \/ ~xhr[x].async /\ RunXhr(x, state) /\ UNCHANGED microtasks
      /\ UNCHANGED <<fetchPromises, source, channel, inTimers, shown, order, received, listened>>

(* abort: of a request that was sent, whether it waits, runs or is over.   *)
AbortXhr(x) ==
  /\ PageCall /\ xhr[x].sent /\ RoomToNest /\ Begin(x, xhr[x], AbortedSteps)
  /\ UNCHANGED <<microtasks, fetchPromises, source, channel, inTimers, requestsMade, shown, order, received, listened, cut>>
(* The deadline is no exception a handler could catch: it ends one call    *)
(* after the other, until all are over or one of them has been made by a   *)
(* job inside a flush, which drops whatever ends a job and goes on.        *)
InterruptCall ==
  /\ unfinished # <<>> /\ unfinished' = Tail(unfinished) /\ cut' = cut \cup {Head(unfinished).of}
  /\ UNCHANGED <<xhr, microtasks, fetchPromises, source, channel, inTimers, pageCalls, heard, requestsMade, shown, order, received, listened>>

-----------------------------------------------------------------------------
(* fetch resolves its URL when it is called and makes its request in a     *)
(* job, which settles the promise; an image requests the src it has when   *)
(* its job runs, if the deadline does not end the job before it has.       *)
Fetch ==
  /\ PageCall /\ Len(fetchPromises) < MaxFetches /\ fetchPromises' = Append(fetchPromises, "pending")
  /\ microtasks' = Append(microtasks, [of |-> "fetch", id |-> Len(fetchPromises) + 1])
  /\ UNCHANGED <<xhr, unfinished, source, channel, inTimers, Histories>>
SetSource ==
  /\ PageCall /\ source < MaxSources /\ source' = source + 1
  /\ microtasks' = Append(microtasks, [of |-> Image, id |-> source + 1])
  /\ UNCHANGED <<xhr, unfinished, fetchPromises, channel, inTimers, Histories>>

Settle(f) ==
  \/ fetchPromises' = [fetchPromises EXCEPT ![f] = "settled"] /\ order' = Append(order, f)
  \/ fetchPromises' = [fetchPromises EXCEPT ![f] = "cut"] /\ UNCHANGED order
(* The jobs run in their order, when no code of the page runs or when a    *)
(* handler flushes.                                                        *)
RunMicrotask ==
  /\ microtasks # <<>> /\ microtasks' = Tail(microtasks) /\ UNCHANGED <<source, channel, inTimers, pageCalls, received, listened>>
  /\ LET job == Head(microtasks)
     IN  \/ job.of = "xhr" /\ RunXhr(job.id, xhr[job.id]) /\ UNCHANGED <<fetchPromises, shown, order>>
         \/ job.of = "fetch" /\ Settle(job.id) /\ UNCHANGED <<xhr, heard, unfinished, requestsMade, shown, cut>>
         \/ /\ job.of = Image /\ UNCHANGED <<xhr, heard, unfinished, fetchPromises, requestsMade, order>>
            /\ (shown' = source /\ UNCHANGED cut) \/ (cut' = cut \cup {job} /\ UNCHANGED shown)

-----------------------------------------------------------------------------
(* MessageChannel: a message crosses in a timer of its own, to the         *)
(* onmessage of the port and then to its listeners.                        *)
Message(p, k) == [to |-> p, message |-> k]
Other(p) == 3 - p
PostMessage(p) ==
  /\ PageCall /\ ~channel[p].closed /\ ~channel[Other(p)].closed /\ channel[Other(p)].posted < MaxPosts
  /\ channel' = [channel EXCEPT ![Other(p)].posted = @ + 1]
  /\ inTimers' = Append(inTimers, Message(Other(p), channel[Other(p)].posted + 1))
  /\ UNCHANGED <<xhr, unfinished, microtasks, fetchPromises, source, Histories>>
ClosePort(p) ==
  /\ PageCall /\ ~channel[p].closed /\ channel' = [channel EXCEPT ![p].closed = TRUE]
  /\ UNCHANGED <<xhr, unfinished, microtasks, fetchPromises, source, inTimers, Histories>>
(* A flush runs a timer when no job is left, the one that is due first,    *)
(* which is a timer no more when it runs.  What onmessage does comes       *)
(* before the listeners: they are what is left of the call.                *)
Handed(m) == [of |-> m, left |-> <<>>]
DeliverMessage ==
  /\ microtasks = <<>> /\ inTimers # <<>> /\ inTimers' = Tail(inTimers)
  /\ LET m == Head(inTimers)
     IN  \/ channel[m.to].closed /\ UNCHANGED <<unfinished, received, cut>>
         \/ /\ ~channel[m.to].closed /\ RoomToNest /\ unfinished' = <<Handed(m)>> \o unfinished
            /\ received' = Append(received, m) /\ UNCHANGED cut
         \/ cut' = cut \cup {m} /\ UNCHANGED <<unfinished, received>>
  /\ UNCHANGED <<xhr, microtasks, fetchPromises, source, channel, pageCalls, heard, requestsMade, shown, order, listened>>
CallListeners ==
  /\ unfinished # <<>> /\ Head(unfinished).left = <<>> /\ unfinished' = Tail(unfinished)
  /\ listened' = Append(listened, Head(unfinished).of)
  /\ UNCHANGED <<xhr, microtasks, fetchPromises, source, channel, inTimers, pageCalls, heard, requestsMade, shown, order, received, cut>>

RequestNext ==
  \/ \E x \in Xhrs : SendXhr(x) \/ AbortXhr(x) \/ \E async \in BOOLEAN : OpenXhr(x, async)
  \/ FireNext \/ InterruptCall \/ Fetch \/ SetSource \/ RunMicrotask
  \/ \E p \in Ports : PostMessage(p) \/ ClosePort(p)
  \/ DeliverMessage \/ CallListeners
RequestSpec == RequestInit /\ [][RequestNext]_RequestVars

-----------------------------------------------------------------------------
AtRest(x) == (\A i \in DOMAIN unfinished : unfinished[i].of # x) /\ \A i \in DOMAIN microtasks : microtasks[i].id # x
(* An XMLHttpRequest is requested at most once however often it is opened, *)
(* sent and aborted, also by its own handlers; and once it is at rest and  *)
(* nothing cut it short, it was answered exactly once if it was sent, and  *)
(* has ended once for its answer and once for each of its aborts.          *)
XhrsAreAnswered ==
  \A x \in Xhrs :
    /\ requestsMade[x] <= 1 /\ heard[x].answer <= requestsMade[x]
    /\ AtRest(x) /\ x \notin cut =>
         /\ heard[x].answer = IF xhr[x].sent THEN 1 ELSE 0
         /\ heard[x].loadend = heard[x].answer + heard[x].abort
(* Promises are settled in the order of the calls, each once; and the      *)
(* image's last request is for the src it has, unless the deadline ended   *)
(* the job that this src was to be requested by.                           *)
FetchesAreSettled ==
  /\ \A i \in 2..Len(order) : order[i - 1] < order[i]
  /\ \A f \in DOMAIN fetchPromises : fetchPromises[f] = "pending" <=> \E i \in DOMAIN microtasks : microtasks[i] = [of |-> "fetch", id |-> f]
  /\ (\A i \in DOMAIN microtasks : microtasks[i].of # Image) => shown = source \/ [of |-> Image, id |-> source] \in cut
(* Every onmessage hears its port's messages in the order in which they    *)
(* were posted, and none to a port that is open is lost on the way.  The   *)
(* listeners hear each message once and after onmessage has, though, as    *)
(* onmessage may flush, perhaps after a later one.  What the deadline ended *)
(* on its way is not heard again.                                          *)
IsIn(m, s) == \E i \in DOMAIN s : s[i] = m
MessagesArrive ==
  /\ \A i, j \in DOMAIN received : i < j /\ received[i].to = received[j].to => received[i].message < received[j].message
  /\ \A p \in Ports : ~channel[p].closed =>
       \A k \in 1..channel[p].posted : IsIn(Message(p, k), inTimers) \/ IsIn(Message(p, k), received) \/ Message(p, k) \in cut
  /\ \A i, j \in DOMAIN listened : i # j => listened[i] # listened[j]
  /\ \A i \in DOMAIN listened : IsIn(listened[i], received)
  /\ \A i \in DOMAIN received : IsIn(received[i], listened) \/ IsIn(Handed(received[i]), unfinished) \/ received[i] \in cut
(* What the page asks for it gets once, whatever its handlers do while it  *)
(* gets it: the requests, the promises, the images and the messages.       *)
PageIsAnswered == XhrsAreAnswered /\ FetchesAreSettled /\ MessagesArrive
=============================================================================
