# ProwseTk in TLA+

ProwseTk is an embeddable headless-browser toolkit in C++ (`src/core`,
`src/flatworm`, `src/endpoint`, `src/session`, `include/prowsetk`) with plugins
(`plugins/`), tools (`tools/`) and Lua drivers (`drivers/`). This directory
models the parts of it whose correctness depends on the order of events — who
may call whom while a call is in progress, what survives a failure half-way,
which of several parties an answer belongs to — and the algorithms whose result
a reader would define in one sentence and the code computes in a clever way
(selectors, cascade, layout, markup, page encodings, text and JSON).

## Running

    tlc -workers 2 -config MCSessionHosted.cfg MCHosted
    tlapm SessionProofs.tla      # and the other *Proofs modules, and Positions

`PROJECT.json` lists the runs, the source lines behind every definition, the
mutants that show each property can fail, the hazards and the theorems.

## The system

| Part | State it keeps | Operations | Talks to | What is hard |
|---|---|---|---|---|
| Browser and Session (`core/browser.cpp`) | document, URL, engine, script depth, script observations, pending navigation | navigate, load_html, evaluate_js, click, type, set_viewport, pump_events, request, close | handlers, plugins, engine, storage, network, all synchronously | every event runs host code that may call the session again, close it or throw |
| `Session::request` | request, redirect count and chain, shared jar | one fetch with redirects | handlers, plugins, jar, transport | headers carried from hop to hop; a jar shared by all sessions |
| Page event loop (`web_platform_shim.hpp`) | timers, frames, jobs, mutation records | flush, timers, observers | scripts, the host's pump | flushes nest; a deadline cuts scripts off |
| Page DOM (`web_platform_shim.hpp`, `flatworm_host.cpp`, `dom_node.cpp`) | tree, listeners, controls, focus, dialogs | tree changes, dispatch, click, type, default actions | listeners | listeners change the tree and the listeners under a dispatch |
| Script host and engine (`flatworm_host.cpp`, `quickjs_runtime.cpp`, `flatworm/module*.cpp`) | handles of nodes, jobs, deadline, module instances | evaluate, microtasks, host calls, install | QuickJS, native modules, drivers | addresses and handles outlive documents; calls nest under a deadline |
| Page platform (`web_platform_shim.hpp`) | requests, promises, ports; location, history, media lists; decoders | XMLHttpRequest, fetch, images, messages; pushState, matchMedia; TextDecoder | handlers, the host | handlers act between two events of a request |
| rpc module (`flatworm-modules/rpc`) and the JSON of the services | next id | make, parse, batch and correlate messages | pages and their transports | answers in any order; four readers of one format |
| Flatworm (`src/flatworm`) | none | parse, serialize, query | | recovery and escaping; matching backwards |
| Renderer (`core/render`) | styles, boxes, paint list | resolve, lay out, hit test | | hash-map order; moves after layout |
| Storage (`storage.cpp`, `session/*`) | jar, key/value namespaces, files | get, set, clear, release, reopen | sessions | three implementations that must agree |
| Event dispatcher, plugin registry (`event.cpp`, `plugin_registry.cpp`) | handlers; loaded plugins | subscribe, emit; load, initialise, hooks, shut down | plugins under a mutex, handlers without | snapshots; failure in the middle of a list |
| Lua runtime (`lua_runtime.cpp`) | userdata, subscriptions, owned browsers | bindings, finalizers, teardown | sessions, events | finalizers run in any order |
| Network client (`network_client.cpp`, `cdp.cpp`) | socket, buffer, pending calls | connect, proxies, send, read, frames | servers | partial reads, framings, limits, late answers |
| Web interface (`web_interface.cpp`, `playwright.cpp`) | sessions and elements by id, one observer, CDP id tables | REST, WebDriver, CDP | sessions | concurrent callers, ids that outlive documents |
| Page IR and print tools (`ir_*.cpp`, `page2pdf`, `page2latex`) | stream, tree, pages | encode, read, lay out, paint | a pipe | truncation; pagination |
| Endpoint extraction and its three plugins | endpoints, queue, schemas | scan, resolve, probe, render | sites | order of discovery, merging, budgets; C++ and Lua twins |
| Spider daemon and engine (`plugins/spider`) | connections, workers, registry; frontier, pages, schedule | control commands, watchdog, restart; crawl, watch, tick | peers, processes, LMDB | descriptor reuse, crashes, leases, rollback |
| Pagewatch (`tools/pagewatch`) | watches, updates, action queue, files | sample, actions, commands | worker processes, files | crash between two writes, bounded history |
| Qutebrowser bridge | conversation, pending action | observe, act | coroutines, userscripts | at-most-once dispatch across timeouts |
| Beacon (`plugins/beacon`) | Flashes, connections | connect, forward, poll, expire | add-on, native host, drivers | consent against navigation at every await |
| Agents (`opencode-bridge`, `ai-oracle`, `opencode-marionette`) | session of the agent, messages, run | prompt, stream, explore | an agent server at its own pace | whose answer is this; budgets |
| Logins and crawlers (`ezlogin`, `drivers/`, `tools/crawler`) | credentials; frontier | form and oauth flows; crawl | sites | redirects decide where secrets go; limits |

## Modules

| Module | Models | Run by | Proofs |
|---|---|---|---|
| `Session` | a session with its C++ call stack | `MCHosted`, `MCDrivers`, itself | `SessionProofs` |
| `RequestFlow` | one call of `Session::request` | `MCRequestFlow` | `RequestFlowProofs` |
| `SpiderDaemon` | `ptkspiderd` with its peers and workers | itself | `SpiderDaemonProofs` |
| `PageLoop` | timers, frames, jobs and records of a page | `MCHosted` | `SessionProofs` |
| `WebInterface`, `Pagewatch`, `SpiderEngine` | the services named | `MCServices` | `ServiceProofs` |
| `QuteBridge`, `ActionSlot` | the bridge, and what it promises | `MCServices` | `ServiceProofs` |
| `OpenCode`, `Marionette`, `Login`, `Transport`, `Crawlers`, `CdpServer` | what a driver calls | `MCDrivers` | `DriverProofs` |
| `JsonText`, `RpcModule` | the readers and writers of JSON; the rpc module with a page and its server | `MCDrivers` | |
| `ScriptHost`, `ScriptEngine` | handles of nodes; evaluations, jobs and native modules | `MCRuntime` | `PageProofs` |
| `PageRequests`, `WindowState`, `TextCodec` | what the shim does for a page | `MCRuntime` | `PageProofs` |
| `LuaHandles`, `PluginHost`, `DurableStorage`, `PagePrint`, `Discovery`, `Beacon`, `PageDom`, `BoxLayout` | the parts named | `MCRuntime` | `RuntimeProofs`, `ServiceProofs` (`Beacon`) |
| `Markup`, `Selectors`, `Cascade` | what makes a page of an answer | `MCHosted` | |
| `Positions` | the part of a sequence that a filter or an erasure leaves, counting in a sequence, induction; with their lemmas | the modules that extend it | itself |

A module run by itself has all its values in its configurations.

`MCHosted`, `MCServices`, `MCDrivers` and `MCRuntime` are sums. Their parts do
not share state at the level modelled — each module has what the others do to
it among its own choices, for example a response is anything the site may
answer — so an interleaving of two parts shows nothing that the parts do not
show alone. A behaviour of a sum is therefore a behaviour of one part, fixed in
the initial state (`level`, `service`, `chosen`, `part`); the others stay in
their initial states. The fairness of all parts can be assumed together because
no fair action of a part is enabled in its initial state, so a part that is not
chosen constrains nothing.

### Session

`frames[1..sp]` are the public calls on the C++ stack. A frame's `pc` names the
place where the call hands control away: a `HandlerPc` is an event or plugin
hook, a `ScriptPc` is page script running in the engine, an `InnerPc` is the
session's own code. At the first two, the host may push another call
(`HookCalls` says which) and, if `HandlersThrow`, an event handler may throw.
Public calls are the actions `Navigate`, `LoadHtml`, `EvaluateJs`, `Act`
(click and type), `SetViewport`, `PumpEvents`, `Close` and `Destroy`; what
follows each event of `install_document`, `run_script_lifecycle` and
`follow_script_navigations` is an action of its own, named for it.
`page_script_requests_` and `page_script_texts_` are abstracted to the set
`obs` of document generations they came from; documents are generation
numbers. A parse failure, a refused click and a call on a closed session change
nothing and are not steps.

### RequestFlow

One call, from the caller's request to its return or exception. A URL is a
record of scheme, host, port and path; a cookie is host-only with a path and a
Secure flag, its identity host and path; paths match when equal or when the
cookie's is the root. The request keeps, beside the code's fields, where its
credentials were submitted for (`home`), whether its Cookie header came from
the jar (`cookie`) or was supplied (`explicit`), and the method its body was
submitted with. A 3xx status in the model comes with a Location; one without is
any other status to the code. Plugins may replace the request with anything a
caller may submit, and `OtherJarWrite` is the rest of the browser changing the
shared jar between steps.

### PageLoop and PageDom

`PageLoop` is one engine's loop: `stack` is the JavaScript stack, on which
flushes, jobs, timer callbacks and deliveries nest because `click()` and
`type()` flush from inside a callback. `PageDom` is what those callbacks do:
its stack holds scripts, dispatches (with the path, the phase and the listener
being called) and *programs*, the rest of a shim function such as a click
(pointer events, focus, activation, default action) as a sequence of
instructions, so that a listener may intervene between any two. Attributes are
kept only where they steer these functions.

### ScriptHost, ScriptEngine

`ScriptHost` has nodes, numbered in the order they are allocated, at addresses
that are used again once nothing refers to a node or one above it; the registry
of handles and its map keyed by addresses; and a driver that holds elements of
any document. `ScriptEngine` is one engine: the calls in progress (an
evaluation, a job, a checkpoint, a native call, the host) inside one another,
the deadline moved by the time the host spends, the queue of jobs, and the
native modules from `initialize` to `shutdown`. What QuickJS does is external: a
script runs for some ticks, queues, calls out, returns or throws.

### PageRequests, WindowState, TextCodec

The rest of the shim that has state. `PageRequests`: XMLHttpRequest, fetch,
images and message channels, where `unfinished` is what the calls in progress
have still to fire, so that handlers open, send and abort between any two
events. A `click()` or `type()` inside a handler flushes, so jobs and messages
also run there, up to `MaxNested` calls deep; the deadline cuts off whatever is
under way. When page code converts a request's body is taken to be before its
job. `WindowState`: location and history, which change without a navigation and
outlive a document, since one engine serves every document of a session
(`InstallDocument`), and the media query lists that a change of the viewport
notifies from a snapshot of weak references. `TextCodec`: a decoder fed in pieces, the
encoders and base64, on bytes and units.

### JsonText, RpcModule

`JsonText` has the four readers (`web_interface.cpp`, `playwright.cpp`,
`opencode_client.cpp`, the rpc module) and the writers over texts of lexemes: a
text is written, or arrives from anywhere, may be damaged, and may be read and
written again any number of times. Numbers are exact, digits and a power of ten, also
for the readers that convert to a double; those beyond a double's range are left out. `RpcModule` is the rpc module's ids, checks,
batches and correlation, next to a page that keeps requests and responses and a
transport that loses, repeats, delays and reorders. A double keeps `DoubleDigits`
digits, in place of its 53 bits.

### Markup, Selectors, Cascade, BoxLayout

Pure algorithms, run step by step or at once and compared with a reference
definition in the same module: `Markup` parses and serializes sequences of
lexemes, within limits on nodes, depth and bytes; `Selectors` matches backwards as
`selector_matcher.cpp` does, taking its steps from a budget, and is compared with
what a selector denotes; `Cascade` visits buckets in any order
and is compared with the declaration of highest rank; `BoxLayout` lays out,
moves, clips and paints, and the hit test is compared with what the final boxes
show. Inputs are every markup up to four lexemes, and small sets of trees,
sheets and pages chosen to have every shorthand, alignment and overflow case.

### WebInterface and CdpServer

`WebInterface` has one server thread, which reads, handles and answers one
connection at a time, and host threads that call `handle()`; all take the one
mutex. Sessions, elements and the observer of `handle_endpoints` are the
tables. `CdpServer` is the other end of a Playwright socket: the two id tables,
every command that reads or extends them, navigation, and the socket's loop.

### SpiderDaemon and SpiderEngine

One pass of the daemon's loop is `Poll`, then for every connection in
descriptor order one serving step and `Settle`, then `WorkerTurn` for every
worker in name order. `events` is the map the code fills after `poll`, keyed by
descriptor number and used unchanged through the pass. Descriptors are numbers
and the kernel gives out the lowest free one, which is what makes reuse within a
pass possible. A connection carries one request and its reply; a worker record
holds the daemon's view and the state of its process (`proc`, `frame`, `msg`,
`late`). `"operate"` stands for every command that goes to the engine, `"ping"`
for everything answered at once. `Faults` enables launch failures, kills of the
daemon between any two of its steps, and kills between the deregistration of a name
and the deletion of its directory (`RemoveMidway`, `RollbackMidway`); the names this
leaves are in `torn`. A registry write or a deletion that throws is not modelled.

`SpiderEngine` is the worker's side: one record in memory and its committed
copy on disk, commands and ticks that replace it in transactions which may
fail, `watch` with its two transactions, `status`, which answers from memory, and a
crash that returns to the disk. `parted` says that a second transaction failed after
the first was committed.

### Pagewatch, QuteBridge and ActionSlot, Beacon

`Pagewatch`: worker processes sample the page and may hang or die; the daemon
numbers changes, keeps the last `MaxHistory`, queues and runs actions, answers
controllers, and may crash between the two files of a change; `newest` is the last
change with a number, and whether its two files came apart. `QuteBridge`: the
broker's handlers up to and after their waits, pollers that disappear, senders
that publish late. It implements `ActionSlot`, one slot that is asked, taken
and answered or over, by the mapping `BridgeIsActionSlot`. `Beacon`: the
broker's single-file service, the native host's one message at a time, the
add-on's background script cut at every `await`, and the messages of its content
script on their way.

### LuaHandles, PluginHost, DurableStorage

`LuaHandles`: userdata, the C++ objects behind them and finalizers in any
order, with the deferred deletion of browsers. `PluginHost`: threads that load or
are refused, initialise, dispatch and shut down under the registry's mutex, and the
dispatcher's snapshots with handlers that return, block or throw. `DurableStorage`: the three jars driven in lockstep and
compared, the wrapped key/value stores, reopening, kills and wrong passwords.

### PagePrint, Discovery

`PagePrint`: a page is emitted in one of the encodings, cut off anywhere, read
by page2pdf or page2latex, laid out into lines and pages with its margins and
padding, and painted.
`Discovery`: the extractor merges what a page mentions; scrape-endpoints,
restful-resolver and schema-grabber, each with its C++ and its Lua twin, go on
from there over a table of a site's answers, of which some are lost.

### OpenCode, Marionette, Login, Transport, Crawlers

`OpenCode`: a client's method between its requests, with callbacks that enter
the handle again and an agent server that works at its own pace. `Marionette`:
the explorer's policy, hooks, collection, probes, merge and choices. `Login`:
every flow of ezlogin and the login driver against a site that answers what it
likes; a `Location` is the URL it resolves to and whether it was relative, and
`BareUrls` are the URLs without a path. `Transport`: proxy choice, handshakes, the three framings against a
server that stops anywhere and pieces of any size, web sockets and CDP calls.
Sizes of chunks are added in words of `WordSize`. `Crawlers`: both crawlers, the
tool also offline, their limits and what they write.

## What the runs check

| Run | Checks | Bounds |
|---|---|---|
| `session_hosted` | `PriorObservationsKept`: earlier observations survive script navigations; every call returns; `LoopKeepsItsWord`: cleared timers stay dead and records are delivered; timers run; `MarkupIsFaithful` (markup and selectors), the cascade | three calls, nesting 3, two scripts, two hops, two passes, handlers that only close; two observers, three script operations, one interrupt, flushes of two; four lexemes in trees of five nodes, 15 bytes and queries of four steps, sheets of two items |
| `driver_calls` | `EngineLifetime`: the engine outlives its scripts and is released; answers belong to prompts; explorer, login, socket, crawlers and CDP ids; `MessagesAreKept`: JSON is read as it was written, responses match their requests | three calls nested three deep with any operation from any handler; seven agent requests; six endpoints, of which three are kept; three login steps of two hops, one URL without a path; bodies up to four bytes against a limit of three, words of 16; six pages under four sets of limits; five CDP commands over three documents and two connections; texts of three lexemes and every value of a small set, two digits, values nested deeper than either limit; three rpc requests, two responses |
| `request_flow` | `CarriedOnlyHome`: credentials and jar cookies; the reported chain | three URLs (plain http, other host and port), two hops, one foreign jar write, four status classes |
| `daemon_lease` | leases and waiters match, acknowledged spiders are durable | one spider, two connections, four descriptors, all faults |
| `daemon_restart` | the daemon knows its spiders wherever it was killed, names whose deletion was cut short excepted; leases end | two names for one slot, one connection, daemon kills also midway through a deletion |
| `services` | own responses only, everyone served; changes accounted for, snapshot catches up; the bridge is an `ActionSlot`; the crawl record is sound and the crawl goes on | one client and one host thread; two watchers, history of one; two drivers and two marionettes; four pages, frontier of three, three commands, one failure |
| `runtime` | thirteen properties, one per part: Lua handles, plugins, stores, printing (`PrintIsThePage`), discovery, Beacon, `DocumentIsSound`, hit tests, `HandlesAreStable`, `ScriptsAreAccountedFor`, `PageIsAnswered`, `WindowIsCurrent`, `TextIsKept` | three nodes at three addresses in two documents; three engine entries nested four deep with one job per checkpoint and a deadline of two ticks; two requests of each kind, two messages, four calls of the page nested two deep; two native plugins and a Lua one on two threads; events dispatched from a listener, five frames deep; bodies with more links than the three that are taken; a history of three over several documents, two lists of which one is kept; two texts per decoder in pieces of up to four bytes; the rest in `MCRuntime.cfg` |
| `session_offline`, `request_scope`, `daemon_hangup`, `daemon_recovery`, `lua_teardown` | findings, below | as small as shows them |

Why the bounds are enough: three calls nested three deep have a script, a
handler below it and a call from that handler; two hops carry, drop and carry a
header again; two connections let one free the descriptor the other's worker
takes; a history or queue of one overflows at the second change; two watchers
overtake each other; a limit is always below what the inputs can reach, so that
both sides of it happen.

Deadlock is not checked where the system may stop: a session with its call
budget spent, a service that was stopped, a page that is printed, a run that
ended. The daemon and request runs check it.

### Fairness

- `Session`: a call in progress keeps moving (`WF(Progress)`): handlers return
  and scripts are stopped by `ScriptOptions`' deadline.
- `PageLoop`: callbacks end, time passes, and the host pumps the page again
  whenever it can (strong: pumping is not possible while a flush runs).
- `SpiderDaemon`: the loop turns (its `poll` times out after 100 ms), an idle
  worker process reads its channel, time passes for a silent one. Nothing makes
  a worker answer or a peer stay.
- `WebInterface`: the server's loop and each host's call go on, the mutex is
  given to a caller that keeps asking for it, and clients send what they
  connected for and close their sockets; the server waits for them without a
  deadline, so this is needed and is an assumption about clients.
- `Pagewatch`: workers poll on an interval, the daemon reads its sockets, the
  watchdog and the action deadline need nobody.
- `SpiderEngine`: `worker_main`'s loop ticks and finishes a command it began.

### Findings

Each has a run that must fail.

- *Offline loads may navigate after an exception* (`browser.cpp:915`):
  `load_html` discards queued navigations only when `install_document` returns.
- *Path scope* (`browser.cpp:661`): the Cookie header of one hop is kept on a
  same-origin redirect, so a cookie can reach a path it is not meant for, and a
  cookie set by the redirect is not added.
- *Stale hang-up* (`daemon.cpp:290`): see `daemon_hangup`; the asker is told
  `WorkerExited`, and a spider being created is rolled back.
- *Leftover registry entries* (`daemon.cpp:243`): see `daemon_recovery`.
- *Subscriptions that outlive their browser* (`lua_runtime.cpp:2181`): see
  `lua_teardown`; `BrowsersOutliveSessions` excludes exactly this sequence.

### Other differences between text and code

Seen while modelling; the models take these steps (or leave the detail out) and
no run is spent on them.

Session, storage, plugins, Lua
- `pump_events` can be entered from a handler that runs outside a script, while
  `browser.hpp:183-184` says re-entrant calls throw.
- A script that outlives `close()` re-creates its storage namespace through the
  storage hook (`browser.cpp:437`), while `manual/14-cookies-and-storage.md`
  says closing releases it.
- The script loop goes on over the old document's scripts when a handler
  installs another document (`browser.cpp:855`).
- Access listeners run under the store's mutex (comment at `storage.cpp:199`);
  a plugin that calls the registry from a hook blocks on its mutex; a handler
  may still run after `unsubscribe`, since `emit` works on a snapshot.
- No `try` surrounds a handler in `emit` (`event.cpp:117-126`). One that throws
  out of `shutdown_all` (`plugin_registry.cpp:464`) leaves the plugins closed
  before it on the list, and a later `initialize_all` calls their code;
  `PluginsAreCalledInTurn` excepts what follows (`abandoned`).
- A wrong password opens an encrypted jar as empty, and the next set replaces
  the record; nothing syncs Tokyo Cabinet before it is closed.
- `session:off` shares one `alive` flag (`lua_runtime.cpp:2257`); finalizers of
  documents and elements do not flush deferred browsers (1072, 1224);
  `~LuaRuntime` flushes before `lua_close`, so what that releases is leaked.

Page, markup, renderer
- `insertBefore` has no ancestor check (`flatworm_host.cpp:517`): a cycle makes
  the process spin; `DocumentIsSound` excludes it.
- A requested animation frame may never run (`manual/12-javascript.md:116`); a
  parsed script a page moves runs again; abort removes listeners added again
  without the signal; setting `checked` on a radio does not uncheck its group;
  dispatching the same Event again inside a handler resets its stop flags.
- `currentHref`'s override and the history outlive a document: after `pushState`
  or a change of `location` the next page of the session shows a URL that the
  page before it named (shim 1931, 2622), against `quickjs_runtime.cpp:953`, and
  after `replaceState` without a URL not that of its entry.
- A flush inside an `onmessage` delivers the next message before the listeners
  have heard this one (shim 2421-2424); a job or timer that the deadline ends is
  gone (2064, 2444), so an image or a message may be lost. `PageIsAnswered` says
  which order and which messages remain.
- Escapes and end tags make serialized markup longer than its source, so a page
  just below 16 MiB may be refused when it is parsed again (`html_parser.cpp:47`);
  a query that takes more steps than its budget throws (`selector_matcher.cpp:13`).
- `compute_specificity` counts the name after `.` and `#` as a type too
  (`css_parser.cpp:802`, `style_resolver.cpp:43`); `border: none` does not
  remove a lower-priority `border-style`; `rem` font sizes are bare pixels
  (639); `@media screen and (...)` is not applied although the comment at
  881-884 says unparsable preludes match; an unparsable winner hides valid
  declarations; `text-decoration` does not propagate (`style_resolver.cpp:475`)
  and `vertical-align` inherits (548).

Network and services
- The CDP server's reader refuses every `\u` escape (`playwright.cpp:213`), also
  those its own writer makes of control characters (104); the OpenCode client
  and the rpc module stop at a depth, the rpc module also at repeated names,
  bytes that are not UTF-8 and a number of values; `%.15g` rounds numbers
  (`web_interface.cpp:121`, `playwright.cpp:133`). `JsonIsKept` allows exactly
  these.
- A close-delimited body that reaches the limit exactly is accepted although
  more followed; HEAD, 204 and 304 with a Content-Length fail as truncated; 1xx
  is final; a reset without TLS is an end of stream; there is no deadline for a
  whole response.
- An exception from a CDP command ends `run()`; the reply of a nested
  `Target.sendMessageToTarget` is dropped; id tables only grow, and an old id
  acts on the old document.
- Timeouts of a web session are not erased with it.
- pagewatch reports no loss when a write fails. A kill between `tab.json`
  (`daemon.cpp:144`) and `state.toml` (154) leaves the new snapshot under the old
  number: that change gets no number, no update and no `history_lost`.
- When the second transaction of `watch` fails (`spider.cpp:365-368`) the first is
  on disk and memory has the record of before it; `status` (353) answers that
  schedule, which a restart does not find. The engine is paused until the next
  command commits.
- The sum of the body so far and a chunk's size wraps in `size_t`
  (`network_client.cpp:859`): a size near 2^64 passes the limit and what has arrived
  counts as the chunk. `BodyIsWhole` excepts such sizes.
- A tracepoint's report is sent if its tab is connected (`background.js:142`), also
  when it was made under an earlier connection of that tab. It has the names of
  nodes and the kinds of change, nothing else of the page; `PolledIsConsented`
  excepts it.
- `beacond` does not ignore SIGPIPE, so a reply to a client that gave up ends it
  with all Flashes; expiry runs only before `accept`; a message popped for a
  poll is lost when the reply fails; two clicks on Connect overwrite each other.
- A kill inside `remove` (`daemon.cpp:255`) or the rollback of a `create` (312)
  leaves a directory that `create` refuses as existing and `remove` as unknown;
  `daemon_restart` shows that nothing else does while launches succeed.

Discovery, agents, logins, crawlers, printing
- Both scrapers lose an endpoint whose URL was already visited with another
  method (comment in `scrape_endpoints.cpp` near 497); the C++ one does not
  count failed requests against its budget (`manual/16-scrape-endpoints.md:42`)
  and has no same-origin check, which Lua has; schema merging keeps the first
  request schema where its comment says the richer one.
- `prompt_v2` may return the late answer of an earlier prompt that timed out,
  while the bridge's `README.md:55` says a failed run raises "instead of
  returning stale text"; `AnswersAreTheirs` is therefore about sessions with
  nothing outstanding. In the explorer, a later collection that probes another
  path of a template replaces what was observed (`marionette.cpp:157`), and an
  endpoint that redirects off its origin fails the whole run.
- ezlogin's redirect checks see only redirects the session does not follow
  itself (comment at `ezlogin.lua:252`); without a policy oauth's redirect URI
  is not checked; `drivers/login.lua` does not check the action's origin; the
  native plugin adds its header for every host.
- ezlogin puts a relative `Location` behind the last slash of the URL it came from
  (`ezlogin.lua:238`). In a URL without a path that slash is the one before the
  host, so the result names another host, and nothing checks it, against the comment
  at 228-230. `CredentialsStayTrusted` excepts the URLs reached like this
  (`strays`); without the exception TLC finds the credentials sent there.
- The C++ resolver and scraper look at the first 32 links of a body
  (`restful_resolver.cpp:140`, `scrape_endpoints.cpp:108`), the Lua twins at all.
- `crawl_site.lua` resolves links against the start URL and says nothing when it
  stops at its limit; the crawler tool checks blocked paths and robots rules
  only before redirects, and drops a whole crawl when its last page left the
  origin. Offline (`--html`) it reports its page, asks for none of its links and
  says `truncated = false` (`lcrawler.lua:216,231`).
- An NDJSON stream cut between two top elements is accepted; an empty document
  is refused as events and accepted otherwise; an image may cross the page's
  end; a line that breaks over pages is centred on the wrong one. page2pdf tests
  the room for a block before it adds padding and margins (`graphics.c:660-697`), so
  text may start in the top margin of the next page; `PrintIsThePage` allows it on
  the pages a block was carried over to, and nowhere else.

## What is proved

TLAPS checks these for every value of the constants, from the named assumptions
on the constants alone: that limits and bounds are natural numbers, that the
members of a set differ from the value that stands for none of them, that a
document has a root (`CdpConstants`), that a driver's operations are lists of a
URL and a depth (`EngineConstants`), that the tables of a crawled site have
their shapes, with confidences in hundredths (`CrawlConstants`). TLC evaluates each assumption on the runs,
and checked each inductive invariant below on small instances before it was
proved.

`SessionProofs`: `TypeOK`, `EngineLifetime` (the engine outlives its scripts, and
a closed session releases it) and `OneScriptAtATime` are invariants. Neither of
the last two is inductive. The
strengthening `EngineInv` says that `script_execution_depth_` is one when some
frame of the stack is in a script and zero otherwise, that at most one frame
is, that the engine is present while it is, and that a closed session has an
engine only then. The proof has one lemma for each way to move the stack (go
on, return, push, enter or leave a script) and one case per action.

`PriorObservationsKept` is proved where the host's handlers call only `close` and
`evaluate_js` (`HookCalls`, a hypothesis of the theorem). `KeptInv` says that only
the outermost call can be following a navigation of the page's script, between its
request and its installed document, and that what is owed is in the observations
that call will restore while it does and in the session's own otherwise. The
hypothesis is needed: a handler that acts, pumps events, resizes or navigates from
inside such a call starts a second follow, and when the outer one then fails it
puts back its own older observations, without those the inner one made; TLC finds
the property violated with `"act"`, `"pump_events"`, `"set_viewport"` or
`"navigate"` among the calls of the handlers. `load_html` follows nothing and TLC
finds no violation with it, but `KeptInv` does not hold there, so the theorem leaves
it out.

`LoopKeepsItsWord` of the page's loop, in the same module. `LoopInv` says that a
timer that is armed was not cleared and is not running (`TimersHold`,
`StackHolds`): a flush takes the timer off the list before it calls it, and an
interval is armed again only after its callback returned and only if it was not
cleared meanwhile, which is why a nested flush cannot enter it twice. For records
it says that a scheduled delivery is among the jobs, and that an observer with
records has one there or is still to come in a delivery that runs.

`RequestFlowProofs`: `TypeOK`, `CarriedOnlyHome` (credentials stay with their
origin, jar cookies with their host and scheme), `BodyKeepsItsMethod`,
`BoundedTraffic` and `ChainIsWhatWasSent`. The inductive invariant says that the request under
construction is proper (its credentials match its URL's origin, its jar cookies
its host and scheme, its body its method) and that `redirects`, `chain` and
`sent` agree hop by hop.

`SpiderDaemonProofs`: the types with their limits, `LeaseIsTheAskers` and
`AcknowledgedIsDurable` under every fault, and `DaemonKnowsItsSpiders` under
`LaunchesSucceed`: no launch fails, and there are descriptors for every connection
and spider; the daemon may be killed anywhere. That condition is not a convenience:
`daemon_recovery` shows an acknowledged spider forgotten when a launch fails. `DaemonInv` relates the poll set to
the maps, says which descriptors are owned by whom at each place of the loop,
that a spider being created is not acknowledged before it is written, and that
a daemon that is down holds nothing; `Agree` adds that registry and live map agree
while it is up, and that every directory is registered but those in `torn`, whose
deletion a kill cut short.

`ServiceProofs`: `OwnResponsesOnly`. The subscription of an `/endpoints`
request is its own because the mutex admits one caller (`HolderIsInside`), the
server has a client while it serves (`ServerHasClient`), and hosts enter by
`handle` alone (`HostsCallHandle`).

The qutebrowser bridge implements `ActionSlot`, as a refinement
(initial states map to initial states, every step to a step or a stutter), and
no action runs twice. `QbInv` adds to the types that one act waits, for the
action asked for last (`OneWaits`); that an action that was not handed out is
held by nobody, and one that was has one holder until it ran (`HeldOnce`); and
that whatever is published or answered ran once (`RanOnce`).

`PolledIsConsented` of the Beacon. What makes it true is an
order: the add-on's connects and page data go through one first-in-first-out
port. `BeaconInv` therefore speaks of every message under way: data behind a
connect of the same tab was taken after the click (`PortHolds`), what the broker
queued for a Flash, or will read from its tab, is not from before the click
(`EntryHolds`), clicks are answered in the order they were made
(`ClicksInOrder`), what the add-on holds to send is of the page its tab shows now
(`ConnectionHolds`), reports of tracepoints on their way included as long as their
connection is the selected one, and each message has one promise waiting for its
reply.

`ChangesAreAccountedFor` of Pagewatch: `PgInv` says that while no write failed the
history of a watcher is the changes up to its number without a gap, so that a
client that asks from a number inside it misses none; that the number on disk is
the daemon's, and bounds every number queued or started, which is why a restart
cannot give a number twice; and that the jobs of one watcher are in the order of
their changes, each later than what was started. Beside it, the snapshot in memory,
the one in `tab.json` and the number in `state.toml` are those of the newest change
with a number, unless a kill or a failed write parted its two files.

`RecordIsSound` of the spider's engine. `EngInv` says it of the record in memory,
of the one on disk and of the one a command or tick restores when its transaction
fails, and adds that a page is fetched only while the engine may tick, with a task
in front and pages left, and that memory and disk differ only after the second of two
transactions failed, when the engine is paused. A page's links and a driver's staged operations are
loops over the record; that each round keeps it is an induction, which the prover
does as a statement about the set of rounds that do (`SetInduction`).

`DriverProofs`: `CredentialsStayTrusted`, from an invariant that says which steps
a mode may be at and that the page or redirect a flow is about to act on was
checked or is where an unchecked relative `Location` led; and `ResultsAreHonest` of the marionette, whose `MarionetteInv` adds that
only an action or a probe that is running can have been denied without notice
(`DeniedIsNoticed`) and that an endpoint one collection reported with an observed
response has one in what the run accumulates (`ObservedIsKept`). `IdsNameOneElement` of the CDP server: the
tables only grow, the table of nodes has no element twice, and whatever the client
was told or a command resolved is in them (`CdpInv`). `AnswersAreTheirs` of the
agent clients: `OcInv` remembers how many messages the session had when the
baseline was read. What the list shows then is the baseline; as the list only ever
loses its oldest messages, a later one that is not in it is behind that mark, and
no earlier answer is. A call that found the queue empty is the only one to post
before it ends, so everything behind the mark is of its run, at whatever pace the
server works. `CrawlAccountsForPages`: `CrawlInv` says that the tool's queue is what
it has seen, every URL once (`QueueIsSeen`), that until it is truncated every
admissible link of a page reported is among them (`LinksSeen`), that a crawl that
ended is through its queue or says so, and that no file is written before
(`ToolPlace`), where an offline crawl promises nothing about links; of the driver, that what is behind the cursor was visited and every
link it must follow was visited or is still queued (`LinksQueued`).

`RuntimeProofs`: `PluginsAreCalledInTurn`. `HostInv` says that the mutex's
holder is the thread inside, and that each library that is open has exactly one
entry that a running `shutdown_all` has not closed yet, or one loader. A closed entry
is on the list only behind a running `shutdown_all` or after a handler threw out of
one (`Closed`); nothing calls closed code before the latter.
`BrowsersOutliveSessions`: `LuaInv` says that userdata that holds a browser finds it
held or deferred, that subscription ids are one to a record and below the next of
their dispatcher, and that, until somebody subscribes late, every record is of a
browser whose handle is held and has its entry. `StoresAgree`: `StoreInv` compares
the jars as sets of cookies. A jar that replaces a cookie, and a database that
overwrites its key, do the same to the set, and the encrypted record has that set
whenever the password opens it.

`PageProofs`: `WindowIsCurrent`. `HistoryInv` adds to it that the index is
inside the history and that the location, the URL of the document and the entries
are URLs; a new document changes neither history nor override, so the entry's URL
stays the location where the history last set it; `ListsInv` that every list the page
holds is among the references kept, so that the snapshot of a notification misses
none, and that each has told what it matches, is still to come in a running
notification, or was left out by one that failed. `HandlesAreStable` of the script
host: `HostInv` says that whatever the document, a driver or the registry refers to
lives, that each handle of the page is the entry of the address where its node is,
and that an address with an entry holds the node of that entry — so an address
that is used again has no entry left. `ScriptsAreAccountedFor` of the engine:
`EngineInv` ties clock, deadline and the script's own time together (what was
added to the deadline is what host requests took, but for less than a
millisecond of each), says that jobs run in the order they were queued, and that
the frames of native modules are those of ready instances. `PageIsAnswered` of the
page's requests is about objects at rest; `ReqInv` counts what is not at rest. Of
each XMLHttpRequest, requests made and jobs waiting are one if it was sent and none
otherwise; answers heard and calls that have yet to answer are the requests; ends
heard and calls under way are the requests and the aborts (`XhrHolds`). A handler
that opens, sends or aborts in the middle of a call moves these amounts and not
their sums. Fetches wait in the order of their numbers, behind all that were settled
(`FetchHolds`), what is on the way to an open port is what it has yet to receive,
oldest first, or was cut off (`PortsHold`), and what its `onmessage` received its
listeners have heard, are about to hear in a call that runs, or never will because
the deadline ended that call (`HandsHold`).

`TypeOK` of `Session`, `OneScriptAtATime`, `BodyKeepsItsMethod` and
`BoundedTraffic` are proved only; no run repeats them.

Only model-checked, and why:

- Liveness (`EveryCallReturns`, `TimersRun`, `LeasesAreReleased`,
  `EveryoneIsServed`, `SnapshotCatchesUp`, `CrawlGoesOn`) needs fairness and
  `ENABLED`, which the prover does not reason about.
- Of a filter with `SelectSeq` nothing can be proved without an induction over the
  sequence. `LuaHandles`, `CdpServer`, `DurableStorage` and `Pagewatch` therefore say
  which positions they keep (`AtPositions`, in `Positions`), whose lemmas are
  counting arguments, and so do `PageLoop` and `Crawlers`; `PageRequests` needs only how many
  there are (`CountIn`, there too).
- `Selectors`, `Cascade`, `BoxLayout`, `JsonText` and `RpcModule` use `RECURSIVE`
  operators, `Markup`, `PageDom`, `PagePrint`, `Discovery`, `Transport`
  and `TextCodec` recursive functions or folds over data. The library's
  induction takes an operator as a parameter, which the provers cannot instantiate;
  stated about a set it can be used, as for the loops of `SpiderEngine`, but not
  over what a fold of the community modules computes.

## Plan

1. Done: `Session`, `RequestFlow` and their proofs; `SpiderDaemon`.
2. Done: the services, the in-process parts, what drivers call, the refinement
   of `ActionSlot`, liveness of the loop and the services.
3. Done: proofs of the bridge's refinement, the daemon, the web interface, the
   logins, the plugin host and the window; the script host and engine, the page
   platform, JSON and the rpc module.
4. Done: proofs of the script host and engine, the marionette, Beacon, Pagewatch,
   the CDP server, the agent clients, the Lua handles, the stores, the spider's
   engine, the page's loop and its requests, the crawlers, the observations of a
   session.
5. Done: kills midway through deletions and between two files, handlers that throw
   or flush, documents that share an engine, limits of bytes, steps and links, the
   offline crawl, words that wrap.
6. Next: `Transport` with its folds written as recursive functions.

## Not modelled

- Text: URLs, headers, SHA-1, cookie import, redaction, HTML
  clean-up, wording of prompts. Functions of their input; what they return is an
  input of the modules that use them.
- `page2pdf`'s `css_parse.c`, `css.c`, `fonts.c`, `text.c`, `util.c`, `dom.c`
  and `internal.h`: `tools/page2pdf/CMakeLists.txt:6` builds only `page2pdf.c`
  and `graphics.c`, so they are not part of any program.
- XPath (pugixml), the lexbor and gumbo parsers, QuickJS, TLS, curl, LMDB,
  Tokyo Cabinet and the kernel are external and appear through their use; so do
  the glyph metrics and the PDF writer.
- In the shim: URL, Headers, FormData, styles and other wrappers of values,
  fragments, cloning, and pages that change the built-ins the shim uses. In the
  renderer: colours, images, preserved white
  space, markers. In selectors: the text of compounds.
- The spider's frame protocol and controller, PDQL, the CLI, TUI and GUI, the
  project configuration, the WASM runtime, the small assist plugins: one call, or I/O, with nothing that must hold between calls.
- Deprecated plugins and examples.
