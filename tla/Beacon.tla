------------------------------- MODULE Beacon -------------------------------
(***************************************************************************)
(* Beacon: a driver asks, through the broker beacond, for a page that is   *)
(* open in the user's Firefox.  The addon's background script connects a   *)
(* request (a Flash) to a tab when the user clicks, and forwards page data *)
(* through a native host, a process that passes one message at a time to   *)
(* the broker.  Every await of the background script is a point where the  *)
(* user, a navigation or the end of the native host comes in between.      *)
(*                                                                         *)
(* beacond serves one connection at a time and drops idle Flashes just     *)
(* before it waits for the next one.  It does not ignore SIGPIPE: when it  *)
(* gets to a request whose sender has given up waiting (both senders give  *)
(* up after five seconds), its reply ends the process.                     *)
(***************************************************************************)
EXTENDS Naturals, Sequences, FiniteSets

CONSTANTS
  Flashes,        \* flash ids the drivers use, again after a disconnect too
  Tabs,
  MatchingTabs,   \* the <<flash, tab>> pairs where the tab's URL matches the filter
  MaxFlashes,     \* max_flashes of the broker
  MaxQueue,       \* messages a Flash queues (16 in the code)
  IdleLimit,      \* timeout_ms, in ticks
  MaxNavigations, \* bound on the navigations of a tab
  MaxClicks,      \* bound on the user's clicks
  MaxReports,     \* bound on the tracepoints' reports
  MaxDriverCalls, \* bound on the drivers' calls
  MaxBrokerFaults \* bound on the calls given up, replies lost and ends of the native host

ASSUME BeaconAssumption ==
  /\ MatchingTabs \subseteq Flashes \X Tabs
  /\ MaxFlashes \in Nat \ {0}
  /\ {MaxQueue, IdleLimit, MaxNavigations, MaxClicks, MaxReports, MaxDriverCalls, MaxBrokerFaults} \subseteq Nat

VARIABLES
  brokerUp,     \* beacond is running
  flashes,       \* entries_: flash |-> status, tab, idle time, queued messages
  orphaned,   \* a request whose sender gave up is in beacond's backlog
  port,        \* messages posted to the native host, not yet forwarded
  replies,     \* replies of the host, not yet seen by the addon
  promises,     \* the addon's pending promises, in the order of the posts
  connection,  \* the addon's connection, or NoConnection
  flashList,   \* flashes: the addon's copy of the list, by flash
  asking,      \* connectFlash calls that wait for the active tab
  stopping,    \* disconnectFlash calls that wait for the trace to stop
  extracting,  \* what content scripts have under way for the connection: pages asked for, and reports
  lateReports, \* tabs with a report under way that their content script made under no connection
  captured,    \* pages whose requests were captured for network_info
  watching,    \* tabs whose content script watches a selector
  pageOf,        \* page of each tab: the number of its navigations
  serial,      \* number of connect requests so far: names a click
  polled,      \* messages drivers received, with the click that the Flash was connected by
  clicks, tracepoints, driverCalls, brokerFaults

AddonVars == <<port, replies, promises, connection, flashList, asking, stopping, extracting, lateReports,
               captured, watching, pageOf, serial, clicks, tracepoints>>
Traced == <<lateReports, tracepoints>>
BrokerVars == <<brokerUp, flashes, orphaned>>
DriverVars == <<polled, driverCalls>>
BeaconVars == <<AddonVars, BrokerVars, DriverVars, brokerFaults>>

BrokerFault == brokerFaults < MaxBrokerFaults /\ brokerFaults' = brokerFaults + 1

NoConnection == [flash |-> "none", tab |-> "none", serial |-> 0]
NoEntry == [status |-> "none", tab |-> "none", seen |-> {}, idle |-> 0, messages |-> <<>>]

BeaconInit ==
  /\ brokerUp = TRUE /\ flashes = [f \in Flashes |-> NoEntry] /\ orphaned = FALSE
  /\ port = <<>> /\ replies = <<>> /\ promises = <<>>
  /\ connection = NoConnection /\ flashList = [f \in Flashes |-> "none"]
  /\ asking = {} /\ stopping = {} /\ extracting = {} /\ lateReports = {}
  /\ captured = {} /\ watching = {} /\ pageOf = [t \in Tabs |-> 0]
  /\ serial = 0 /\ polled = {} /\ clicks = 0 /\ tracepoints = 0 /\ driverCalls = 0 /\ brokerFaults = 0

-----------------------------------------------------------------------------
(* The broker.                                                             *)

Registered(e) == {f \in Flashes : e[f].status # "none"}

(* expire_stale, which the loop runs before it accepts again.              *)
ExpireStale(e) == [f \in Flashes |-> IF e[f].idle > IdleLimit THEN NoEntry ELSE e[f]]

(* Each operation yields the entries after it and the type of its reply.   *)
Served(e, type) == [entries |-> ExpireStale(e), reply |-> type]
RefusedFlash == Served(flashes, "error")

CreateFlash(f) ==
  IF f \in Registered(flashes) \/ Cardinality(Registered(flashes)) >= MaxFlashes
  THEN RefusedFlash
  ELSE Served([flashes EXCEPT ![f] = [NoEntry EXCEPT !.status = "seeking"]], "flash_registered")

ConnectTab(f, t, seen) ==
  IF flashes[f].status # "seeking"
  THEN RefusedFlash
  ELSE Served([flashes EXCEPT ![f].status = "connected", ![f].tab = t, ![f].seen = seen, ![f].idle = 0],
               "flash_connected")

CloseFlash(f) ==
  IF f \notin Registered(flashes) THEN RefusedFlash
  ELSE Served([flashes EXCEPT ![f] = NoEntry], "flash_closed")

PublishData(f, t, pages) ==
  IF flashes[f].status # "connected" \/ flashes[f].tab # t \/ Len(flashes[f].messages) >= MaxQueue
  THEN RefusedFlash
  ELSE Served([flashes EXCEPT ![f].messages = Append(@, pages), ![f].idle = 0], "flash_queued")

(* poll takes the message out of the queue and counts as activity also     *)
(* when there is none.                                                     *)
PollFlash(f) ==
  IF f \notin Registered(flashes) THEN RefusedFlash
  ELSE IF flashes[f].messages = <<>> THEN Served([flashes EXCEPT ![f].idle = 0], "flash_empty")
  ELSE Served([flashes EXCEPT ![f].idle = 0, ![f].messages = Tail(@)], "flash_data")

HandleMessage(m) ==
  CASE m.type = "flash_list_request" -> Served(flashes, "flash_list")
    [] m.type = "flash_connect" -> ConnectTab(m.flash, m.tab, m.pages)
    [] m.type = "flash_disconnect" -> CloseFlash(m.flash)
    [] m.type = "flash_data" -> PublishData(m.flash, m.tab, m.pages)

(* The broker comes to a request nobody waits for: it executes it, and its *)
(* reply ends the process with everything it held.                         *)
ServeAbandoned ==
  /\ brokerUp /\ orphaned
  /\ brokerUp' = FALSE /\ orphaned' = FALSE
  /\ flashes' = [f \in Flashes |-> NoEntry]
  /\ UNCHANGED <<AddonVars, DriverVars, brokerFaults>>

Restart ==
  /\ ~brokerUp /\ brokerUp' = TRUE
  /\ UNCHANGED <<flashes, orphaned, AddonVars, DriverVars, brokerFaults>>

(* Time passes between two connections.                                    *)
TimePasses ==
  /\ brokerUp /\ \E f \in Registered(flashes) : flashes[f].idle <= IdleLimit
  /\ flashes' = [f \in Flashes |-> IF f \in Registered(flashes) /\ flashes[f].idle <= IdleLimit
                                 THEN [flashes[f] EXCEPT !.idle = @ + 1] ELSE flashes[f]]
  /\ UNCHANGED <<brokerUp, orphaned, AddonVars, DriverVars, brokerFaults>>

(* A driver's beaconctl call: served, or given up while it waits for its   *)
(* turn.  A message taken out by a poll whose reply comes too late is gone. *)
DriverServed(outcome) ==
  /\ brokerUp /\ driverCalls < MaxDriverCalls
  /\ driverCalls' = driverCalls + 1
  /\ flashes' = outcome.entries
  /\ UNCHANGED <<brokerUp, orphaned, AddonVars>>
DriverCreates == \E f \in Flashes : DriverServed(CreateFlash(f)) /\ UNCHANGED <<polled, brokerFaults>>
DriverDisconnects == \E f \in Flashes : DriverServed(CloseFlash(f)) /\ UNCHANGED <<polled, brokerFaults>>
DriverPolls ==
  \E f \in Flashes :
    /\ DriverServed(PollFlash(f))
    /\ \/ /\ PollFlash(f).reply # "flash_data" /\ UNCHANGED <<polled, brokerFaults>>
       \/ /\ PollFlash(f).reply = "flash_data" /\ BrokerFault /\ UNCHANGED polled
       \/ /\ PollFlash(f).reply = "flash_data" /\ UNCHANGED brokerFaults
          /\ polled' = polled \cup {[pages |-> Head(flashes[f].messages), seen |-> flashes[f].seen]}
DriverGivesUp ==
  /\ brokerUp /\ driverCalls < MaxDriverCalls /\ BrokerFault
  /\ driverCalls' = driverCalls + 1 /\ orphaned' = TRUE
  /\ UNCHANGED <<brokerUp, flashes, AddonVars, polled>>

-----------------------------------------------------------------------------
(* The native host takes the next message of the port.  It answers with    *)
(* the broker's reply; or with an error when the broker is away, when it   *)
(* waited too long for its turn, or when the reply came too late.          *)

ListOf(e) == [f \in Flashes |-> e[f].status]
HostAnswers(type, entries) ==
  /\ port' = Tail(port)
  /\ replies' = Append(replies, [type |-> type, list |-> ListOf(entries)])
  /\ UNCHANGED <<promises, connection, flashList, asking, stopping, extracting, Traced, captured, watching,
                 pageOf, serial, clicks, DriverVars>>
Forward ==
  /\ port # <<>> /\ brokerUp
  /\ LET outcome == HandleMessage(Head(port)) IN
     /\ flashes' = outcome.entries
     /\ \/ HostAnswers(outcome.reply, flashes) /\ UNCHANGED brokerFaults
        \/ HostAnswers("error", flashes) /\ BrokerFault
  /\ UNCHANGED <<brokerUp, orphaned>>
ForwardFails ==
  /\ port # <<>>
  /\ HostAnswers("error", flashes)
  /\ orphaned' = brokerUp
  /\ IF brokerUp THEN BrokerFault ELSE UNCHANGED brokerFaults
  /\ UNCHANGED <<brokerUp, flashes>>

(* The native host ends: the port closes, every promise is rejected.  The  *)
(* content script is not told to stop watching.                            *)
OnDisconnect ==
  /\ BrokerFault
  /\ promises # <<>> \/ connection # NoConnection
  /\ port' = <<>> /\ replies' = <<>> /\ promises' = <<>>
  /\ connection' = NoConnection /\ captured' = {}
  /\ UNCHANGED <<flashList, asking, stopping, extracting, Traced, watching, pageOf, serial, clicks,
                 BrokerVars, DriverVars>>

-----------------------------------------------------------------------------
(* The addon's background script.                                          *)

SendNative(m) == port' = Append(port, m) /\ promises' = Append(promises, m)
NoSend == UNCHANGED <<port, promises>>
NativeMessage(type, f, t, n, pages) == [type |-> type, flash |-> f, tab |-> t, serial |-> n, pages |-> pages]

UserClicks ==
  /\ clicks < MaxClicks /\ clicks' = clicks + 1
  /\ UNCHANGED <<replies, pageOf, BrokerVars, DriverVars, brokerFaults>>

ListFlashes ==
  /\ UserClicks
  /\ SendNative(NativeMessage("flash_list_request", "none", "none", 0, {}))
  /\ UNCHANGED <<connection, flashList, asking, stopping, extracting, Traced, captured, watching, serial>>

(* connectFlash up to its first await: not while connected, and only a     *)
(* Flash the list shows as seeking.                                        *)
ConnectFlash ==
  \E f \in Flashes :
    /\ UserClicks /\ connection = NoConnection /\ flashList[f] = "seeking"
    /\ asking' = asking \cup {f} /\ NoSend
    /\ UNCHANGED <<connection, flashList, stopping, extracting, Traced, captured, watching, serial>>

(* The active tab is known: its URL must match the filter.                 *)
AskBroker ==
  \E f \in asking, t \in Tabs :
    /\ asking' = asking \ {f}
    /\ IF <<f, t>> \in MatchingTabs
       THEN /\ serial' = serial + 1
            /\ SendNative(NativeMessage("flash_connect", f, t, serial + 1, {pageOf[t]}))
       ELSE NoSend /\ UNCHANGED serial
    /\ UNCHANGED <<replies, connection, flashList, stopping, extracting, Traced, captured, watching, pageOf, clicks,
                   BrokerVars, DriverVars, brokerFaults>>

(* disconnectFlash up to its first await.                                  *)
DropConnection ==
  /\ connection' = NoConnection /\ captured' = {}
  /\ stopping' = IF connection = NoConnection THEN stopping ELSE stopping \cup {connection}
DisconnectFlash ==
  /\ UserClicks /\ DropConnection /\ NoSend
  /\ UNCHANGED <<flashList, asking, extracting, Traced, watching, serial>>

(* The trace has stopped, or the tab did not answer.                       *)
TraceStopped ==
  \E c \in stopping :
    /\ stopping' = stopping \ {c}
    /\ watching' = watching \ {c.tab}
    /\ SendNative(NativeMessage("flash_disconnect", c.flash, c.tab, 0, {}))
    /\ UNCHANGED <<replies, connection, flashList, asking, extracting, Traced, captured, pageOf, serial, clicks,
                   BrokerVars, DriverVars, brokerFaults>>

(* sendPage: network_info is posted at once, the page and its styles when  *)
(* the content script has answered and the connection is still the one     *)
(* that was selected.                                                      *)
FlashData(c, pages) == NativeMessage("flash_data", c.flash, c.tab, c.serial, pages)
SendNetwork ==
  /\ UserClicks /\ connection # NoConnection
  /\ SendNative(FlashData(connection, captured))
  /\ UNCHANGED <<connection, flashList, asking, stopping, extracting, Traced, captured, watching, serial>>
FromTab(kind) == [is |-> kind, selected |-> connection, pages |-> {pageOf[connection.tab]}]
SendPage ==
  /\ UserClicks /\ connection # NoConnection /\ NoSend
  /\ extracting' = extracting \cup {FromTab("page")}
  /\ UNCHANGED <<connection, flashList, asking, stopping, Traced, captured, watching, serial>>
StillTheTab(c) == connection.flash = c.flash /\ connection.tab = c.tab
StillSelected(c) == connection = c
PageExtracted ==
  \E x \in extracting :
    /\ x.is = "page" /\ extracting' = extracting \ {x}
    /\ IF StillSelected(x.selected) THEN SendNative(FlashData(x.selected, x.pages)) ELSE NoSend
    /\ UNCHANGED <<replies, connection, flashList, asking, stopping, Traced, captured, watching, pageOf, serial, clicks,
                   BrokerVars, DriverVars, brokerFaults>>

(* A tracepoint: the connected tab's content script starts to watch, and   *)
(* reports the changes it sees, also when the connection is gone.          *)
StartTrace ==
  /\ UserClicks /\ connection # NoConnection /\ NoSend
  /\ watching' = watching \cup {connection.tab}
  /\ UNCHANGED <<connection, flashList, asking, stopping, extracting, Traced, captured, serial>>
TracepointFires ==
  \E t \in watching :
    /\ tracepoints < MaxReports /\ tracepoints' = tracepoints + 1 /\ NoSend
    /\ \/ /\ connection # NoConnection /\ connection.tab = t
          /\ extracting' = extracting \cup {FromTab("report")} /\ UNCHANGED lateReports
       \/ /\ connection = NoConnection \/ connection.tab # t
          /\ lateReports' = lateReports \cup {t} /\ UNCHANGED extracting
    /\ UNCHANGED <<replies, connection, flashList, asking, stopping, captured, watching, pageOf, serial, clicks,
                   BrokerVars, DriverVars, brokerFaults>>
(* The background script gets a report and asks only whether its tab is    *)
(* connected: one made under another connection goes out under this one.   *)
(* Such a report does not count as taken from a page.                      *)
SendReport(t, pages) ==
  IF connection # NoConnection /\ connection.tab = t THEN SendNative(FlashData(connection, pages)) ELSE NoSend
ReportArrives ==
  /\ \/ \E x \in extracting :
          /\ x.is = "report" /\ extracting' = extracting \ {x} /\ UNCHANGED lateReports
          /\ SendReport(x.selected.tab, IF StillSelected(x.selected) THEN x.pages ELSE {})
     \/ \E t \in lateReports :
          lateReports' = lateReports \ {t} /\ SendReport(t, {}) /\ UNCHANGED extracting
  /\ UNCHANGED <<replies, connection, flashList, asking, stopping, captured, watching, pageOf, serial, clicks, tracepoints,
                 BrokerVars, DriverVars, brokerFaults>>

(* A request of the connected tab is captured.                             *)
OnBeforeRequest ==
  /\ connection # NoConnection
  /\ captured' = captured \cup {pageOf[connection.tab]}
  /\ NoSend
  /\ UNCHANGED <<replies, connection, flashList, asking, stopping, extracting, Traced, watching, pageOf, serial, clicks,
                 BrokerVars, DriverVars, brokerFaults>>

(* A tab starts to load another page (or closes): its content script is    *)
(* gone, and a connection to it is dropped.                                *)
TabNavigates ==
  \E t \in Tabs :
    /\ pageOf[t] < MaxNavigations
    /\ pageOf' = [pageOf EXCEPT ![t] = @ + 1]
    /\ watching' = watching \ {t}
    /\ IF connection.tab = t THEN DropConnection ELSE UNCHANGED <<connection, captured, stopping>>
    /\ NoSend
    /\ UNCHANGED <<replies, flashList, asking, extracting, Traced, serial, clicks, BrokerVars, DriverVars, brokerFaults>>

(* A reply settles the oldest promise.  One for flash_connect makes the    *)
(* connection, whatever has happened to it or to the tab in between.       *)
OnMessage ==
  /\ replies # <<>>
  /\ replies' = Tail(replies) /\ promises' = Tail(promises)
  /\ flashList' = IF Head(replies).type = "flash_list" THEN Head(replies).list ELSE flashList
  /\ IF Head(promises).type = "flash_connect" /\ Head(replies).type = "flash_connected"
     THEN /\ connection' = [flash |-> Head(promises).flash, tab |-> Head(promises).tab,
                            serial |-> Head(promises).serial]
          /\ captured' = {}
     ELSE UNCHANGED <<connection, captured>>
  /\ UNCHANGED <<port, asking, stopping, extracting, Traced, watching, pageOf, serial, clicks,
                 BrokerVars, DriverVars, brokerFaults>>

BeaconNext ==
  \/ ServeAbandoned \/ Restart \/ TimePasses
  \/ DriverCreates \/ DriverDisconnects \/ DriverPolls \/ DriverGivesUp
  \/ Forward \/ ForwardFails \/ OnDisconnect
  \/ ListFlashes \/ ConnectFlash \/ AskBroker \/ DisconnectFlash \/ TraceStopped
  \/ SendNetwork \/ SendPage \/ PageExtracted \/ StartTrace \/ TracepointFires \/ ReportArrives
  \/ OnBeforeRequest \/ TabNavigates \/ OnMessage

BeaconSpec == BeaconInit /\ [][BeaconNext]_BeaconVars

-----------------------------------------------------------------------------
(* Types of the state.                                                     *)
BeaconTypeOK ==
  /\ brokerUp \in BOOLEAN /\ orphaned \in BOOLEAN
  /\ \A f \in Flashes :
       /\ flashes[f].status \in {"none", "seeking", "connected"}
       /\ flashes[f].idle \in 0..IdleLimit + 1
       /\ flashes[f].messages \in Seq(SUBSET (0..MaxNavigations))
  /\ flashList \in [Flashes -> {"none", "seeking", "connected"}]
  /\ connection # NoConnection => connection.flash \in Flashes /\ connection.tab \in Tabs
  /\ asking \subseteq Flashes /\ watching \subseteq Tabs
  /\ pageOf \in [Tabs -> 0..MaxNavigations]

(* What a driver can poll from a Flash, and what it polled, is never from  *)
(* a page that its tab had left before the user clicked to connect this    *)
(* incarnation of the Flash: a navigation, a disconnect or the end of the  *)
(* native host revokes what was on its way under an earlier click, but for *)
(* the reports of a tracepoint, which name changes and nothing of a page.  *)
(* background.js compares the connection after its awaits for it, and the  *)
(* broker the status and the tab of every message.                         *)
PolledIsConsented ==
  /\ \A p \in polled : \A shown \in p.seen, taken \in p.pages : shown <= taken
  /\ \A f \in Flashes : \A i \in DOMAIN flashes[f].messages :
       \A shown \in flashes[f].seen, taken \in flashes[f].messages[i] : shown <= taken
=============================================================================
