---------------------------- MODULE SpiderDaemon ----------------------------
(***************************************************************************)
(* ptkspiderd (src/plugins/spider/src/daemon.cpp): one poll loop that      *)
(* leases each named worker process to at most one control connection.     *)
(* One pass polls and accepts, then visits every connection in descriptor  *)
(* order ("serve", "settle"), then every worker in name order ("workers"), *)
(* all on the event flags collected at the start of the pass and keyed by  *)
(* descriptor number.  Peers and worker processes move at any time, and    *)
(* the daemon may be stopped or killed and started again.                  *)
(***************************************************************************)
EXTENDS Integers, FiniteSets

CONSTANTS
  NumNames,    \* spider names are 1..NumNames, in map order
  NumFds,      \* descriptors 1..NumFds serve connections and worker channels
  MaxClients,  \* connection limit (64 in the code)
  MaxSpiders,  \* --max-spiders
  Commands,    \* the control commands peers send
  Faults       \* what may go wrong: launches fail, the daemon is killed between
               \* two steps, or midway between deregistering and deleting a spider

AllCommands == {"ping", "create", "operate", "stop", "remove", "shutdown"}

ASSUME DaemonConstants ==
  /\ NumNames \in Nat /\ NumFds \in Nat /\ MaxClients \in Nat /\ MaxSpiders \in Nat
  /\ MaxSpiders <= NumFds
  /\ Commands \subseteq AllCommands
  /\ Faults \subseteq {"launch", "crash", "midway"}

Names == 1..NumNames
Fds   == 1..NumFds

NoFd   == -1      \* spider::Fd{}, and Worker::client when nobody holds the lease
Orphan == -2      \* Worker::client when the asker has disconnected

Requests  == [cmd : Commands, name : Names]
NoRequest == [cmd |-> "none", name |-> 0]

VARIABLES
  pc,        \* "poll", "serve", "settle", "workers", or "down"
  stopping,  \* stopping || shutdown_requested
  todo,      \* the connections or workers this pass still has to visit
  events,    \* std::map<int, short> events
  conns,     \* clients: the connection on each descriptor, with its peer
  workers,   \* workers: the Worker of each name, with its process
  registry,  \* durable: the names in the registry cache
  dirs,      \* durable: the names with a state directory
  acked,     \* history: spiders that have answered ok and were not removed
  torn       \* history: names whose deletion a kill cut short

vars == <<pc, stopping, todo, events, conns, workers, registry, dirs, acked, torn>>

(* req is what the peer sent and has no answer to yet; waiting once the      *)
(* daemon has taken it; out the reply being written; gone when the peer has  *)
(* closed its end.  A connection carries one request.                        *)
Conn == [live : BOOLEAN, req : Requests \cup {NoRequest}, waiting : BOOLEAN,
         out : {"none", "ok", "error"}, gone : BOOLEAN]
NoConn == [live |-> FALSE, req |-> NoRequest, waiting |-> FALSE, out |-> "none",
           gone |-> FALSE]

(* frame is the request on its way to the process, msg its reply on the way *)
(* back, late says that its watchdog deadline has passed.                   *)
Worker == [known : BOOLEAN, fd : Fds \cup {NoFd}, client : Fds \cup {NoFd, Orphan},
           newly : BOOLEAN, frame : {"none", "queued", "sent"},
           proc : {"none", "starting", "idle", "busy", "dead"},
           msg : {"none", "ok", "error"}, late : BOOLEAN]
NoWorker == [known |-> FALSE, fd |-> NoFd, client |-> NoFd, newly |-> FALSE,
             frame |-> "none", proc |-> "none", msg |-> "none", late |-> FALSE]

Live  == {f \in Fds : conns[f].live}
Known == {n \in Names : workers[n].known}
Least(S) == CHOOSE x \in S : \A y \in S : x <= y

Init ==
  /\ pc = "down" /\ stopping = FALSE /\ todo = {}
  /\ events = [f \in Fds |-> {}]
  /\ conns = [f \in Fds |-> NoConn] /\ workers = [n \in Names |-> NoWorker]
  /\ registry = {} /\ dirs = {} /\ acked = {} /\ torn = {}

-----------------------------------------------------------------------------
(* The kernel hands out the lowest free descriptor. *)
FreeFds == Fds \ (Live \cup {workers[n].fd : n \in Names})

(* launch(): the parent end of a fresh socket pair, and a process *)
Launched(f) == [NoWorker EXCEPT !.known = TRUE, !.fd = f, !.proc = "starting"]
MayFail == "launch" \in Faults \/ FreeFds = {}

(* terminate(): SIGKILL, reap, close.  Unread messages go with the socket.  *)
Terminated(w) == [w EXCEPT !.fd = NoFd, !.proc = "none", !.frame = "none",
                           !.msg = "none", !.late = FALSE]

(* The reply lambda: a connection that is gone gets nothing. *)
Reply(cs, f, result) ==
  IF f \in Fds /\ cs[f].live
  THEN [cs EXCEPT ![f] = [@ EXCEPT !.out = result, !.waiting = FALSE, !.req = NoRequest]]
  ELSE cs

(* The daemon process ends: the kernel closes its descriptors and its       *)
(* workers go with it (~Workers, PR_SET_PDEATHSIG).                         *)
Ends ==
  /\ pc' = "down" /\ stopping' = FALSE /\ todo' = {}
  /\ events' = [f \in Fds |-> {}]
  /\ conns' = [f \in Fds |-> NoConn] /\ workers' = [n \in Names |-> NoWorker]

(* Startup: the first max_spiders registered names are launched, in order.  *)
Recovered == {n \in registry : Cardinality({m \in registry : m < n}) < MaxSpiders}
Start ==
  /\ pc = "down" /\ pc' = "poll"
  /\ workers' = [n \in Names |->
       IF n \in Recovered
       THEN Launched(Cardinality({m \in Recovered : m <= n})) ELSE NoWorker]
  /\ UNCHANGED <<stopping, todo, events, conns, registry, dirs, acked, torn>>

Exit == pc = "poll" /\ stopping /\ Ends /\ UNCHANGED <<registry, dirs, acked, torn>>

Crash == pc # "down" /\ "crash" \in Faults /\ Ends /\ UNCHANGED <<registry, dirs, acked, torn>>

Signal ==
  /\ pc # "down" /\ ~stopping /\ stopping' = TRUE
  /\ UNCHANGED <<pc, todo, events, conns, workers, registry, dirs, acked, torn>>

-----------------------------------------------------------------------------
(* What poll() reports, per descriptor *)
ConnEvents(k) ==
  (IF ~k.waiting /\ (k.gone \/ k.req # NoRequest) THEN {"IN"} ELSE {})
    \cup (IF k.out # "none" THEN {"OUT"} ELSE {})
    \cup (IF k.gone THEN {"HUP"} ELSE {})
WorkerEvents(w) ==
  (IF w.msg # "none" \/ w.proc = "dead" THEN {"IN"} ELSE {})
    \cup (IF w.frame = "queued" THEN {"OUT"} ELSE {})
    \cup (IF w.proc = "dead" THEN {"HUP"} ELSE {})

Crowded == Cardinality(Live) >= MaxClients

(* poll, accept at most one connection, index the events by descriptor *)
Poll ==
  /\ pc = "poll" /\ ~stopping
  /\ events' = [f \in Fds |->
       (IF conns[f].live THEN ConnEvents(conns[f]) ELSE {}) \cup
       UNION {WorkerEvents(workers[n]) : n \in {m \in Names : workers[m].fd = f}}]
  /\ \/ conns' = conns
     \/ /\ FreeFds # {} /\ ~Crowded
        /\ conns' = [conns EXCEPT ![Least(FreeFds)] = [NoConn EXCEPT !.live = TRUE]]
  /\ pc' = "serve" /\ todo' = {f \in Fds : conns'[f].live}
  /\ UNCHANGED <<stopping, workers, registry, dirs, acked, torn>>

(* Every connection was visited: on to the workers, then to the next pass.  *)
EndClients ==
  /\ pc = "serve" /\ todo = {}
  /\ pc' = "workers" /\ todo' = Known
  /\ UNCHANGED <<stopping, events, conns, workers, registry, dirs, acked, torn>>
EndWorkers ==
  /\ pc = "workers" /\ todo = {}
  /\ pc' = "poll" /\ events' = [f \in Fds |-> {}]
  /\ UNCHANGED <<stopping, todo, conns, workers, registry, dirs, acked, torn>>

-----------------------------------------------------------------------------
(* The connection loop.  Visiting(c, cmd): c's request is readable and next. *)
Readable(c) ==
  /\ ~conns[c].waiting /\ conns[c].out = "none"
  /\ "IN" \in events[c] /\ conns[c].req # NoRequest
Visiting(c, cmd) ==
  /\ pc = "serve" /\ todo # {} /\ c = Least(todo)
  /\ Readable(c) /\ conns[c].req.cmd = cmd
  /\ pc' = "settle" /\ UNCHANGED <<todo, events>>

Pass ==
  /\ pc = "serve" /\ todo # {} /\ ~Readable(Least(todo))
  /\ pc' = "settle"
  /\ UNCHANGED <<stopping, todo, events, conns, workers, registry, dirs, acked, torn>>

Answer(c, result) == conns' = Reply(conns, c, result)
Await(c) == conns' = [conns EXCEPT ![c].waiting = TRUE]

(* ping, list and everything malformed are answered at once *)
Ping(c) ==
  /\ Visiting(c, "ping")
  /\ Answer(c, "ok")
  /\ UNCHANGED <<stopping, workers, registry, dirs, acked, torn>>

(* The acknowledgement is written before the pass goes on. *)
Shutdown(c) ==
  /\ Visiting(c, "shutdown")
  /\ stopping' = TRUE /\ Await(c)
  /\ UNCHANGED <<workers, registry, dirs, acked, torn>>

(* Hand the request of connection c to a worker of its name. *)
Leased(w, c) == [w EXCEPT !.client = c, !.frame = "queued", !.late = FALSE]

Full == Cardinality(Known) >= MaxSpiders

(* AlreadyExists, ResourceLimit; or the name is registered, launched and    *)
(* leased.  When the launch throws, the registry keeps the name.            *)
Create(c) ==
  /\ Visiting(c, "create")
  /\ LET n == conns[c].req.name IN
     \/ /\ workers[n].known \/ n \in dirs \/ Full
        /\ Answer(c, "error") /\ UNCHANGED <<workers, registry>>
     \/ /\ ~workers[n].known /\ n \notin dirs /\ ~Full
        /\ registry' = registry \cup {n}
        /\ \/ MayFail /\ Answer(c, "error") /\ UNCHANGED workers
           \/ /\ FreeFds # {}
              /\ Await(c)
              /\ workers' = [workers EXCEPT ![n] =
                   Leased([Launched(Least(FreeFds)) EXCEPT !.newly = TRUE], c)]
  /\ UNCHANGED <<stopping, dirs, acked, torn>>

(* Every command that goes to the engine: NotFound, Busy, or leased, on a   *)
(* relaunched worker if there is no process.                                *)
Operate(c) ==
  /\ Visiting(c, "operate")
  /\ LET n == conns[c].req.name
         w == workers[n] IN
     \/ /\ ~w.known \/ w.client # NoFd
        /\ Answer(c, "error") /\ UNCHANGED workers
     \/ /\ w.known /\ w.client = NoFd /\ w.fd # NoFd
        /\ Await(c)
        /\ workers' = [workers EXCEPT ![n] = Leased(w, c)]
     \/ /\ w.known /\ w.client = NoFd /\ w.fd = NoFd
        /\ \/ MayFail /\ Answer(c, "error") /\ UNCHANGED workers
           \/ /\ FreeFds # {}
              /\ Await(c)
              /\ workers' = [workers EXCEPT ![n] = Leased(Launched(Least(FreeFds)), c)]
  /\ UNCHANGED <<stopping, registry, dirs, acked, torn>>

(* Whoever holds the lease of a stopped worker is told so. *)
Cancel(w) == Reply(conns, w.client, "error")

Stop(c) ==
  /\ Visiting(c, "stop")
  /\ LET n == conns[c].req.name
         w == workers[n] IN
     \/ ~w.known /\ Answer(c, "error") /\ UNCHANGED workers
     \/ /\ w.known
        /\ conns' = Reply(Cancel(w), c, "ok")
        /\ workers' = [workers EXCEPT ![n] = [Terminated(w) EXCEPT !.client = NoFd]]
  /\ UNCHANGED <<stopping, registry, dirs, acked, torn>>

(* remove_all of a spider's directory.  The mutant leaves it behind.        *)
KeepingState(n) == dirs
WithoutState(n) == dirs \ {n}

Remove(c) ==
  /\ Visiting(c, "remove")
  /\ LET n == conns[c].req.name
         w == workers[n] IN
     \/ /\ ~w.known /\ Answer(c, "error")
        /\ UNCHANGED <<workers, registry, dirs, acked, torn>>
     \/ /\ w.known
        /\ conns' = Reply(Cancel(w), c, "ok")
        /\ workers' = [workers EXCEPT ![n] = NoWorker]
        /\ registry' = registry \ {n} /\ dirs' = WithoutState(n) /\ acked' = acked \ {n}
  /\ UNCHANGED <<stopping, torn>>

(* The daemon is killed between deregistering a name and deleting its       *)
(* directory, or within the deletion.                                       *)
Tears(n) ==
  /\ "midway" \in Faults
  /\ registry' = registry \ {n} /\ torn' = torn \cup (dirs \cap {n}) /\ acked' = acked \ {n}
  /\ Ends /\ UNCHANGED dirs
RemoveMidway(c) ==
  /\ pc = "serve" /\ todo # {} /\ c = Least(todo) /\ Readable(c)
  /\ conns[c].req.cmd = "remove" /\ workers[conns[c].req.name].known
  /\ Tears(conns[c].req.name)

(* Mutant: the lease of a dropped connection still names its descriptor. *)
OrphanedNot(ws, c) == ws

(* The lease of a dropped connection waits for its worker, owned by nobody. *)
Orphaned(ws, c) ==
  [n \in Names |-> IF ws[n].client = c THEN [ws[n] EXCEPT !.client = Orphan] ELSE ws[n]]

(* Flushed (or unwritable), expired after five idle seconds, or hung up *)
Dropped(c) ==
  /\ conns' = [conns EXCEPT ![c] = NoConn]
  /\ workers' = Orphaned(workers, c)
Settle(c) ==
  /\ pc = "settle" /\ c = Least(todo)
  /\ \/ /\ \/ "HUP" \in events[c]
           \/ "OUT" \in events[c] /\ conns[c].out # "none"
           \/ ~conns[c].waiting /\ conns[c].out = "none"
        /\ Dropped(c)
     \/ "HUP" \notin events[c] /\ UNCHANGED <<conns, workers>>
  /\ pc' = "serve" /\ todo' = todo \ {c}
  /\ UNCHANGED <<stopping, events, registry, dirs, acked, torn>>

-----------------------------------------------------------------------------
(* The worker loop *)
(* Mutant: the first success does not make the spider permanent. *)
NewlyKept(w, result) == w.newly

(* A create that failed leaves newly_created set; any success clears it.    *)
NewlyAfter(w, result) == w.newly /\ result = "error"

(* A reply releases the lease, whoever asked.  The mutant releases it only   *)
(* to a connection that is still there.                                      *)
ReleasedToAsker(w) == IF w.client = Orphan THEN Orphan ELSE NoFd
Released(w) == NoFd

(* What the pass does with a worker: it writes the request and reads the    *)
(* reply the events tell of; After is the worker then, EndsNow says that it *)
(* is terminated: hung up, broken off, dead, a create refused, or late.     *)
Seen(n)  == IF workers[n].fd = NoFd THEN {} ELSE events[workers[n].fd]
Hup(n)   == "HUP" \in Seen(n)
Wrote(n) == ~Hup(n) /\ "OUT" \in Seen(n) /\ workers[n].frame = "queued" /\ workers[n].proc # "dead"
Broke(n) == ~Hup(n) /\ "OUT" \in Seen(n) /\ workers[n].frame = "queued" /\ workers[n].proc = "dead"
Reads(n) == ~Hup(n) /\ ~Broke(n) /\ "IN" \in Seen(n)
Got(n)   == Reads(n) /\ workers[n].msg # "none"
After(n) == [workers[n] EXCEPT !.frame = IF Wrote(n) THEN "sent" ELSE @,
                               !.msg = IF Got(n) THEN "none" ELSE @,
                               !.client = IF Got(n) THEN Released(workers[n]) ELSE @,
                               !.newly = IF Got(n) THEN NewlyAfter(workers[n], workers[n].msg) ELSE @,
                               !.late = @ /\ ~Got(n)]
EndsNow(n) == workers[n].fd # NoFd /\
                (\/ Hup(n) \/ Broke(n)
                 \/ Reads(n) /\ workers[n].proc = "dead"
                 \/ Got(n) /\ After(n).newly
                 \/ After(n).late)

(* A spider that ends before its create was acknowledged is rolled back.    *)
WorkerTurn(n) ==
  /\ pc = "workers" /\ todo # {} /\ n = Least(todo)
  /\ todo' = todo \ {n}
  /\ conns' = IF Got(n) THEN Reply(conns, workers[n].client, workers[n].msg)
              ELSE IF EndsNow(n) THEN Reply(conns, workers[n].client, "error") ELSE conns
  /\ acked' = IF Got(n) /\ workers[n].msg = "ok" THEN acked \cup {n} ELSE acked
  /\ IF EndsNow(n) /\ After(n).newly
     THEN /\ workers' = [workers EXCEPT ![n] = NoWorker]
          /\ registry' = registry \ {n} /\ dirs' = WithoutState(n)
     ELSE /\ workers' = [workers EXCEPT ![n] =
               IF EndsNow(n) THEN [Terminated(After(n)) EXCEPT !.client = NoFd] ELSE After(n)]
          /\ UNCHANGED <<registry, dirs>>
  /\ UNCHANGED <<pc, stopping, events, torn>>

(* The daemon is killed midway through a rollback.                          *)
RollbackMidway(n) ==
  /\ pc = "workers" /\ todo # {} /\ n = Least(todo)
  /\ EndsNow(n) /\ After(n).newly /\ Tears(n)

-----------------------------------------------------------------------------
(* The peers and the worker processes (worker_main).  The daemon sees what   *)
(* a peer does only through poll, so peers move between passes.              *)
Send(f) ==
  /\ pc = "poll"
  /\ conns[f].live /\ conns[f].req = NoRequest /\ conns[f].out = "none" /\ ~conns[f].gone
  /\ \E r \in Requests : conns' = [conns EXCEPT ![f].req = r]
  /\ UNCHANGED <<pc, stopping, todo, events, workers, registry, dirs, acked, torn>>

Disconnect(f) ==
  /\ pc = "poll"
  /\ conns[f].live /\ ~conns[f].gone
  /\ conns' = [conns EXCEPT ![f].gone = TRUE]
  /\ UNCHANGED <<pc, stopping, todo, events, workers, registry, dirs, acked, torn>>

Proc(n, from, w) ==
  /\ workers[n].proc \in from
  /\ workers' = [workers EXCEPT ![n] = w]
  /\ UNCHANGED <<pc, stopping, todo, events, conns, registry, acked, torn>>

(* Engine's constructor opens, and so creates, the state directory.         *)
Boots(n) == Proc(n, {"starting"}, [workers[n] EXCEPT !.proc = "idle"])
              /\ dirs' = dirs \cup {n}
Takes(n) == workers[n].frame = "sent" /\ UNCHANGED dirs
              /\ Proc(n, {"idle"}, [workers[n] EXCEPT !.proc = "busy", !.frame = "none"])
Responds(n) == UNCHANGED dirs /\ \E result \in {"ok", "error"} :
                 Proc(n, {"busy"}, [workers[n] EXCEPT !.proc = "idle", !.msg = result])
Dies(n) == UNCHANGED dirs
             /\ Proc(n, {"starting", "idle", "busy"}, [workers[n] EXCEPT !.proc = "dead"])
(* No heartbeat: the process is still booting or deep in an operation.      *)
Late(n) == UNCHANGED dirs /\ ~workers[n].late
             /\ Proc(n, {"starting", "busy"}, [workers[n] EXCEPT !.late = TRUE])

-----------------------------------------------------------------------------
Visit(c) == Ping(c) \/ Shutdown(c) \/ Create(c) \/ Operate(c) \/ Stop(c) \/ Remove(c)
              \/ RemoveMidway(c) \/ Settle(c)
Loop == \/ Exit \/ Poll \/ Pass \/ EndClients \/ EndWorkers
        \/ \E c \in Fds : Visit(c)
        \/ \E n \in Names : WorkerTurn(n) \/ RollbackMidway(n)
Process(n) == Boots(n) \/ Takes(n) \/ Responds(n) \/ Dies(n) \/ Late(n)
Next == Start \/ Crash \/ Signal \/ Loop
          \/ (\E f \in Fds : Send(f) \/ Disconnect(f))
          \/ (\E n \in Names : Process(n))

Spec == Init /\ [][Next]_vars

(* The loop keeps polling (poll times out after 100 ms), time passes for a  *)
(* silent worker, and an idle worker reads its channel.                     *)
FairSpec ==
  /\ Spec /\ WF_vars(Loop)
  /\ \A n \in Names : WF_vars(Takes(n)) /\ WF_vars(Late(n))

-----------------------------------------------------------------------------
TypeOK ==
  /\ pc \in {"poll", "serve", "settle", "workers", "down"} /\ stopping \in BOOLEAN
  /\ todo \subseteq Fds \cup Names
  /\ events \in [Fds -> SUBSET {"IN", "OUT", "HUP"}]
  /\ conns \in [Fds -> Conn] /\ workers \in [Names -> Worker]
  /\ registry \subseteq Names /\ dirs \subseteq Names /\ acked \subseteq Names /\ torn \subseteq Names
  /\ Cardinality(Live) <= MaxClients /\ Cardinality(Known) <= MaxSpiders

(* A lease names the very connection that is waiting for that spider, even  *)
(* after descriptors are closed and reused, so a reply cannot reach another; *)
(* and a connection that waits, which is never expired, has its lease.       *)
LeaseIsTheAskers ==
  /\ \A n \in Names : workers[n].client \in Fds =>
       LET k == conns[workers[n].client] IN k.live /\ k.waiting /\ k.req.name = n
  /\ \A f \in Fds : conns[f].waiting /\ ~stopping =>
       workers[conns[f].req.name].client = f /\ workers[conns[f].req.name].fd # NoFd

(* A spider that has answered ok stays registered, with its state, until it *)
(* is removed: through stops, crashes of its worker and of the daemon.      *)
AcknowledgedIsDurable == acked \subseteq registry /\ acked \subseteq dirs

(* README.md "Longevity and recovery": a restart recovers the registered    *)
(* workers, so every acknowledged spider is known to a running daemon.      *)
AcknowledgedIsRecovered == pc # "down" => acked \subseteq Known

(* README.md command table, remove: "Terminate and delete the spider and    *)
(* its cache".  A directory without a spider refuses create (AlreadyExists) *)
(* as well as remove (NotFound): the name is wedged.  Only a kill between   *)
(* the registry's write and the deletion does that to a name.               *)
NoNameIsWedged == pc # "down" => dirs \subseteq Known \cup torn

(* The live map, the registry and the directories agree whenever the daemon *)
(* serves, wherever it was killed before: no acknowledged spider is         *)
(* forgotten, and no directory is left that blocks its name but those whose *)
(* deletion a kill cut short (daemon.cpp, create and its rollback, remove   *)
(* and the launches at startup), as long as no launch fails.                *)
DaemonKnowsItsSpiders == AcknowledgedIsRecovered /\ NoNameIsWedged

(* README.md "Longevity and recovery": "A disconnected client does not      *)
(* cancel a dispatched operation."  The hang-up the loop acts on must be    *)
(* the worker's own.                                                        *)
DisconnectCancelsNothing ==
  pc = "workers" => \A n \in todo :
    workers[n].fd # NoFd /\ "HUP" \in events[workers[n].fd] => workers[n].proc = "dead"

(* A lease is released: whatever the worker, its asker or its operation do, *)
(* the spider does not answer Busy for ever.                                *)
LeasesAreReleased ==
  \A n \in Names : workers[n].client # NoFd ~> workers[n].client = NoFd
=============================================================================
