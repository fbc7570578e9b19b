---------------------------- MODULE SpiderEngine ----------------------------
(***************************************************************************)
(* The crawl engine of one spider worker (plugins/spider/src/spider.cpp)   *)
(* and its LMDB cache.  worker_main alternates commands and ticks; a tick  *)
(* works on the front task of the frontier.  Everything the engine must    *)
(* remember is one record, kept in memory (mem) and, as of the last        *)
(* committed transaction, in the cache (disk).  A failed command or tick   *)
(* restores the record it started from; a crash restores disk.             *)
(***************************************************************************)
EXTENDS Integers, Sequences, FiniteSets

CONSTANTS
  Urls,        \* canonical URLs of the spider's origin
  Outside,     \* a URL of another origin
  LinksOf,     \* the links of each page, in document order
  Denied,      \* the URLs robots.txt disallows
  MaxFrontier, \* options.max_frontier
  MaxRetries,  \* options.max_retries
  MaxPages,    \* bound: the largest max_pages a command asks for
  MaxDepth,    \* bound: the largest max_depth a command asks for
  Options,     \* the options commands ask for: records of max_pages and max_depth
  Seeds,       \* the URLs commands start from
  DriverOps,   \* sequences of staged enqueues: records of a url and a depth
  MaxCommands, \* bound: commands the controller sends
  MaxFailures  \* bound: transactions that fail

ASSUME EngineConstants ==
  /\ Outside \notin Urls /\ Denied \subseteq Urls
  /\ LinksOf \in [Urls -> Seq(Urls \cup {Outside})]
  /\ MaxFrontier \in Nat \ {0} /\ MaxRetries \in Nat /\ MaxPages \in Nat \ {0}
  /\ Seeds \subseteq Urls /\ Options \subseteq [max_pages : 1..MaxPages, max_depth : 0..MaxDepth]
  /\ DriverOps \subseteq Seq([url : Urls \cup {Outside}, depth : Nat])
  /\ MaxDepth \in Nat /\ MaxCommands \in Nat /\ MaxFailures \in Nat

None == "none"

VARIABLES
  mem,      \* Impl: the fields state() writes and restore() reads
  disk,     \* durable: the "state" record of the cache
  paused,   \* Impl::paused, not part of the record
  pc,       \* "down", "idle", "fetch" (inside tick), "watch" (inside watch)
  before,   \* Engine::command and Engine::tick: the record to restore
  period,   \* the URL watch was called with, between its two transactions
  acked,    \* history: the schedule of the last answer, and whether it was
            \* given while memory and cache were parted
  parted,   \* history: "may" while a call that has committed goes on, "yes" from
            \* the failure of its second transaction to the next commit or start
  sent, failed  \* bounds: commands sent, transactions failed

EngineVars == <<mem, disk, paused, pc, before, period, acked, parted, sent, failed>>

Task == [url : Urls, depth : 0..MaxDepth, attempts : 0..MaxRetries]

(* done and manual are history: the URLs whose pages this epoch committed,  *)
(* and whether a task came from anything but the seed and page links.       *)
State == [origin : BOOLEAN, max_pages : 1..MaxPages, max_depth : 0..MaxDepth,
          frontier : Seq(Task), seen : SUBSET Urls, pages : 0..MaxPages,
          watch : Urls \cup {None}, due : BOOLEAN,
          done : SUBSET Urls, manual : BOOLEAN]
Fresh == [origin |-> FALSE, max_pages |-> MaxPages, max_depth |-> MaxDepth,
          frontier |-> <<>>, seen |-> {}, pages |-> 0, watch |-> None,
          due |-> FALSE, done |-> {}, manual |-> FALSE]

EngineInit ==
  /\ mem = Fresh /\ disk = Fresh /\ paused = TRUE /\ pc = "down" /\ before = Fresh
  /\ period = None /\ acked = [watch |-> None, apart |-> FALSE] /\ parted = "no"
  /\ sent = 0 /\ failed = 0

-----------------------------------------------------------------------------
(* enqueue(): Refused is allowed() throwing SecurityViolation, Full the     *)
(* ResourceLimit; a known URL or one too deep is passed over in silence.    *)
Passed(st, u, depth)  == depth > st.max_depth \/ u \in st.seen
Refused(st, u)        == u = Outside \/ ~st.origin
Full(st, u, depth)    == ~Passed(st, u, depth) /\ Cardinality(st.seen) >= MaxFrontier
Enqueued(st, u, depth) ==
  IF Passed(st, u, depth) THEN st
  ELSE [st EXCEPT !.seen = @ \cup {u},
                  !.frontier = Append(@, [url |-> u, depth |-> depth, attempts |-> 0])]

(* The link loop of tick(): a link of another origin is skipped, a full     *)
(* frontier ends the loop.                                                  *)
Discovered(st, links, depth) ==
  LET after[i \in 0..Len(links)] ==
        IF i = 0 THEN [st |-> st, open |-> TRUE]
        ELSE LET p == after[i - 1] IN
             IF ~p.open \/ Refused(p.st, links[i]) THEN p
             ELSE IF Full(p.st, links[i], depth) THEN [p EXCEPT !.open = FALSE]
             ELSE [p EXCEPT !.st = Enqueued(p.st, links[i], depth)]
  IN after[Len(links)].st

(* A new epoch: queue, seen set and counters start again from one URL. *)
Epoch(st, u) ==
  Enqueued([st EXCEPT !.frontier = <<>>, !.seen = {}, !.pages = 0, !.due = FALSE,
                      !.done = {}, !.manual = FALSE], u, 0)

-----------------------------------------------------------------------------
(* A commit, of a call that goes on to a second one or not. *)
Commits(st, pausing, more) ==
  /\ mem' = st /\ disk' = st /\ paused' = pausing /\ UNCHANGED failed
  /\ parted' = IF more THEN "may" ELSE "no"

(* Mutant: a transaction that fails neither restores the record nor pauses. *)
SaveInMemory(st, pausing, old, more) ==
  \/ Commits(st, pausing, more)
  \/ /\ failed < MaxFailures /\ failed' = failed + 1
     /\ mem' = st /\ paused' = pausing /\ UNCHANGED <<disk, parted>>

(* cache.write() is one transaction.  An LMDB error is not a prowsetk       *)
(* error: it reaches the catch-all of Engine::command and Engine::tick,     *)
(* which restores the record of before the call and pauses.                 *)
Save(st, pausing, old, more) ==
  \/ Commits(st, pausing, more)
  \/ /\ failed < MaxFailures /\ failed' = failed + 1
     /\ mem' = old /\ paused' = TRUE /\ UNCHANGED disk
     /\ parted' = IF parted = "may" THEN "yes" ELSE parted

(* The controller learns the schedule from an answer, and nothing from an   *)
(* error or a worker that died.                                             *)
Unknown == [watch |-> "unknown", apart |-> FALSE]
Answer(st) == acked' = IF disk' = st THEN [watch |-> st.watch, apart |-> FALSE] ELSE Unknown

-----------------------------------------------------------------------------
(* Commands.  Each starts from an idle engine and ends with one save().     *)
Asked == pc = "idle" /\ sent < MaxCommands /\ sent' = sent + 1

Command(st, pausing) ==
  /\ Asked /\ Save(st, pausing, mem, FALSE) /\ Answer(st)
  /\ UNCHANGED <<pc, before, period>>

Pause   == Command(mem, TRUE)
Resume  == Command(mem, FALSE)
Visit   == Command(mem, paused)    \* load-html, navigate, click, type: a snapshot
Unwatch == Command([mem EXCEPT !.watch = None, !.due = FALSE], paused)

(* status answers from memory and writes nothing. *)
Status ==
  /\ pc = "idle" /\ acked' = [watch |-> mem.watch, apart |-> parted = "yes"]
  /\ UNCHANGED <<mem, disk, paused, pc, before, period, parted, sent, failed>>

(* create and crawl: a canonical seed of the spider's origin *)
Begun(u, o) ==
  Epoch([mem EXCEPT !.origin = TRUE, !.max_pages = o.max_pages, !.max_depth = o.max_depth, !.watch = None], u)
Create(u, o) == Command(Begun(u, o), TRUE)
Crawl(u, o)  == Command(Begun(u, o), FALSE)

(* enqueue, or the frontier operations a driver staged: all of them in one  *)
(* transaction, or an Error that restores the record and does not pause.    *)
Staged(ops) ==
  LET after[i \in 0..Len(ops)] ==
        IF i = 0 THEN [st |-> [mem EXCEPT !.manual = TRUE], ok |-> TRUE]
        ELSE LET p == after[i - 1] u == ops[i].url d == ops[i].depth IN
             IF ~p.ok \/ Refused(p.st, u) \/ Full(p.st, u, d) THEN [p EXCEPT !.ok = FALSE]
             ELSE [p EXCEPT !.st = Enqueued(p.st, u, d)]
  IN after[Len(ops)]
Driver(ops) ==
  \/ Staged(ops).ok /\ Command(Staged(ops).st, paused)
  \/ /\ ~Staged(ops).ok /\ Asked
     /\ UNCHANGED <<mem, disk, paused, pc, before, period, acked, parted, failed>>

(* watch is a crawl with its own transaction, then a second one for the     *)
(* schedule; nobody is answered in between.                                 *)
Watch(u, o) ==
  /\ Asked /\ Save(Begun(u, o), FALSE, mem, TRUE) /\ acked' = Unknown /\ before' = mem
  /\ IF failed' = failed THEN pc' = "watch" /\ period' = u ELSE UNCHANGED <<pc, period>>
WatchSave ==
  LET st == [mem EXCEPT !.watch = period, !.due = FALSE] IN
  /\ pc = "watch" /\ pc' = "idle" /\ period' = None
  /\ Save(st, paused, before, FALSE) /\ Answer(st)
  /\ UNCHANGED <<before, sent>>

-----------------------------------------------------------------------------
(* tick(), at most one frontier operation *)
Over == mem.frontier = <<>> \/ mem.pages >= mem.max_pages
Ticking == pc = "idle" /\ ~paused

(* The epoch is over and no watch is set: a spent page budget pauses. *)
TickOver ==
  /\ Ticking /\ mem.watch = None /\ mem.pages >= mem.max_pages
  /\ paused' = TRUE /\ UNCHANGED <<mem, disk, pc, before, period, acked, parted, sent, failed>>

(* The epoch is over and a watch is set: schedule the next one.  due is     *)
(* revisit_at # 0; when that time comes is the clock's choice.              *)
TickSchedule ==
  /\ Ticking /\ Over /\ mem.watch # None /\ ~mem.due
  /\ Save([mem EXCEPT !.frontier = <<>>, !.due = TRUE], paused, mem, FALSE)
  /\ UNCHANGED <<pc, before, period, acked, sent>>
TickRevisit ==
  /\ Ticking /\ Over /\ mem.watch # None /\ mem.due
  /\ Save(Epoch(mem, mem.watch), paused, mem, TRUE) /\ before' = mem
  /\ pc' = IF failed' = failed THEN "fetch" ELSE "idle"
  /\ UNCHANGED <<period, acked, sent>>
TickFront ==
  /\ Ticking /\ ~Over /\ before' = mem /\ pc' = "fetch"
  /\ UNCHANGED <<mem, disk, paused, period, acked, parted, sent, failed>>

(* The front task, while robots.txt and then its page are requested; it     *)
(* stays in the durable frontier until its outcome is committed.            *)
Front == Head(mem.frontier)
Popped(st) == [st EXCEPT !.frontier = Tail(@)]

(* robots_allow(): the rules are this set whenever they are available       *)
RobotsAllow(u) == u \notin Denied

Visited ==
  LET st == IF Front.depth < mem.max_depth
            THEN Discovered(mem, LinksOf[Front.url], Front.depth + 1) ELSE mem
  IN [Popped(st) EXCEPT !.pages = @ + 1, !.done = @ \cup {Front.url}]

(* Mutant: attempts are not counted. *)
RetriedForEver == mem

(* The catch clause: one attempt too many drops the task, otherwise it      *)
(* stays in front with its attempt counted.                                 *)
Retried ==
  IF Front.attempts + 1 > MaxRetries THEN Popped(mem)
  ELSE [mem EXCEPT !.frontier[1].attempts = @ + 1]

Outcome(st) ==
  /\ pc = "fetch" /\ pc' = "idle" /\ Save(st, paused, before, FALSE)
  /\ UNCHANGED <<before, period, acked, sent>>

FetchPage == pc = "fetch" /\ RobotsAllow(Front.url) /\ Outcome(Visited)
FetchRetry == pc = "fetch" /\ Outcome(Retried)     \* 429, 5xx, no robots.txt, transport
FetchDropped == pc = "fetch" /\ Outcome(Popped(mem)) \* disallowed, 4xx, left the origin

-----------------------------------------------------------------------------
(* The worker process: killed at any point, started again by the daemon.    *)
(* The constructor restores the durable record and pauses.                  *)
Crash ==
  /\ pc # "down" /\ pc' = "down"
  /\ mem' = Fresh /\ before' = Fresh /\ period' = None /\ paused' = TRUE /\ parted' = "no"
  /\ UNCHANGED <<disk, acked, sent, failed>>
Start ==
  /\ pc = "down" /\ pc' = "idle" /\ mem' = disk /\ paused' = TRUE
  /\ UNCHANGED <<disk, before, period, acked, parted, sent, failed>>

Controller ==
  \/ Pause \/ Resume \/ Visit \/ Unwatch \/ Status
  \/ \E u \in Seeds, o \in Options :
       Create(u, o) \/ Crawl(u, o) \/ Watch(u, o)
  \/ \E ops \in DriverOps : Driver(ops)
Tick == TickOver \/ TickSchedule \/ TickRevisit \/ TickFront
          \/ FetchPage \/ FetchRetry \/ FetchDropped
EngineNext == Controller \/ WatchSave \/ Tick \/ Crash \/ Start

(* The worker's loop ticks whenever no command waits, and the daemon starts *)
(* a worker again when it is asked for it.                                  *)
EngineFairness == WF_EngineVars(WatchSave) /\ WF_EngineVars(Tick)
EngineSpec == EngineInit /\ [][EngineNext]_EngineVars /\ EngineFairness

-----------------------------------------------------------------------------
Records == {mem, disk}
Crawling == pc # "down" /\ ~paused

EngineTypeOK ==
  /\ mem \in State /\ disk \in State /\ before \in State
  /\ paused \in BOOLEAN /\ pc \in {"down", "idle", "fetch", "watch"}
  /\ period \in Urls \cup {None} /\ parted \in {"no", "may", "yes"}
  /\ acked \in [watch : Urls \cup {None, "unknown"}, apart : BOOLEAN]
  /\ sent \in 0..MaxCommands /\ failed \in 0..MaxFailures

(* A page and its task change hands in one transaction: in memory and on    *)
(* disk, after retries, rollbacks and crashes, no URL is both waiting and   *)
(* done or waiting twice, the page count is the number of different pages   *)
(* of the epoch, and ("frontiers are breadth-first", README) as long as     *)
(* only page links feed it the frontier is ordered by depth and spans at    *)
(* most two levels, also while its front task is retried.                   *)
FrontierIsSound ==
  \A st \in Records :
    LET waiting == {st.frontier[i].url : i \in DOMAIN st.frontier} IN
    /\ Cardinality(waiting) = Len(st.frontier)
    /\ waiting \cap st.done = {} /\ waiting \cup st.done \subseteq st.seen
    /\ st.pages = Cardinality(st.done) /\ st.pages <= st.max_pages
    /\ ~st.manual => \A i, j \in DOMAIN st.frontier : i < j =>
                       st.frontier[j].depth - st.frontier[i].depth \in 0..1

(* What the controller was told of the schedule is on disk, whatever        *)
(* crashes, failed transactions and ticks follow, and the record in memory, *)
(* which ticks work on and status answers from, is the one a restart would  *)
(* find.  The exception: watch and a revisit commit twice, and when the     *)
(* second transaction fails the catch-all restores the record of before the *)
(* first, which is no longer on disk.  Until the next commit the engine is  *)
(* paused, and what status answers meanwhile may be a schedule that a       *)
(* restart does not find.                                                   *)
ScheduleIsDurable ==
  /\ acked.watch # "unknown" /\ ~acked.apart => disk.watch = acked.watch
  /\ pc # "down" /\ parted # "yes" => mem = disk
  /\ parted = "yes" => ~Crawling

(* The record of a crawl is sound, whatever fails or crashes, and is the    *)
(* one on disk but for an engine paused by the failure of the second of two *)
(* transactions (spider.cpp, Engine::tick and Engine::command).             *)
RecordIsSound == FrontierIsSound /\ ScheduleIsDurable

(* A crawl goes on, whatever fails: the queue of a running engine empties   *)
(* (or its budget is spent and it pauses), no task that fails for ever      *)
(* holds it up, and a watched URL is fetched again.                         *)
CrawlGoesOn ==
  /\ (Crawling /\ mem.frontier # <<>>) ~> (~Crawling \/ mem.frontier = <<>>)
  /\ (Crawling /\ mem.watch # None)
       ~> (~Crawling \/ mem.watch = None \/ (pc = "fetch" /\ Front.url = mem.watch))

=============================================================================
