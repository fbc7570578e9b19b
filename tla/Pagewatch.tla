------------------------------ MODULE Pagewatch ------------------------------
(***************************************************************************)
(* The page watcher (tools/pagewatch): one daemon process that supervises  *)
(* a worker process per watcher, numbers the changes they report, keeps a  *)
(* bounded history of them, runs an action process per change and answers  *)
(* controllers.  The daemon's loop is one thread, so a message, a command  *)
(* or a pass over the actions is one step; a crash may fall between the    *)
(* two files a change is written to.                                       *)
(***************************************************************************)
EXTENDS Integers, Sequences, FiniteSets, Positions

CONSTANTS
  Watchers,     \* watcher names
  Contents,     \* what the watched page may hold
  NoData,       \* no sample yet
  EmitInitial,  \* DaemonConfig::emit_initial
  MaxHistory,   \* updates kept per watcher (16)
  MaxPending,   \* jobs_ (32)
  MaxRunning,   \* actions_ (4)
  MaxEdits,     \* bound: changes of the page
  MaxDeploys,   \* bound: deploy, update, resume and remove commands
  MaxFaults,    \* bound: crashes of the daemon, hung or failed workers
  MaxInFlight,  \* bound: messages of one worker the daemon has not read
  MaxUnwritten  \* bound: file writes that fail

ASSUME PagewatchConstants ==
  /\ NoData \notin Contents /\ EmitInitial \in BOOLEAN
  /\ {MaxHistory, MaxPending, MaxRunning} \subseteq Nat \ {0}
  /\ {MaxEdits, MaxDeploys, MaxFaults, MaxUnwritten} \subseteq Nat

VARIABLES
  page,     \* what the server serves
  pgUp,     \* whether the daemon runs
  watch,    \* watches_: see Watch
  files,    \* the watcher directories: tab.json and state.toml
  prev,     \* each worker's last reported sample
  ipc,      \* each worker's messages on the way to the daemon
  jobs,     \* jobs_, of a name and a sequence number
  running,  \* actions_, likewise
  started,  \* history: per deployment, the sequence numbers of started actions
  newest,   \* history: what the newest number was given to, and whether its two
            \* files came apart
  pgBounds  \* the bounded counters

PgVars == <<page, pgUp, watch, files, prev, ipc, jobs, running, started, newest,
           pgBounds>>

(* pid is "none", "up" or "hung"; the status word and the counters that     *)
(* status() only shows are left out.                                        *)
Idle == [deployed |-> FALSE, pid |-> "none",
         data |-> NoData, seq |-> 0, updates |-> <<>>]
NoFiles == [deployed |-> FALSE, tab |-> NoData, seq |-> 0]
Unnumbered == [data |-> NoData, apart |-> FALSE]

PgInit ==
  /\ page \in Contents /\ pgUp = TRUE
  /\ watch = [w \in Watchers |-> Idle] /\ files = [w \in Watchers |-> NoFiles]
  /\ prev = [w \in Watchers |-> NoData] /\ ipc = [w \in Watchers |-> <<>>]
  /\ jobs = <<>> /\ running = {} /\ started = [w \in Watchers |-> <<>>]
  /\ newest = [w \in Watchers |-> Unnumbered]
  /\ pgBounds = [edits |-> 0, deploys |-> 0, faults |-> 0, unwritten |-> 0]

Below(field, max) ==
  /\ pgBounds[field] < max /\ pgBounds' = [pgBounds EXCEPT ![field] = @ + 1]

-----------------------------------------------------------------------------
(* start and halt.  The worker begins from the snapshot file.               *)
Started(wt) == [wt EXCEPT !.pid = IF @ = "none" THEN "up" ELSE @]
Halted(wt) == [wt EXCEPT !.pid = "none"]
(* Mutant: the worker begins from what the page holds now. *)
BeginFromPage(w, tab) ==
  /\ prev' = [prev EXCEPT ![w] = page] /\ ipc' = [ipc EXCEPT ![w] = <<>>]

Begin(w, tab) ==
  /\ prev' = [prev EXCEPT ![w] = tab] /\ ipc' = [ipc EXCEPT ![w] = <<>>]
Cut(w) == ipc' = [ipc EXCEPT ![w] = <<>>] /\ UNCHANGED prev

(* message(): a sample the daemon does not have yet *)
Sampled(wt, data) ==
  LET kept == Append(wt.updates, wt.seq + 1) IN
  [wt EXCEPT !.data = data, !.seq = @ + 1,
             !.updates = IF Len(kept) > MaxHistory THEN Tail(kept) ELSE kept]
Queued(w, wt) ==
  IF (wt.seq = 0 /\ ~EmitInitial) \/ Len(jobs) >= MaxPending THEN jobs
  ELSE Append(jobs, [name |-> w, seq |-> wt.seq + 1])

Received(w, kind) == pgUp /\ ipc[w] # <<>> /\ Head(ipc[w]).kind = kind
Rest(w) == ipc' = [ipc EXCEPT ![w] = Tail(@)]

Sample(w) ==
  LET data == Head(ipc[w]).data IN
  /\ Received(w, "sample") /\ Rest(w)
  /\ IF watch[w].data = data
     THEN UNCHANGED <<watch, files, jobs, newest>>
     ELSE /\ watch' = [watch EXCEPT ![w] = Sampled(@, data)]
          /\ files' = [files EXCEPT ![w].tab = data, ![w].seq = watch[w].seq + 1]
          /\ jobs' = Queued(w, watch[w])
          /\ newest' = [newest EXCEPT ![w] = [data |-> data, apart |-> FALSE]]
  /\ UNCHANGED <<page, pgUp, prev, running, started, pgBounds>>

(* write_file of tab.json fails: the number is taken, the catch clause of   *)
(* run() fails the worker and saves the number; no update and no job.       *)
SampleUnwritten(w) ==
  /\ Received(w, "sample") /\ watch[w].data # Head(ipc[w]).data
  /\ Below("unwritten", MaxUnwritten)
  /\ watch' = [watch EXCEPT ![w] = [Halted(watch[w]) EXCEPT !.data = Head(ipc[w]).data, !.seq = watch[w].seq + 1]]
  /\ files' = [files EXCEPT ![w].seq = watch[w].seq + 1] /\ Cut(w)
  /\ newest' = [newest EXCEPT ![w] = [data |-> Head(ipc[w]).data, apart |-> TRUE]]
  /\ UNCHANGED <<page, pgUp, jobs, running, started>>

(* fatal, or an end of file: halt.  ready, error and heartbeat only show.   *)
Fatal(w) ==
  /\ Received(w, "fatal") /\ watch' = [watch EXCEPT ![w] = Halted(@)] /\ Cut(w)
  /\ UNCHANGED <<page, pgUp, files, jobs, running, started, newest, pgBounds>>

(* The watchdog: only a hung worker goes without a heartbeat for that long. *)
Timeout(w) ==
  /\ pgUp /\ watch[w].pid = "hung" /\ ipc[w] = <<>>
  /\ watch' = [watch EXCEPT ![w] = Halted(@)] /\ Cut(w)
  /\ UNCHANGED <<page, pgUp, files, jobs, running, started, newest, pgBounds>>

-----------------------------------------------------------------------------
(* worker(): sample the page, report what changed; a worker may hang in its *)
(* script or give up.                                                       *)
Work(w, kind, data) ==
  /\ watch[w].pid = "up" /\ Len(ipc[w]) < MaxInFlight
  /\ ipc' = [ipc EXCEPT ![w] = Append(@, [kind |-> kind, data |-> data])]
  /\ UNCHANGED <<page, pgUp, watch, files, jobs, running, started, newest>>
Poll(w) ==
  /\ page # prev[w] /\ Work(w, "sample", page)
  /\ prev' = [prev EXCEPT ![w] = page] /\ UNCHANGED pgBounds
GiveUp(w) ==
  /\ Work(w, "fatal", NoData) /\ Below("faults", MaxFaults) /\ UNCHANGED prev
Hang(w) ==
  /\ watch[w].pid = "up" /\ watch' = [watch EXCEPT ![w].pid = "hung"]
  /\ Below("faults", MaxFaults)
  /\ UNCHANGED <<page, pgUp, files, prev, ipc, jobs, running, started, newest>>
Edit ==
  /\ Below("edits", MaxEdits) /\ page' \in Contents \ {page}
  /\ UNCHANGED <<pgUp, watch, files, prev, ipc, jobs, running, started, newest>>

-----------------------------------------------------------------------------
(* command() *)
Deploy(w) ==   \* deploy, or update, which replaces a deployment and keeps its snapshot
  /\ pgUp /\ Below("deploys", MaxDeploys)
  /\ watch' = [watch EXCEPT ![w] = [Started(Halted(@)) EXCEPT !.deployed = TRUE]]
  /\ files' = [files EXCEPT ![w].deployed = TRUE, ![w].seq = watch[w].seq]
  /\ Begin(w, files[w].tab)
  /\ UNCHANGED <<page, pgUp, jobs, running, started, newest>>
PauseWatch(w) ==
  /\ pgUp /\ watch[w].pid # "none" /\ watch' = [watch EXCEPT ![w] = Halted(@)] /\ Cut(w)
  /\ UNCHANGED <<page, pgUp, files, jobs, running, started, newest, pgBounds>>
ResumeWatch(w) ==
  /\ pgUp /\ watch[w].deployed /\ watch[w].pid = "none" /\ Below("deploys", MaxDeploys)
  /\ watch' = [watch EXCEPT ![w] = Started(@)] /\ Begin(w, files[w].tab)
  /\ UNCHANGED <<page, pgUp, files, jobs, running, started, newest>>
Remove(w) ==
  /\ pgUp /\ watch[w].deployed
  /\ watch' = [watch EXCEPT ![w] = Idle] /\ files' = [files EXCEPT ![w] = NoFiles]
  /\ jobs' = AtPositions(jobs, {i \in DOMAIN jobs : jobs[i].name # w})
  /\ running' = {a \in running : a.name # w} /\ started' = [started EXCEPT ![w] = <<>>]
  /\ newest' = [newest EXCEPT ![w] = Unnumbered]
  /\ Cut(w) /\ UNCHANGED <<page, pgUp, pgBounds>>

(* Mutant: an empty history, as after a restart, has lost nothing. *)
LostUnlessEmpty(wt, since) ==
  since < wt.seq /\ wt.updates # <<>> /\ since < wt.updates[1] - 1

(* updates(since): lost, and the numbers of the events returned *)
Lost(wt, since) == since < wt.seq /\ (wt.updates = <<>> \/ since < wt.updates[1] - 1)
Events(wt, since) == {wt.updates[i] : i \in DOMAIN wt.updates} \ 0..since

-----------------------------------------------------------------------------
(* actions(): finished or overdue actions go, then the first job whose      *)
(* watcher has none running starts.                                         *)
FinishAction(a) ==
  /\ pgUp /\ a \in running /\ running' = running \ {a}
  /\ UNCHANGED <<page, pgUp, watch, files, prev, ipc, jobs, started, newest, pgBounds>>
Eligible(i) == \A a \in running : a.name # jobs[i].name
StartAction ==
  \E i \in DOMAIN jobs :
    /\ pgUp /\ Cardinality(running) < MaxRunning
    /\ Eligible(i) /\ \A k \in 1..(i - 1) : ~Eligible(k)
    /\ jobs' = AtPositions(jobs, DOMAIN jobs \ {i})
    /\ running' = running \cup {jobs[i]}
    /\ started' = [started EXCEPT ![jobs[i].name] = Append(@, jobs[i].seq)]
    /\ UNCHANGED <<page, pgUp, watch, files, prev, ipc, newest, pgBounds>>

-----------------------------------------------------------------------------
(* The daemon dies with its children, possibly between the snapshot and the *)
(* counters of a sample; run() of the next one reads the directories and    *)
(* leaves every watcher paused.                                             *)
Die ==
  /\ pgUp' = FALSE /\ jobs' = <<>> /\ running' = {}
  /\ watch' = [w \in Watchers |-> Idle] /\ ipc' = [w \in Watchers |-> <<>>]
  /\ Below("faults", MaxFaults) /\ UNCHANGED <<page, prev, started>>
PgCrash == pgUp /\ Die /\ UNCHANGED <<files, newest>>
PgCrashTorn(w) ==
  /\ Received(w, "sample") /\ watch[w].data # Head(ipc[w]).data
  /\ files' = [files EXCEPT ![w].tab = Head(ipc[w]).data] /\ Die
  /\ newest' = [newest EXCEPT ![w].apart = TRUE]
PgRestart ==
  /\ ~pgUp /\ pgUp' = TRUE
  /\ watch' = [w \in Watchers |->
                [Idle EXCEPT !.deployed = files[w].deployed, !.data = files[w].tab, !.seq = files[w].seq]]
  /\ UNCHANGED <<page, files, prev, ipc, jobs, running, started, newest, pgBounds>>

-----------------------------------------------------------------------------
PgNext ==
  \/ Edit \/ StartAction \/ PgCrash \/ PgRestart \/ \E a \in running : FinishAction(a)
  \/ \E w \in Watchers :
       \/ Sample(w) \/ SampleUnwritten(w) \/ Fatal(w) \/ Timeout(w)
       \/ Poll(w) \/ GiveUp(w) \/ Hang(w)
       \/ Deploy(w) \/ PauseWatch(w) \/ ResumeWatch(w) \/ Remove(w) \/ PgCrashTorn(w)

(* Workers poll on an interval, the daemon's loop reads every socket and    *)
(* the watchdog and the action deadline need nobody's cooperation.          *)
PgFairness ==
  /\ WF_PgVars(StartAction) /\ WF_PgVars(\E a \in running : FinishAction(a))
  /\ \A w \in Watchers :
       /\ WF_PgVars(Sample(w)) /\ WF_PgVars(Fatal(w))
       /\ WF_PgVars(Timeout(w)) /\ WF_PgVars(Poll(w))
PgSpec == PgInit /\ [][PgNext]_PgVars /\ PgFairness

-----------------------------------------------------------------------------
PgTypeOK ==
  /\ page \in Contents /\ pgUp \in BOOLEAN
  /\ \A w \in Watchers :
       /\ watch[w] \in [deployed : BOOLEAN, pid : {"none", "up", "hung"},
                        data : Contents \cup {NoData}, seq : Nat, updates : Seq(Nat)]
       /\ files[w] \in [deployed : BOOLEAN, tab : Contents \cup {NoData}, seq : Nat]
       /\ Len(watch[w].updates) <= MaxHistory /\ started[w] \in Seq(Nat)
  /\ prev \in [Watchers -> Contents \cup {NoData}]
  /\ newest \in [Watchers -> [data : Contents \cup {NoData}, apart : BOOLEAN]]
  /\ jobs \in Seq([name : Watchers, seq : Nat]) /\ Len(jobs) <= MaxPending
  /\ running \subseteq [name : Watchers, seq : Nat] /\ Cardinality(running) <= MaxRunning

(* README: "On lost history, retrieve the latest snapshot rather than       *)
(* assuming uninterrupted delivery".  An answer to updates --since N that   *)
(* does not say history_lost holds every change after N up to the current   *)
(* one, at the limit of the history, after restarts and for every N.        *)
LossIsReported ==
  \A w \in Watchers : \A since \in 0..watch[w].seq :
    ~Lost(watch[w], since) => Events(watch[w], since) = (since + 1)..watch[w].seq

(* The same, as long as no write of a snapshot has failed. *)
UpdatesAreComplete == pgBounds.unwritten = 0 => LossIsReported

(* data() answers a number and a sample together: the sample is the one the *)
(* number was given to, after any crash and restart.  The exception is a    *)
(* number whose two files came apart, because the daemon was killed between *)
(* tab.json and state.toml or the write of tab.json failed: then the        *)
(* sample in tab.json, or the one before it, goes by a number that is not   *)
(* its own, and a sample that a kill left without a number is in no answer  *)
(* to updates and in no history_lost.  It lasts until the next change.      *)
SnapshotsAreNumbered ==
  \A w \in Watchers :
    pgUp /\ ~newest[w].apart =>
      /\ watch[w].data = newest[w].data /\ files[w].tab = newest[w].data
      /\ files[w].seq = watch[w].seq

(* "Actions are serialized per watcher", and in the order of the changes:   *)
(* one at a time, no change twice and none after a later one, although jobs *)
(* of other watchers overtake, the queue overflows and the daemon restarts. *)
ActionsInOrder ==
  \A w \in Watchers :
    /\ Cardinality({a \in running : a.name = w}) <= 1
    /\ \A i, j \in DOMAIN started[w] : i < j => started[w][i] < started[w][j]

(* What a client of pagewatch relies on, through overflow, crash, restart   *)
(* and watchers that overtake each other: it is told of every numbered      *)
(* change or of the loss, a number and the sample answered with it belong   *)
(* together unless their two files came apart, and its actions run one by   *)
(* one in the order of the changes.                                         *)
ChangesAreAccountedFor == UpdatesAreComplete /\ SnapshotsAreNumbered /\ ActionsInOrder

(* The snapshot catches up with the page: while a watcher's worker keeps    *)
(* running, a page that no longer changes becomes the snapshot, on disk too *)
(* (unless a write failed), whatever was lost with earlier workers and      *)
(* daemons; and every queued action is started unless its watcher or the    *)
(* daemon goes.                                                             *)
SnapshotCatchesUp ==
  /\ \A w \in Watchers :
       <>[](watch[w].pid = "up") =>
         []<>((watch[w].data = page /\ files[w].tab = page) \/ pgBounds.unwritten > 0)
  /\ \A w \in Watchers :
       (\E i \in DOMAIN jobs : jobs[i].name = w) ~> (\A i \in DOMAIN jobs : jobs[i].name # w)
=============================================================================
