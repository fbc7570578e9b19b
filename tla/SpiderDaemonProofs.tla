------------------------- MODULE SpiderDaemonProofs -------------------------
(***************************************************************************)
(* The spider daemon, for every number of names, descriptors, connections  *)
(* and spiders.                                                            *)
(***************************************************************************)
EXTENDS SpiderDaemon, FiniteSetTheorems, WellFoundedInduction, TLAPS

-----------------------------------------------------------------------------
(* The lowest descriptor and the first name exist. *)
LEMMA LeastIsLeast ==
  ASSUME NEW S, S \subseteq Nat, S # {}
  PROVE  Least(S) \in S /\ \A y \in S : Least(S) <= y
<1> DEFINE R == {p \in Nat \X Nat : p[1] < p[2]}
<1>1. IsWellFoundedOn(R, Nat)
  BY NatLessThanWellFounded, Zenon DEF OpToRel
<1>2. PICK x \in S : \A y \in S : ~(<<y, x>> \in R)
  BY <1>1, WFMin
<1>3. \A y \in S : x <= y
  <2> SUFFICES ASSUME NEW y \in S, y < x PROVE FALSE
    OBVIOUS
  <2>1. <<y, x>> \in Nat \X Nat /\ <<y, x>>[1] < <<y, x>>[2]
    OBVIOUS
  <2> QED BY <1>2, <2>1, Zenon
<1> QED BY <1>3 DEF Least

(* A reply is typed, and reaches one connection. *)
LEMMA ReplyType ==
  ASSUME NEW cs \in [Fds -> Conn], NEW f, NEW result \in {"ok", "error"}
  PROVE  Reply(cs, f, result) \in [Fds -> Conn]
<1>1. CASE f \in Fds /\ cs[f].live
  <2>1. [cs[f] EXCEPT !.out = result, !.waiting = FALSE, !.req = NoRequest] \in Conn
    BY <1>1 DEF Conn
  <2> QED BY <1>1, <2>1 DEF Reply
<1>2. CASE ~(f \in Fds /\ cs[f].live)
  BY <1>2 DEF Reply
<1> QED BY <1>1, <1>2

LEMMA ReplyElsewhere ==
  ASSUME NEW cs \in [Fds -> Conn], NEW f, NEW result \in {"ok", "error"}, NEW g \in Fds,
         \A h \in Fds : cs[h].waiting => cs[h].live
  PROVE  /\ g # f => Reply(cs, f, result)[g] = cs[g]
         /\ Reply(cs, f, result)[g].live <=> cs[g].live
         /\ Reply(cs, f, result)[g].waiting => cs[g].waiting /\ g # f /\ Reply(cs, f, result)[g] = cs[g]
<1>1. CASE f \in Fds /\ cs[f].live
  <2> DEFINE k == [cs[f] EXCEPT !.out = result, !.waiting = FALSE, !.req = NoRequest]
  <2>1. k.live = cs[f].live /\ ~k.waiting
    BY <1>1 DEF Conn
  <2>2. Reply(cs, f, result)[g] = IF g = f THEN k ELSE cs[g]
    BY <1>1 DEF Reply
  <2> HIDE DEF k
  <2> QED BY <1>1, <2>1, <2>2
<1>2. CASE ~(f \in Fds /\ cs[f].live)
  BY <1>2 DEF Reply
<1> QED BY <1>1, <1>2

-----------------------------------------------------------------------------
(* A worker's turn. *)
LEMMA TurnIs ==
  ASSUME NEW n \in Names, WorkerTurn(n)
  PROVE  /\ conns' = IF Got(n) THEN Reply(conns, workers[n].client, workers[n].msg)
                     ELSE IF EndsNow(n) THEN Reply(conns, workers[n].client, "error") ELSE conns
         /\ acked' = IF Got(n) /\ workers[n].msg = "ok" THEN acked \cup {n} ELSE acked
         /\ IF EndsNow(n) /\ After(n).newly
            THEN /\ workers' = [workers EXCEPT ![n] = NoWorker]
                 /\ registry' = registry \ {n} /\ dirs' = WithoutState(n)
            ELSE /\ workers' = [workers EXCEPT ![n] =
                      IF EndsNow(n) THEN [Terminated(After(n)) EXCEPT !.client = NoFd] ELSE After(n)]
                 /\ UNCHANGED <<registry, dirs>>
         /\ pc = "workers" /\ todo' = todo \ {n} /\ UNCHANGED <<pc, stopping, events, torn>>
  BY Zenon DEF WorkerTurn

LEMMA AfterType ==
  ASSUME NEW n \in Names, workers \in [Names -> Worker]
  PROVE  /\ After(n) \in Worker
         /\ After(n).known = workers[n].known /\ After(n).fd = workers[n].fd /\ After(n).proc = workers[n].proc
         /\ Got(n)  => After(n).client = NoFd /\ After(n).msg = "none" /\ (After(n).newly <=> workers[n].newly /\ workers[n].msg = "error")
         /\ ~Got(n) => After(n).client = workers[n].client /\ After(n).msg = workers[n].msg /\ (After(n).newly <=> workers[n].newly)
<1> DEFINE fr == IF Wrote(n) THEN "sent" ELSE workers[n].frame
           ms == IF Got(n) THEN "none" ELSE workers[n].msg
           cl == IF Got(n) THEN NoFd ELSE workers[n].client
           nw == IF Got(n) THEN (workers[n].newly /\ workers[n].msg = "error") ELSE workers[n].newly
           lt == workers[n].late /\ ~Got(n)
<1>1. workers[n] \in Worker
  OBVIOUS
<1>2. fr \in {"none", "queued", "sent"} /\ ms \in {"none", "ok", "error"} /\ cl \in Fds \cup {NoFd, Orphan}
  BY <1>1 DEF Worker
<1>3. nw \in BOOLEAN /\ lt \in BOOLEAN
  <2>1. workers[n].newly \in BOOLEAN /\ workers[n].late \in BOOLEAN
    BY <1>1 DEF Worker
  <2> QED BY <2>1, Zenon
<1>4. After(n) = [workers[n] EXCEPT !.frame = fr, !.msg = ms, !.client = cl, !.newly = nw, !.late = lt]
  BY Zenon DEF After, Released, NewlyAfter
<1> HIDE DEF fr, ms, cl, nw, lt
<1>5. /\ After(n) \in Worker
      /\ After(n).known = workers[n].known /\ After(n).fd = workers[n].fd /\ After(n).proc = workers[n].proc
      /\ After(n).msg = ms /\ After(n).client = cl /\ After(n).newly = nw
  BY <1>1, <1>2, <1>3, <1>4 DEF Worker
<1> QED BY <1>5, Zenon DEF ms, cl, nw

-----------------------------------------------------------------------------
(* Only an accepted connection has a request, and only one with a request   *)
(* waits; a name that is not in the live map has nothing of a worker.        *)
ConnOK(k) == (k.req # NoRequest => k.live) /\ (k.waiting => k.req # NoRequest)
ConnsOK   == \A f \in Fds : ConnOK(conns[f])
WorkersOK == \A n \in Names : ~workers[n].known => workers[n] = NoWorker

(* A known spider is registered, one that is up or has answered has its     *)
(* directory, and newly_created is gone from one that has answered ok.      *)
DurableOK ==
  \A n \in Names :
    /\ workers[n].known => n \in registry
    /\ workers[n].proc \in {"idle", "busy"} \/ workers[n].msg # "none" => n \in dirs
    /\ workers[n].newly => n \notin acked
    /\ n \in acked => n \in registry /\ n \in dirs

(* No connection outlives the daemon's process. *)
DownOK == pc = "down" => \A f \in Fds : ~conns[f].waiting

Maps == conns \in [Fds -> Conn] /\ workers \in [Names -> Worker]
Sets == registry \subseteq Names /\ dirs \subseteq Names /\ acked \subseteq Names /\ torn \subseteq Names
DInv == Maps /\ Sets /\ DownOK /\ ConnsOK /\ WorkersOK /\ DurableOK /\ LeaseIsTheAskers

LEMMA NoRequestIsNone == NoRequest \notin Requests
  BY DaemonConstants DEF NoRequest, Requests, AllCommands

LEMMA NothingTyped == NoConn \in Conn /\ NoWorker \in Worker /\ [NoConn EXCEPT !.live = TRUE] \in Conn
  BY DEF NoConn, NoWorker, Conn, Worker

LEMMA FreeIsFree ==
  ASSUME FreeFds # {}
  PROVE  Least(FreeFds) \in Fds /\ ~conns[Least(FreeFds)].live
  BY LeastIsLeast DEF FreeFds, Fds, Live

LEMMA ReplyKeeps ==
  ASSUME NEW cs \in [Fds -> Conn], \A f \in Fds : ConnOK(cs[f]), NEW c, NEW r \in {"ok", "error"}
  PROVE  Reply(cs, c, r) \in [Fds -> Conn] /\ \A f \in Fds : ConnOK(Reply(cs, c, r)[f])
<1>1. Reply(cs, c, r) \in [Fds -> Conn]
  BY ReplyType
<1>2. ASSUME NEW g \in Fds PROVE ConnOK(Reply(cs, c, r)[g])
  <2>1. \/ Reply(cs, c, r)[g] = cs[g]
        \/ Reply(cs, c, r)[g] = [cs[g] EXCEPT !.out = r, !.waiting = FALSE, !.req = NoRequest]
    BY DEF Reply
  <2> QED BY <2>1 DEF ConnOK, Conn
<1> QED BY <1>1, <1>2

(* What an action does to a connection keeps it typed and ConnsOK. *)
LEMMA ConnStep ==
  ASSUME Maps, ConnsOK, [Next]_vars
  PROVE  conns' \in [Fds -> Conn] /\ ConnsOK'
<1> USE DEF Maps
<1> DEFINE Good == conns' \in [Fds -> Conn] /\ ConnsOK'
<1>1. CASE UNCHANGED conns
  BY <1>1 DEF ConnsOK
<1>2. ASSUME NEW c, NEW r \in {"ok", "error"}, conns' = Reply(conns, c, r) PROVE Good
  BY <1>2, ReplyKeeps DEF ConnsOK
<1>3. ASSUME NEW c \in Fds, conns[c].req # NoRequest, Await(c) PROVE Good
  BY <1>3 DEF Await, ConnsOK, ConnOK, Conn
<1>4. CASE Ends
  BY <1>4, NothingTyped DEF Ends, ConnsOK, ConnOK, NoConn
<1>5. ASSUME NEW c \in Fds, conns' = [conns EXCEPT ![c] = NoConn] PROVE Good
  BY <1>5, NothingTyped DEF ConnsOK, ConnOK, NoConn
<1>6. CASE Poll
  <2>1. CASE FreeFds # {} /\ conns' = [conns EXCEPT ![Least(FreeFds)] = [NoConn EXCEPT !.live = TRUE]]
    BY <2>1, FreeIsFree, NothingTyped DEF ConnsOK, ConnOK, NoConn
  <2> QED BY <1>1, <1>6, <2>1 DEF Poll
<1>7. ASSUME NEW f \in Fds, Send(f) PROVE Good
  <2>1. PICK r \in Requests : conns' = [conns EXCEPT ![f].req = r]
    BY <1>7 DEF Send
  <2> QED BY <1>7, <2>1 DEF Send, ConnsOK, ConnOK, Conn
<1>8. ASSUME NEW f \in Fds, Disconnect(f) PROVE Good
  BY <1>8 DEF Disconnect, ConnsOK, ConnOK, Conn
<1>9. ASSUME NEW c \in Fds, NEW w, conns' = Reply(Cancel(w), c, "ok") PROVE Good
  BY <1>9, ReplyKeeps DEF ConnsOK, Cancel
<1>10. ASSUME NEW c \in Fds, Ping(c) \/ Shutdown(c) \/ Create(c) \/ Operate(c) PROVE Good
  BY <1>2, <1>3, <1>10 DEF Ping, Shutdown, Create, Operate, Visiting, Readable, Answer
<1>11. ASSUME NEW c \in Fds, Stop(c) \/ Remove(c) PROVE Good
  BY <1>2, <1>9, <1>11 DEF Stop, Remove, Answer
<1>12. ASSUME NEW c \in Fds, RemoveMidway(c) \/ Settle(c) PROVE Good
  BY <1>1, <1>4, <1>5, <1>12 DEF RemoveMidway, Tears, Settle, Dropped
<1>13. ASSUME NEW n \in Names, WorkerTurn(n) PROVE Good
  <2>1. workers[n].msg # "none" => workers[n].msg \in {"ok", "error"}
    BY DEF Worker
  <2> QED BY <1>1, <1>2, <1>13, <2>1, TurnIs DEF Got
<1>14. ASSUME NEW n \in Names, Process(n) PROVE Good
  BY <1>1, <1>14 DEF Process, Boots, Takes, Responds, Dies, Late, Proc
<1>16. ASSUME NEW n \in Names, RollbackMidway(n) PROVE Good
  BY <1>4, <1>16 DEF RollbackMidway, Tears
<1>15. CASE Start \/ Crash \/ Signal \/ Exit \/ Pass \/ EndClients \/ EndWorkers \/ UNCHANGED vars
  BY <1>1, <1>4, <1>15 DEF Start, Crash, Signal, Exit, Pass, EndClients, EndWorkers, vars
<1> HIDE DEF Good
<1> QED BY <1>6, <1>7, <1>8, <1>10, <1>11, <1>12, <1>13, <1>14, <1>15, <1>16 DEF Next, Loop, Visit, Good

-----------------------------------------------------------------------------
(* Startup: at most max_spiders registered names are recovered, and the     *)
(* k-th of them gets the k-th descriptor.                                   *)
Upto(n) == {m \in Recovered : m <= n}

LEMMA FiniteNames ==
  ASSUME NEW S, S \subseteq Names \/ S \subseteq Fds
  PROVE  IsFiniteSet(S) /\ Cardinality(S) \in Nat
<1>1. IsFiniteSet(Names) /\ IsFiniteSet(Fds)
  BY DaemonConstants, FS_Interval DEF Names, Fds
<1> QED BY <1>1, FS_Subset, FS_CardinalityType

LEMMA RecoveredFd ==
  ASSUME registry \subseteq Names, NEW n \in Recovered
  PROVE  Cardinality(Upto(n)) \in 1..MaxSpiders
<1> DEFINE B == {m \in registry : m < n}
<1>0. \A m \in Recovered : m \in registry /\ m \in Int
  BY DaemonConstants DEF Recovered, Names
<1>1. Upto(n) \subseteq B \cup {n} /\ n \notin B
  <2>1. \A m \in Recovered : m <= n => m < n \/ m = n
    BY <1>0
  <2>2. ~(n < n)
    BY <1>0
  <2> QED BY <1>0, <2>1, <2>2, Zenon DEF Upto
<1>2. IsFiniteSet(B) /\ Cardinality(B) \in Nat /\ Cardinality(B) < MaxSpiders
  BY FiniteNames DEF Recovered
<1>3. IsFiniteSet(B \cup {n}) /\ Cardinality(B \cup {n}) = Cardinality(B) + 1
  BY <1>1, <1>2, FS_AddElement
<1>4. IsFiniteSet(Upto(n)) /\ Cardinality(Upto(n)) <= Cardinality(B) + 1 /\ Cardinality(Upto(n)) \in Nat
  BY <1>1, <1>3, FS_Subset, FS_CardinalityType
<1>5. Upto(n) # {}
  BY <1>0 DEF Upto
<1>6. Cardinality(Upto(n)) # 0
  BY <1>4, <1>5, FS_EmptySet
<1> QED BY <1>2, <1>4, <1>6, DaemonConstants

LEMMA RecoveredDistinct ==
  ASSUME registry \subseteq Names, NEW m \in Recovered, NEW n \in Recovered, m # n
  PROVE  Cardinality(Upto(m)) # Cardinality(Upto(n))
<1>0. \A x \in Recovered : x \in Int
  BY DaemonConstants DEF Recovered, Names
<1>1. ASSUME NEW x \in Recovered, NEW y \in Recovered, x < y
      PROVE  Upto(x) \subseteq Upto(y) /\ y \notin Upto(x) /\ y \in Upto(y)
  <2>1. \A z \in Recovered : z <= x => z <= y
    BY <1>0, <1>1
  <2>2. ~(y <= x) /\ y <= y
    BY <1>0, <1>1
  <2> QED BY <2>1, <2>2, Zenon DEF Upto
<1>2. \A x \in Recovered : IsFiniteSet(Upto(x))
  BY FiniteNames DEF Upto, Recovered
<1>3. \A x, y \in Recovered : x < y => Cardinality(Upto(x)) # Cardinality(Upto(y))
  BY <1>1, <1>2, FS_Subset
<1>4. m < n \/ n < m
  BY <1>0
<1> QED BY <1>3, <1>4

LEMMA RecoveredFew ==
  ASSUME registry \subseteq Names
  PROVE  IsFiniteSet(Recovered) /\ Cardinality(Recovered) <= MaxSpiders
<1> DEFINE f == [n \in Recovered |-> Cardinality(Upto(n))]
<1>1. f \in Injection(Recovered, 1..MaxSpiders)
  BY RecoveredFd, RecoveredDistinct DEF Injection, IsInjective
<1>2. IsFiniteSet(1..MaxSpiders) /\ Cardinality(1..MaxSpiders) = MaxSpiders
  BY DaemonConstants, FS_Interval
<1> QED BY <1>1, <1>2, FS_Injection

-----------------------------------------------------------------------------
(* The records the actions make of a worker *)
LEMMA LaunchedType ==
  ASSUME NEW f \in Fds, NEW c \in Fds, NEW v \in {Launched(f), [Launched(f) EXCEPT !.newly = TRUE]}
  PROVE  /\ v \in Worker /\ v.known /\ v.client = NoFd /\ v.fd = f /\ v.msg = "none" /\ v.proc = "starting"
         /\ Leased(v, c) \in Worker /\ Leased(v, c).known /\ Leased(v, c).client = c /\ Leased(v, c).fd = f
         /\ Leased(v, c).msg = "none" /\ Leased(v, c).proc = "starting" /\ Leased(v, c).newly = v.newly
  BY DEF Launched, Leased, NoWorker, Worker

LEMMA LeasedType ==
  ASSUME NEW w \in Worker, NEW c \in Fds
  PROVE  /\ Leased(w, c) \in Worker /\ Leased(w, c).client = c
         /\ \A k \in {"known", "fd", "proc", "msg", "newly"} : Leased(w, c)[k] = w[k]
  BY DEF Leased, Worker

LEMMA TerminatedType ==
  ASSUME NEW w \in Worker, NEW v, v = [Terminated(w) EXCEPT !.client = NoFd]
  PROVE  v \in Worker /\ v.known = w.known /\ v.newly = w.newly /\ v.client = NoFd /\ v.fd = NoFd /\ v.msg = "none" /\ v.proc = "none"
  BY DEF Terminated, Worker

LEMMA WorkerStep ==
  ASSUME Maps, Sets, ConnsOK, WorkersOK, [Next]_vars
  PROVE  workers' \in [Names -> Worker] /\ WorkersOK'
<1> USE DEF Maps
<1> DEFINE Good == workers' \in [Names -> Worker] /\ WorkersOK'
<1>1. CASE UNCHANGED workers
  BY <1>1 DEF WorkersOK
<1>2. ASSUME NEW n \in Names, NEW w \in Worker, w.known \/ w = NoWorker, workers' = [workers EXCEPT ![n] = w] PROVE Good
  BY <1>2 DEF WorkersOK
<1>3. CASE workers' = [n \in Names |-> NoWorker]
  BY <1>3, NothingTyped DEF WorkersOK
<1>4. CASE Start
  <2>1. \A n \in Recovered : Cardinality(Upto(n)) \in Fds
    BY RecoveredFd, DaemonConstants DEF Fds, Sets
  <2>2. \A f \in Fds : Launched(f) \in Worker /\ Launched(f).known
    BY LaunchedType
  <2>3. workers' = [n \in Names |-> IF n \in Recovered THEN Launched(Cardinality(Upto(n))) ELSE NoWorker]
    BY <1>4 DEF Start, Upto
  <2> QED BY <2>1, <2>2, <2>3, NothingTyped DEF WorkersOK
<1>5. ASSUME NEW c \in Fds, workers' = Orphaned(workers, c) PROVE Good
  <2>1. \A n \in Names : [workers[n] EXCEPT !.client = Orphan] \in Worker /\ [workers[n] EXCEPT !.client = Orphan].known = workers[n].known
    BY DEF Worker
  <2>2. \A n \in Names : workers'[n] = IF workers[n].client = c THEN [workers[n] EXCEPT !.client = Orphan] ELSE workers[n]
    BY <1>5 DEF Orphaned
  <2>3. workers' \in [Names -> Worker]
    BY <1>5, <2>1 DEF Orphaned
  <2>4. \A n \in Names : ~workers[n].known => workers[n].client # c
    BY DEF WorkersOK, NoWorker, Fds, NoFd
  <2>5. \A n \in Names : ~workers'[n].known => workers'[n] = NoWorker
    BY <2>1, <2>2, <2>4 DEF WorkersOK
  <2> QED BY <2>3, <2>5 DEF WorkersOK
<1>6. ASSUME NEW c \in Fds, Create(c) PROVE Good
  <2> DEFINE n == conns[c].req.name
             v == [Launched(Least(FreeFds)) EXCEPT !.newly = TRUE]
  <2>1. n \in Names
    BY <1>6 DEF Create, Visiting, Readable, Conn, Requests
  <2>2. CASE FreeFds # {} /\ workers' = [workers EXCEPT ![n] = Leased(v, c)]
    <3>1. Leased(v, c) \in Worker /\ Leased(v, c).known
      BY <2>2, FreeIsFree, LaunchedType
    <3> QED BY <1>2, <2>1, <2>2, <3>1
  <2> QED BY <1>1, <1>6, <2>2 DEF Create
<1>7. ASSUME NEW c \in Fds, Operate(c) PROVE Good
  <2> DEFINE n == conns[c].req.name
             w == workers[n]
  <2>1. n \in Names
    BY <1>7 DEF Operate, Visiting, Readable, Conn, Requests
  <2>2. CASE w.known /\ workers' = [workers EXCEPT ![n] = Leased(w, c)]
    <3>1. Leased(w, c) \in Worker /\ Leased(w, c).known
      BY <2>1, <2>2, LeasedType
    <3> QED BY <1>2, <2>1, <2>2, <3>1
  <2>3. CASE FreeFds # {} /\ workers' = [workers EXCEPT ![n] = Leased(Launched(Least(FreeFds)), c)]
    <3>1. Leased(Launched(Least(FreeFds)), c) \in Worker /\ Leased(Launched(Least(FreeFds)), c).known
      BY <2>3, FreeIsFree, LaunchedType
    <3> QED BY <1>2, <2>1, <2>3, <3>1
  <2> QED BY <1>1, <1>7, <2>2, <2>3 DEF Operate
<1>8. ASSUME NEW c \in Fds, Stop(c) \/ Remove(c) PROVE Good
  <2> DEFINE n == conns[c].req.name
             w == workers[n]
  <2>1. n \in Names
    BY <1>8 DEF Stop, Remove, Visiting, Readable, Conn, Requests
  <2>2. CASE w.known /\ workers' = [workers EXCEPT ![n] = [Terminated(w) EXCEPT !.client = NoFd]]
    <3>1. [Terminated(w) EXCEPT !.client = NoFd] \in Worker /\ [Terminated(w) EXCEPT !.client = NoFd].known
      BY <2>1, <2>2, TerminatedType
    <3> QED BY <1>2, <2>1, <2>2, <3>1
  <2>3. CASE workers' = [workers EXCEPT ![n] = NoWorker]
    BY <1>2, <2>1, <2>3, NothingTyped
  <2> QED BY <1>1, <1>8, <2>2, <2>3 DEF Stop, Remove
<1>9. ASSUME NEW c \in Fds, RemoveMidway(c) \/ Settle(c) PROVE Good
  BY <1>1, <1>3, <1>5, <1>9 DEF RemoveMidway, Tears, Settle, Dropped, Ends
<1>10. ASSUME NEW n \in Names, WorkerTurn(n) PROVE Good
  <2> DEFINE t == [Terminated(After(n)) EXCEPT !.client = NoFd]
  <2>0. After(n) \in Worker /\ After(n).known = workers[n].known
    BY AfterType
  <2>1. t \in Worker /\ t.known = After(n).known
    BY <2>0, TerminatedType
  <2>2. ~workers[n].known => After(n) = NoWorker /\ ~EndsNow(n)
    <3> SUFFICES ASSUME ~workers[n].known PROVE After(n) = NoWorker /\ ~EndsNow(n)
      OBVIOUS
    <3>1. workers[n] = NoWorker
      BY DEF WorkersOK
    <3>2. ~EndsNow(n) /\ Seen(n) = {}
      BY <3>1 DEF EndsNow, Seen, NoWorker
    <3>3. ~Wrote(n) /\ ~Got(n)
      BY <3>2 DEF Wrote, Got, Reads
    <3>4. After(n) = [NoWorker EXCEPT !.frame = @, !.msg = @, !.client = @, !.newly = @, !.late = @ /\ TRUE]
      BY <3>1, <3>3, Zenon DEF After
    <3> QED BY <3>2, <3>4 DEF NoWorker
  <2>3. CASE workers' = [workers EXCEPT ![n] = NoWorker]
    BY <1>2, <2>3, NothingTyped
  <2>4. CASE EndsNow(n) /\ workers' = [workers EXCEPT ![n] = t]
    BY <1>2, <2>0, <2>1, <2>2, <2>4
  <2>5. CASE workers' = [workers EXCEPT ![n] = After(n)]
    BY <1>2, <2>0, <2>2, <2>5
  <2> QED BY <1>10, <2>3, <2>4, <2>5, TurnIs
<1>11. ASSUME NEW n \in Names, Process(n) PROVE Good
  <2>1. workers[n].proc # "none" => workers[n].known
    BY DEF WorkersOK, NoWorker
  <2>2. ASSUME NEW from \in {{"starting"}, {"idle"}, {"busy"}, {"starting", "busy"}, {"starting", "idle", "busy"}}, NEW w \in Worker, w.known = workers[n].known, Proc(n, from, w) PROVE Good
    BY <1>2, <2>1, <2>2 DEF Proc
  <2>3. /\ \A p \in {"idle", "dead"} : [workers[n] EXCEPT !.proc = p] \in Worker /\ [workers[n] EXCEPT !.proc = p].known = workers[n].known
        /\ [workers[n] EXCEPT !.proc = "busy", !.frame = "none"] \in Worker
        /\ [workers[n] EXCEPT !.proc = "busy", !.frame = "none"].known = workers[n].known
        /\ \A r \in {"ok", "error"} : [workers[n] EXCEPT !.proc = "idle", !.msg = r] \in Worker /\ [workers[n] EXCEPT !.proc = "idle", !.msg = r].known = workers[n].known
        /\ [workers[n] EXCEPT !.late = TRUE] \in Worker /\ [workers[n] EXCEPT !.late = TRUE].known = workers[n].known
    BY DEF Worker
  <2> QED BY <1>11, <2>2, <2>3 DEF Process, Boots, Takes, Responds, Dies, Late
<1>14. ASSUME NEW n \in Names, RollbackMidway(n) PROVE Good
  BY <1>3, <1>14 DEF RollbackMidway, Tears, Ends
<1>12. ASSUME NEW c \in Fds, Ping(c) \/ Shutdown(c) \/ Send(c) \/ Disconnect(c) PROVE Good
  BY <1>1, <1>12 DEF Ping, Shutdown, Send, Disconnect
<1>13. CASE Crash \/ Signal \/ Exit \/ Poll \/ Pass \/ EndClients \/ EndWorkers \/ UNCHANGED vars
  BY <1>1, <1>3, <1>13 DEF Crash, Signal, Exit, Poll, Pass, EndClients, EndWorkers, Ends, vars
<1> HIDE DEF Good
<1> QED BY <1>4, <1>6, <1>7, <1>8, <1>9, <1>10, <1>11, <1>12, <1>13, <1>14 DEF Next, Loop, Visit, Good

-----------------------------------------------------------------------------
LEMMA SetsStep ==
  ASSUME Maps, Sets, ConnsOK, [Next]_vars
  PROVE  Sets'
<1>1. CASE UNCHANGED <<registry, dirs, acked, torn>>
  BY <1>1 DEF Sets
<1>2. ASSUME NEW c \in Fds, conns[c].req # NoRequest PROVE conns[c].req.name \in Names
  BY <1>2 DEF Maps, Conn, Requests
<1>3. ASSUME NEW c \in Fds, Create(c) PROVE Sets'
  <2>1. conns[c].req.name \in Names
    BY <1>2, <1>3 DEF Create, Visiting, Readable
  <2> QED BY <1>3, <2>1 DEF Create, Sets
<1>4. ASSUME NEW c \in Fds, Ping(c) \/ Shutdown(c) \/ Operate(c) \/ Stop(c) \/ Settle(c) \/ Send(c) \/ Disconnect(c) PROVE Sets'
  BY <1>1, <1>4 DEF Ping, Shutdown, Operate, Stop, Settle, Send, Disconnect
<1>5. ASSUME NEW c \in Fds, Remove(c) \/ RemoveMidway(c) PROVE Sets'
  BY <1>5 DEF Remove, RemoveMidway, Tears, WithoutState, Sets
<1>6. ASSUME NEW n \in Names, WorkerTurn(n) PROVE Sets'
  BY <1>6, TurnIs DEF Sets, WithoutState
<1>9. ASSUME NEW n \in Names, RollbackMidway(n) PROVE Sets'
  BY <1>9 DEF RollbackMidway, Tears, Sets
<1>7. ASSUME NEW n \in Names, Process(n) PROVE Sets'
  BY <1>7 DEF Process, Boots, Takes, Responds, Dies, Late, Proc, Sets
<1>8. CASE Start \/ Crash \/ Signal \/ Exit \/ Poll \/ Pass \/ EndClients \/ EndWorkers \/ UNCHANGED vars
  BY <1>1, <1>8 DEF Start, Crash, Signal, Exit, Poll, Pass, EndClients, EndWorkers, vars
<1> QED BY <1>3, <1>4, <1>5, <1>6, <1>7, <1>8, <1>9 DEF Next, Loop, Visit

(* What DurableOK says of one spider, given its worker *)
DurableOne(n, w, r, d, a) ==
  /\ w.known => n \in r
  /\ w.proc \in {"idle", "busy"} \/ w.msg # "none" => n \in d
  /\ w.newly => n \notin a
  /\ n \in a => n \in r /\ n \in d

LEMMA DurableStep ==
  ASSUME Maps, Sets, ConnsOK, WorkersOK, DurableOK, [Next]_vars
  PROVE  DurableOK'
<1> DEFINE D(n) == DurableOne(n, workers[n], registry, dirs, acked)
           Good == \A x \in Names : DurableOne(x, workers'[x], registry', dirs', acked')
<1>0. (DurableOK' <=> Good) /\ \A x \in Names : D(x)
  BY DEF DurableOK, DurableOne
<1> SUFFICES Good
  BY <1>0
<1> USE DEF Maps
(* One spider's worker is replaced, and nothing changes for the others. *)
<1>1. ASSUME NEW n \in Names, NEW w, workers' = [workers EXCEPT ![n] = w],
             \A x \in Names \ {n} : /\ x \in registry' <=> x \in registry
                                    /\ x \in dirs' <=> x \in dirs
                                    /\ x \in acked' <=> x \in acked,
             DurableOne(n, w, registry', dirs', acked')
      PROVE  Good
  BY <1>0, <1>1 DEF DurableOne
<1>2. CASE UNCHANGED <<workers, registry, dirs, acked>>
  BY <1>0, <1>2
<1>3. CASE workers' = [n \in Names |-> NoWorker] /\ UNCHANGED <<registry, dirs, acked>>
  BY <1>0, <1>3 DEF DurableOne, NoWorker
<1>4. CASE Start
  <2>1. \A f : Launched(f).known /\ Launched(f).proc = "starting" /\ Launched(f).msg = "none" /\ ~Launched(f).newly
    BY DEF Launched, NoWorker
  <2>2. \A n \in Names : workers'[n] = IF n \in Recovered THEN Launched(Cardinality(Upto(n))) ELSE NoWorker
    BY <1>4 DEF Start, Upto
  <2>3. \A n \in Recovered : n \in registry
    BY DEF Recovered
  <2>4. UNCHANGED <<registry, dirs, acked>>
    BY <1>4 DEF Start
  <2> QED BY <1>0, <2>1, <2>2, <2>3, <2>4 DEF DurableOne, NoWorker
<1>5. ASSUME NEW c \in Fds, workers' = Orphaned(workers, c), UNCHANGED <<registry, dirs, acked>> PROVE Good
  <2>1. \A n \in Names : LET w == [workers[n] EXCEPT !.client = Orphan] IN
          w.known = workers[n].known /\ w.proc = workers[n].proc /\ w.msg = workers[n].msg /\ w.newly = workers[n].newly
    BY DEF Worker
  <2>2. \A n \in Names : workers'[n] = IF workers[n].client = c THEN [workers[n] EXCEPT !.client = Orphan] ELSE workers[n]
    BY <1>5 DEF Orphaned
  <2> QED BY <1>0, <1>5, <2>1, <2>2 DEF DurableOne
<1>6. ASSUME NEW c \in Fds, Create(c) PROVE Good
  <2> DEFINE n == conns[c].req.name
             v == [Launched(Least(FreeFds)) EXCEPT !.newly = TRUE]
  <2>1. n \in Names
    BY <1>6 DEF Create, Visiting, Readable, Conn, Requests
  <2>2. CASE UNCHANGED workers /\ registry \subseteq registry' /\ UNCHANGED <<dirs, acked>>
    BY <1>0, <2>2 DEF DurableOne
  <2>3. CASE FreeFds # {} /\ n \notin dirs /\ workers' = [workers EXCEPT ![n] = Leased(v, c)]
               /\ registry' = registry \cup {n} /\ UNCHANGED <<dirs, acked>>
    <3>1. Leased(v, c).known /\ Leased(v, c).msg = "none" /\ Leased(v, c).proc = "starting"
      BY DEF Leased, Launched, NoWorker
    <3>2. n \notin acked
      BY <1>0, <2>1, <2>3 DEF DurableOne
    <3>3. DurableOne(n, Leased(v, c), registry', dirs', acked')
      BY <2>3, <3>1, <3>2 DEF DurableOne
    <3> QED BY <1>1, <2>1, <2>3, <3>3
  <2> QED BY <1>6, <2>2, <2>3 DEF Create
<1>7. ASSUME NEW c \in Fds, Operate(c) PROVE Good
  <2> DEFINE n == conns[c].req.name
             w == workers[n]
             l == Launched(Least(FreeFds))
  <2>1. n \in Names /\ UNCHANGED <<registry, dirs, acked>>
    BY <1>7 DEF Operate, Visiting, Readable, Conn, Requests
  <2>2. CASE workers' = [workers EXCEPT ![n] = Leased(w, c)]
    <3>1. LET v == Leased(w, c) IN v.known = w.known /\ v.proc = w.proc /\ v.msg = w.msg /\ v.newly = w.newly
      BY <2>1 DEF Leased, Worker
    <3>2. DurableOne(n, Leased(w, c), registry', dirs', acked')
      BY <1>0, <2>1, <3>1 DEF DurableOne
    <3> QED BY <1>1, <2>1, <2>2, <3>2
  <2>3. CASE w.known /\ FreeFds # {} /\ workers' = [workers EXCEPT ![n] = Leased(l, c)]
    <3>1. Leased(l, c).known /\ Leased(l, c).msg = "none" /\ Leased(l, c).proc = "starting" /\ Leased(l, c).newly = l.newly
      BY DEF Leased, Launched, NoWorker
    <3>2. ~l.newly
      BY DEF Launched, NoWorker
    <3>3. DurableOne(n, Leased(l, c), registry', dirs', acked')
      BY <1>0, <2>1, <2>3, <3>1, <3>2 DEF DurableOne
    <3> QED BY <1>1, <2>1, <2>3, <3>3
  <2> QED BY <1>2, <1>7, <2>1, <2>2, <2>3 DEF Operate
<1>8. ASSUME NEW c \in Fds, Stop(c) \/ Remove(c) PROVE Good
  <2> DEFINE n == conns[c].req.name
             w == workers[n]
             t == [Terminated(w) EXCEPT !.client = NoFd]
  <2>1. n \in Names
    BY <1>8 DEF Stop, Remove, Visiting, Readable, Conn, Requests
  <2>2. CASE w.known /\ workers' = [workers EXCEPT ![n] = t] /\ UNCHANGED <<registry, dirs, acked>>
    <3>1. t.known = w.known /\ t.newly = w.newly /\ t.msg = "none" /\ t.proc = "none"
      BY <2>1, TerminatedType
    <3>2. DurableOne(n, t, registry', dirs', acked')
      BY <1>0, <2>1, <2>2, <3>1 DEF DurableOne
    <3> QED BY <1>1, <2>1, <2>2, <3>2
  <2>3. CASE workers' = [workers EXCEPT ![n] = NoWorker] /\ registry' = registry \ {n}
               /\ dirs' = dirs \ {n} /\ acked' = acked \ {n}
    <3>1. DurableOne(n, NoWorker, registry', dirs', acked')
      BY <2>3 DEF DurableOne, NoWorker
    <3> QED BY <1>1, <2>1, <2>3, <3>1
  <2> QED BY <1>2, <1>8, <2>2, <2>3 DEF Stop, Remove, WithoutState
<1>9. ASSUME NEW c \in Fds, RemoveMidway(c) \/ Settle(c) PROVE Good
  <2>1. CASE RemoveMidway(c)
    BY <1>0, <2>1 DEF RemoveMidway, Tears, Ends, DurableOne, NoWorker
  <2>2. CASE Settle(c)
    BY <1>2, <1>5, <2>2 DEF Settle, Dropped
  <2> QED BY <1>9, <2>1, <2>2
<1>10. ASSUME NEW n \in Names, WorkerTurn(n) PROVE Good
  <2> DEFINE w == workers[n]
             t == [Terminated(After(n)) EXCEPT !.client = NoFd]
  <2>1. /\ After(n) \in Worker /\ After(n).known = w.known /\ After(n).proc = w.proc
        /\ Got(n)  => After(n).msg = "none" /\ (After(n).newly <=> w.newly /\ w.msg = "error")
        /\ ~Got(n) => After(n).msg = w.msg /\ (After(n).newly <=> w.newly)
    BY AfterType
  <2>2. t.known = After(n).known /\ t.newly = After(n).newly /\ t.msg = "none" /\ t.proc = "none"
    BY <2>1, TerminatedType
  <2>3. Got(n) => w.msg # "none" /\ n \in dirs /\ n \in registry
    <3>1. w.known \/ w.msg = "none"
      BY DEF WorkersOK, NoWorker
    <3> QED BY <1>0, <3>1 DEF DurableOne, Got
  <2>4. acked' = IF Got(n) /\ w.msg = "ok" THEN acked \cup {n} ELSE acked
    BY <1>10, TurnIs
  <2>5. After(n).newly => n \notin acked'
    BY <1>0, <2>1, <2>4 DEF DurableOne
  <2>6. CASE EndsNow(n) /\ After(n).newly
    <3>1. workers' = [workers EXCEPT ![n] = NoWorker] /\ registry' = registry \ {n} /\ dirs' = dirs \ {n}
      BY <1>10, <2>6, TurnIs DEF WithoutState
    <3>2. DurableOne(n, NoWorker, registry', dirs', acked')
      BY <2>5, <2>6 DEF DurableOne, NoWorker
    <3> QED BY <1>1, <2>4, <3>1, <3>2
  <2>7. CASE ~(EndsNow(n) /\ After(n).newly)
    <3>1. UNCHANGED <<registry, dirs>> /\ workers' = [workers EXCEPT ![n] = IF EndsNow(n) THEN t ELSE After(n)]
      BY <1>10, <2>7, TurnIs
    <3>2. n \in acked' => n \in registry /\ n \in dirs
      BY <1>0, <2>3, <2>4 DEF DurableOne
    <3>3. DurableOne(n, After(n), registry', dirs', acked')
      BY <1>0, <2>1, <2>5, <3>1, <3>2 DEF DurableOne
    <3>4. DurableOne(n, t, registry', dirs', acked')
      BY <2>2, <3>3 DEF DurableOne
    <3> HIDE DEF t
    <3> QED BY <1>1, <2>4, <3>1, <3>3, <3>4
  <2> QED BY <2>6, <2>7
<1>11. ASSUME NEW n \in Names, Process(n) PROVE Good
  <2> DEFINE w == workers[n]
  <2>1. UNCHANGED <<registry, acked>>
    BY <1>11 DEF Process, Boots, Takes, Responds, Dies, Late, Proc
  <2>2. ASSUME NEW v, workers' = [workers EXCEPT ![n] = v], dirs \subseteq dirs', dirs' \subseteq dirs \cup {n},
               v.known = w.known, v.newly = w.newly,
               v.proc \in {"idle", "busy"} \/ v.msg # "none" => n \in dirs'
        PROVE  Good
    <3>1. DurableOne(n, v, registry', dirs', acked')
      BY <1>0, <2>1, <2>2 DEF DurableOne
    <3> QED BY <1>1, <2>1, <2>2, <3>1
  <2>3. CASE Boots(n)
    <3> DEFINE v == [w EXCEPT !.proc = "idle"]
    <3>1. v.known = w.known /\ v.newly = w.newly
      BY DEF Worker
    <3>2. dirs' = dirs \cup {n} /\ workers' = [workers EXCEPT ![n] = v]
      BY <2>3 DEF Boots, Proc
    <3> QED BY <2>2, <3>1, <3>2
  <2>4. CASE Takes(n)
    <3> DEFINE v == [w EXCEPT !.proc = "busy", !.frame = "none"]
    <3>1. v.known = w.known /\ v.newly = w.newly /\ v.msg = w.msg
      BY DEF Worker
    <3>2. w.proc = "idle" /\ dirs' = dirs /\ workers' = [workers EXCEPT ![n] = v]
      BY <2>4 DEF Takes, Proc
    <3>3. n \in dirs
      BY <1>0, <3>2 DEF DurableOne
    <3> QED BY <2>2, <3>1, <3>2, <3>3
  <2>5. CASE Responds(n)
    <3>1. PICK r \in {"ok", "error"} : Proc(n, {"busy"}, [w EXCEPT !.proc = "idle", !.msg = r])
      BY <2>5 DEF Responds
    <3> DEFINE v == [w EXCEPT !.proc = "idle", !.msg = r]
    <3>2. v.known = w.known /\ v.newly = w.newly
      BY DEF Worker
    <3>3. w.proc = "busy" /\ dirs' = dirs /\ workers' = [workers EXCEPT ![n] = v]
      BY <2>5, <3>1 DEF Responds, Proc
    <3>4. n \in dirs
      BY <1>0, <3>3 DEF DurableOne
    <3> QED BY <2>2, <3>2, <3>3, <3>4
  <2>6. CASE Dies(n)
    <3> DEFINE v == [w EXCEPT !.proc = "dead"]
    <3>1. v.known = w.known /\ v.newly = w.newly /\ v.msg = w.msg /\ v.proc = "dead"
      BY DEF Worker
    <3>2. dirs' = dirs /\ workers' = [workers EXCEPT ![n] = v]
      BY <2>6 DEF Dies, Proc
    <3> QED BY <1>0, <2>2, <3>1, <3>2 DEF DurableOne
  <2>7. CASE Late(n)
    <3> DEFINE v == [w EXCEPT !.late = TRUE]
    <3>1. v.known = w.known /\ v.newly = w.newly /\ v.msg = w.msg /\ v.proc = w.proc
      BY DEF Worker
    <3>2. dirs' = dirs /\ workers' = [workers EXCEPT ![n] = v]
      BY <2>7 DEF Late, Proc
    <3> QED BY <1>0, <2>2, <3>1, <3>2 DEF DurableOne
  <2> QED BY <1>11, <2>3, <2>4, <2>5, <2>6, <2>7 DEF Process
<1>12. ASSUME NEW c \in Fds, Ping(c) \/ Shutdown(c) \/ Send(c) \/ Disconnect(c) PROVE Good
  BY <1>2, <1>12 DEF Ping, Shutdown, Send, Disconnect
<1>14. ASSUME NEW n \in Names, RollbackMidway(n) PROVE Good
  BY <1>0, <1>14 DEF RollbackMidway, Tears, Ends, DurableOne, NoWorker
<1>13. CASE Crash \/ Signal \/ Exit \/ Poll \/ Pass \/ EndClients \/ EndWorkers \/ UNCHANGED vars
  BY <1>2, <1>3, <1>13 DEF Crash, Signal, Exit, Poll, Pass, EndClients, EndWorkers, Ends, vars
<1> HIDE DEF Good
<1> QED BY <1>4, <1>6, <1>7, <1>8, <1>9, <1>10, <1>11, <1>12, <1>13, <1>14 DEF Next, Loop, Visit

-----------------------------------------------------------------------------
LEMMA DownStep ==
  ASSUME Maps, DownOK, [Next]_vars
  PROVE  DownOK'
<1>1. CASE UNCHANGED <<pc, conns>>
  BY <1>1 DEF DownOK
<1>2. CASE pc' # "down"
  BY <1>2 DEF DownOK
<1>3. CASE Ends
  BY <1>3 DEF Ends, DownOK, NoConn
<1>4. ASSUME NEW c \in Fds, Visit(c) \/ Send(c) \/ Disconnect(c) PROVE DownOK'
  BY <1>2, <1>3, <1>4 DEF Visit, Ping, Shutdown, Create, Operate, Stop, Remove, RemoveMidway, Tears, Settle, Visiting, Send, Disconnect
<1>5. ASSUME NEW n \in Names, WorkerTurn(n) PROVE DownOK'
  BY <1>2, <1>5, TurnIs
<1>8. ASSUME NEW n \in Names, RollbackMidway(n) PROVE DownOK'
  BY <1>3, <1>8 DEF RollbackMidway, Tears
<1>6. ASSUME NEW n \in Names, Process(n) PROVE DownOK'
  BY <1>1, <1>6 DEF Process, Boots, Takes, Responds, Dies, Late, Proc
<1>7. CASE Start \/ Crash \/ Signal \/ Exit \/ Poll \/ Pass \/ EndClients \/ EndWorkers \/ UNCHANGED vars
  BY <1>1, <1>2, <1>3, <1>7 DEF Start, Crash, Signal, Exit, Poll, Pass, EndClients, EndWorkers, vars
<1> QED BY <1>4, <1>5, <1>6, <1>7, <1>8 DEF Next, Loop

(* The two halves of LeaseIsTheAskers, for one name and one descriptor *)
LeaseAt(n) == workers[n].client \in Fds =>
  LET k == conns[workers[n].client] IN k.live /\ k.waiting /\ k.req.name = n
WaitAt(f)  == conns[f].waiting /\ ~stopping =>
  workers[conns[f].req.name].client = f /\ workers[conns[f].req.name].fd # NoFd

LEMMA LeaseStep ==
  ASSUME Maps, ConnsOK, WorkersOK, DownOK, LeaseIsTheAskers, [Next]_vars
  PROVE  LeaseIsTheAskers'
<1> DEFINE Good == (\A n \in Names : LeaseAt(n)') /\ \A f \in Fds : WaitAt(f)'
<1>0. /\ (LeaseIsTheAskers' <=> Good)
      /\ (\A n \in Names : LeaseAt(n)) /\ \A f \in Fds : WaitAt(f)
  BY Zenon DEF LeaseIsTheAskers, LeaseAt, WaitAt
<1> SUFFICES Good
  BY <1>0
<1> USE DEF Maps
<1>a. ASSUME NEW f \in Fds, conns[f].waiting \/ conns[f].req # NoRequest PROVE conns[f].req.name \in Names
  BY <1>a DEF ConnsOK, ConnOK, Conn, Requests
(* Nothing changes for the connections that wait. *)
<1>1. ASSUME ~stopping' => ~stopping,
             \A n \in Names : workers'[n].client = workers[n].client /\ workers'[n].fd = workers[n].fd,
             \A f \in Fds : conns[f].waiting => conns'[f].waiting /\ conns'[f].live = conns[f].live /\ conns'[f].req = conns[f].req,
             \A f \in Fds : conns'[f].waiting => conns[f].waiting
      PROVE  Good
  BY <1>0, <1>1, <1>a DEF LeaseAt, WaitAt
(* Spider n loses its lease, and its asker stops waiting. *)
<1>2. ASSUME ~stopping' => ~stopping, NEW n \in Names, NEW w, w.client = NoFd, workers' = [workers EXCEPT ![n] = w],
             \A f \in Fds : conns'[f].waiting => conns[f].waiting /\ conns'[f] = conns[f] /\ f # workers[n].client,
             \A f \in Fds : conns[f].waiting /\ f # workers[n].client => conns'[f] = conns[f]
      PROVE  Good
  <2>1. ASSUME NEW m \in Names PROVE LeaseAt(m)'
    <3>1. CASE m = n
      BY <1>2, <3>1 DEF LeaseAt, Fds, NoFd
    <3>2. CASE m # n
      BY <1>0, <1>2, <3>2 DEF LeaseAt
    <3> QED BY <3>1, <3>2
  <2>2. ASSUME NEW f \in Fds PROVE WaitAt(f)'
    BY <1>0, <1>2, <1>a DEF WaitAt
  <2> QED BY <2>1, <2>2
(* Spider n, which is free, is leased to c. *)
<1>3. ASSUME ~stopping' => ~stopping, NEW c \in Fds, conns[c].req # NoRequest, ~conns[c].waiting, Await(c),
             NEW n, n = conns[c].req.name, NEW w, w.client = c, w.fd # NoFd, workers[n].client = NoFd,
             workers' = [workers EXCEPT ![n] = w]
      PROVE  Good
  <2>0. n \in Names /\ conns[c].live
    BY <1>3, <1>a DEF ConnsOK, ConnOK
  <2>1. /\ conns'[c].waiting /\ conns'[c].live = conns[c].live /\ conns'[c].req = conns[c].req
        /\ \A f \in Fds : f # c => conns'[f] = conns[f]
    BY <1>3 DEF Await, Conn
  <2>2. ASSUME NEW m \in Names PROVE LeaseAt(m)'
    BY <1>0, <1>3, <2>0, <2>1 DEF LeaseAt
  <2>3. ASSUME NEW f \in Fds PROVE WaitAt(f)'
    <3>1. CASE f = c
      BY <1>3, <2>0, <2>1, <3>1 DEF WaitAt
    <3>2. CASE f # c
      <4> SUFFICES ASSUME conns[f].waiting, ~stopping PROVE WaitAt(f)'
        BY <1>3, <2>1, <3>2 DEF WaitAt
      <4>1. workers[conns[f].req.name].client = f /\ conns[f].req.name \in Names
        BY <1>0, <1>a DEF WaitAt
      <4>2. conns[f].req.name # n
        BY <1>3, <4>1 DEF Fds, NoFd
      <4> QED BY <1>0, <1>3, <2>1, <3>2, <4>1, <4>2 DEF WaitAt
    <3> QED BY <3>1, <3>2
  <2> QED BY <2>2, <2>3
(* Connection c is dropped. *)
<1>4. ASSUME ~stopping' => ~stopping, NEW c \in Fds, Dropped(c) PROVE Good
  <2>2. \A n \in Names : workers'[n] = IF workers[n].client = c THEN [workers[n] EXCEPT !.client = Orphan] ELSE workers[n]
    BY <1>4 DEF Dropped, Orphaned
  <2>3. ~conns'[c].waiting /\ \A f \in Fds : f # c => conns'[f] = conns[f]
    BY <1>4 DEF Dropped, NoConn
  <2>4. ASSUME NEW m \in Names PROVE LeaseAt(m)'
    <3>1. CASE workers[m].client = c
      <4>1. workers'[m] = [workers[m] EXCEPT !.client = Orphan]
        BY <2>2, <3>1
      <4>2. workers'[m].client = Orphan
        BY <4>1 DEF Worker
      <4> QED BY <4>2 DEF LeaseAt, Fds, Orphan
    <3>2. CASE workers[m].client # c
      <4>1. workers'[m] = workers[m]
        BY <2>2, <3>2
      <4> QED BY <1>0, <2>3, <3>2, <4>1 DEF LeaseAt
    <3> QED BY <3>1, <3>2
  <2>5. ASSUME NEW f \in Fds PROVE WaitAt(f)'
    <3> SUFFICES ASSUME f # c, conns[f].waiting, ~stopping PROVE WaitAt(f)'
      BY <1>4, <2>3 DEF WaitAt
    <3>1. conns[f].req.name \in Names /\ workers[conns[f].req.name].client = f
      BY <1>0, <1>a DEF WaitAt
    <3>2. workers'[conns[f].req.name] = workers[conns[f].req.name]
      BY <2>2, <3>1
    <3> QED BY <1>0, <2>3, <3>2 DEF WaitAt
  <2> QED BY <2>4, <2>5
<1>5. CASE Ends
  <2>1. (\A f \in Fds : ~conns'[f].waiting) /\ \A n \in Names : workers'[n].client = NoFd
    BY <1>5 DEF Ends, NoConn, NoWorker
  <2> QED BY <2>1 DEF LeaseAt, WaitAt, Fds, NoFd
<1>6. CASE Start
  <2>1. \A f \in Fds : ~conns'[f].waiting
    BY <1>6 DEF Start, DownOK
  <2>2. \A f : Launched(f).client = NoFd
    BY DEF Launched, NoWorker
  <2>3. \A n \in Names : workers'[n] = IF n \in Recovered THEN Launched(Cardinality(Upto(n))) ELSE NoWorker
    BY <1>6 DEF Start, Upto
  <2>4. \A n \in Names : workers'[n].client = NoFd
    BY <2>2, <2>3 DEF NoWorker
  <2> QED BY <2>1, <2>4 DEF LeaseAt, WaitAt, Fds, NoFd
<1>b. \A h \in Fds : conns[h].waiting => conns[h].live
  BY DEF ConnsOK, ConnOK
<1>7. ASSUME ~stopping' => ~stopping, NEW c \in Fds, ~conns[c].waiting, NEW r \in {"ok", "error"}, Answer(c, r), UNCHANGED workers PROVE Good
  <2>1. \A f \in Fds : conns'[f].waiting => conns[f].waiting /\ conns'[f] = conns[f]
    BY <1>7, <1>b, ReplyElsewhere DEF Answer
  <2>2. \A f \in Fds : f # c => conns'[f] = conns[f]
    BY <1>7, <1>b, ReplyElsewhere DEF Answer
  <2> QED BY <1>1, <1>7, <2>1, <2>2
<1>8. ASSUME NEW c \in Fds, Ping(c) \/ Shutdown(c) PROVE Good
  <2>1. CASE Ping(c)
    BY <1>7, <2>1 DEF Ping, Visiting, Readable
  <2>2. CASE Shutdown(c)
    <3>1. ~conns[c].waiting /\ conns[c].live /\ stopping' /\ UNCHANGED workers
      BY <2>2 DEF Shutdown, Visiting, Readable, ConnsOK, ConnOK
    <3>2. \A f \in Fds : f # c => conns'[f] = conns[f]
      BY <2>2 DEF Shutdown, Await
    <3>3. \A n \in Names : workers[n].client # c
      BY <1>0, <3>1 DEF LeaseAt
    <3> QED BY <1>0, <3>1, <3>2, <3>3 DEF LeaseAt, WaitAt
  <2> QED BY <1>8, <2>1, <2>2
<1>9. ASSUME NEW c \in Fds, Create(c) PROVE Good
  <2> DEFINE n == conns[c].req.name
             v == [Launched(Least(FreeFds)) EXCEPT !.newly = TRUE]
  <2>1. ~conns[c].waiting /\ conns[c].req # NoRequest /\ UNCHANGED stopping
    BY <1>9 DEF Create, Visiting, Readable
  <2>2. CASE Answer(c, "error") /\ UNCHANGED workers
    BY <1>7, <2>1, <2>2
  <2>3. CASE FreeFds # {} /\ ~workers[n].known /\ Await(c) /\ workers' = [workers EXCEPT ![n] = Leased(v, c)]
    <3>1. Least(FreeFds) \in Fds
      BY <2>3, FreeIsFree
    <3>2. Leased(v, c).client = c /\ Leased(v, c).fd = Least(FreeFds)
      BY DEF Leased, Launched, NoWorker
    <3>3. Leased(v, c).fd # NoFd
      BY <3>1, <3>2 DEF Fds, NoFd
    <3>4. workers[n].client = NoFd
      BY <1>a, <2>1, <2>3 DEF WorkersOK, NoWorker
    <3> QED BY <1>3, <2>1, <2>3, <3>2, <3>3, <3>4
  <2> QED BY <1>9, <2>2, <2>3 DEF Create
<1>10. ASSUME NEW c \in Fds, Operate(c) PROVE Good
  <2> DEFINE n == conns[c].req.name
             w == workers[n]
             l == Launched(Least(FreeFds))
  <2>1. ~conns[c].waiting /\ conns[c].req # NoRequest /\ UNCHANGED stopping /\ n \in Names
    BY <1>10, <1>a DEF Operate, Visiting, Readable
  <2>2. CASE Answer(c, "error") /\ UNCHANGED workers
    BY <1>7, <2>1, <2>2
  <2>3. CASE w.client = NoFd /\ w.fd # NoFd /\ Await(c) /\ workers' = [workers EXCEPT ![n] = Leased(w, c)]
    <3>1. Leased(w, c).client = c /\ Leased(w, c).fd = w.fd
      BY <2>1 DEF Leased, Worker
    <3> QED BY <1>3, <2>1, <2>3, <3>1
  <2>4. CASE w.client = NoFd /\ FreeFds # {} /\ Await(c) /\ workers' = [workers EXCEPT ![n] = Leased(l, c)]
    <3>1. Least(FreeFds) \in Fds
      BY <2>4, FreeIsFree
    <3>2. Leased(l, c).client = c /\ Leased(l, c).fd = Least(FreeFds)
      BY DEF Leased, Launched, NoWorker
    <3>3. Leased(l, c).fd # NoFd
      BY <3>1, <3>2 DEF Fds, NoFd
    <3> QED BY <1>3, <2>1, <2>4, <3>2, <3>3
  <2> QED BY <1>10, <2>2, <2>3, <2>4 DEF Operate
<1>11. ASSUME NEW c \in Fds, Stop(c) \/ Remove(c) PROVE Good
  <2> DEFINE n == conns[c].req.name
             w == workers[n]
             t == [Terminated(w) EXCEPT !.client = NoFd]
  <2>1. ~conns[c].waiting /\ conns[c].req # NoRequest /\ UNCHANGED stopping /\ n \in Names
    BY <1>11, <1>a DEF Stop, Remove, Visiting, Readable
  <2>2. CASE Answer(c, "error") /\ UNCHANGED workers
    BY <1>7, <2>1, <2>2
  <2>3. ASSUME NEW v, v.client = NoFd, workers' = [workers EXCEPT ![n] = v], conns' = Reply(Cancel(w), c, "ok") PROVE Good
    <3> DEFINE cs == Reply(conns, w.client, "error")
    <3>1. /\ cs \in [Fds -> Conn]
          /\ \A f \in Fds : cs[f].waiting => conns[f].waiting /\ f # w.client /\ cs[f] = conns[f]
          /\ \A f \in Fds : f # w.client => cs[f] = conns[f]
          /\ \A f \in Fds : cs[f].live <=> conns[f].live
      BY <1>b, ReplyType, ReplyElsewhere
    <3>2. conns' = Reply(cs, c, "ok")
      BY <2>3 DEF Cancel
    <3> HIDE DEF cs
    <3>3. \A f \in Fds : cs[f].waiting => cs[f].live
      BY <1>b, <3>1
    <3>4. /\ \A f \in Fds : conns'[f].waiting => cs[f].waiting /\ conns'[f] = cs[f]
          /\ \A f \in Fds : f # c => conns'[f] = cs[f]
      BY <3>1, <3>2, <3>3, ReplyElsewhere
    <3>5. \A f \in Fds : conns'[f].waiting => conns[f].waiting /\ conns'[f] = conns[f] /\ f # w.client
      BY <3>1, <3>4
    <3>6. \A f \in Fds : conns[f].waiting /\ f # w.client => conns'[f] = conns[f]
      BY <2>1, <3>1, <3>4
    <3> QED BY <1>2, <2>1, <2>3, <3>5, <3>6
  <2>4. t.client = NoFd
    BY <2>1, TerminatedType
  <2>5. NoWorker.client = NoFd
    BY DEF NoWorker
  <2> HIDE DEF t
  <2> QED BY <1>11, <2>2, <2>3, <2>4, <2>5 DEF Stop, Remove, t
<1>12. ASSUME NEW c \in Fds, RemoveMidway(c) \/ Settle(c) PROVE Good
  BY <1>1, <1>4, <1>5, <1>12 DEF RemoveMidway, Tears, Settle
<1>13. ASSUME NEW n \in Names, WorkerTurn(n) PROVE Good
  <2> DEFINE w == workers[n]
             t == [Terminated(After(n)) EXCEPT !.client = NoFd]
  <2>0. After(n) \in Worker /\ After(n).fd = w.fd /\ t.client = NoFd /\ NoWorker.client = NoFd
        /\ (Got(n) => After(n).client = NoFd) /\ (~Got(n) => After(n).client = w.client)
    BY AfterType, TerminatedType DEF NoWorker
  <2>1. /\ UNCHANGED stopping
        /\ conns' = IF Got(n) THEN Reply(conns, w.client, w.msg)
                    ELSE IF EndsNow(n) THEN Reply(conns, w.client, "error") ELSE conns
        /\ \/ EndsNow(n) /\ workers' = [workers EXCEPT ![n] = NoWorker]
           \/ EndsNow(n) /\ workers' = [workers EXCEPT ![n] = t]
           \/ ~EndsNow(n) /\ workers' = [workers EXCEPT ![n] = After(n)]
    BY <1>13, TurnIs
  <2> HIDE DEF t
  <2>2. CASE Got(n) \/ EndsNow(n)
    <3>1. PICK r \in {"ok", "error"} : conns' = Reply(conns, w.client, r)
      BY <2>1, <2>2 DEF Got, Worker
    <3>2. /\ \A f \in Fds : conns'[f].waiting => conns[f].waiting /\ f # w.client /\ conns'[f] = conns[f]
          /\ \A f \in Fds : f # w.client => conns'[f] = conns[f]
      BY <1>b, <3>1, ReplyElsewhere
    <3>3. PICK v : workers' = [workers EXCEPT ![n] = v] /\ v.client = NoFd
      BY <2>0, <2>1, <2>2
    <3> QED BY <1>2, <2>1, <3>2, <3>3
  <2>3. CASE ~Got(n) /\ ~EndsNow(n)
    BY <1>1, <2>0, <2>1, <2>3
  <2> QED BY <2>2, <2>3
<1>14. ASSUME NEW n \in Names, Process(n) PROVE Good
  <2> DEFINE w == workers[n]
             Same(v) == v.client = w.client /\ v.fd = w.fd
  <2>0. /\ Same([w EXCEPT !.proc = "idle"]) /\ Same([w EXCEPT !.proc = "dead"]) /\ Same([w EXCEPT !.late = TRUE])
        /\ Same([w EXCEPT !.proc = "busy", !.frame = "none"])
        /\ \A r \in {"ok", "error"} : Same([w EXCEPT !.proc = "idle", !.msg = r])
    BY DEF Worker
  <2> HIDE DEF Same
  <2>1. PICK v : workers' = [workers EXCEPT ![n] = v] /\ Same(v)
    <3>1. CASE Responds(n)
      <4>1. PICK r \in {"ok", "error"} : Proc(n, {"busy"}, [w EXCEPT !.proc = "idle", !.msg = r])
        BY <3>1 DEF Responds
      <4> QED BY <2>0, <4>1, Zenon DEF Proc
    <3>2. CASE Boots(n)
      BY <2>0, <3>2, Zenon DEF Boots, Proc
    <3>3. CASE Takes(n)
      BY <2>0, <3>3, Zenon DEF Takes, Proc
    <3>4. CASE Dies(n)
      BY <2>0, <3>4, Zenon DEF Dies, Proc
    <3>5. CASE Late(n)
      BY <2>0, <3>5, Zenon DEF Late, Proc
    <3> QED BY <1>14, <3>1, <3>2, <3>3, <3>4, <3>5 DEF Process
  <2>2. UNCHANGED <<conns, stopping>>
    BY <1>14 DEF Process, Boots, Takes, Responds, Dies, Late, Proc
  <2> QED BY <1>1, <2>1, <2>2 DEF Same
<1>15. ASSUME NEW c \in Fds, Send(c) \/ Disconnect(c) PROVE Good
  <2>1. UNCHANGED <<workers, stopping>>
    BY <1>15 DEF Send, Disconnect
  <2>2. CASE Send(c)
    <3>1. PICK r \in Requests : conns' = [conns EXCEPT ![c].req = r]
      BY <2>2 DEF Send
    <3>2. ~conns[c].waiting /\ ~conns'[c].waiting
      BY <2>2, <3>1 DEF Send, ConnsOK, ConnOK, Conn
    <3> QED BY <1>1, <2>1, <3>1, <3>2
  <2>3. CASE Disconnect(c)
    <3>1. conns' = [conns EXCEPT ![c].gone = TRUE]
      BY <2>3 DEF Disconnect
    <3>2. conns'[c].waiting = conns[c].waiting /\ conns'[c].live = conns[c].live /\ conns'[c].req = conns[c].req
      BY <3>1 DEF Conn
    <3> QED BY <1>1, <2>1, <3>1, <3>2
  <2> QED BY <1>15, <2>2, <2>3
<1>16. CASE Poll
  <2>1. UNCHANGED <<workers, stopping>>
    BY <1>16 DEF Poll
  <2>2. CASE UNCHANGED conns
    BY <1>1, <2>1, <2>2
  <2>3. CASE FreeFds # {} /\ conns' = [conns EXCEPT ![Least(FreeFds)] = [NoConn EXCEPT !.live = TRUE]]
    <3> DEFINE c == Least(FreeFds)
    <3>1. c \in Fds /\ ~conns[c].live
      BY <2>3, FreeIsFree
    <3>2. ~conns[c].waiting
      BY <1>b, <3>1
    <3>3. ~conns'[c].waiting /\ \A f \in Fds : f # c => conns'[f] = conns[f]
      BY <2>3, <3>1 DEF NoConn
    <3> HIDE DEF c
    <3> QED BY <1>1, <2>1, <3>2, <3>3
  <2> QED BY <1>16, <2>2, <2>3 DEF Poll
<1>18. ASSUME NEW n \in Names, RollbackMidway(n) PROVE Good
  BY <1>5, <1>18 DEF RollbackMidway, Tears
<1>17. CASE Crash \/ Signal \/ Exit \/ Pass \/ EndClients \/ EndWorkers \/ UNCHANGED vars
  BY <1>1, <1>5, <1>17 DEF Crash, Signal, Exit, Pass, EndClients, EndWorkers, vars
<1> HIDE DEF Good
<1> QED BY <1>6, <1>8, <1>9, <1>10, <1>11, <1>12, <1>13, <1>14, <1>15, <1>16, <1>17, <1>18 DEF Next, Loop, Visit

-----------------------------------------------------------------------------
(* The limits: a pass accepts one connection below the limit, only create   *)
(* and startup add to the live map.                                         *)
LEMMA LiveStep ==
  ASSUME Maps, ConnsOK, [Next]_vars
  PROVE  Live' \subseteq Live \/ (~Crowded /\ \E f \in Fds : Live' \subseteq Live \cup {f})
<1> USE DEF Maps
<1> DEFINE Fewer == \A f \in Fds : conns'[f].live => conns[f].live
<1>0. ASSUME Fewer PROVE Live' \subseteq Live
  BY <1>0 DEF Live
<1>b. \A h \in Fds : conns[h].waiting => conns[h].live
  BY DEF ConnsOK, ConnOK
<1>1. ASSUME NEW c, NEW r \in {"ok", "error"}, conns' = Reply(conns, c, r) PROVE Fewer
  BY <1>1, <1>b, ReplyElsewhere
<1>2. ASSUME NEW c \in Fds, NEW w, conns' = Reply(Cancel(w), c, "ok") PROVE Fewer
  <2>1. Cancel(w) \in [Fds -> Conn] /\ \A f \in Fds : ConnOK(Cancel(w)[f])
    BY ReplyKeeps DEF Cancel, ConnsOK
  <2>2. \A f \in Fds : Cancel(w)[f].live <=> conns[f].live
    BY <1>b, ReplyElsewhere DEF Cancel
  <2>3. \A f \in Fds : Cancel(w)[f].waiting => Cancel(w)[f].live
    BY <2>1 DEF ConnOK
  <2>4. \A f \in Fds : conns'[f].live <=> Cancel(w)[f].live
    BY <1>2, <2>1, <2>3, ReplyElsewhere
  <2> QED BY <2>2, <2>4
<1>3. ASSUME NEW c \in Fds, Await(c) PROVE Fewer
  BY <1>3 DEF Await, Conn
<1>4. ASSUME UNCHANGED conns PROVE Fewer
  BY <1>4
<1>5. ASSUME Ends PROVE Fewer
  BY <1>5 DEF Ends, NoConn
<1>6. ASSUME NEW c \in Fds, Visit(c) PROVE Fewer
  <2>1. CASE Ping(c) \/ Shutdown(c) \/ Create(c) \/ Operate(c)
    BY <1>1, <1>3, <2>1 DEF Ping, Shutdown, Create, Operate, Answer
  <2>2. CASE Stop(c) \/ Remove(c)
    BY <1>1, <1>2, <2>2 DEF Stop, Remove, Answer
  <2>3. CASE RemoveMidway(c)
    BY <1>5, <2>3 DEF RemoveMidway, Tears
  <2>4. CASE Settle(c)
    BY <1>4, <2>4 DEF Settle, Dropped, NoConn
  <2> QED BY <1>6, <2>1, <2>2, <2>3, <2>4 DEF Visit
<1>7. ASSUME NEW f \in Fds, Send(f) \/ Disconnect(f) PROVE Fewer
  <2>1. CASE Send(f)
    <3>1. PICK r \in Requests : conns' = [conns EXCEPT ![f].req = r]
      BY <2>1 DEF Send
    <3> QED BY <3>1 DEF Conn
  <2>2. CASE Disconnect(f)
    BY <2>2 DEF Disconnect, Conn
  <2> QED BY <1>7, <2>1, <2>2
<1>8. ASSUME NEW n \in Names, WorkerTurn(n) PROVE Fewer
  <2>1. workers[n].msg # "none" => workers[n].msg \in {"ok", "error"}
    BY DEF Worker
  <2> QED BY <1>1, <1>4, <1>8, <2>1, TurnIs DEF Got
<1>12. ASSUME NEW n \in Names, RollbackMidway(n) PROVE Fewer
  BY <1>5, <1>12 DEF RollbackMidway, Tears
<1>9. ASSUME NEW n \in Names, Process(n) PROVE Fewer
  BY <1>4, <1>9 DEF Process, Boots, Takes, Responds, Dies, Late, Proc
<1>10. ASSUME Start \/ Crash \/ Signal \/ Exit \/ Pass \/ EndClients \/ EndWorkers \/ UNCHANGED vars PROVE Fewer
  BY <1>4, <1>5, <1>10 DEF Start, Crash, Signal, Exit, Pass, EndClients, EndWorkers, vars
<1>11. CASE Poll
  <2>1. CASE FreeFds # {} /\ ~Crowded /\ conns' = [conns EXCEPT ![Least(FreeFds)] = [NoConn EXCEPT !.live = TRUE]]
    <3>1. Least(FreeFds) \in Fds
      BY <2>1, FreeIsFree
    <3>2. \A f \in Fds : f # Least(FreeFds) => conns'[f] = conns[f]
      BY <2>1, <3>1
    <3>3. Live' \subseteq Live \cup {Least(FreeFds)}
      BY <3>2 DEF Live
    <3> QED BY <2>1, <3>1, <3>3
  <2> QED BY <1>0, <1>4, <1>11, <2>1 DEF Poll
<1> HIDE DEF Fewer
<1> QED BY <1>0, <1>6, <1>7, <1>8, <1>9, <1>10, <1>11, <1>12 DEF Next, Loop

LEMMA KnownStep ==
  ASSUME Maps, ConnsOK, WorkersOK, [Next]_vars
  PROVE  \/ Known' \subseteq Known
         \/ Known' \subseteq Recovered
         \/ ~Full /\ \E n \in Names : Known' \subseteq Known \cup {n}
<1> USE DEF Maps
<1>0. ASSUME UNCHANGED workers PROVE Known' \subseteq Known
  BY <1>0 DEF Known
<1>1. ASSUME NEW n \in Names, NEW w, workers' = [workers EXCEPT ![n] = w], w.known => workers[n].known
      PROVE  Known' \subseteq Known
  BY <1>1 DEF Known
<1>2. ASSUME workers' = [n \in Names |-> NoWorker] PROVE Known' \subseteq Known
  BY <1>2 DEF Known, NoWorker
<1>3. CASE Start
  <2>1. \A n \in Names : workers'[n] = IF n \in Recovered THEN Launched(Cardinality(Upto(n))) ELSE NoWorker
    BY <1>3 DEF Start, Upto
  <2> QED BY <2>1 DEF Known, NoWorker
<1>4. ASSUME NEW c \in Fds, Create(c)
      PROVE  Known' \subseteq Known \/ (~Full /\ \E n \in Names : Known' \subseteq Known \cup {n})
  <2> DEFINE n == conns[c].req.name
  <2>1. n \in Names
    BY <1>4 DEF Create, Visiting, Readable, Conn, Requests
  <2>2. ASSUME ~Full, NEW w, workers' = [workers EXCEPT ![n] = w] PROVE ~Full /\ Known' \subseteq Known \cup {n}
    BY <2>1, <2>2 DEF Known
  <2> HIDE DEF n
  <2> QED BY <1>0, <1>4, <2>1, <2>2 DEF Create, n
<1>5. ASSUME NEW c \in Fds, Operate(c) PROVE Known' \subseteq Known
  <2> DEFINE n == conns[c].req.name
  <2>1. n \in Names
    BY <1>5 DEF Operate, Visiting, Readable, Conn, Requests
  <2> HIDE DEF n
  <2> QED BY <1>0, <1>1, <1>5, <2>1 DEF Operate, n
<1>6. ASSUME NEW c \in Fds, Stop(c) \/ Remove(c) PROVE Known' \subseteq Known
  <2> DEFINE n == conns[c].req.name
  <2>1. n \in Names
    BY <1>6 DEF Stop, Remove, Visiting, Readable, Conn, Requests
  <2>2. ~NoWorker.known
    BY DEF NoWorker
  <2> HIDE DEF n
  <2> QED BY <1>0, <1>1, <1>6, <2>1, <2>2 DEF Stop, Remove, n
<1>7. ASSUME NEW c \in Fds, Settle(c) PROVE Known' \subseteq Known
  <2>1. CASE workers' = Orphaned(workers, c)
    <3>1. \A n \in Names : workers'[n] = IF workers[n].client = c THEN [workers[n] EXCEPT !.client = Orphan] ELSE workers[n]
      BY <2>1 DEF Orphaned
    <3>2. \A n \in Names : workers'[n].known = workers[n].known
      BY <3>1 DEF Worker
    <3> QED BY <3>2 DEF Known
  <2> QED BY <1>0, <1>7, <2>1 DEF Settle, Dropped
<1>8. ASSUME NEW n \in Names, WorkerTurn(n) PROVE Known' \subseteq Known
  <2> DEFINE t == [Terminated(After(n)) EXCEPT !.client = NoFd]
  <2>1. After(n) \in Worker /\ After(n).known = workers[n].known
    BY AfterType
  <2>2. t.known = After(n).known
    BY <2>1, TerminatedType
  <2>3. ~NoWorker.known
    BY DEF NoWorker
  <2>4. PICK w \in {NoWorker, t, After(n)} : workers' = [workers EXCEPT ![n] = w]
    BY <1>8, TurnIs
  <2> QED BY <1>1, <2>1, <2>2, <2>3, <2>4
<1>9. ASSUME NEW n \in Names, Process(n) PROVE Known' \subseteq Known
  <2>1. workers[n].known
    BY <1>9 DEF Process, Boots, Takes, Responds, Dies, Late, Proc, WorkersOK, NoWorker
  <2> QED BY <1>1, <1>9, <2>1 DEF Process, Boots, Takes, Responds, Dies, Late, Proc
<1>10. ASSUME NEW c \in Fds, Ping(c) \/ Shutdown(c) \/ RemoveMidway(c) \/ Send(c) \/ Disconnect(c) PROVE Known' \subseteq Known
  BY <1>0, <1>2, <1>10 DEF Ping, Shutdown, RemoveMidway, Tears, Send, Disconnect, Ends
<1>12. ASSUME NEW n \in Names, RollbackMidway(n) PROVE Known' \subseteq Known
  BY <1>2, <1>12 DEF RollbackMidway, Tears, Ends
<1>11. CASE Crash \/ Signal \/ Exit \/ Poll \/ Pass \/ EndClients \/ EndWorkers \/ UNCHANGED vars
  BY <1>0, <1>2, <1>11 DEF Crash, Signal, Exit, Poll, Pass, EndClients, EndWorkers, Ends, vars
<1> QED BY <1>3, <1>4, <1>5, <1>6, <1>7, <1>8, <1>9, <1>10, <1>11, <1>12 DEF Next, Loop, Visit

LEMMA OneMore ==
  ASSUME NEW S, IsFiniteSet(S), NEW T, NEW x, NEW N \in Nat, T \subseteq S \cup {x}, Cardinality(S) < N
  PROVE  Cardinality(T) <= N
<1>1. IsFiniteSet(S \cup {x}) /\ (Cardinality(S \cup {x}) = Cardinality(S) \/ Cardinality(S \cup {x}) = Cardinality(S) + 1)
  BY FS_AddElement
<1>2. Cardinality(S) \in Nat
  BY FS_CardinalityType
<1>3. Cardinality(T) <= Cardinality(S \cup {x}) /\ IsFiniteSet(T)
  BY <1>1, FS_Subset
<1>4. Cardinality(T) \in Nat
  BY <1>3, FS_CardinalityType
<1> QED BY <1>1, <1>2, <1>3, <1>4

LEMMA LimitsStep ==
  ASSUME Maps, Sets, ConnsOK, WorkersOK, [Next]_vars,
         Cardinality(Live) <= MaxClients, Cardinality(Known) <= MaxSpiders
  PROVE  Cardinality(Live)' <= MaxClients /\ Cardinality(Known)' <= MaxSpiders
<1> USE DaemonConstants
<1>1. /\ IsFiniteSet(Live) /\ Cardinality(Live) \in Nat /\ Cardinality(Live') \in Nat
      /\ IsFiniteSet(Known) /\ Cardinality(Known) \in Nat /\ Cardinality(Known') \in Nat
  BY FiniteNames DEF Live, Known
<1>2. ASSUME NEW S, IsFiniteSet(S), NEW T, T \subseteq S PROVE Cardinality(T) <= Cardinality(S)
  BY <1>2, FS_Subset
<1>5. Cardinality(Live') <= MaxClients
  <2>1. CASE Live' \subseteq Live
    BY <1>1, <1>2, <2>1
  <2>2. ASSUME ~Crowded, NEW f \in Fds, Live' \subseteq Live \cup {f} PROVE Cardinality(Live') <= MaxClients
    <3>1. Cardinality(Live) < MaxClients
      BY <1>1, <2>2 DEF Crowded
    <3> QED BY <1>1, <2>2, <3>1, OneMore
  <2> QED BY <2>1, <2>2, LiveStep
<1>6. Cardinality(Known') <= MaxSpiders
  <2>1. CASE Known' \subseteq Known
    BY <1>1, <1>2, <2>1
  <2>2. CASE Known' \subseteq Recovered
    <3>1. IsFiniteSet(Recovered) /\ Cardinality(Recovered) <= MaxSpiders /\ Cardinality(Recovered) \in Nat
      BY RecoveredFew, FS_CardinalityType DEF Sets
    <3> QED BY <1>1, <1>2, <2>2, <3>1
  <2>3. ASSUME ~Full, NEW n \in Names, Known' \subseteq Known \cup {n} PROVE Cardinality(Known') <= MaxSpiders
    <3>1. Cardinality(Known) < MaxSpiders
      BY <1>1, <2>3 DEF Full
    <3> QED BY <1>1, <2>3, <3>1, OneMore
  <2> QED BY <2>1, <2>2, <2>3, KnownStep
<1> QED BY <1>5, <1>6

(* The daemon's own variables *)
OwnOK == /\ pc \in {"poll", "serve", "settle", "workers", "down"} /\ todo \subseteq Fds \cup Names
         /\ events \in [Fds -> SUBSET {"IN", "OUT", "HUP"}]

LEMMA OwnStep ==
  ASSUME OwnOK, Maps, ConnsOK, [Next]_vars
  PROVE  OwnOK'
<1> USE DEF OwnOK
<1>1. CASE UNCHANGED <<pc, todo, events>>
  BY <1>1
<1>2. CASE Ends
  BY <1>2 DEF Ends
<1>3. CASE pc' \in {"settle", "poll"} /\ UNCHANGED <<todo, events>>
  BY <1>3
<1>4. CASE Poll
  <2>1. /\ \A k : ConnEvents(k) \subseteq {"IN", "OUT", "HUP"}
        /\ \A w : WorkerEvents(w) \subseteq {"IN", "OUT", "HUP"}
    BY DEF ConnEvents, WorkerEvents
  <2> DEFINE E(f) == (IF conns[f].live THEN ConnEvents(conns[f]) ELSE {}) \cup
                     UNION {WorkerEvents(workers[n]) : n \in {m \in Names : workers[m].fd = f}}
  <2>2. \A f \in Fds : E(f) \subseteq {"IN", "OUT", "HUP"}
    BY <2>1
  <2>3. events' = [f \in Fds |-> E(f)]
    BY <1>4 DEF Poll
  <2>4. todo' \subseteq Fds /\ pc' = "serve"
    BY <1>4 DEF Poll
  <2> HIDE DEF E
  <2> QED BY <2>2, <2>3, <2>4
<1>5. ASSUME NEW c \in Fds, Visit(c) \/ Send(c) \/ Disconnect(c) PROVE OwnOK'
  <2>1. CASE Ping(c) \/ Shutdown(c) \/ Create(c) \/ Operate(c) \/ Stop(c) \/ Remove(c)
    BY <1>3, <2>1 DEF Ping, Shutdown, Create, Operate, Stop, Remove, Visiting
  <2>2. CASE RemoveMidway(c)
    BY <1>2, <2>2 DEF RemoveMidway, Tears
  <2>3. CASE Settle(c)
    BY <2>3 DEF Settle
  <2>4. CASE Send(c) \/ Disconnect(c)
    BY <1>1, <2>4 DEF Send, Disconnect
  <2> QED BY <1>5, <2>1, <2>2, <2>3, <2>4 DEF Visit
<1>6. ASSUME NEW n \in Names, WorkerTurn(n) PROVE OwnOK'
  BY <1>6, TurnIs
<1>12. ASSUME NEW n \in Names, RollbackMidway(n) PROVE OwnOK'
  BY <1>2, <1>12 DEF RollbackMidway, Tears
<1>7. ASSUME NEW n \in Names, Process(n) PROVE OwnOK'
  BY <1>1, <1>7 DEF Process, Boots, Takes, Responds, Dies, Late, Proc
<1>8. CASE Start \/ Pass
  BY <1>3, <1>8 DEF Start, Pass
<1>9. CASE Crash \/ Exit
  BY <1>2, <1>9 DEF Crash, Exit
<1>10. CASE Signal \/ UNCHANGED vars
  BY <1>1, <1>10 DEF Signal, vars
<1>11. CASE EndClients \/ EndWorkers
  BY <1>11 DEF EndClients, EndWorkers, Known
<1> HIDE DEF OwnOK
<1> QED BY <1>4, <1>5, <1>6, <1>7, <1>8, <1>9, <1>10, <1>11, <1>12 DEF Next, Loop

LEMMA StoppingStep == stopping \in BOOLEAN /\ [Next]_vars => stopping' \in BOOLEAN
<1> SUFFICES ASSUME [Next]_vars PROVE stopping' = stopping \/ stopping' = TRUE \/ stopping' = FALSE
  BY Zenon
<1>1. ASSUME NEW c \in Fds, Visit(c) PROVE stopping' = stopping \/ stopping' = TRUE \/ stopping' = FALSE
  BY <1>1, Zenon DEF Visit, Ping, Shutdown, Create, Operate, Stop, Remove, RemoveMidway, Tears, Settle, Ends
<1>2. ASSUME NEW n \in Names, WorkerTurn(n) PROVE stopping' = stopping
  BY <1>2, TurnIs
<1>6. ASSUME NEW n \in Names, RollbackMidway(n) PROVE stopping' = FALSE
  BY <1>6 DEF RollbackMidway, Tears, Ends
<1>3. ASSUME NEW n \in Names, Process(n) PROVE stopping' = stopping
  BY <1>3 DEF Process, Boots, Takes, Responds, Dies, Late, Proc
<1>4. ASSUME NEW c \in Fds, Send(c) \/ Disconnect(c) PROVE stopping' = stopping
  BY <1>4 DEF Send, Disconnect
<1>5. CASE Start \/ Crash \/ Signal \/ Exit \/ Poll \/ Pass \/ EndClients \/ EndWorkers \/ UNCHANGED vars
  BY <1>5, Zenon DEF Start, Crash, Signal, Exit, Poll, Pass, EndClients, EndWorkers, vars, Ends
<1> QED BY <1>1, <1>2, <1>3, <1>4, <1>5, <1>6, Zenon DEF Next, Loop

LEMMA TypeIs ==
  LET Parts == /\ OwnOK /\ stopping \in BOOLEAN /\ Maps /\ Sets
               /\ Cardinality(Live) <= MaxClients /\ Cardinality(Known) <= MaxSpiders
  IN  (TypeOK <=> Parts) /\ (TypeOK' <=> Parts')
  BY Zenon DEF TypeOK, OwnOK, Maps, Sets

(* The inductive invariant *)
DaemonInv == TypeOK /\ DInv

LEMMA DaemonInit == Init => DaemonInv
<1> SUFFICES ASSUME Init PROVE DaemonInv
  OBVIOUS
<1>1. Maps /\ Sets /\ OwnOK
  BY NothingTyped DEF Init, Maps, Sets, OwnOK
<1>2. stopping \in BOOLEAN
  BY DEF Init
<1>3. Live = {} /\ Known = {}
  BY DEF Init, Live, Known, NoConn, NoWorker
<1>4. Cardinality(Live) <= MaxClients /\ Cardinality(Known) <= MaxSpiders
  BY <1>3, FS_EmptySet, DaemonConstants
<1>5. ConnsOK /\ WorkersOK /\ DurableOK /\ DownOK
  BY DEF Init, ConnsOK, ConnOK, WorkersOK, DurableOK, DownOK, NoConn, NoWorker
<1>6. LeaseIsTheAskers
  <2>1. (\A f \in Fds : ~conns[f].waiting) /\ \A n \in Names : workers[n].client = NoFd
    BY DEF Init, NoConn, NoWorker
  <2> QED BY <2>1 DEF LeaseIsTheAskers, Fds, NoFd
<1> QED BY <1>1, <1>2, <1>4, <1>5, <1>6, TypeIs DEF DaemonInv, DInv

(* The daemon keeps its types and limits, a lease names its asker, and what *)
(* DurableOK says of the registry holds, whatever fails.                    *)
THEOREM DaemonInvariant == Spec => []DaemonInv
<1>1. ASSUME DaemonInv, [Next]_vars PROVE DaemonInv'
  <2>1. /\ OwnOK /\ stopping \in BOOLEAN /\ Maps /\ Sets /\ ConnsOK /\ WorkersOK /\ DurableOK /\ DownOK /\ LeaseIsTheAskers
        /\ Cardinality(Live) <= MaxClients /\ Cardinality(Known) <= MaxSpiders
    BY <1>1, TypeIs DEF DaemonInv, DInv
  <2>2. Maps' /\ ConnsOK' /\ WorkersOK'
    BY <1>1, <2>1, ConnStep, WorkerStep DEF Maps
  <2>3. Sets' /\ DurableOK' /\ DownOK' /\ LeaseIsTheAskers'
    BY <1>1, <2>1, SetsStep, DurableStep, DownStep, LeaseStep
  <2>4. Cardinality(Live)' <= MaxClients /\ Cardinality(Known)' <= MaxSpiders
    BY <1>1, <2>1, LimitsStep
  <2>5. OwnOK' /\ (stopping \in BOOLEAN)'
    BY <1>1, <2>1, OwnStep, StoppingStep
  <2>6. TypeOK'
    BY <2>2, <2>3, <2>4, <2>5, TypeIs
  <2> QED BY <2>2, <2>3, <2>6 DEF DaemonInv, DInv
<1> QED BY <1>1, DaemonInit, PTL DEF Spec

(* TypeOK with its limits: at most MaxClients connections and MaxSpiders    *)
(* spiders, whatever is asked and whatever fails (daemon.cpp).              *)
THEOREM DaemonTypeOK == Spec => []TypeOK
  BY DaemonInvariant, PTL DEF DaemonInv

(* LeaseIsTheAskers, for any number of names, descriptors and faults.       *)
THEOREM LeasesNameTheirAskers == Spec => []LeaseIsTheAskers
  BY DaemonInvariant, PTL DEF DaemonInv, DInv

(* AcknowledgedIsDurable: no fault, crash or interrupted remove loses an    *)
(* acknowledged spider's registration or directory.                         *)
THEOREM AcknowledgedStays == Spec => []AcknowledgedIsDurable
<1>1. DaemonInv => AcknowledgedIsDurable
  BY TypeIs DEF DaemonInv, DInv, DurableOK, AcknowledgedIsDurable, Sets
<1> QED BY <1>1, DaemonInvariant, PTL

-----------------------------------------------------------------------------
(* The registry, the live map and the directories.  They agree as long as   *)
(* no launch fails: a directory without a registered spider is one whose    *)
(* deletion a kill cut short.  Kills between any two writes, and any number *)
(* of restarts, are covered.  Descriptors for every connection and every    *)
(* spider are part of "no launch fails".                                    *)
LaunchesSucceed == "launch" \notin Faults /\ MaxClients + MaxSpiders <= NumFds

Agree ==
  /\ dirs \subseteq registry \cup torn
  /\ pc # "down" => registry = Known
  /\ pc = "down" => Cardinality(registry) <= MaxSpiders

LEMMA RoomForOne ==
  ASSUME DaemonInv, LaunchesSucceed, ~Full
  PROVE  FreeFds # {}
<1> SUFFICES ASSUME FreeFds = {} PROVE FALSE
  OBVIOUS
<1> DEFINE I == {workers[n].fd : n \in Known}
           g == [n \in Known |-> workers[n].fd]
<1>1. IsFiniteSet(Known) /\ Cardinality(Known) \in Nat /\ IsFiniteSet(Live) /\ Cardinality(Live) \in Nat
  BY FiniteNames DEF Known, Live
<1>2. g \in Surjection(Known, I)
  BY DEF Surjection
<1>3. IsFiniteSet(I) /\ Cardinality(I) <= Cardinality(Known)
  BY <1>1, <1>2, FS_Surjection
<1>4. Fds \subseteq Live \cup I
  <2>1. \A n \in Names : workers[n].fd \in Fds => n \in Known
    BY DEF DaemonInv, DInv, WorkersOK, Known, NoWorker, Fds, NoFd
  <2>2. \A f \in Fds : f \in Live \/ \E n \in Names : f = workers[n].fd
    BY DEF FreeFds
  <2> QED BY <2>1, <2>2
<1> HIDE DEF I
<1>5. IsFiniteSet(Live \cup I) /\ Cardinality(Live \cup I) = Cardinality(Live) + Cardinality(I) - Cardinality(Live \cap I)
  BY <1>1, <1>3, FS_Union
<1>6. Cardinality(I) \in Nat /\ Cardinality(Live \cap I) \in Nat
  BY <1>1, <1>3, FS_CardinalityType, FS_Intersection
<1>7. Cardinality(Fds) <= Cardinality(Live \cup I)
  BY <1>4, <1>5, FS_Subset
<1>8. Cardinality(Fds) = NumFds
  BY DaemonConstants, FS_Interval DEF Fds
<1>9. Cardinality(Live) <= MaxClients /\ Cardinality(Known) < MaxSpiders
  BY <1>1, TypeIs, DaemonConstants DEF DaemonInv, Full
<1> QED BY <1>1, <1>3, <1>5, <1>6, <1>7, <1>8, <1>9, DaemonConstants DEF LaunchesSucceed

LEMMA AllRecovered ==
  ASSUME registry \subseteq Names, Cardinality(registry) <= MaxSpiders
  PROVE  Recovered = registry
<1> SUFFICES ASSUME NEW n \in registry PROVE n \in Recovered
  BY DEF Recovered
<1> DEFINE B == {m \in registry : m < n}
<1>1. IsFiniteSet(registry) /\ IsFiniteSet(B) /\ Cardinality(B) \in Nat /\ Cardinality(registry) \in Nat
  BY FiniteNames
<1>2. n \notin B
  BY DaemonConstants DEF Names
<1>3. B \subseteq registry /\ B # registry
  BY <1>2
<1>4. Cardinality(B) <= Cardinality(registry) /\ Cardinality(B) # Cardinality(registry)
  BY <1>1, <1>3, FS_Subset
<1>5. Cardinality(B) < MaxSpiders
  BY <1>1, <1>4, DaemonConstants
<1> QED BY <1>5 DEF Recovered

LEMMA AgreeStep ==
  ASSUME DaemonInv, LaunchesSucceed, Agree, [Next]_vars
  PROVE  Agree'
<1>0. /\ Maps /\ Sets /\ ConnsOK /\ WorkersOK /\ DurableOK
      /\ Cardinality(Known) <= MaxSpiders
  BY TypeIs DEF DaemonInv, DInv
<1> USE DEF Maps
<1>1. ASSUME UNCHANGED <<registry, dirs, torn>>, Known' = Known, pc' = "down" <=> pc = "down" PROVE Agree'
  BY <1>1 DEF Agree
<1>2. ASSUME Ends, pc # "down", UNCHANGED <<registry, dirs, torn>> PROVE Agree'
  BY <1>0, <1>2 DEF Agree, Ends
(* A kill midway leaves the directory to torn. *)
<1>15. ASSUME NEW n \in Names, Tears(n), pc # "down" PROVE Agree'
  <2>1. /\ registry' = registry \ {n} /\ torn' = torn \cup (dirs \cap {n}) /\ dirs' = dirs /\ pc' = "down"
        /\ registry = Known
    BY <1>15 DEF Tears, Ends, Agree
  <2>2. IsFiniteSet(Known) /\ Cardinality(Known) \in Nat
    BY FiniteNames DEF Known
  <2>3. Cardinality(Known \ {n}) <= Cardinality(Known) /\ Cardinality(Known \ {n}) \in Nat
    BY <2>2, FS_Subset, FS_CardinalityType
  <2>4. Cardinality(registry') <= MaxSpiders
    BY <1>0, <2>1, <2>2, <2>3, DaemonConstants
  <2> QED BY <2>1, <2>4 DEF Agree
<1>3. CASE Start
  <2>1. Recovered = registry
    BY <1>0, <1>3, AllRecovered DEF Start, Agree, Sets
  <2>2. \A n \in Names : workers'[n] = IF n \in registry THEN Launched(Cardinality(Upto(n))) ELSE NoWorker
    BY <1>3, <2>1 DEF Start, Upto
  <2>3. (\A f : Launched(f).known) /\ ~NoWorker.known
    BY DEF Launched, NoWorker
  <2>4. \A n \in Names : workers'[n].known <=> n \in registry
    BY <2>2, <2>3
  <2>5. Known' = registry
    BY <1>0, <2>4 DEF Known, Sets
  <2> QED BY <1>3, <2>5 DEF Start, Agree
<1>4. ASSUME NEW c \in Fds, Create(c) PROVE Agree'
  <2> DEFINE n == conns[c].req.name
             v == [Launched(Least(FreeFds)) EXCEPT !.newly = TRUE]
  <2>1. n \in Names /\ pc = "serve" /\ pc' = "settle" /\ dirs' = dirs /\ torn' = torn
    BY <1>0, <1>4 DEF Create, Visiting, Readable, Conn, Requests
  <2>2. CASE UNCHANGED <<workers, registry>>
    BY <1>1, <2>1, <2>2 DEF Known
  <2>3. CASE ~Full /\ registry' = registry \cup {n} /\ MayFail
    BY <2>3, RoomForOne DEF MayFail, LaunchesSucceed
  <2>4. CASE registry' = registry \cup {n} /\ workers' = [workers EXCEPT ![n] = Leased(v, c)]
    <3>1. Leased(v, c).known
      BY DEF Leased, Launched, NoWorker
    <3>2. Known' = Known \cup {n}
      BY <1>0, <2>1, <2>4, <3>1 DEF Known
    <3> QED BY <2>1, <2>4, <3>2 DEF Agree
  <2> QED BY <1>4, <2>2, <2>3, <2>4 DEF Create
<1>5. ASSUME NEW n \in Names, NEW w, workers' = [workers EXCEPT ![n] = w], w.known <=> workers[n].known PROVE Known' = Known
  BY <1>0, <1>5 DEF Known
<1>6. ASSUME NEW n \in Names, workers' = [workers EXCEPT ![n] = NoWorker], registry' = registry \ {n}, dirs' = dirs \ {n}, torn' = torn,
             pc # "down", pc' # "down"
      PROVE  Agree'
  <2>1. ~NoWorker.known
    BY DEF NoWorker
  <2>2. Known' = Known \ {n}
    BY <1>0, <1>6, <2>1 DEF Known
  <2> QED BY <1>6, <2>2 DEF Agree
<1>7. ASSUME NEW c \in Fds, Operate(c) PROVE Agree'
  <2> DEFINE n == conns[c].req.name
             w == workers[n]
             l == Launched(Least(FreeFds))
  <2>1. n \in Names /\ pc = "serve" /\ pc' = "settle" /\ UNCHANGED <<registry, dirs, torn>>
    BY <1>0, <1>7 DEF Operate, Visiting, Readable, Conn, Requests
  <2>2. CASE UNCHANGED workers
    BY <1>1, <2>1, <2>2 DEF Known
  <2>3. CASE w.known /\ workers' = [workers EXCEPT ![n] = Leased(w, c)]
    <3>1. Leased(w, c).known = w.known
      BY <1>0, <2>1 DEF Leased, Worker
    <3> QED BY <1>1, <1>5, <2>1, <2>3, <3>1
  <2>4. CASE w.known /\ workers' = [workers EXCEPT ![n] = Leased(l, c)]
    <3>1. Leased(l, c).known
      BY DEF Leased, Launched, NoWorker
    <3> QED BY <1>1, <1>5, <2>1, <2>4, <3>1
  <2> QED BY <1>7, <2>2, <2>3, <2>4 DEF Operate
<1>8. ASSUME NEW c \in Fds, Stop(c) \/ Remove(c) PROVE Agree'
  <2> DEFINE n == conns[c].req.name
             w == workers[n]
             t == [Terminated(w) EXCEPT !.client = NoFd]
  <2>1. n \in Names /\ pc = "serve" /\ pc' = "settle" /\ torn' = torn
    BY <1>0, <1>8 DEF Stop, Remove, Visiting, Readable, Conn, Requests
  <2>2. CASE UNCHANGED <<workers, registry, dirs, torn>>
    BY <1>1, <2>1, <2>2 DEF Known
  <2>3. CASE workers' = [workers EXCEPT ![n] = t] /\ UNCHANGED <<registry, dirs, torn>>
    <3>1. t.known = w.known
      BY <1>0, <2>1, TerminatedType
    <3> HIDE DEF t
    <3> QED BY <1>1, <1>5, <2>1, <2>3, <3>1
  <2>4. CASE workers' = [workers EXCEPT ![n] = NoWorker] /\ registry' = registry \ {n} /\ dirs' = dirs \ {n}
    BY <1>6, <2>1, <2>4
  <2> QED BY <1>8, <2>2, <2>3, <2>4 DEF Stop, Remove, WithoutState
<1>9. ASSUME NEW c \in Fds, RemoveMidway(c) \/ Settle(c) PROVE Agree'
  <2>1. CASE RemoveMidway(c)
    <3>1. conns[c].req.name \in Names
      BY <1>0, <2>1 DEF RemoveMidway, Readable, Conn, Requests
    <3> QED BY <1>15, <2>1, <3>1 DEF RemoveMidway
  <2> SUFFICES ASSUME Settle(c) PROVE Agree'
    BY <1>9, <2>1
  <2>2. pc = "settle" /\ pc' = "serve" /\ UNCHANGED <<registry, dirs, torn>>
    BY DEF Settle
  <2>3. CASE workers' = Orphaned(workers, c)
    <3>1. \A n \in Names : workers'[n] = IF workers[n].client = c THEN [workers[n] EXCEPT !.client = Orphan] ELSE workers[n]
      BY <2>3 DEF Orphaned
    <3>2. \A n \in Names : workers'[n].known = workers[n].known
      BY <1>0, <3>1 DEF Worker
    <3>3. Known' = Known
      BY <3>2 DEF Known
    <3> QED BY <1>1, <2>2, <3>3
  <2>4. CASE UNCHANGED workers
    BY <1>1, <2>2, <2>4 DEF Known
  <2> QED BY <2>3, <2>4 DEF Settle, Dropped
<1>10. ASSUME NEW n \in Names, WorkerTurn(n) PROVE Agree'
  <2> DEFINE t == [Terminated(After(n)) EXCEPT !.client = NoFd]
  <2>1. After(n) \in Worker /\ After(n).known = workers[n].known
    BY <1>0, AfterType
  <2>2. t.known = After(n).known
    BY <2>1, TerminatedType
  <2>3. pc = "workers" /\ UNCHANGED <<pc, torn>>
    BY <1>10, TurnIs
  <2>4. CASE EndsNow(n) /\ After(n).newly
    BY <1>6, <1>10, <2>3, <2>4, TurnIs DEF WithoutState
  <2>5. CASE ~(EndsNow(n) /\ After(n).newly)
    <3>1. UNCHANGED <<registry, dirs, torn>> /\ workers' = [workers EXCEPT ![n] = IF EndsNow(n) THEN t ELSE After(n)]
      BY <1>10, <2>3, <2>5, TurnIs
    <3> HIDE DEF t
    <3> QED BY <1>1, <1>5, <2>1, <2>2, <2>3, <3>1
  <2> QED BY <2>4, <2>5
<1>11. ASSUME NEW n \in Names, Process(n) PROVE Agree'
  <2> DEFINE w == workers[n]
  <2>1. w.proc # "none" => w.known
    BY <1>0 DEF WorkersOK, NoWorker
  <2>2. w.known /\ UNCHANGED <<pc, registry, torn>>
    BY <1>11, <2>1 DEF Process, Boots, Takes, Responds, Dies, Late, Proc
  <2>3. dirs' = dirs \/ dirs' = dirs \cup {n}
    BY <1>11 DEF Process, Boots, Takes, Responds, Dies, Late
  <2>4. n \in registry
    BY <1>0, <2>2 DEF DurableOK
  <2>5. /\ [w EXCEPT !.proc = "idle"].known = w.known /\ [w EXCEPT !.proc = "dead"].known = w.known
        /\ [w EXCEPT !.late = TRUE].known = w.known
        /\ [w EXCEPT !.proc = "busy", !.frame = "none"].known = w.known
        /\ \A r \in {"ok", "error"} : [w EXCEPT !.proc = "idle", !.msg = r].known = w.known
    BY <1>0 DEF Worker
  <2>6. Known' = Known
    BY <1>5, <1>11, <2>5 DEF Process, Boots, Takes, Responds, Dies, Late, Proc
  <2> QED BY <2>2, <2>3, <2>4, <2>6 DEF Agree
<1>16. ASSUME NEW n \in Names, RollbackMidway(n) PROVE Agree'
  BY <1>15, <1>16 DEF RollbackMidway
<1>12. ASSUME NEW c \in Fds, Ping(c) \/ Shutdown(c) \/ Send(c) \/ Disconnect(c) PROVE Agree'
  BY <1>1, <1>12 DEF Ping, Shutdown, Send, Disconnect, Visiting, Known
<1>13. CASE Crash \/ Exit
  BY <1>2, <1>13 DEF Crash, Exit
<1>14. CASE Signal \/ Poll \/ Pass \/ EndClients \/ EndWorkers \/ UNCHANGED vars
  BY <1>1, <1>14 DEF Signal, Poll, Pass, EndClients, EndWorkers, vars, Known
<1> QED BY <1>3, <1>4, <1>7, <1>8, <1>9, <1>10, <1>11, <1>12, <1>13, <1>14, <1>16 DEF Next, Loop, Visit

(* DaemonKnowsItsSpiders, under LaunchesSucceed: wherever the daemon was    *)
(* killed before, a running one knows every acknowledged spider, and the    *)
(* only directories that block a name are those whose deletion a kill cut   *)
(* short.                                                                   *)
THEOREM DaemonKnows == LaunchesSucceed => (Spec => []DaemonKnowsItsSpiders)
<1> SUFFICES ASSUME LaunchesSucceed PROVE Spec => []DaemonKnowsItsSpiders
  OBVIOUS
<1>1. Init => Agree
  BY FS_EmptySet, DaemonConstants DEF Init, Agree
<1>2. DaemonInv /\ Agree /\ [Next]_vars => Agree'
  BY AgreeStep
<1>3. DaemonInv /\ Agree => DaemonKnowsItsSpiders
  BY TypeIs DEF DaemonInv, DInv, DurableOK, Sets, Agree, DaemonKnowsItsSpiders, AcknowledgedIsRecovered, NoNameIsWedged
<1> QED BY <1>1, <1>2, <1>3, DaemonInvariant, PTL DEF Spec
=============================================================================
