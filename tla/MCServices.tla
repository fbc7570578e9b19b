----------------------------- MODULE MCServices ------------------------------
(***************************************************************************)
(* The long-running services side by side: the web interface, the page     *)
(* watcher, the qutebrowser bridge and the crawl engine of a spider        *)
(* worker.  They share no state, so a behaviour is one of one of them:     *)
(* service is chosen at the start and the others never leave their initial *)
(* states, in which none of their fair actions is enabled.                 *)
(***************************************************************************)
EXTENDS WebInterface, Pagewatch, QuteBridge, SpiderEngine, TLC

CONSTANTS pageA, pageB, pageC, pageD, elsewhere

Req(op, on, handle) == [op |-> op, on |-> on, handle |-> handle]
WireRequests == {Req("create", 0, 0), Req("upgrade", 0, 0), Req("navigate", 1, 0), Req("find", 1, 0),
                 Req("endpoints", 1, 0), Req("wd-delete", 1, 0)}
HostRequests == {Req("endpoints", 2, 0), Req("set", 2, 1), Req("click", 1, 1),
                 Req("rest-delete", 1, 0)}

(* A site of four pages: two levels of links, a cycle, a link that leaves   *)
(* the origin, and a driver that stages two operations.                     *)
Site == {pageA, pageB, pageC, pageD}
SiteLinks == (pageA :> <<pageB, pageC>>) @@ (pageB :> <<pageA, pageD>>) @@ (pageC :> <<elsewhere, pageD>>) @@ (pageD :> <<>>)
Starts == {pageA, pageD}
CrawlOptions == {[max_pages |-> 3, max_depth |-> 2], [max_pages |-> 1, max_depth |-> 1]}
Staging == {<<[url |-> pageC, depth |-> 1], [url |-> elsewhere, depth |-> 0]>>,
            <<[url |-> pageD, depth |-> 0], [url |-> pageB, depth |-> 2]>>}

VARIABLE service
ServicesVars == <<WebVars, PgVars, QbVars, EngineVars, service>>

ServicesInit ==
  /\ WebInit /\ PgInit /\ QbInit /\ EngineInit
  /\ service \in {"web", "pagewatch", "bridge", "engine"}
  /\ page = "A"          \* contents are interchangeable

ServicesNext ==
  /\ \/ service = "web" /\ WebNext /\ UNCHANGED <<PgVars, QbVars, EngineVars>>
     \/ service = "pagewatch" /\ PgNext /\ UNCHANGED <<WebVars, QbVars, EngineVars>>
     \/ service = "bridge" /\ QbNext /\ UNCHANGED <<WebVars, PgVars, EngineVars>>
     \/ service = "engine" /\ EngineNext /\ UNCHANGED <<WebVars, PgVars, QbVars>>
  /\ UNCHANGED service

ServicesSpec ==
  /\ ServicesInit /\ [][ServicesNext]_ServicesVars
  /\ WebFairness /\ PgFairness /\ EngineFairness
=============================================================================
