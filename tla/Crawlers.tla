------------------------------ MODULE Crawlers -------------------------------
(***************************************************************************)
(* The two crawlers: the driver drivers/crawl_site.lua, and the crawler    *)
(* tool, lcrawler.lua under its host main.cpp with the restricted network  *)
(* of tools/automation/support.cpp.                                        *)
(*                                                                         *)
(* The site is a table: a page's URL leads to a page, itself or the target *)
(* of a redirect, and a page has links and endpoints.  A link says where   *)
(* it leads from its page and where it leads from the start URL, against   *)
(* which the driver resolves every link.                                   *)
(***************************************************************************)
EXTENDS Naturals, Sequences, FiniteSets, Positions

CONSTANTS
  CrawlUrls,       \* the URLs links name
  CrawlStart,
  OriginOf,        \* their origins
  PageAt,          \* where a request for a URL ends: [CrawlUrls -> CrawlUrls]
  LinksOn,         \* [CrawlUrls -> sequences of [here, fromStart]]
  FoundOn,         \* the endpoints a page shows: [CrawlUrls -> sets of [key, confidence, parameters]]
  BlockedUrls,     \* what blocked_paths match
  DisallowedUrls,  \* what robots.txt disallows
  CrawlOrigins,    \* the origins the host's network admits
  CrawlLimits,     \* the configurations: [pages, depth, frontier, requests]
  MaxOutput        \* records and endpoints the output limits allow (16 MiB, 10000)

(* A confidence is between 0 and 1, here in hundredths.                    *)
ASSUME CrawlConstants ==
  /\ CrawlStart \in CrawlUrls /\ PageAt \in [CrawlUrls -> CrawlUrls]
  /\ LinksOn \in [CrawlUrls -> Seq([here : CrawlUrls, fromStart : CrawlUrls])]
  /\ \A u \in CrawlUrls : \A e \in FoundOn[u] :
       e = [key |-> e.key, confidence |-> e.confidence, parameters |-> e.parameters] /\ e.confidence \in 0..100
  /\ CrawlLimits \subseteq [pages : Nat, depth : Nat, frontier : Nat, requests : Nat]

VARIABLES
  crawler,     \* "driver", "tool", or "offline": the tool with the HTML given
  climits, clogin,   \* its configuration; whether the tool logs in with a form
  cpc,
  attempt,     \* main's attempt
  remaining,   \* RestrictedNetwork::remaining_
  permitted,   \* what robots returned: "all", "none" or "rules"
  frontier, cursor,   \* the driver's queue is what is left of frontier
  seen, visited,
  records,     \* the pages in the output: [page, depth]
  endpoints,   \* [keys -> [confidence, parameters]]
  failures, truncated,
  files        \* the output files on disk: [names -> their new content, <<>> while it is the old one]

CrawlVars == <<crawler, climits, clogin, cpc, attempt, remaining, permitted, frontier, cursor, seen, visited, records, endpoints,
               failures, truncated, files>>
Walk == <<frontier, cursor, seen, visited, records, endpoints, failures, truncated>>

Entry(url, level) == [url |-> url, depth |-> level]
Report(page, level) == [page |-> page, depth |-> level]
CrawlInit ==
  /\ crawler \in {"driver", "tool", "offline"} /\ climits \in CrawlLimits /\ clogin \in {l \in BOOLEAN : l => crawler = "tool"}
  /\ cpc = "begin" /\ attempt = 0 /\ remaining = climits.requests /\ permitted = "all"
  /\ frontier = <<>> /\ cursor = 1 /\ seen = {} /\ visited = {} /\ records = <<>> /\ endpoints = <<>>
  /\ failures = 0 /\ truncated = FALSE
  /\ files = [f \in {"pages", "openapi", "postman"} |-> <<>>]

Home(url) == OriginOf[url] = OriginOf[CrawlStart]
Popped == frontier[cursor]
Queued == cursor <= Len(frontier)

-----------------------------------------------------------------------------
(* crawl_site.lua.                                                         *)

DriverBegins ==
  /\ crawler = "driver" /\ cpc = "begin" /\ cpc' = "walk"
  /\ frontier' = <<Entry(CrawlStart, 0)>>
  /\ UNCHANGED <<crawler, climits, clogin, attempt, remaining, permitted, cursor, seen, visited, records, endpoints, failures,
                 truncated, files>>
DriverWalks == crawler = "driver" /\ cpc = "walk" /\ Queued /\ Len(records) < climits.pages
DriverSkips ==
  /\ DriverWalks /\ Popped.url \in visited
  /\ cursor' = cursor + 1
  /\ UNCHANGED <<crawler, climits, clogin, cpc, attempt, remaining, permitted, frontier, seen, visited, records, endpoints,
                 failures, truncated, files>>
(* The links of the page, resolved against the start URL.                  *)
Followed(page, known) ==
  LET links == LinksOn[page]
  IN  AtPositions([i \in DOMAIN links |-> links[i].fromStart],
                  {i \in DOMAIN links : links[i].fromStart \notin known /\ Home(links[i].fromStart)})
DriverVisits ==
  LET page == PageAt[Popped.url]
      next == Followed(page, visited \cup {Popped.url})
  IN  /\ DriverWalks /\ Popped.url \notin visited
      /\ cursor' = cursor + 1 /\ visited' = visited \cup {Popped.url}
      /\ \/ /\ records' = Append(records, Report(page, Popped.depth))
            /\ frontier' = IF Popped.depth < climits.depth
                           THEN frontier \o [i \in DOMAIN next |-> Entry(next[i], Popped.depth + 1)] ELSE frontier
            /\ UNCHANGED failures
         \/ failures' = failures + 1 /\ UNCHANGED <<records, frontier>>
      /\ UNCHANGED <<crawler, climits, clogin, cpc, attempt, remaining, permitted, seen, endpoints, truncated, files>>
(* write_jsonl truncates the file, and then writes.                        *)
DriverWrites ==
  /\ crawler = "driver" /\ cpc = "walk" /\ ~(Queued /\ Len(records) < climits.pages)
  /\ \/ cpc' = "done" /\ files' = [files EXCEPT !.pages = <<records>>]
     \/ cpc' = "failed" /\ UNCHANGED files
  /\ UNCHANGED <<crawler, climits, clogin, attempt, remaining, permitted, Walk>>
(* With the HTML given: one record, no request.                            *)
DriverOffline ==
  /\ crawler = "driver" /\ cpc = "begin" /\ cpc' = "done"
  /\ records' = <<Report(CrawlStart, 0)>> /\ files' = [files EXCEPT !.pages = <<records'>>]
  /\ UNCHANGED <<crawler, climits, clogin, attempt, remaining, permitted, frontier, cursor, seen, visited, endpoints, failures,
                 truncated>>

-----------------------------------------------------------------------------
(* The host: a browser, a network and a session for every attempt.         *)

RestrictedSend(url, n) == OriginOf[url] \in CrawlOrigins /\ remaining >= n /\ remaining' = remaining - n
HostBegins ==
  /\ crawler = "tool" /\ cpc = "begin" /\ cpc' = "login"
  /\ remaining' = climits.requests /\ permitted' = "all"
  /\ frontier' = <<>> /\ cursor' = 1 /\ seen' = {} /\ visited' = {} /\ records' = <<>> /\ endpoints' = <<>>
  /\ failures' = 0 /\ truncated' = FALSE
  /\ UNCHANGED <<crawler, climits, clogin, attempt, files>>
(* authenticate: nothing to do, done before, done now, or 3.               *)
Authenticate ==
  /\ cpc = "login"
  /\ \/ ~clogin /\ cpc' = "robots" /\ UNCHANGED remaining
     \/ clogin /\ cpc' \in {"robots", "assist"} /\ remaining' \in 0..remaining
  /\ UNCHANGED <<crawler, climits, clogin, attempt, permitted, Walk, files>>

(* robots: a refusal or a failure permits nothing, no file permits all.    *)
Robots ==
  /\ cpc = "robots" /\ cpc' = "seed"
  /\ \/ RestrictedSend(CrawlStart, 1) /\ permitted' \in {"none", "all", "rules"}
     \/ permitted' = "none" /\ remaining' \in {remaining, IF remaining > 0 THEN remaining - 1 ELSE 0}
     \/ permitted' = "all" /\ UNCHANGED remaining                        \* respect_robots = false
  /\ UNCHANGED <<crawler, climits, clogin, attempt, Walk, files>>
Permits(url) == permitted = "all" \/ (permitted = "rules" /\ url \notin DisallowedUrls)
Admissible(url) == Home(url) /\ url \notin BlockedUrls /\ Permits(url)

(* The crawl starts where the login landed, if that may be crawled.        *)
Seed ==
  /\ cpc = "seed" /\ cpc' = "walk"
  /\ \E url \in {CrawlStart} \cup {u \in CrawlUrls : clogin /\ Admissible(u)} :
       frontier' = <<Entry(url, 0)>> /\ seen' = {url}
  /\ UNCHANGED <<crawler, climits, clogin, attempt, remaining, permitted, cursor, visited, records, endpoints, failures,
                 truncated, files>>

-----------------------------------------------------------------------------
(* M.run's loop.                                                           *)

ToolWalks == crawler = "tool" /\ cpc = "walk" /\ Queued /\ cursor - 1 < climits.pages
(* Not admissible, not answered, not 2xx or not HTML.                      *)
ToolFails ==
  /\ ToolWalks /\ cursor' = cursor + 1 /\ failures' = failures + 1
  /\ remaining' \in IF Admissible(Popped.url) THEN 0..remaining ELSE {remaining}
  /\ UNCHANGED <<crawler, climits, clogin, cpc, attempt, permitted, frontier, seen, visited, records, endpoints, truncated, files>>
(* A redirect is a request of its own, and the page's scripts make more.   *)
Hops(url) == IF PageAt[url] = url THEN 1 ELSE 2
Fetch(url) ==
  /\ Admissible(url) /\ OriginOf[PageAt[url]] \in CrawlOrigins
  /\ \E more \in {0, 1} : RestrictedSend(url, Hops(url) + more)
(* An anti-bot page ends the attempt, and so does one of another origin.   *)
ToolChallenged ==
  /\ ToolWalks /\ Admissible(Popped.url) /\ RestrictedSend(Popped.url, 1)
  /\ cpc' = "assist" /\ cursor' = cursor + 1
  /\ UNCHANGED <<crawler, climits, clogin, attempt, permitted, frontier, seen, visited, records, endpoints, failures, truncated, files>>
ToolLeaves ==
  /\ ToolWalks /\ Fetch(Popped.url) /\ ~Home(PageAt[Popped.url])
  /\ cpc' = "failed" /\ cursor' = cursor + 1
  /\ UNCHANGED <<crawler, climits, clogin, attempt, permitted, frontier, seen, visited, records, endpoints, failures, truncated, files>>
ToolAgain ==
  /\ ToolWalks /\ Fetch(Popped.url) /\ PageAt[Popped.url] \in visited
  /\ cursor' = cursor + 1
  /\ UNCHANGED <<crawler, climits, clogin, cpc, attempt, permitted, frontier, seen, visited, records, endpoints, failures,
                 truncated, files>>

(* The endpoints of a page, each new or merged with those of its key: the  *)
(* most confident one stays, with the parameters of all.                   *)
Strongest(all) == CHOOSE e \in all : \A other \in all : other.confidence <= e.confidence
MergeEndpoint(all) == [Strongest(all) EXCEPT !.parameters = UNION {e.parameters : e \in all}]
WithEndpoints(page) ==
  [k \in DOMAIN endpoints \cup {e.key : e \in FoundOn[page]} |->
     MergeEndpoint({e \in FoundOn[page] : e.key = k} \cup {endpoints[j] : j \in DOMAIN endpoints \cap {k}})]

(* The links in order: a new admissible one is queued while depth and      *)
(* frontier allow, else the crawl is truncated.                            *)
Fresh(page, i) ==
  LET u == LinksOn[page][i].here
  IN  Admissible(u) /\ u \notin seen /\ ~\E j \in 1..(i - 1) : LinksOn[page][j].here = u
FreshLinks(page) == AtPositions([i \in DOMAIN LinksOn[page] |-> i], {i \in DOMAIN LinksOn[page] : Fresh(page, i)})
Room == IF Popped.depth >= climits.depth \/ Len(frontier) >= climits.frontier THEN 0 ELSE climits.frontier - Len(frontier)
Taken(page) == SubSeq(FreshLinks(page), 1, IF Len(FreshLinks(page)) < Room THEN Len(FreshLinks(page)) ELSE Room)
ToolVisits ==
  LET page == PageAt[Popped.url]
      taken == Taken(page)
  IN  /\ ToolWalks /\ Fetch(Popped.url) /\ Home(page) /\ page \notin visited
      /\ Len(records) + Cardinality(DOMAIN WithEndpoints(page)) < MaxOutput
      /\ cursor' = cursor + 1 /\ visited' = visited \cup {page}
      /\ endpoints' = WithEndpoints(page) /\ records' = Append(records, Report(page, Popped.depth))
      /\ frontier' = frontier \o [i \in DOMAIN taken |-> Entry(LinksOn[page][taken[i]].here, Popped.depth + 1)]
      /\ seen' = seen \cup {LinksOn[page][taken[i]].here : i \in DOMAIN taken}
      /\ truncated' = (truncated \/ Len(taken) < Len(FreshLinks(page)))
      /\ UNCHANGED <<crawler, climits, clogin, cpc, attempt, permitted, failures, files>>
(* on_page, the query or an output limit raises: nothing is written.       *)
ToolRaises ==
  /\ ToolWalks /\ Fetch(Popped.url) /\ Home(PageAt[Popped.url]) /\ PageAt[Popped.url] \notin visited
  /\ cpc' = "failed" /\ cursor' = cursor + 1
  /\ UNCHANGED <<crawler, climits, clogin, attempt, permitted, frontier, seen, visited, records, endpoints, failures, truncated, files>>
NothingLeft == FALSE
LeftOver == Queued
ToolEnds ==
  /\ crawler = "tool" /\ cpc = "walk" /\ ~(Queued /\ cursor - 1 < climits.pages)
  /\ truncated' = (truncated \/ LeftOver)
  /\ cpc' = IF records # <<>> THEN "pages" ELSE "failed"
  /\ UNCHANGED <<crawler, climits, clogin, attempt, remaining, permitted, frontier, cursor, seen, visited, records, endpoints,
                 failures, files>>

(* With the HTML given it is the page of the start URL: no login, no       *)
(* robots.txt, no request, and its links are not looked at.                *)
ToolOffline ==
  /\ crawler = "offline" /\ cpc = "begin"
  /\ frontier' = <<Entry(CrawlStart, 0)>> /\ cursor' = 2 /\ seen' = {CrawlStart}
  /\ \/ /\ Cardinality(DOMAIN WithEndpoints(CrawlStart)) < MaxOutput
        /\ visited' = visited \cup {CrawlStart} /\ endpoints' = WithEndpoints(CrawlStart)
        /\ records' = Append(records, Report(CrawlStart, 0)) /\ cpc' = "pages"
     \/ cpc' = "failed" /\ UNCHANGED <<visited, endpoints, records>>               \* as in ToolRaises
  /\ UNCHANGED <<crawler, climits, clogin, attempt, remaining, permitted, failures, truncated, files>>

(* The user may lend a browser, once.                                      *)
Assistant ==
  /\ cpc = "assist"
  /\ \/ attempt = 0 /\ attempt' = 1 /\ cpc' = "begin"
     \/ cpc' = "failed" /\ UNCHANGED attempt
  /\ UNCHANGED <<crawler, climits, clogin, remaining, permitted, Walk, files>>
(* write_file replaces a file whole or not at all; the others may be unset.*)
Contents == [pages |-> records, openapi |-> endpoints, postman |-> endpoints]
NextFile == [pages |-> "openapi", openapi |-> "postman", postman |-> "done"]
HostWrites ==
  /\ cpc \in DOMAIN NextFile
  /\ \/ files' = [files EXCEPT ![cpc] = <<Contents[cpc]>>] /\ cpc' = NextFile[cpc]
     \/ cpc # "pages" /\ UNCHANGED files /\ cpc' = NextFile[cpc]
     \/ cpc' = "failed" /\ UNCHANGED files
  /\ UNCHANGED <<crawler, climits, clogin, attempt, remaining, permitted, Walk>>

CrawlNext ==
  \/ DriverBegins \/ DriverSkips \/ DriverVisits \/ DriverWrites \/ DriverOffline
  \/ HostBegins \/ Authenticate \/ Robots \/ Seed \/ ToolFails \/ ToolChallenged \/ ToolLeaves \/ ToolAgain \/ ToolVisits
  \/ ToolRaises \/ ToolEnds \/ ToolOffline \/ Assistant \/ HostWrites
CrawlSpec == CrawlInit /\ [][CrawlNext]_CrawlVars

-----------------------------------------------------------------------------
(* What a crawl that ended reports can be relied on, whatever failed,      *)
(* redirected and repeated on the way.  Unless the tool says truncated or  *)
(* offline, it asked for every admissible link of every page it reports,   *)
(* and once; its endpoints have the parameters of every page that showed   *)
(* them; the files are of one attempt.  The driver, unless it met its      *)
(* limit of pages, has visited every link of its origin up to its depth    *)
(* (lcrawler.lua, M.run; main.cpp, the retry; crawl_site.lua, main).       *)
Asked == {frontier[i].url : i \in 1..(cursor - 1)}
ToolAccounts ==
  /\ \A i, j \in DOMAIN frontier : frontier[i].url = frontier[j].url => i = j
  /\ cpc \in {"pages", "openapi", "postman", "done"} /\ ~truncated /\ crawler # "offline" =>
       \A r \in DOMAIN records : \A i \in DOMAIN LinksOn[records[r].page] :
         Admissible(LinksOn[records[r].page][i].here) => LinksOn[records[r].page][i].here \in Asked
  /\ \A r \in DOMAIN records : \A e \in FoundOn[records[r].page] :
       e.key \in DOMAIN endpoints /\ e.parameters \subseteq endpoints[e.key].parameters
                                  /\ e.confidence <= endpoints[e.key].confidence
  /\ \A f \in DOMAIN files : files[f] \in {<<>>, <<Contents[f]>>}
DriverAccounts ==
  cpc = "done" /\ frontier # <<>> /\ Len(records) < climits.pages =>
    \A r \in DOMAIN records : \A i \in DOMAIN LinksOn[records[r].page] :
      LET u == LinksOn[records[r].page][i].fromStart
      IN  records[r].depth < climits.depth /\ Home(u) => u \in visited
CrawlAccountsForPages == IF crawler = "driver" THEN DriverAccounts ELSE ToolAccounts
=============================================================================
