------------------------------ MODULE Discovery ------------------------------
(***************************************************************************)
(* From a page to a description of the API behind it.  The extractor       *)
(* (src/endpoint/endpoint_extraction.cpp) merges what a page mentions into *)
(* endpoints.  Three tools, each in C++ and in Lua, go on from there:      *)
(*   scrape    (plugins/scrape-endpoints)  follows links in JSON answers,  *)
(*   resolver  (plugins/restful-resolver)  goes on, round by round, until  *)
(*             a GET and a POST are known,                                 *)
(*   schema    (plugins/schema-grabber)    probes GETs, infers schemas.    *)
(* A URL is its host, path and query names; host "" is a relative URL.     *)
(* Paths are numbers, so that their order is the order of the strings.     *)
(***************************************************************************)
EXTENDS Integers, Sequences, FiniteSets

LOCAL INSTANCE SequencesExt

CONSTANTS
  Tools,          \* which of the six are looked at
  WebPages,       \* pages: what they mention, in document order
  AnswerTo(_),    \* a URL's response: status, type, final host, links, page, body
  Api, Garbage,   \* paths with an API marker, paths of static assets
  TemplateOf(_),  \* templatize_path: the template a path belongs to
  Home,           \* the host of the page
  MinConfidence,  \* minimum_confidence, in hundredths
  RequestBudget,  \* max_resolve_requests, max_requests, max_probe_requests
  MaxRounds,      \* max_depth, max_rounds
  MaxProperties,  \* max_properties of a JSON schema
  MaxLinks,       \* links taken from one answer by the C++ tools (32)
  MaxLost         \* bound on the requests of the C++ scraper that fail

ASSUME DiscoveryConstants ==
  /\ {MinConfidence, RequestBudget, MaxRounds, MaxProperties, MaxLinks, MaxLost} \subseteq Nat
  /\ RequestBudget > 0

VARIABLES
  kit, mention, \* the tool and the page, fixed at the start
  settings,     \* its options: all (scrape_all_paths) and chain (resolve_chain)
  stage,        \* "extract", "resolve", "enrich" or "reported"
  merged,       \* found: the endpoints merged so far, in the order of discovery
  nextItem,     \* the item the current loop is at
  filtered,     \* the endpoints that pass the tool's filter, sorted
  todo,         \* the queue: endpoints with the round they belong to
  fetchedUrls,  \* visited: the URLs that were fetched
  queuedUrls,   \* the resolvers' URLs that were ever queued
  listed,       \* the resolvers' endpoints, one for a method and a path
  resolved,     \* the calls a report is made from
  fetches,      \* requests counted against the budget
  asked,        \* history: the URLs requested, in order
  bodies,       \* the grabbers' answers
  schemas       \* the grabbers' schemas, one for a method and a template

DiscoveryVars == <<kit, mention, settings, stage, merged, nextItem, filtered, todo, fetchedUrls,
                   queuedUrls, listed, resolved, fetches, asked, bodies, schemas>>

Scrapers == {"scrape", "scrape-lua"}
Resolvers == {"resolver", "resolver-lua"}
Grabbers == {"schema", "schema-lua"}

OpKey(e) == <<e.method, e.path>>
UrlKey(e) == <<e.method, e.url>>    \* endpoint_key of the Lua resolver
Items(s) == {s[i] : i \in DOMAIN s}
OnHost(u, host) == IF u.host = "" THEN [u EXCEPT !.host = host] ELSE u
Absolute(u) == OnHost(u, Home)

-----------------------------------------------------------------------------
(* script_endpoints: a script is the list of its statements, scanned once   *)
(* for every way to make a call.  how is that way; method is what the       *)
(* statement writes.                                                        *)
HttpMethods == {"get", "post"}
Normalized(method) == IF method \in HttpMethods THEN method ELSE "get"
CallsBy(script, how, method(_)) ==
  LET those == SelectSeq(script, LAMBDA m : m.how \in how)
  IN  [i \in DOMAIN those |-> [those[i] EXCEPT !.method = method(@)]]
FetchCalls(script) == CallsBy(script, {"fetch"}, Normalized)
OpenCalls(script) == CallsBy(script, {"open"}, Normalized)
Beacons(script) == CallsBy(script, {"beacon"}, LAMBDA method : "post")
PostHelpers(script) == CallsBy(script, {"helper"}, LAMBDA method : "post")
AjaxCalls(script) ==
  SelectSeq(CallsBy(script, {"ajax", "ajax-type"}, Normalized), LAMBDA m : m.method = "post")
(* Option objects: a key "method" whose value is post (the scan misses the  *)
(* colon of a key "type") goes with the nearest url: key, in whatever       *)
(* statement that is.                                                       *)
Distance(i, k) == IF i > k THEN i - k ELSE k - i
OptionObjects(script) ==
  LET anchors == {i \in DOMAIN script : script[i].how \in {"fetch", "ajax", "object"} /\ script[i].method = "post"}
      urls == {k \in DOMAIN script : script[k].how \in {"ajax", "ajax-type", "object", "typed"}}
      nearest(i) == CHOOSE k \in urls : \A j \in urls :
                      Distance(i, k) < Distance(i, j) \/ (Distance(i, k) = Distance(i, j) /\ k <= j)
      chosen == SelectSeq([i \in DOMAIN script |-> i], LAMBDA i : i \in anchors /\ urls # {})
  IN  [n \in DOMAIN chosen |-> [script[nearest(chosen[n])] EXCEPT !.method = "post"]]
(* Every quoted path is a GET of little confidence, the targets of calls    *)
(* included.                                                                *)
QuotedPaths(script, literal) ==
  LET those == SelectSeq(script, LAMBDA m : m.url.host = "")
  IN  [i \in DOMAIN those |-> [those[i] EXCEPT !.method = "get", !.from = literal, !.fields = {}]]
ScriptMentions(script, literal) ==
  FetchCalls(script) \o OpenCalls(script) \o Beacons(script) \o PostHelpers(script) \o
  AjaxCalls(script) \o OptionObjects(script) \o QuotedPaths(script, literal)

-----------------------------------------------------------------------------
(* extract.  An API-like link is worth more only when every path is wanted. *)
LinkConfidence(m) == IF ~settings.all THEN 40 ELSE IF m.url.path \in Api THEN 75 ELSE 60
FormConfidence(m) == IF m.method = "get" THEN 55 ELSE 75
Confidence(m) ==
  CASE m.from = "network" -> 95
    [] m.from = "link" -> LinkConfidence(m)
    [] m.from = "resource" -> 55
    [] m.from = "attribute" -> 50
    [] m.from = "form" -> FormConfidence(m)
    [] m.from \in {"literal", "file-literal"} -> 30
    [] OTHER -> 65

(* The endpoint of a mention.  A script file's references stay relative.    *)
Endpoint(m, host) ==
  [method |-> m.method, path |-> m.url.path, confidence |-> Confidence(m),
   url |-> IF m.from \in {"file", "file-literal"} THEN m.url ELSE OnHost(m.url, host),
   params |-> m.url.query \cup (IF m.from = "form" THEN m.fields ELSE {}),
   body |-> m.from = "form" /\ m.method = "post", type |-> m.type]

(* The passes of extract, in their order: what the session saw (observe,    *)
(* observe_script), links, resources, href attributes, forms and inline     *)
(* scripts.  The resolvers and the Lua grabber pass the document only.      *)
From(page, from) == SelectSeq(page, LAMBDA m : m.from = from)
ObservedCalls(page) ==
  IF kit \in Scrapers \cup {"schema"} THEN CallsBy(From(page, "network"), {""}, Normalized) ELSE <<>>
ObservedScripts(page) ==
  IF kit \in Scrapers \cup {"schema"} THEN ScriptMentions(From(page, "file"), "file-literal") ELSE <<>>
Links(page) == SelectSeq(From(page, "link"), LAMBDA m : settings.all \/ m.url.path \in Api)
Resources(page) == IF settings.all THEN From(page, "resource") ELSE <<>>
Attributes(page) == IF settings.all THEN From(page, "attribute") ELSE <<>>
Forms(page) == From(page, "form")
InlineScripts(page) == ScriptMentions(From(page, "inline"), "literal")
Mentions(page) ==
  ObservedCalls(page) \o ObservedScripts(page) \o Links(page) \o Resources(page) \o
  Attributes(page) \o Forms(page) \o InlineScripts(page)

(* add: one endpoint for a method and a path; parameters are united, the    *)
(* rest comes from the more confident mention.                              *)
Merged(e, f) ==
  [(IF f.confidence > e.confidence THEN f ELSE e)
     EXCEPT !.params = e.params \cup f.params, !.body = e.body \/ f.body,
            !.type = IF e.type = "" THEN f.type ELSE e.type]
Added(found, f) ==
  IF \E i \in DOMAIN found : OpKey(found[i]) = OpKey(f)
  THEN [i \in DOMAIN found |-> IF OpKey(found[i]) = OpKey(f) THEN Merged(found[i], f) ELSE found[i]]
  ELSE Append(found, f)
(* Resources and attributes are left out once their key was seen.           *)
AddMention(found, m, host) ==
  IF m.from \in {"resource", "attribute"} /\ \E e \in Items(found) : OpKey(e) = <<"get", m.url.path>>
  THEN found ELSE Added(found, Endpoint(m, host))
ExtractOne ==
  /\ stage = "extract" /\ nextItem <= Len(Mentions(mention))
  /\ merged' = AddMention(merged, Mentions(mention)[nextItem], Home)
  /\ nextItem' = nextItem + 1
  /\ UNCHANGED <<kit, mention, settings, stage, filtered, todo, fetchedUrls, queuedUrls, listed,
                 resolved, fetches, asked, bodies, schemas>>

(* What extract returns: confident endpoints, sorted by path and method.    *)
Before(e, f) == e.path < f.path \/ (e.path = f.path /\ e.method = "get" /\ f.method # "get")
Extracted(found) == SetToSortSeq({e \in Items(found) : e.confidence >= MinConfidence}, Before)
(* filter_to_api: the scrapers drop assets first; an API path or a method   *)
(* other than GET is kept.                                                  *)
ApiEndpoint(e) == e.path \in Api \/ e.method # "get"
IsGarbage(e) == e.path \in Garbage
ScrapeFilter(list) == SelectSeq(list, LAMBDA e : ~IsGarbage(e) /\ ApiEndpoint(e))
ResolveFilter(list) == SelectSeq(list, ApiEndpoint)
SchemaFilter(list) == SelectSeq(list, ApiEndpoint)
ScrapeFilterLua(list) == SelectSeq(list, LAMBDA e : ~IsGarbage(e) /\ ApiEndpoint(e))
ResolveFilterLua(list) == SelectSeq(list, ApiEndpoint)
SchemaFilterLua(list) == SelectSeq(list, ApiEndpoint)

-----------------------------------------------------------------------------
(* Calls, queue items and the resolvers' list.                              *)
ResolvedCall(e, u, round, ok) == [ep |-> e, url |-> u, round |-> round, ok |-> ok]
Unfetched(list) == {ResolvedCall(e, e.url, 0, FALSE) : e \in list}
Item(e, round) == [ep |-> e, round |-> round]
AtRoundZero(list) == [i \in DOMAIN list |-> Item(list[i], 0)]

HasMethod(list, method) == \E e \in Items(list) : e.method = method
Complete(list) == HasMethod(list, "get") /\ HasMethod(list, "post")
(* note_discovered: the more confident endpoint of a key is kept.           *)
NoteDiscovered(list, e) ==
  IF \E f \in Items(list) : OpKey(f) = OpKey(e)
  THEN [i \in DOMAIN list |-> IF OpKey(list[i]) = OpKey(e) /\ e.confidence > list[i].confidence THEN e ELSE list[i]]
  ELSE Append(list, e)
(* add_endpoint of the Lua resolver: the first of a key is kept.            *)
AddEndpoint(list, e) == IF \E f \in Items(list) : UrlKey(f) = UrlKey(e) THEN list ELSE Append(list, e)

(* Mutant: an endpoint whose URL is queued already is not noted. *)
EnqueueOnce(plan, e, round) ==
  LET u == Absolute(e.url) IN
  IF round > MaxRounds \/ u.host # Home \/ u \in plan.queued THEN plan
  ELSE [list |-> NoteDiscovered(plan.list, [e EXCEPT !.url = u]), queued |-> plan.queued \cup {u},
        queue |-> Append(plan.queue, Item([e EXCEPT !.url = u], round))]
(* enqueue of the C++ resolver: within the rounds, on the page's origin; an *)
(* endpoint is noted also when its URL is queued already.                   *)
Enqueue(plan, e, round) ==
  LET u == Absolute(e.url)
      here == [e EXCEPT !.url = u] IN
  IF round > MaxRounds \/ u.host # Home THEN plan
  ELSE [list   |-> NoteDiscovered(plan.list, here), queued |-> plan.queued \cup {u},
        queue  |-> IF u \in plan.queued THEN plan.queue ELSE Append(plan.queue, Item(here, round))]
(* The Lua resolver adds the endpoint whatever its enqueue does with it.    *)
EnqueueLua(plan, e, round) ==
  LET u == Absolute(e.url)
      fresh == round <= MaxRounds /\ u.host = Home /\ u \notin plan.queued IN
  [list   |-> AddEndpoint(plan.list, e), queued |-> IF fresh THEN plan.queued \cup {u} ELSE plan.queued,
   queue  |-> IF fresh THEN Append(plan.queue, Item([e EXCEPT !.url = u], round)) ELSE plan.queue]
EnqueueAll(plan, list, round) == FoldLeft(LAMBDA p, e : Enqueue(p, e, round), plan, list)
EnqueueAllLua(plan, list, round) == FoldLeft(LAMBDA p, e : EnqueueLua(p, e, round), plan, list)

(* What each tool starts from.                                              *)
SeedScrape(list) ==
  /\ kit \in Scrapers
  /\ IF settings.chain
     THEN todo' = AtRoundZero(list) /\ stage' = "resolve" /\ UNCHANGED resolved
     ELSE todo' = <<>> /\ stage' = "reported" /\ resolved' = Unfetched(Items(list))
  /\ UNCHANGED <<queuedUrls, listed>>
SeedResolve(list) ==
  LET plan == EnqueueAll([queue |-> <<>>, queued |-> {}, list |-> <<>>], list, 0) IN
  /\ kit = "resolver"
  /\ todo' = plan.queue /\ queuedUrls' = plan.queued /\ listed' = plan.list
  /\ stage' = "resolve" /\ UNCHANGED resolved
(* The Lua resolver reports its seeds unfetched, and stops if they are a    *)
(* GET and a POST already.                                                  *)
SeedResolveLua(list) ==
  /\ kit = "resolver-lua"
  /\ todo' = AtRoundZero(list) /\ queuedUrls' = {e.url : e \in Items(list)}
  /\ listed' = FoldLeft(AddEndpoint, <<>>, list)
  /\ resolved' = Unfetched(Items(list))
  /\ stage' = IF Complete(listed') THEN "reported" ELSE "resolve"
SeedProbe(list) ==
  /\ kit \in Grabbers /\ todo' = AtRoundZero(list) /\ stage' = "resolve"
  /\ UNCHANGED <<queuedUrls, listed, resolved>>
ChainSeeds(list) ==
  IF kit = "scrape-lua" /\ settings.chain THEN [i \in DOMAIN list |-> [list[i] EXCEPT !.url = Absolute(@)]]
  ELSE list
Filter ==
  /\ stage = "extract" /\ nextItem > Len(Mentions(mention))
  /\ filtered' = CASE kit = "scrape" -> ScrapeFilter(Extracted(merged))
                   [] kit = "scrape-lua" -> ScrapeFilterLua(Extracted(merged))
                   [] kit = "resolver" -> ResolveFilter(Extracted(merged))
                   [] kit = "resolver-lua" -> ResolveFilterLua(Extracted(merged))
                   [] kit = "schema" -> SchemaFilter(Extracted(merged))
                   [] OTHER -> SchemaFilterLua(Extracted(merged))
  /\ \/ SeedScrape(ChainSeeds(filtered')) \/ SeedResolve(filtered')
     \/ SeedResolveLua(filtered') \/ SeedProbe(filtered')
  /\ nextItem' = 1
  /\ UNCHANGED <<kit, mention, settings, merged, fetchedUrls, fetches, asked, bodies, schemas>>

-----------------------------------------------------------------------------
(* The loop that fetches.  Each tool skips the URLs it has fetched; the     *)
(* resolvers and grabbers leave other origins alone, the grabbers probe     *)
(* GETs only.                                                               *)
Candidate == Head(todo)
GoesOn == stage = "resolve" /\ todo # <<>> /\ fetches < RequestBudget
Target == IF kit = "schema-lua" THEN Candidate.ep.url ELSE Absolute(Candidate.ep.url)
Skipped ==
  \/ Target \in fetchedUrls
  \/ kit \in Resolvers /\ (Target.host # Home \/ Candidate.round > MaxRounds)
  \/ kit \in Grabbers /\ (Target.host # Home \/ Candidate.ep.method # "get")
Skip ==
  /\ GoesOn /\ Skipped /\ todo' = Tail(todo)
  /\ fetchedUrls' = IF kit = "resolver-lua" \/ (kit = "schema-lua" /\ Candidate.ep.method = "get")
                    THEN fetchedUrls \cup {Target} ELSE fetchedUrls
  /\ UNCHANGED <<kit, mention, settings, stage, merged, nextItem, filtered, queuedUrls, listed,
                 resolved, fetches, asked, bodies, schemas>>

(* A link in a body is a GET, resolved against where the body came from.    *)
Found(u, host) ==
  [method |-> "get", path |-> u.path, confidence |-> 60, url |-> OnHost(u, host), params |-> {},
   body |-> FALSE, type |-> ""]
LinksIn(a, links, good(_)) == SelectSeq([i \in DOMAIN links |-> Found(links[i], a.host)], good)
(* extract_api_urls_from_body: the first API links of the body, each once,  *)
(* up to the limit; what comes after them is not looked at.                 *)
FirstLinks(a) ==
  FoldLeft(LAMBDA out, u : IF u.path \notin Api \/ u \in Items(out) \/ Len(out) >= MaxLinks THEN out ELSE Append(out, u),
           <<>>, a.links)
(* The C++ scraper follows JSON only, to whatever host.                     *)
ScrapeLinks(a) ==
  IF a.type # "json" THEN <<>> ELSE LinksIn(a, FirstLinks(a), LAMBDA e : e.path \notin Garbage)
(* Lua reads any text, and keeps to the origin that answered.               *)
ScrapeLinksLua(a) ==
  LinksIn(a, a.links, LAMBDA e : e.path \in Api /\ e.path \notin Garbage /\ e.url.host = a.host)
ResolverLinks(a) == LinksIn(a, FirstLinks(a), LAMBDA e : TRUE)
ResolverLinksLua(a) == LinksIn(a, a.links, LAMBDA e : e.path \in Api /\ e.url.host = a.host)
(* The page of an HTML answer: C++ runs the extractor over it, Lua looks    *)
(* for the ways to make a POST, in forms and in scripts, unless there is    *)
(* neither a form nor a call.                                               *)
PageFinds(a) ==
  IF a.type # "html" THEN <<>>
  ELSE SelectSeq(Extracted(FoldLeft(LAMBDA found, m : AddMention(found, m, a.host), <<>>,
                                    Links(a.page) \o Forms(a.page) \o InlineScripts(a.page))), ApiEndpoint)
PagePostsLua(a) ==
  LET posts == SelectSeq(Forms(a.page) \o InlineScripts(a.page), LAMBDA m : m.method = "post")
      calls == {m \in Items(a.page) : m.from = "form" \/ m.how \in {"fetch", "open", "beacon", "helper", "ajax", "ajax-type"}}
  IN  IF calls = {} THEN <<>>
      ELSE [i \in DOMAIN posts |-> [Endpoint(posts[i], a.host) EXCEPT !.params = {}]]

(* The scrapers queue a link that was neither fetched nor is in the queue.  *)
Follow(links) ==
  LET fresh(q, e) == IF e.url \in fetchedUrls' \/ \E i \in DOMAIN q : q[i].ep.url = e.url THEN q
                     ELSE Append(q, Item(e, Candidate.round + 1))
  IN  IF Candidate.round < MaxRounds THEN FoldLeft(fresh, Tail(todo), links) ELSE Tail(todo)
Recorded(ok) ==
  resolved' = resolved \cup {ResolvedCall([Candidate.ep EXCEPT !.url = Target], Target, Candidate.round, ok)}
AnsweredScrape(a) ==
  /\ kit = "scrape" /\ todo' = Follow(ScrapeLinks(a)) /\ Recorded(TRUE)
  /\ UNCHANGED <<queuedUrls, listed, bodies>>
AnsweredScrapeLua(a) ==
  /\ kit = "scrape-lua" /\ todo' = Follow(ScrapeLinksLua(a)) /\ Recorded(TRUE)
  /\ UNCHANGED <<queuedUrls, listed, bodies>>
(* The resolvers stop once a GET and a POST are known.                      *)
Learned(plan) ==
  /\ listed' = plan.list /\ queuedUrls' = plan.queued
  /\ todo' = IF Complete(plan.list) THEN <<>> ELSE plan.queue
  /\ Recorded(TRUE) /\ UNCHANGED bodies
Plan == [queue |-> Tail(todo), queued |-> queuedUrls \cup fetchedUrls', list |-> listed]
AnsweredResolve(a) ==
  /\ kit = "resolver"
  /\ Learned(EnqueueAll(Plan, ResolverLinks(a) \o PageFinds(a), Candidate.round + 1))
AnsweredResolveLua(a) ==
  /\ kit = "resolver-lua"
  /\ Learned(EnqueueAllLua(Plan, ResolverLinksLua(a) \o PagePostsLua(a), Candidate.round + 1))
Probed(a) ==
  /\ todo' = Tail(todo)
  /\ bodies' = bodies \cup {[key |-> OpKey(Candidate.ep), answer |-> a]}
  /\ UNCHANGED <<queuedUrls, listed, resolved>>
AnsweredProbe(a) == kit = "schema" /\ Probed(a)
AnsweredProbeLua(a) == kit = "schema-lua" /\ Probed(a)

Requesting ==
  /\ GoesOn /\ ~Skipped
  /\ asked' = Append(asked, Target) /\ fetchedUrls' = fetchedUrls \cup {Target}
  /\ UNCHANGED <<kit, mention, settings, stage, merged, nextItem, filtered, schemas>>
Answered ==
  /\ Requesting /\ fetches' = fetches + 1
  /\ LET a == AnswerTo(Target) IN
     \/ AnsweredScrape(a) \/ AnsweredScrapeLua(a) \/ AnsweredResolve(a) \/ AnsweredResolveLua(a)
     \/ AnsweredProbe(a) \/ AnsweredProbeLua(a)
(* A request that throws; the C++ scraper does not count it.                *)
RequestLost ==
  /\ Requesting /\ Len(asked) - fetches < MaxLost
  /\ fetches' = IF kit = "scrape" THEN fetches ELSE fetches + 1
  /\ todo' = IF kit = "resolver" /\ Complete(listed) THEN <<>> ELSE Tail(todo)
  /\ IF kit \in Grabbers THEN UNCHANGED resolved ELSE Recorded(FALSE)
  /\ UNCHANGED <<queuedUrls, listed, bodies>>

(* After the loop, what was not fetched is carried over.                    *)
CarriedScrape == Unfetched({e \in Items(filtered) : Absolute(e.url) \notin fetchedUrls})
CarriedScrapeLua == Unfetched({e \in Items(filtered) : e.url \notin fetchedUrls})
CarriedResolve == Unfetched({e \in Items(listed) : \A c \in resolved : OpKey(c.ep) # OpKey(e)})
Finish ==
  /\ stage = "resolve" /\ ~GoesOn
  /\ resolved' = resolved \cup (CASE kit = "scrape" -> CarriedScrape
                                  [] kit = "scrape-lua" -> CarriedScrapeLua
                                  [] kit = "resolver" -> CarriedResolve
                                  [] OTHER -> {})
  /\ stage' = IF kit \in Grabbers THEN "enrich" ELSE "reported"
  /\ UNCHANGED <<kit, mention, settings, merged, nextItem, filtered, todo, fetchedUrls, queuedUrls,
                 listed, fetches, asked, bodies, schemas>>

-----------------------------------------------------------------------------
(* Schemas.  The names a form posts, the keys of a body literal near the    *)
(* path in an inline script.                                                *)
FormFieldsFor(e) ==
  UNION {m.fields : m \in {x \in Items(mention) : x.from = "form" /\ x.method = e.method /\ x.url.path = e.path}}
BodyHintFor(e) ==
  UNION {m.fields : m \in {x \in Items(mention) : x.from = "inline" /\ x.url.path = e.path}}
(* request_schema_for: form fields, then the hint, then the content type    *)
(* alone.  Lua looks at forms only.                                         *)
NoRequest == [by |-> "none", names |-> {}]
RequestSchemaFor(e) ==
  CASE e.method = "get" -> NoRequest
    [] e.method # "get" /\ FormFieldsFor(e) # {} -> [by |-> "form-fields", names |-> FormFieldsFor(e)]
    [] e.method # "get" /\ FormFieldsFor(e) = {} /\ BodyHintFor(e) # {} ->
         [by |-> "script-body-literal", names |-> BodyHintFor(e)]
    [] OTHER -> IF e.body THEN [by |-> "content-type-hint", names |-> e.params] ELSE NoRequest
RequestSchemaForLua(e) ==
  IF e.method # "get" /\ FormFieldsFor(e) # {} THEN [by |-> "form-fields", names |-> FormFieldsFor(e)] ELSE NoRequest

(* The number of properties inferred from a JSON body: rows holds the keys  *)
(* of an object, or of every object of an array.                            *)
AtMost(n, max) == IF n < max THEN n ELSE max
KeysOf(b) == UNION {Items(b.rows[i]) : i \in DOMAIN b.rows}
InferJson(b) == IF b.kind = "text" THEN 0 ELSE AtMost(Cardinality(KeysOf(b)), MaxProperties)
InferJsonLua(b) == IF b.kind = "array" THEN Cardinality(KeysOf(b)) ELSE InferJson(b)

(* enrich_one: the answer to this method and path, or a placeholder; an     *)
(* answer with an empty body is none.                                       *)
ResponseOf(e) ==
  LET answers == {b.answer : b \in {x \in bodies : x.key = OpKey(e) /\ x.answer.body.kind # "empty"}} IN
  IF answers = {} THEN <<[status |-> 200, type |-> e.type, observed |-> FALSE, keys |-> 0]>>
  ELSE LET a == CHOOSE a \in answers : TRUE
       IN  <<[status |-> a.status, type |-> a.type, observed |-> TRUE,
              keys |-> IF kit = "schema" THEN InferJson(a.body) ELSE InferJsonLua(a.body)]>>
EnrichOne(e) ==
  [method |-> e.method, template |-> TemplateOf(e.path), query |-> e.url.query,
   request |-> RequestSchemaFor(e), responses |-> ResponseOf(e)]
EnrichOneLua(e) ==
  [method |-> e.method, template |-> TemplateOf(e.path), query |-> e.url.query,
   request |-> RequestSchemaForLua(e), responses |-> ResponseOf(e)]
SameOperation(s, t) == s.method = t.method /\ s.template = t.template

(* enrich_endpoints: query names are united, the first request schema is    *)
(* kept, and the first response of a status and type.                       *)
MergeSchema(s, t) ==
  [s EXCEPT !.query = @ \cup t.query,
            !.request = IF @ = NoRequest THEN t.request ELSE @,
            !.responses = @ \o SelectSeq(t.responses, LAMBDA q :
                                 \A r \in Items(s.responses) : r.status # q.status \/ r.type # q.type)]
(* merge_schema_record: one response for a status, an observed one before   *)
(* a placeholder, then the one with more properties, then one with a type.  *)
Better(q, r) ==
  \/ q.observed /\ ~r.observed
  \/ q.observed = r.observed /\ (q.keys > r.keys \/ (q.keys = r.keys /\ q.type # "" /\ r.type = ""))
MergeResponses(list, q) ==
  IF \E r \in Items(list) : r.status = q.status
  THEN [i \in DOMAIN list |-> IF list[i].status = q.status /\ Better(q, list[i]) THEN q ELSE list[i]]
  ELSE Append(list, q)
MergeSchemaRecord(s, t) ==
  [s EXCEPT !.query = @ \cup t.query,
            !.request = IF t.request = NoRequest THEN @ ELSE IF @ = NoRequest THEN t.request
                        ELSE [@ EXCEPT !.names = @ \cup t.request.names],
            !.responses = FoldLeft(MergeResponses, @, t.responses)]
MergedInto(list, t, merge(_, _)) ==
  IF \E s \in Items(list) : SameOperation(s, t)
  THEN [i \in DOMAIN list |-> IF SameOperation(list[i], t) THEN merge(list[i], t) ELSE list[i]]
  ELSE Append(list, t)

Enriching ==
  /\ stage = "enrich" /\ nextItem <= Len(filtered) /\ nextItem' = nextItem + 1
  /\ UNCHANGED <<kit, mention, settings, stage, merged, filtered, todo, fetchedUrls, queuedUrls,
                 listed, resolved, fetches, asked, bodies>>
Enrich ==
  /\ kit = "schema" /\ Enriching
  /\ schemas' = MergedInto(schemas, EnrichOne(filtered[nextItem]), MergeSchema)
EnrichLua ==
  /\ kit = "schema-lua" /\ Enriching
  /\ schemas' = Append(schemas, EnrichOneLua(filtered[nextItem]))
(* serialize merges the Lua records by operation.                           *)
RenderSchemas ==
  /\ stage = "enrich" /\ nextItem > Len(filtered) /\ stage' = "reported"
  /\ schemas' = IF kit = "schema" THEN schemas
                ELSE FoldLeft(LAMBDA list, t : MergedInto(list, t, MergeSchemaRecord), <<>>, schemas)
  /\ UNCHANGED <<kit, mention, settings, merged, nextItem, filtered, todo, fetchedUrls, queuedUrls,
                 listed, resolved, fetches, asked, bodies>>

DiscoveryInit ==
  /\ kit \in Tools /\ mention \in WebPages
  /\ settings \in [all : BOOLEAN, chain : BOOLEAN]
  /\ kit \notin Scrapers => settings = [all |-> FALSE, chain |-> TRUE]
  /\ stage = "extract" /\ merged = <<>> /\ nextItem = 1 /\ filtered = <<>> /\ todo = <<>>
  /\ fetchedUrls = {} /\ queuedUrls = {} /\ listed = <<>> /\ resolved = {} /\ fetches = 0
  /\ asked = <<>> /\ bodies = {} /\ schemas = <<>>
DiscoveryNext ==
  ExtractOne \/ Filter \/ Skip \/ Answered \/ RequestLost \/ Finish \/ Enrich \/ EnrichLua \/ RenderSchemas

-----------------------------------------------------------------------------
(* The documents.  OpenAPI groups the calls by path, an operation for each  *)
(* method of it; Postman has an item for a URL and a method.                *)
ByPath(list) == [p \in {e.path : e \in list} |-> {e.method : e \in {f \in list : f.path = p}}]
ByUrl(list) == {<<e.url, e.method>> : e \in list}
Endpoints(calls) == {c.ep : c \in calls}
ScrapeYaml == ByPath(Endpoints(resolved))
ScrapePostman == ByUrl(Endpoints(resolved))
(* Lua hands on the extractor's document when nothing was left out of it.   *)
ExtractorYaml == ByPath(Items(Extracted(merged)))
ScrapeYamlLua ==
  IF ~settings.chain /\ Len(filtered) = Len(Extracted(merged)) THEN ExtractorYaml
  ELSE ByPath(Endpoints(resolved))
ScrapePostmanLua == ByUrl(Endpoints(resolved))
ResolverYaml == ByPath(Endpoints(resolved))
SchemaYaml == [p \in {s.template : s \in Items(schemas)} |-> {s \in Items(schemas) : s.template = p}]
SchemaPostman == {<<s.template, s.method, s.query>> : s \in Items(schemas)}
SchemaYamlLua == [p \in {s.template : s \in Items(schemas)} |-> {s \in Items(schemas) : s.template = p}]
SchemaPostmanLua == {<<s.template, s.method, s.query>> : s \in Items(schemas)}

InYaml(yaml, e) == e.path \in DOMAIN yaml /\ e.method \in yaml[e.path]
(* The operation has the query names and the observed statuses of e.        *)
Described(s, e) ==
  /\ s.method = e.method /\ e.url.query \subseteq s.query
  /\ \A b \in bodies : b.key = OpKey(e) /\ b.answer.body.kind # "empty" =>
       \E r \in Items(s.responses) : r.status = b.answer.status /\ (kit = "schema-lua" => r.observed)
InSchemas(yaml, postman, e) ==
  /\ TemplateOf(e.path) \in DOMAIN yaml /\ \E s \in yaml[TemplateOf(e.path)] : Described(s, e)
  /\ \E i \in postman : i[1] = TemplateOf(e.path) /\ i[2] = e.method
Documented(e) ==
  CASE kit = "scrape" -> InYaml(ScrapeYaml, e) /\ <<Absolute(e.url), e.method>> \in {<<Absolute(i[1]), i[2]>> : i \in ScrapePostman}
    [] kit = "scrape-lua" -> InYaml(ScrapeYamlLua, e) /\ <<Absolute(e.url), e.method>> \in {<<Absolute(i[1]), i[2]>> : i \in ScrapePostmanLua}
    [] kit = "resolver" -> InYaml(ResolverYaml, e)
    [] kit = "resolver-lua" -> UrlKey(e) \in {UrlKey(f) : f \in Items(listed)}
    [] kit = "schema" -> InSchemas(SchemaYaml, SchemaPostman, e)
    [] OTHER -> InSchemas(SchemaYamlLua, SchemaPostmanLua, e)

(* What the page says plainly: a mention that alone is confident enough and *)
(* passes the filter of the tool.                                           *)
Plain(m) ==
  /\ m.from \notin {"resource", "attribute"} /\ Confidence(m) >= MinConfidence
  /\ m.url.path \in Api \/ m.method # "get"
  /\ kit \in Scrapers => m.url.path \notin Garbage
(* The two cases in which an endpoint is lost: the scrapers fetch a URL     *)
(* once whatever its method, and the resolver leaves other origins alone.   *)
Superseded(i) ==
  \/ kit \in Scrapers /\ \E k \in DOMAIN filtered \ {i} : Absolute(filtered[k].url) = Absolute(filtered[i].url)
  \/ kit = "resolver" /\ Absolute(filtered[i].url).host # Home
(* What a resolver could learn from an answer.                              *)
Learnable(c) ==
  LET a == AnswerTo(c.url) IN
  {e \in Items(IF kit = "resolver" THEN ResolverLinks(a) \o PageFinds(a)
               ELSE ResolverLinksLua(a) \o PagePostsLua(a)) : e.url.host = Home}

(* When a tool reports, every endpoint the page names plainly is in its     *)
(* documents, and so is everything a resolver could learn from an answer of *)
(* a round before the last (the C++ one from the first MaxLinks links of    *)
(* it); a schema has the query names and the observed statuses of every     *)
(* path of its template.  And no URL is asked for twice, however many       *)
(* answers, pages and methods named it.                                     *)
EverythingFoundIsReported ==
  /\ \A i, k \in DOMAIN asked : i # k => asked[i] # asked[k]
  /\ stage = "reported" =>
       /\ \A m \in Items(Mentions(mention)) : Plain(m) =>
            \E i \in DOMAIN filtered : /\ OpKey(filtered[i]) = <<m.method, m.url.path>>
                                       /\ Superseded(i) \/ Documented(filtered[i])
       /\ kit \in Resolvers => \A c \in resolved : c.ok /\ c.round < MaxRounds =>
                                 \A e \in Learnable(c) : Documented(e)

(* The type invariant: the fields have their types, and the loops stay      *)
(* within what they walk over.                                              *)
DiscoveryTypeOK ==
  /\ kit \in Scrapers \cup Resolvers \cup Grabbers
  /\ stage \in {"extract", "resolve", "enrich", "reported"}
  /\ nextItem \in 1..(Len(Mentions(mention)) + Len(filtered) + 1)
  /\ fetches \in Nat /\ \A i \in DOMAIN asked : asked[i] \in fetchedUrls
  /\ \A i \in DOMAIN todo : todo[i].round \in 0..(MaxRounds + 1)
=============================================================================
