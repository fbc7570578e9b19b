---------------------------- MODULE RequestFlow ----------------------------
(***************************************************************************)
(* One call of Session::request (src/src/core/browser.cpp:621-736): the    *)
(* event, plugin, cookie, transport and redirect loop that every fetch of  *)
(* a session goes through.  Between its steps host handlers, plugins and   *)
(* other sessions of the browser change the shared cookie jar.             *)
(***************************************************************************)
EXTENDS Naturals, Sequences, FiniteSets

CONSTANTS
  Hosts,            \* host names
  Paths,            \* URL paths; "/" is the root
  Urls,             \* the URLs requested and redirected to
  Statuses,         \* the status codes servers answer with
  MaxRedirects,     \* BrowserConfig::max_redirects
  FollowRedirects,  \* BrowserConfig::follow_redirects
  MaxJarWrites      \* bound: jar writes by anybody but this call

ASSUME FlowConstants ==
  /\ "/" \in Paths
  /\ Urls \subseteq [scheme : {"http", "https"}, host : Hosts, port : Nat, path : Paths]
  /\ Statuses \subseteq Nat
  /\ MaxRedirects \in Nat /\ MaxJarWrites \in Nat
  /\ FollowRedirects \in BOOLEAN

Methods == {"GET", "HEAD", "POST"}

(* A host-only cookie; its identity in the jar is <<host, path>>.          *)
Cookies == [host : Hosts, path : Paths, secure : BOOLEAN]

(* An outgoing request.  body is the method its body was submitted with,   *)
(* or "none"; cookie is the Cookie header taken from the jar (the cookies   *)
(* it lists); explicit says that the caller, the session's default headers  *)
(* or a plugin supplied a Cookie header; home is the URL they addressed.    *)
Requests == [url : Urls, method : Methods, body : Methods \cup {"none"}, auth : BOOLEAN,
             cookie : SUBSET Cookies, explicit : BOOLEAN, home : Urls]

VARIABLES
  pc,         \* where the call is; "returned" and "threw" end it
  req,        \* HttpRequest request
  redirects,  \* int redirects
  chain,      \* redirect_chain
  response,   \* status of the response being handled; a 3xx here has a Location
  jar,        \* InMemoryCookieJar::cookies_
  sent,       \* history: the URLs the transport saw
  wire,       \* history: the last requests the transport saw (none or one)
  writes      \* jar writes by others so far

vars == <<pc, req, redirects, chain, response, jar, sent, wire, writes>>

NoResponse == 0
Redirecting(status) == status \in {301, 302, 303, 307, 308}

(* browser.cpp: same_origin.  The mutant forgets the scheme. *)
SameHost(u, v) == u.host = v.host /\ u.port = v.port
SameOrigin(u, v) == u.scheme = v.scheme /\ u.host = v.host /\ u.port = v.port

(* InMemoryCookieJar::get: domain, Secure and path scope of a cookie *)
PathMatches(cookie, url) == cookie.path = "/" \/ cookie.path = url.path
InScope(cookie, url) ==
  /\ cookie.host = url.host
  /\ cookie.secure => url.scheme = "https"
  /\ PathMatches(cookie, url)
CookieHeader(url) == {c \in jar : InScope(c, url)}

(* InMemoryCookieJar::set: replace by identity; an expired cookie only      *)
(* removes.  parse_set_cookie refuses Secure cookies over plain http.       *)
Without(cookies, c) == {d \in cookies : d.host # c.host \/ d.path # c.path}
StoredBy(cookies, url, c, expired) ==
  IF c.secure /\ url.scheme # "https" THEN cookies
  ELSE IF expired THEN Without(cookies, c) ELSE Without(cookies, c) \cup {c}

(* What a caller, or a plugin that replaces the request, may submit *)
Submitted ==
  {[url |-> u, method |-> m, body |-> IF b THEN m ELSE "none", auth |-> a,
    cookie |-> {}, explicit |-> e, home |-> u] :
     u \in Urls, m \in Methods, a, b, e \in BOOLEAN}

Init ==
  /\ pc = "BeforeRequest"
  /\ req \in Submitted
  /\ jar \in {{c} : c \in Cookies} \cup {{}}
  /\ redirects = 0 /\ chain = <<>> /\ response = NoResponse
  /\ sent = <<>> /\ wire = {}
  /\ writes = 0

Throws ==
  /\ pc' = "threw"
  /\ UNCHANGED <<req, redirects, chain, response, jar, sent, wire, writes>>

(* BeforeRequest event and dispatch_before_request: a handler cancels, a    *)
(* plugin fails, rejects, or replaces the whole request.                    *)
BeforeRequest ==
  /\ pc = "BeforeRequest"
  /\ \/ Throws
     \/ pc' = "Send" /\ UNCHANGED <<req, redirects, chain, response, jar, sent, wire, writes>>

ReplaceRequest ==
  /\ pc = "BeforeRequest"
  /\ req' \in Submitted
  /\ pc' = "Send"
  /\ UNCHANGED <<redirects, chain, response, jar, sent, wire, writes>>

(* The jar's cookies go in only when the request has no Cookie header yet. *)
AddCookies(r) == IF r.explicit \/ r.cookie # {} THEN r
                 ELSE [r EXCEPT !.cookie = CookieHeader(r.url)]

(* The transport answers (after which Set-Cookie headers enter the jar) or  *)
(* fails.                                                                   *)
Send ==
  /\ pc = "Send"
  /\ req' = AddCookies(req)
  /\ sent' = Append(sent, req.url) /\ wire' = {req'}
  /\ \/ pc' = "threw" /\ UNCHANGED <<response, jar>>
     \/ /\ pc' = "Respond"
        /\ response' \in Statuses
        /\ \/ jar' = jar
           \/ \E p \in Paths, secure, expired \in BOOLEAN :
                jar' = StoredBy(jar, req.url,
                         [host |-> req.url.host, path |-> p, secure |-> secure],
                         expired)
  /\ UNCHANGED <<redirects, chain, writes>>

(* AfterResponse handlers, dispatch_after_response, BeforeRedirect handlers *)
(* and the resolution of Location may throw.                                *)
RejectResponse == pc = "Respond" /\ Throws

Final == ~Redirecting(response) \/ ~FollowRedirects

ReturnResponse ==
  /\ pc = "Respond"
  /\ Final
  /\ pc' = "returned"
  /\ UNCHANGED <<req, redirects, chain, response, jar, sent, wire, writes>>

HopAllowed == redirects < MaxRedirects

TooManyRedirects ==
  /\ pc = "Respond"
  /\ ~Final /\ ~HopAllowed
  /\ Throws

(* A BeforeRedirect handler cancels: the 3xx response is the result *)
CancelRedirect ==
  /\ pc = "Respond"
  /\ ~Final /\ HopAllowed
  /\ pc' = "returned"
  /\ UNCHANGED <<req, redirects, chain, response, jar, sent, wire, writes>>

(* sensitive_redirect_header: Authorization, Proxy-Authorization, Cookie.   *)
(* The mutant forgets Authorization.                                        *)
StripCookieOnly(r) == [r EXCEPT !.cookie = {}, !.explicit = FALSE]
StripCredentials(r) ==
  [r EXCEPT !.auth = FALSE, !.cookie = {}, !.explicit = FALSE]

(* 303 always becomes GET, 301/302 unless GET or HEAD, 307/308 never.      *)
RewriteMethod(r, status) ==
  IF status = 303 \/ (status \notin {307, 308} /\ r.method \notin {"GET", "HEAD"})
  THEN [r EXCEPT !.method = "GET", !.body = "none"]
  ELSE r

(* Mutant: the chain names the target instead of the source of the hop. *)
RecordTarget == chain' = Append(chain, req'.url)

RecordHop == chain' = Append(chain, req.url)

(* A Location that does not resolve throws instead: see RejectResponse. *)
Redirect ==
  /\ pc = "Respond"
  /\ ~Final /\ HopAllowed
  /\ \E u \in Urls :
       LET r == IF SameOrigin(req.url, u) THEN req ELSE StripCredentials(req) IN
       req' = RewriteMethod([r EXCEPT !.url = u], response)
  /\ RecordHop
  /\ redirects' = redirects + 1
  /\ pc' = "BeforeRequest" /\ response' = NoResponse
  /\ UNCHANGED <<jar, sent, wire, writes>>

(* document.cookie, cookie import or another session, at a handler window *)
OtherJarWrite ==
  /\ pc \in {"BeforeRequest", "Respond"}
  /\ writes < MaxJarWrites
  /\ writes' = writes + 1
  /\ \E c \in Cookies : jar' \in {Without(jar, c), Without(jar, c) \cup {c}}
  /\ UNCHANGED <<pc, req, redirects, chain, response, sent, wire>>

Done == pc \in {"returned", "threw"} /\ UNCHANGED vars

Next == BeforeRequest \/ ReplaceRequest \/ Send \/ RejectResponse \/ ReturnResponse
          \/ TooManyRedirects \/ CancelRedirect \/ Redirect \/ OtherJarWrite \/ Done

Spec == Init /\ [][Next]_vars

-----------------------------------------------------------------------------
Pcs == {"BeforeRequest", "Send", "Respond", "returned", "threw"}

TypeOK ==
  /\ pc \in Pcs
  /\ req \in Requests
  /\ redirects \in 0..MaxRedirects /\ writes \in 0..MaxJarWrites
  /\ chain \in Seq(Urls)
  /\ response \in Statuses \cup {NoResponse}
  /\ jar \in SUBSET Cookies
  /\ sent \in Seq(Urls) /\ wire \in SUBSET Requests

(* Authorization and an explicit Cookie header only ever reach the origin   *)
(* they were given for, however the redirects bounce between origins.       *)
CredentialsStayHome ==
  \A r \in wire : r.auth \/ r.explicit => SameOrigin(r.url, r.home)

(* Jar cookies never leave their host, and Secure ones never go out over    *)
(* plain http, although the Cookie header is carried from hop to hop.       *)
JarCookiesStayInHostAndScheme ==
  \A r \in wire : \A c \in r.cookie :
    c.host = r.url.host /\ (c.secure => r.url.scheme = "https")

(* What a call carries along, given by its caller or filled from the jar,   *)
(* is sent home only, although one request is edited from hop to hop.       *)
CarriedOnlyHome == CredentialsStayHome /\ JarCookiesStayInHostAndScheme

(* manual/06-sessions-and-networking.md:37-38: a body goes out only with    *)
(* the method it was submitted with, whatever mix of 303s and 307s it met.  *)
BodyKeepsItsMethod == \A r \in wire : r.body \in {"none", r.method}

(* max_redirects bounds what one call costs on the wire. *)
BoundedTraffic == Len(sent) <= MaxRedirects + 1

(* The redirect chain a caller gets is what the transport saw before the    *)
(* final response: one entry per followed hop, in order, whatever plugins   *)
(* rewrote.                                                                 *)
ChainIsWhatWasSent ==
  pc = "returned" =>
    /\ Len(sent) = Len(chain) + 1
    /\ \A i \in DOMAIN chain : chain[i] = sent[i]

(* manual/14-cookies-and-storage.md:7-8: the jar is shared "with            *)
(* domain/path/scheme scope enforced per request".                          *)
JarScopeEnforced == \A r \in wire : \A c \in r.cookie : InScope(c, r.url)
=============================================================================
