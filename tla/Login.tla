-------------------------------- MODULE Login --------------------------------
(***************************************************************************)
(* Logging in: the ezlogin helper (plugins/ezlogin/lua/ezlogin.lua) with   *)
(* its form and oauth flows, the native ezlogin plugin that adds a header  *)
(* to every request, and the login driver (drivers/login.lua).             *)
(*                                                                         *)
(* The server answers what it likes.  A URL is a model value with an       *)
(* origin; a Location is absolute or relative, and what a relative one     *)
(* becomes depends on whether the base has a path.  A page is its form, if *)
(* any, and whether it greets a user who is in.  When the session follows  *)
(* redirects itself the helper sees none.                                  *)
(***************************************************************************)
EXTENDS Naturals, FiniteSets

CONSTANTS
  SiteUrls, HostOf,        \* URLs, and their origins
  BareUrls,                \* those without a path, as https://host or https://host?q
  NoUrl,
  LoginUrl, NameEndpoint, PasswordEndpoint,
  TrustedUrls,             \* what options.trusted accepts, when it is given
  PageForms,               \* the forms pages have: [dom, post, action, user, pass]
  NoForm,
  LoginSteps, RedirectHops \* max_steps = 5, and 10 in the code

VARIABLES
  lmode,      \* configure's mode, "driver", or "native": who logs in
  lopts,      \* follows: the session's follow_redirects; policy: options.trusted is given; offline: the driver's html
  lpc,
  lurl,       \* current_url
  lform,      \* the page in hand: its form
  hops, lstep, \* follow_fetch's and form_login's loop counters
  sentPassword,
  lresult,    \* "none" until the call is over
  lheader,    \* the header set on the session, or by the native plugin on its request
  posted,     \* history: the requests with credentials
  strays,     \* history: what relative Locations of bare URLs became
  native      \* g_config of the native plugin

LoginVars == <<lmode, lopts, lpc, lurl, lform, hops, lstep, sentPassword, lresult, lheader, posted, strays, native>>

Modes == {"basic", "bearer", "api-key", "custom-header", "cookie", "form", "oauth"}
LoginInit ==
  /\ lmode \in Modes \cup {"driver", "native"}
  /\ lopts \in {o \in [follows : BOOLEAN, policy : BOOLEAN, offline : BOOLEAN] : o.offline => lmode = "driver"}
  /\ lpc = "start" /\ lurl = LoginUrl /\ lform = NoForm /\ hops = 0 /\ lstep = 0 /\ sentPassword = FALSE
  /\ lresult = "none" /\ lheader = "none" /\ posted = {} /\ strays = {} /\ native = "none"

-----------------------------------------------------------------------------
(* configure.  The flows start with a fetch of the login page.             *)

LoginOver(result) == lresult' = result /\ lpc' = "over"
Configure ==
  /\ lpc = "start" /\ lmode \in Modes
  /\ \/ lmode \in {"form", "oauth"} /\ lpc' = "fetch" /\ UNCHANGED <<lresult, lheader>>
     \/ lmode \notin {"form", "oauth"} /\ LoginOver("true") /\ lheader' = lmode
     \/ LoginOver("error") /\ UNCHANGED lheader                                \* an option is missing
  /\ UNCHANGED <<lmode, lopts, lurl, lform, hops, lstep, sentPassword, posted, strays, native>>

(* resolve_location: an absolute one has the base's origin, or is what the *)
(* policy accepts; a relative one is put after the last slash of the base  *)
(* and not looked at again, and in a base without a path that is the slash *)
(* before its host.                                                        *)
Trusts(url) == lopts.policy /\ url \in TrustedUrls
BecomesOf(base) == IF base \in BareUrls THEN SiteUrls ELSE {u \in SiteUrls : HostOf[u] = HostOf[base]}
Location(relative, url) == [relative |-> relative, url |-> url]
NoLocation == Location(FALSE, NoUrl)
Locations(base) ==
  {NoLocation} \cup {Location(FALSE, u) : u \in SiteUrls} \cup {Location(TRUE, u) : u \in BecomesOf(base)}
AnyLocation(base, location) == location.url
ResolveLocation(base, location) ==
  IF location # NoLocation /\ (location.relative \/ HostOf[location.url] = HostOf[base] \/ Trusts(location.url))
  THEN location.url ELSE NoUrl
Strays(base, location) == IF location.relative /\ base \in BareUrls THEN strays \cup {location.url} ELSE strays
Sees3xx == ~lopts.follows

(* follow_fetch, one request at a time.                                    *)
Fetching == lpc = "fetch" /\ (lmode = "form" => lstep < LoginSteps)
FetchRedirected ==
  \E location \in Locations(lurl) :
    /\ Fetching /\ Sees3xx /\ strays' = Strays(lurl, location)
    /\ IF ResolveLocation(lurl, location) = NoUrl \/ hops + 1 >= RedirectHops
       THEN LoginOver("error") /\ UNCHANGED <<lurl, hops>>
       ELSE lurl' = ResolveLocation(lurl, location) /\ hops' = hops + 1 /\ UNCHANGED <<lpc, lresult>>
    /\ UNCHANGED <<lmode, lopts, lform, lstep, sentPassword, lheader, posted, native>>
(* choose_dom_form, or the raw page's: the form that looks most like one.  *)
ChosenForms == PageForms \cup {NoForm}
Fetched ==
  /\ Fetching
  /\ \/ \E form \in ChosenForms : lform' = form /\ lpc' = IF lmode = "form" THEN "page" ELSE "name"
     \/ lpc' = "over" /\ UNCHANGED lform                                   \* not 2xx, or it throws
  /\ lresult' = IF lpc' = "over" THEN "error" ELSE lresult
  /\ hops' = 0
  /\ UNCHANGED <<lmode, lopts, lurl, lstep, sentPassword, lheader, posted, strays, native>>

-----------------------------------------------------------------------------
(* form_login: what a page leads to.                                       *)

PostUrl(form) == IF form.action = NoUrl THEN lurl ELSE form.action
ActionAllowed(form) == HostOf[PostUrl(form)] = HostOf[lurl] \/ Trusts(PostUrl(form))
SendsPassword(form) == form.pass /\ (form.dom \/ ~sentPassword)
PageWithoutForm ==
  /\ lpc = "page" /\ lstep < LoginSteps /\ lform = NoForm
  /\ LoginOver("true") \/ LoginOver("error")                                         \* signed in already, or no way on
  /\ UNCHANGED <<lmode, lopts, lurl, lform, hops, lstep, sentPassword, lheader, posted, strays, native>>
PageRefused ==
  /\ lpc = "page" /\ lstep < LoginSteps /\ lform # NoForm
  /\ ~lform.post \/ ~ActionAllowed(lform)
  /\ LoginOver("error")
  /\ UNCHANGED <<lmode, lopts, lurl, lform, hops, lstep, sentPassword, lheader, posted, strays, native>>
TooManySteps ==
  /\ lpc \in {"page", "fetch"} /\ lmode = "form" /\ lstep >= LoginSteps
  /\ LoginOver("false")
  /\ UNCHANGED <<lmode, lopts, lurl, lform, hops, lstep, sentPassword, lheader, posted, strays, native>>
Credentials(url, user, pass) == [url |-> url, user |-> user, pass |-> pass]
PostForm ==
  /\ lpc = "page" /\ lstep < LoginSteps /\ lform # NoForm
  /\ lform.post /\ ActionAllowed(lform)
  /\ lpc' = "posted" /\ lstep' = lstep + 1 /\ lurl' = PostUrl(lform)
  /\ sentPassword' = (sentPassword \/ SendsPassword(lform))
  /\ posted' = posted \cup {Credentials(lurl', lform.user, SendsPassword(lform))}
  /\ UNCHANGED <<lmode, lopts, lform, hops, lresult, lheader, strays, native>>

(* Its answer.  Redirected: with no Location the page is fetched again.    *)
PostRedirected ==
  \E location \in Locations(lurl), cookie \in BOOLEAN :
    /\ lpc = "posted" /\ Sees3xx /\ strays' = Strays(lurl, location)
    /\ \/ /\ ResolveLocation(lurl, location) # NoUrl
          /\ lurl' = ResolveLocation(lurl, location) /\ lpc' = "landing"
          /\ lheader' = IF cookie THEN "cookie" ELSE lheader
          /\ UNCHANGED lresult
       \/ location # NoLocation /\ ResolveLocation(lurl, location) = NoUrl /\ LoginOver("false") /\ UNCHANGED <<lurl, lheader>>
       \/ location = NoLocation /\ lpc' = "fetch" /\ UNCHANGED <<lurl, lresult, lheader>>
    /\ UNCHANGED <<lmode, lopts, lform, hops, lstep, sentPassword, posted, native>>
PostAnswered ==
  /\ lpc = "posted"
  /\ \/ LoginOver("true") /\ UNCHANGED <<lform, lheader>>                       \* it greets the user
     \/ \E form \in PageForms :
          /\ lform' = form /\ UNCHANGED lheader
          /\ IF sentPassword THEN LoginOver("false") ELSE lpc' = "page" /\ UNCHANGED lresult
     \/ LoginOver("true") /\ lheader' = "cookie" /\ UNCHANGED lform
     \/ LoginOver("false") /\ UNCHANGED <<lform, lheader>>
     \/ LoginOver("error") /\ UNCHANGED <<lform, lheader>>                      \* the request throws
  /\ UNCHANGED <<lmode, lopts, lurl, hops, lstep, sentPassword, posted, strays, native>>
Landed ==
  /\ lpc = "landing"
  /\ \/ LoginOver("true") /\ lheader' \in {"cookie", lheader}
     \/ LoginOver("error") /\ UNCHANGED lheader
     \/ sentPassword /\ LoginOver("false") /\ UNCHANGED lheader
     \/ ~sentPassword /\ lpc' = "fetch" /\ UNCHANGED <<lresult, lheader>>
  /\ UNCHANGED <<lmode, lopts, lurl, lform, hops, lstep, sentPassword, posted, strays, native>>

-----------------------------------------------------------------------------
(* oauth_login: the name first; the password when the name was accepted.   *)

SendName ==
  /\ lpc = "name"
  /\ \/ lpc' = "password" /\ posted' = posted \cup {Credentials(NameEndpoint, TRUE, FALSE)} /\ UNCHANGED lresult
     \/ LoginOver("error") /\ posted' \in {posted, posted \cup {Credentials(NameEndpoint, TRUE, FALSE)}}
  /\ UNCHANGED <<lmode, lopts, lurl, lform, hops, lstep, sentPassword, lheader, strays, native>>
SendOauthPassword ==
  /\ lpc = "password"
  /\ posted' = posted \cup {Credentials(PasswordEndpoint, TRUE, TRUE)} /\ sentPassword' = TRUE
  /\ \/ lpc' = "answer" /\ UNCHANGED <<lresult, lheader>>
     \/ LoginOver("error") /\ UNCHANGED lheader                                \* human verification, or it throws
     \/ Sees3xx /\ LoginOver("true") /\ lheader' = "cookie"                    \* verification, with a redirect that has one
  /\ UNCHANGED <<lmode, lopts, lurl, lform, hops, lstep, strays, native>>
(* A cookie, a Location that is fetched for one, or else the body.         *)
GotCookie == LoginOver("true") /\ lheader' = "cookie"
OauthAnswered ==
  /\ lpc = "answer"
  /\ \/ GotCookie /\ UNCHANGED lurl
     \/ \E location \in Locations(PasswordEndpoint) :
          /\ Sees3xx /\ ResolveLocation(PasswordEndpoint, location) # NoUrl
          /\ lurl' = location.url /\ lpc' = "located" /\ UNCHANGED <<lresult, lheader>>
     \/ lpc' = "body" /\ UNCHANGED <<lurl, lresult, lheader>>
  /\ UNCHANGED <<lmode, lopts, lform, hops, lstep, sentPassword, posted, strays, native>>
OauthLocated ==
  /\ lpc = "located"
  /\ \/ GotCookie
     \/ LoginOver("error") /\ UNCHANGED lheader
     \/ lpc' = "body" /\ UNCHANGED <<lresult, lheader>>
  /\ UNCHANGED <<lmode, lopts, lurl, lform, hops, lstep, sentPassword, posted, strays, native>>
(* The body may name a redirect_uri, which a policy can refuse.            *)
OauthBody ==
  /\ lpc = "body"
  /\ \/ \E redirect_uri \in SiteUrls :
          IF lopts.policy /\ redirect_uri \notin TrustedUrls THEN LoginOver("false") /\ UNCHANGED lurl
          ELSE lurl' = redirect_uri /\ lpc' = "redirected" /\ UNCHANGED lresult
     \/ (LoginOver("true") \/ LoginOver("false")) /\ UNCHANGED lurl
  /\ UNCHANGED <<lmode, lopts, lform, hops, lstep, sentPassword, lheader, posted, strays, native>>
OauthRedirected ==
  /\ lpc = "redirected"
  /\ \/ GotCookie
     \/ (LoginOver("true") \/ LoginOver("false") \/ LoginOver("error")) /\ UNCHANGED lheader
  /\ UNCHANGED <<lmode, lopts, lurl, lform, hops, lstep, sentPassword, posted, strays, native>>

-----------------------------------------------------------------------------
(* drivers/login.lua: navigate, fill the first form with a password, and   *)
(* submit it to its action, unless the page was given.                     *)

DriverOpens ==
  /\ lpc = "start" /\ lmode = "driver"
  /\ \/ /\ \E form \in {f \in PageForms : f.user /\ f.pass} : lform' = form
        /\ lurl' \in IF lopts.follows /\ ~lopts.offline THEN SiteUrls ELSE {LoginUrl}
        /\ lpc' = "fill" /\ UNCHANGED lresult
     \/ LoginOver("error") /\ UNCHANGED <<lurl, lform>>                         \* no page, or no such form
  /\ UNCHANGED <<lmode, lopts, hops, lstep, sentPassword, lheader, posted, strays, native>>
DryRun ==
  /\ lpc = "fill" /\ lopts.offline /\ LoginOver("true")
  /\ UNCHANGED <<lmode, lopts, lurl, lform, hops, lstep, sentPassword, lheader, posted, strays, native>>
DriverSubmits ==
  /\ lpc = "fill" /\ ~lopts.offline
  /\ posted' = posted \cup {Credentials(PostUrl(lform), TRUE, TRUE)} /\ sentPassword' = TRUE
  /\ LoginOver("true") \/ LoginOver("error")
  /\ UNCHANGED <<lmode, lopts, lurl, lform, hops, lstep, lheader, strays, native>>

-----------------------------------------------------------------------------
(* The native plugin: a configuration that lacks something is refused and  *)
(* the one before stays; a request gets the header of the mode, whatever   *)
(* its host.                                                               *)

NativeModes == {"none", "basic", "bearer", "api-key", "custom-header", "form", "cookie"}
NativeConfigure ==
  /\ lmode = "native"
  /\ native' \in NativeModes \cup {native}
  /\ UNCHANGED <<lmode, lopts, lpc, lurl, lform, hops, lstep, sentPassword, lresult, lheader, posted, strays>>
NativeHeader == IF native \in {"none", "form"} THEN "none" ELSE native
NativeBeforeRequest ==
  /\ lmode = "native" /\ lheader' = NativeHeader
  /\ UNCHANGED <<lmode, lopts, lpc, lurl, lform, hops, lstep, sentPassword, lresult, posted, strays, native>>

LoginNext ==
  \/ Configure \/ FetchRedirected \/ Fetched \/ PageWithoutForm \/ PageRefused \/ TooManySteps \/ PostForm
  \/ PostRedirected \/ PostAnswered \/ Landed \/ SendName \/ SendOauthPassword \/ OauthAnswered \/ OauthLocated \/ OauthBody \/ OauthRedirected
  \/ DriverOpens \/ DryRun \/ DriverSubmits \/ NativeConfigure \/ NativeBeforeRequest
LoginSpec == LoginInit /\ [][LoginNext]_LoginVars

-----------------------------------------------------------------------------
(* However redirects, forms and pages chain, the helper sends credentials  *)
(* only to the origin it was given, to the configured endpoints, to        *)
(* origins the policy trusts, and to where a relative Location led from a  *)
(* URL without a path, which nobody checks; oauth sends the password only  *)
(* after the name was taken; and a dry run of the driver sends nothing     *)
(* (ezlogin.lua, resolve_location and the check of the action;             *)
(* drivers/login.lua).                                                     *)
SafeOrigins ==
  {HostOf[LoginUrl]} \cup (IF lopts.policy THEN {HostOf[u] : u \in TrustedUrls} ELSE {})
    \cup (IF lmode = "oauth" THEN {HostOf[NameEndpoint], HostOf[PasswordEndpoint]} ELSE {})
    \cup {HostOf[u] : u \in strays}
CredentialsStayTrusted ==
  \A p \in posted :
    /\ lmode # "driver" => HostOf[p.url] \in SafeOrigins
    /\ lmode = "oauth" /\ p.pass => Credentials(NameEndpoint, TRUE, FALSE) \in posted
    /\ ~lopts.offline
=============================================================================
