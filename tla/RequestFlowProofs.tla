------------------------- MODULE RequestFlowProofs -------------------------
(***************************************************************************)
(* Session::request keeps credentials and jar cookies where they belong,   *)
(* for every set of hosts, URLs and status codes and every redirect limit. *)
(***************************************************************************)
EXTENDS RequestFlow, TLAPS

(* What the headers and the body of request r may hold. *)
Proper(r) ==
  /\ r.auth \/ r.explicit => SameOrigin(r.url, r.home)
  /\ \A c \in r.cookie :
       c.host = r.url.host /\ (c.secure => r.url.scheme = "https")
  /\ r.body \in {"none", r.method}

(* redirects counts the hops; the transport is one ahead of it once the    *)
(* request of the current hop is out.                                      *)
HopInv ==
  /\ Len(chain) = redirects
  /\ Len(sent) <= redirects + 1
  /\ Len(chain) <= Len(sent)
  /\ pc \in {"BeforeRequest", "Send"} => Len(sent) = redirects
  /\ pc \in {"Respond", "returned"} =>
       Len(sent) = redirects + 1 /\ sent[redirects + 1] = req.url
  /\ \A i \in 1..Len(chain) : chain[i] = sent[i]

WireInv == \A r \in wire : Proper(r)

Inv == TypeOK /\ Proper(req) /\ HopInv /\ WireInv

USE FlowConstants

(* Whatever a caller or a plugin submits is a proper request. *)
LEMMA SubmittedIsProper ==
  ASSUME NEW r \in Submitted
  PROVE  r \in Requests /\ Proper(r)
<1>1. PICK u \in Urls, m \in Methods, a \in BOOLEAN, b \in BOOLEAN, e \in BOOLEAN :
        r = [url |-> u, method |-> m, body |-> IF b THEN m ELSE "none", auth |-> a,
             cookie |-> {}, explicit |-> e, home |-> u]
  BY DEF Submitted
<1>2. r \in Requests
  BY <1>1 DEF Requests
<1>3. Proper(r)
  BY <1>1 DEF Proper, SameOrigin
<1> QED BY <1>2, <1>3

LEMMA InitInv == Init => Inv
<1> SUFFICES ASSUME Init PROVE Inv
  OBVIOUS
<1>1. req \in Requests /\ Proper(req)
  BY SubmittedIsProper DEF Init
<1>2. jar \in SUBSET Cookies
  BY DEF Init
<1>3. TypeOK
  BY <1>1, <1>2 DEF Init, TypeOK, Pcs
<1>4. HopInv /\ WireInv
  BY DEF Init, HopInv, WireInv
<1> QED BY <1>1, <1>3, <1>4 DEF Inv

(* Adding the jar's cookies for a request's own URL keeps it proper. *)
LEMMA AddCookiesIsProper ==
  ASSUME NEW r \in Requests, Proper(r), jar \in SUBSET Cookies
  PROVE  /\ AddCookies(r) \in Requests
         /\ Proper(AddCookies(r))
         /\ AddCookies(r).url = r.url
<1>1. CASE r.explicit \/ r.cookie # {}
  BY <1>1 DEF AddCookies
<1>2. CASE ~(r.explicit \/ r.cookie # {})
  <2> DEFINE s == [r EXCEPT !.cookie = CookieHeader(r.url)]
  <2>1. AddCookies(r) = s
    BY <1>2 DEF AddCookies
  <2>2. CookieHeader(r.url) \in SUBSET Cookies
    BY DEF CookieHeader
  <2>3. s \in Requests
    BY <2>2 DEF Requests
  <2>4. /\ s.url = r.url /\ s.cookie = CookieHeader(r.url) /\ s.auth = r.auth
        /\ s.explicit = r.explicit /\ s.home = r.home /\ s.body = r.body
        /\ s.method = r.method
    BY DEF Requests
  <2>5. Proper(s)
    BY <2>4 DEF Proper, CookieHeader, InScope
  <2> QED BY <2>1, <2>3, <2>4, <2>5
<1> QED BY <1>1, <1>2

(* A redirect keeps the request proper: across origins every sensitive     *)
(* header goes, within one they stay where they were.                      *)
LEMMA RedirectIsProper ==
  ASSUME NEW r \in Requests, Proper(r), NEW u \in Urls, NEW status,
         NEW s, s = RewriteMethod(
                      [(IF SameOrigin(r.url, u) THEN r ELSE StripCredentials(r))
                         EXCEPT !.url = u], status)
  PROVE  s \in Requests /\ Proper(s)
<1> DEFINE k == IF SameOrigin(r.url, u) THEN r ELSE StripCredentials(r)
           t == [k EXCEPT !.url = u]
<1>1. k \in Requests /\ k.home = r.home /\ k.body = r.body /\ k.method = r.method
  BY DEF StripCredentials, Requests
<1>2. /\ t \in Requests /\ t.url = u /\ t.home = r.home /\ t.body = r.body
      /\ t.method = r.method /\ t.auth = k.auth /\ t.explicit = k.explicit
      /\ t.cookie = k.cookie
  BY <1>1 DEF Requests
<1>5. t \in Requests /\ Proper(t)
  <2>1. CASE SameOrigin(r.url, u)
    <3>1. t.auth = r.auth /\ t.explicit = r.explicit /\ t.cookie = r.cookie
      BY <1>2, <2>1
    <3>2. r.url \in Urls /\ r.home \in Urls
      BY DEF Requests
    <3> HIDE DEF t
    <3> QED BY <1>2, <2>1, <3>1, <3>2 DEF Proper, SameOrigin
  <2>2. CASE ~SameOrigin(r.url, u)
    <3>1. k.auth = FALSE /\ k.explicit = FALSE /\ k.cookie = {}
      BY <2>2 DEF StripCredentials, Requests
    <3> HIDE DEF t, k
    <3> QED BY <1>2, <3>1 DEF Proper
  <2> QED BY <2>1, <2>2
<1>6. CASE s = t
  BY <1>5, <1>6
<1>7. CASE s = [t EXCEPT !.method = "GET", !.body = "none"]
  <2>1. s \in Requests
    BY <1>2, <1>7 DEF Requests, Methods
  <2>2. /\ s.url = t.url /\ s.cookie = t.cookie /\ s.auth = t.auth
        /\ s.explicit = t.explicit /\ s.home = t.home /\ s.body = "none"
    BY <1>2, <1>7 DEF Requests
  <2> QED BY <1>5, <2>1, <2>2 DEF Proper
<1> QED BY <1>6, <1>7 DEF RewriteMethod

-----------------------------------------------------------------------------
(* Steps that only move pc forward out of the loop or to the transport. *)
LEMMA PcOnly ==
  ASSUME Inv,
         UNCHANGED <<req, redirects, chain, response, jar, sent, wire, writes>>,
         \/ pc' = "threw"
         \/ pc = "BeforeRequest" /\ pc' = "Send"
         \/ pc = "Respond" /\ pc' = "returned"
         \/ pc' = pc
  PROVE  Inv'
<1>1. TypeOK'
  BY DEF Inv, TypeOK, Pcs
<1>2. Proper(req)' /\ WireInv'
  BY DEF Inv, WireInv, Proper, SameOrigin
<1>3. HopInv'
  BY DEF Inv, HopInv
<1> QED BY <1>1, <1>2, <1>3 DEF Inv

LEMMA ReplaceRequestInv == Inv /\ ReplaceRequest => Inv'
<1> SUFFICES ASSUME Inv, ReplaceRequest PROVE Inv'
  OBVIOUS
<1>1. req' \in Requests /\ Proper(req')
  BY SubmittedIsProper DEF ReplaceRequest
<1>2. TypeOK'
  BY <1>1 DEF Inv, TypeOK, Pcs, ReplaceRequest
<1>3. Proper(req)'
  BY <1>1 DEF Proper, SameOrigin
<1>4. WireInv'
  BY DEF Inv, WireInv, ReplaceRequest
<1>5. HopInv'
  BY DEF Inv, HopInv, ReplaceRequest
<1> QED BY <1>2, <1>3, <1>4, <1>5 DEF Inv

(* Whatever Set-Cookie stores or expires is a cookie. *)
LEMMA StoredByIsCookies ==
  ASSUME NEW cookies \in SUBSET Cookies, NEW url, NEW c \in Cookies, NEW expired \in BOOLEAN
  PROVE  StoredBy(cookies, url, c, expired) \in SUBSET Cookies
BY DEF StoredBy, Without

LEMMA SendInv == Inv /\ Send => Inv'
<1> SUFFICES ASSUME Inv, Send PROVE Inv'
  OBVIOUS
<1>1. req \in Requests /\ Proper(req) /\ jar \in SUBSET Cookies
  BY DEF Inv, TypeOK
<1>2. req' \in Requests /\ Proper(req') /\ req'.url = req.url
  BY <1>1, AddCookiesIsProper DEF Send
<1>3. req.url \in Urls /\ req.url.host \in Hosts
  BY <1>1 DEF Requests
<1>4. jar' \in SUBSET Cookies
  <2>1. CASE jar' = jar
    BY <1>1, <2>1
  <2>2. CASE \E p \in Paths, secure, expired \in BOOLEAN :
               jar' = StoredBy(jar, req.url,
                        [host |-> req.url.host, path |-> p, secure |-> secure], expired)
    <3>1. PICK p \in Paths, secure \in BOOLEAN, expired \in BOOLEAN :
            jar' = StoredBy(jar, req.url,
                     [host |-> req.url.host, path |-> p, secure |-> secure], expired)
      BY <2>2
    <3>2. [host |-> req.url.host, path |-> p, secure |-> secure] \in Cookies
      BY <1>3 DEF Cookies
    <3> QED BY <1>1, <3>1, <3>2, StoredByIsCookies
  <2> QED BY <2>1, <2>2 DEF Send
<1>5. sent' \in Seq(Urls) /\ Len(sent') = Len(sent) + 1
      /\ sent'[Len(sent) + 1] = req.url
      /\ \A i \in 1..Len(sent) : sent'[i] = sent[i]
  BY <1>3 DEF Send, Inv, TypeOK
<1>6. TypeOK'
  BY <1>2, <1>4, <1>5 DEF Send, Inv, TypeOK, Pcs
<1>7. WireInv'
  BY <1>2 DEF Send, WireInv
<1>8. HopInv'
  BY <1>2, <1>5 DEF Send, Inv, HopInv, TypeOK
<1>9. Proper(req)'
  BY <1>2 DEF Proper, SameOrigin
<1> QED BY <1>6, <1>7, <1>8, <1>9 DEF Inv

LEMMA RedirectInv == Inv /\ Redirect => Inv'
<1> SUFFICES ASSUME Inv, Redirect PROVE Inv'
  OBVIOUS
<1>1. req \in Requests /\ Proper(req)
  BY DEF Inv, TypeOK
<1>2. PICK u \in Urls :
        req' = RewriteMethod([(IF SameOrigin(req.url, u) THEN req ELSE StripCredentials(req))
                                EXCEPT !.url = u], response)
  BY DEF Redirect
<1>3. req' \in Requests /\ Proper(req')
  BY <1>1, <1>2, RedirectIsProper
<1>4. req.url \in Urls
  BY <1>1 DEF Requests
<1>5. chain' \in Seq(Urls) /\ Len(chain') = Len(chain) + 1
      /\ chain'[Len(chain) + 1] = req.url
      /\ \A i \in 1..Len(chain) : chain'[i] = chain[i]
  BY <1>4 DEF Redirect, RecordHop, Inv, TypeOK
<1>6. redirects' \in 0..MaxRedirects
  BY DEF Redirect, HopAllowed, Inv, TypeOK
<1>7. TypeOK'
  BY <1>3, <1>5, <1>6 DEF Redirect, Inv, TypeOK, Pcs
<1>8. WireInv'
  BY DEF Redirect, Inv, WireInv
<1>9. HopInv'
  <2>1. /\ Len(chain) = redirects /\ Len(sent) = redirects + 1
        /\ sent[redirects + 1] = req.url /\ redirects \in Nat
        /\ \A i \in 1..Len(chain) : chain[i] = sent[i]
    BY DEF Redirect, Inv, HopInv, TypeOK
  <2>2. redirects' = redirects + 1 /\ sent' = sent /\ pc' = "BeforeRequest"
    BY DEF Redirect
  <2>3. \A i \in 1..Len(chain') : chain'[i] = sent'[i]
    BY <1>5, <2>1, <2>2
  <2> QED BY <1>5, <2>1, <2>2, <2>3 DEF HopInv
<1>10. Proper(req)'
  BY <1>3 DEF Proper, SameOrigin
<1> QED BY <1>7, <1>8, <1>9, <1>10 DEF Inv

LEMMA OtherJarWriteInv == Inv /\ OtherJarWrite => Inv'
<1> SUFFICES ASSUME Inv, OtherJarWrite PROVE Inv'
  OBVIOUS
<1>1. jar' \in SUBSET Cookies
  BY DEF Inv, TypeOK, OtherJarWrite, Without
<1>2. TypeOK'
  BY <1>1 DEF Inv, TypeOK, OtherJarWrite
<1>3. Proper(req)' /\ WireInv'
  BY DEF Inv, WireInv, Proper, SameOrigin, OtherJarWrite
<1>4. HopInv'
  BY DEF Inv, HopInv, OtherJarWrite
<1> QED BY <1>2, <1>3, <1>4 DEF Inv

LEMMA NextInv == Inv /\ [Next]_vars => Inv'
<1> SUFFICES ASSUME Inv, [Next]_vars PROVE Inv'
  OBVIOUS
<1>1. CASE BeforeRequest
  BY <1>1, PcOnly DEF BeforeRequest, Throws
<1>2. CASE RejectResponse
  BY <1>2, PcOnly DEF RejectResponse, Throws
<1>3. CASE ReturnResponse
  BY <1>3, PcOnly DEF ReturnResponse
<1>4. CASE TooManyRedirects
  BY <1>4, PcOnly DEF TooManyRedirects, Throws
<1>5. CASE CancelRedirect
  BY <1>5, PcOnly DEF CancelRedirect
<1>6. CASE Done \/ UNCHANGED vars
  BY <1>6, PcOnly DEF Done, vars
<1> QED
  BY <1>1, <1>2, <1>3, <1>4, <1>5, <1>6, ReplaceRequestInv, SendInv, RedirectInv,
     OtherJarWriteInv DEF Next

-----------------------------------------------------------------------------
LEMMA Invariance == Spec => []Inv
BY InitInv, NextInv, PTL DEF Spec

(* The loop's state keeps its types; in particular redirects never passes  *)
(* BrowserConfig::max_redirects.                                           *)
THEOREM FlowTypes == Spec => []TypeOK
<1>1. Inv => TypeOK
  BY DEF Inv
<1> QED BY <1>1, Invariance, PTL

(* Authorization and explicit Cookie headers reach no origin but the one   *)
(* they were submitted for, along every chain of redirects.                *)
THEOREM CredentialsAreConfined == Spec => []CredentialsStayHome
<1>1. Inv => CredentialsStayHome
  BY DEF Inv, WireInv, Proper, CredentialsStayHome
<1> QED BY <1>1, Invariance, PTL

(* The Cookie header filled from the jar, once carried to later hops, stays *)
(* on its host, and Secure cookies stay on https.                           *)
THEOREM JarCookiesAreConfined == Spec => []JarCookiesStayInHostAndScheme
<1>1. Inv => JarCookiesStayInHostAndScheme
  BY DEF Inv, WireInv, Proper, JarCookiesStayInHostAndScheme
<1> QED BY <1>1, Invariance, PTL

(* Session::request: no chain of redirects carries credentials or cookies   *)
(* anywhere but home.                                                       *)
THEOREM CarriedHome == Spec => []CarriedOnlyHome
<1>1. CredentialsStayHome /\ JarCookiesStayInHostAndScheme => CarriedOnlyHome
  BY DEF CarriedOnlyHome
<1> QED BY <1>1, CredentialsAreConfined, JarCookiesAreConfined, PTL

(* No mix of redirects sends a body with a method it was not submitted with. *)
THEOREM BodiesKeepTheirMethod == Spec => []BodyKeepsItsMethod
<1>1. Inv => BodyKeepsItsMethod
  BY DEF Inv, WireInv, Proper, BodyKeepsItsMethod
<1> QED BY <1>1, Invariance, PTL

(* One call costs at most max_redirects + 1 transport requests. *)
THEOREM TrafficIsBounded == Spec => []BoundedTraffic
<1>1. Inv => BoundedTraffic
  BY DEF Inv, TypeOK, HopInv, BoundedTraffic
<1> QED BY <1>1, Invariance, PTL

(* The redirect chain returned to the caller is what was sent before the   *)
(* final request.                                                          *)
THEOREM ChainIsFaithful == Spec => []ChainIsWhatWasSent
<1>1. Inv => ChainIsWhatWasSent
  <2> SUFFICES ASSUME Inv, pc = "returned"
               PROVE  /\ Len(sent) = Len(chain) + 1
                      /\ \A i \in DOMAIN chain : chain[i] = sent[i]
    BY DEF ChainIsWhatWasSent
  <2>1. DOMAIN chain = 1..Len(chain)
    BY DEF Inv, TypeOK
  <2> QED BY <2>1 DEF Inv, HopInv
<1> QED BY <1>1, Invariance, PTL
=============================================================================
