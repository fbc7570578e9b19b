---------------------------- MODULE DriverProofs ----------------------------
(***************************************************************************)
(* What drivers and their helpers keep to: where the login helpers send    *)
(* credentials, for any site, any policy and any limits on steps and       *)
(* redirects; what the endpoint explorer reports, for any catalogue,       *)
(* policy and budget; which element an id of the CDP server names, for any *)
(* number of elements and documents; whose answer a prompt to an agent     *)
(* returns, for any sessions, limits and pace of the server; and what a    *)
(* crawl that ended can be relied on, for any site and any limits.         *)
(***************************************************************************)
EXTENDS Login, Marionette, CdpServer, OpenCode, Crawlers, FiniteSetTheorems, SequenceTheorems, TLAPS

-----------------------------------------------------------------------------
(* Login.                                                                  *)

NameSent == Credentials(NameEndpoint, TRUE, FALSE)

(* Which flow is where: form posts what a page holds, oauth its two         *)
(* endpoints, the driver one form, and a dry run only the driver has.       *)
FlowIsTheModes ==
  /\ lpc \in {"page", "posted", "landing"} => lmode = "form"
  /\ lpc \in {"name", "password", "answer", "located", "body", "redirected"} => lmode = "oauth"
  /\ lpc = "fetch" => lmode \in {"form", "oauth"}
  /\ lpc = "fill" => lmode = "driver"
  /\ lopts.offline => lmode = "driver"

(* The form flow never leaves the origins it may send to, so wherever it    *)
(* posts next is one of them; oauth is past its name before its password.   *)
FlowIsSafe ==
  /\ lmode = "form" => HostOf[lurl] \in SafeOrigins
  /\ lpc = "password" => NameSent \in posted

LoginInv == FlowIsTheModes /\ FlowIsSafe /\ CredentialsStayTrusted

LEMMA SafeStaysSafe ==
  ASSUME UNCHANGED <<lmode, lopts>>, strays \subseteq strays'
  PROVE  SafeOrigins \subseteq SafeOrigins'
BY DEF SafeOrigins

LEMMA ResolvedIsSafe ==
  ASSUME NEW base, NEW location \in Locations(base), ResolveLocation(base, location) # NoUrl, HostOf[base] \in SafeOrigins,
         UNCHANGED <<lmode, lopts>>, strays' = Strays(base, location)
  PROVE  HostOf[ResolveLocation(base, location)] \in SafeOrigins'
<1>1. SafeOrigins \subseteq SafeOrigins'
  BY SafeStaysSafe DEF Strays
<1>2. CASE location.relative /\ base \in BareUrls
  BY <1>2 DEF ResolveLocation, Strays, SafeOrigins
<1>3. CASE location.relative /\ base \notin BareUrls
  <2>1. location.url \in BecomesOf(base)
    BY <1>3 DEF Locations, Location, NoLocation
  <2> QED BY <1>1, <1>3, <2>1 DEF BecomesOf, ResolveLocation
<1>4. CASE ~location.relative
  <2>1. ResolveLocation(base, location) = location.url /\ (HostOf[location.url] = HostOf[base] \/ Trusts(location.url))
    BY <1>4 DEF ResolveLocation
  <2>2. HostOf[location.url] \in SafeOrigins
    BY <2>1 DEF Trusts, SafeOrigins
  <2> QED BY <1>1, <2>1, <2>2
<1> QED BY <1>2, <1>3, <1>4

(* A step that sends nothing and stays where it is safe *)
LEMMA QuietStep ==
  ASSUME LoginInv, UNCHANGED <<lmode, lopts, posted>>, strays \subseteq strays', FlowIsTheModes',
         lmode = "form" => HostOf[lurl'] \in SafeOrigins', lpc' = "password" => lpc = "password"
  PROVE  LoginInv'
<1>1. SafeOrigins \subseteq SafeOrigins'
  BY SafeStaysSafe
<1>2. FlowIsSafe'
  BY <1>1 DEF LoginInv, FlowIsSafe
<1>3. CredentialsStayTrusted'
  BY <1>1 DEF LoginInv, CredentialsStayTrusted
<1> QED BY <1>2, <1>3 DEF LoginInv

(* A step that sends p, which is allowed *)
LEMMA SendingStep ==
  ASSUME LoginInv, UNCHANGED <<lmode, lopts, strays>>, FlowIsTheModes', NEW p, posted' \in {posted, posted \cup {p}},
         lmode # "driver" => HostOf[p.url] \in SafeOrigins, lmode = "oauth" /\ p.pass => NameSent \in posted,
         ~lopts.offline, lmode = "form" => HostOf[lurl'] \in SafeOrigins, lpc' = "password" => NameSent \in posted'
  PROVE  LoginInv'
<1>1. SafeOrigins' = SafeOrigins
  BY DEF SafeOrigins
<1>2. FlowIsSafe'
  BY <1>1 DEF LoginInv, FlowIsSafe
<1>3. CredentialsStayTrusted'
  BY <1>1 DEF LoginInv, CredentialsStayTrusted, NameSent
<1> QED BY <1>2, <1>3 DEF LoginInv

LEMMA LoginStep == LoginInv /\ [LoginNext]_LoginVars => LoginInv'
<1> SUFFICES ASSUME LoginInv, [LoginNext]_LoginVars PROVE LoginInv'
  OBVIOUS
<1>0. FlowIsTheModes /\ FlowIsSafe
  BY DEF LoginInv
<1> USE DEF LoginOver
(* Steps that send nothing and leave the url alone. *)
<1>1. ASSUME Configure \/ Fetched \/ PageWithoutForm \/ PageRefused \/ TooManySteps \/ PostAnswered \/ Landed
             \/ DryRun \/ OauthLocated \/ OauthRedirected \/ NativeConfigure \/ NativeBeforeRequest \/ UNCHANGED LoginVars
      PROVE  LoginInv'
  <2>1. UNCHANGED <<lmode, lopts, posted, strays, lurl>> /\ (lpc' = "password" => lpc = "password")
    BY <1>1 DEF Configure, Fetched, PageWithoutForm, PageRefused, TooManySteps, PostAnswered, Landed, DryRun, OauthLocated,
      OauthRedirected, NativeConfigure, NativeBeforeRequest, LoginVars, GotCookie
  <2>2. FlowIsTheModes'
    BY <1>0, <1>1, <2>1 DEF Configure, Fetched, Fetching, PageWithoutForm, PageRefused, TooManySteps, PostAnswered, Landed, DryRun,
      OauthLocated, OauthRedirected, NativeConfigure, NativeBeforeRequest, LoginVars, GotCookie, FlowIsTheModes, Modes
  <2>3. SafeOrigins' = SafeOrigins
    BY <2>1 DEF SafeOrigins
  <2> QED BY <1>0, <2>1, <2>2, <2>3, QuietStep DEF FlowIsSafe
(* Steps that move to a url the answer names. *)
<1>2. CASE FetchRedirected
  <2>1. PICK location \in Locations(lurl) :
          /\ lpc = "fetch" /\ UNCHANGED <<lmode, lopts, posted>> /\ strays' = Strays(lurl, location)
          /\ \/ lpc' = "over" /\ UNCHANGED lurl
             \/ ResolveLocation(lurl, location) # NoUrl /\ lurl' = ResolveLocation(lurl, location) /\ UNCHANGED lpc
    BY <1>2 DEF FetchRedirected, Fetching
  <2>2. FlowIsTheModes'
    BY <1>0, <2>1 DEF FlowIsTheModes
  <2>3. strays \subseteq strays' /\ SafeOrigins \subseteq SafeOrigins'
    BY <2>1, SafeStaysSafe DEF Strays
  <2>4. lmode = "form" => HostOf[lurl'] \in SafeOrigins'
    BY <1>0, <2>1, <2>3, ResolvedIsSafe DEF FlowIsSafe
  <2> QED BY <2>1, <2>2, <2>3, <2>4, QuietStep
<1>3. CASE PostRedirected
  <2>1. PICK location \in Locations(lurl) :
          /\ lpc = "posted" /\ UNCHANGED <<lmode, lopts, posted>> /\ strays' = Strays(lurl, location)
          /\ \/ lpc' \in {"over", "fetch"} /\ UNCHANGED lurl
             \/ ResolveLocation(lurl, location) # NoUrl /\ lurl' = ResolveLocation(lurl, location) /\ lpc' = "landing"
    BY <1>3 DEF PostRedirected
  <2>2. FlowIsTheModes'
    BY <1>0, <2>1 DEF FlowIsTheModes
  <2>3. strays \subseteq strays' /\ SafeOrigins \subseteq SafeOrigins'
    BY <2>1, SafeStaysSafe DEF Strays
  <2>4. lmode = "form" => HostOf[lurl'] \in SafeOrigins'
    BY <1>0, <2>1, <2>3, ResolvedIsSafe DEF FlowIsSafe
  <2> QED BY <2>1, <2>2, <2>3, <2>4, QuietStep
<1>4. CASE OauthAnswered \/ OauthBody
  <2>1. lmode = "oauth"
    BY <1>0, <1>4 DEF OauthAnswered, OauthBody, FlowIsTheModes
  <2>2. UNCHANGED <<lmode, lopts, posted, strays>> /\ lpc' # "password"
    BY <1>4 DEF OauthAnswered, OauthBody, GotCookie
  <2>3. FlowIsTheModes'
    BY <1>0, <1>4, <2>1, <2>2 DEF OauthAnswered, OauthBody, GotCookie, FlowIsTheModes
  <2> QED BY <2>1, <2>2, <2>3, QuietStep
<1>5. CASE DriverOpens
  <2>1. lmode = "driver" /\ UNCHANGED <<lmode, lopts, posted, strays>> /\ lpc' \in {"fill", "over"}
    BY <1>5 DEF DriverOpens
  <2>2. FlowIsTheModes'
    BY <1>0, <2>1 DEF FlowIsTheModes
  <2> QED BY <2>1, <2>2, QuietStep
(* Steps that send credentials. *)
<1>6. CASE PostForm
  <2> DEFINE p == Credentials(PostUrl(lform), lform.user, SendsPassword(lform))
  <2>1. /\ lmode = "form" /\ lpc' = "posted" /\ UNCHANGED <<lmode, lopts, strays>> /\ lurl' = PostUrl(lform)
        /\ posted' = posted \cup {p}
    BY <1>0, <1>6 DEF PostForm, FlowIsTheModes
  <2>2. HostOf[PostUrl(lform)] \in SafeOrigins
    BY <1>0, <1>6, <2>1 DEF PostForm, ActionAllowed, Trusts, FlowIsSafe, SafeOrigins
  <2>3. p.url = PostUrl(lform)
    BY DEF Credentials
  <2>4. FlowIsTheModes' /\ ~lopts.offline
    BY <1>0, <2>1 DEF FlowIsTheModes
  <2> HIDE DEF p
  <2> QED BY <2>1, <2>2, <2>3, <2>4, SendingStep
<1>7. CASE SendName
  <2>1. lmode = "oauth" /\ UNCHANGED <<lmode, lopts, strays>> /\ ~lopts.offline
    BY <1>0, <1>7 DEF SendName, FlowIsTheModes
  <2>2. /\ posted' \in {posted, posted \cup {NameSent}} /\ lpc' \in {"password", "over"}
        /\ lpc' = "password" => NameSent \in posted'
    BY <1>7 DEF SendName, NameSent
  <2>3. HostOf[NameSent.url] \in SafeOrigins /\ ~NameSent.pass
    BY <2>1 DEF NameSent, Credentials, SafeOrigins
  <2>4. FlowIsTheModes'
    BY <1>0, <2>1, <2>2 DEF FlowIsTheModes
  <2> QED BY <2>1, <2>2, <2>3, <2>4, SendingStep
<1>8. CASE SendOauthPassword
  <2> DEFINE p == Credentials(PasswordEndpoint, TRUE, TRUE)
  <2>1. lmode = "oauth" /\ UNCHANGED <<lmode, lopts, strays>> /\ ~lopts.offline /\ NameSent \in posted
    BY <1>0, <1>8 DEF SendOauthPassword, FlowIsTheModes, FlowIsSafe
  <2>2. posted' = posted \cup {p} /\ lpc' \in {"answer", "over"}
    BY <1>8 DEF SendOauthPassword
  <2>3. HostOf[p.url] \in SafeOrigins
    BY <2>1 DEF Credentials, SafeOrigins
  <2>4. FlowIsTheModes'
    BY <1>0, <2>1, <2>2 DEF FlowIsTheModes
  <2> HIDE DEF p
  <2> QED BY <2>1, <2>2, <2>3, <2>4, SendingStep
<1>9. CASE DriverSubmits
  <2> DEFINE p == Credentials(PostUrl(lform), TRUE, TRUE)
  <2>1. lmode = "driver" /\ UNCHANGED <<lmode, lopts, strays>> /\ ~lopts.offline /\ posted' = posted \cup {p} /\ lpc' = "over"
    BY <1>0, <1>9 DEF DriverSubmits, FlowIsTheModes
  <2>2. FlowIsTheModes'
    BY <1>0, <2>1 DEF FlowIsTheModes
  <2> HIDE DEF p
  <2> QED BY <2>1, <2>2, SendingStep
<1> QED BY <1>1, <1>2, <1>3, <1>4, <1>5, <1>6, <1>7, <1>8, <1>9 DEF LoginNext

(* CredentialsStayTrusted, for any site and any limits.                     *)
THEOREM CredentialsAreTrusted == LoginSpec => []CredentialsStayTrusted
<1>1. LoginInit => LoginInv
  BY DEF LoginInit, LoginInv, FlowIsTheModes, FlowIsSafe, CredentialsStayTrusted, SafeOrigins
<1>2. LoginInv => CredentialsStayTrusted
  BY DEF LoginInv
<1> QED BY <1>1, <1>2, LoginStep, PTL DEF LoginSpec

-----------------------------------------------------------------------------
(* The endpoint explorer.                                                  *)

(* Between the places that look at denied nothing can set it: it may be     *)
(* set only while an action runs and while endpoints are probed.            *)
DeniedIsNoticed == mstage \notin {"act", "acted", "probe", "failed"} => ~denied

(* What was observed once is in accumulated and stays observed there.       *)
ObservedIsKept == \A k \in everObserved : k \in DOMAIN accumulated /\ Observed(accumulated[k])

MarionetteInv == DeniedIsNoticed /\ ObservedIsKept

(* The merge keeps an observed response, whatever the new item has.         *)
LEMMA MergeKeepsObserved ==
  ASSUME NEW old, NEW new, Observed(old) \/ Observed(new)
  PROVE  Observed(Merges(old, new))
<1> DEFINE kept == IF Observed(old) /\ ~Observed(new) THEN old.responses ELSE new.responses
<1>1. Merges(old, new).responses = kept
  BY DEF Merges
<1>2. \E r \in kept : r.observed
  BY DEF Observed
<1> HIDE DEF kept
<1> QED BY <1>1, <1>2 DEF Observed

LEMMA AccumulateKeepsObserved ==
  ASSUME ObservedIsKept, NEW k, k \in everObserved \/ (k \in DOMAIN Items /\ Observed(Items[k]))
  PROVE  k \in DOMAIN Accumulate /\ Observed(Accumulate[k])
<1>1. k \in DOMAIN accumulated \cup DOMAIN Items
  BY DEF ObservedIsKept
<1>2. DOMAIN Accumulate = DOMAIN accumulated \cup DOMAIN Items
  BY DEF Accumulate
<1>3. Accumulate[k] = IF k \notin DOMAIN Items THEN accumulated[k]
                      ELSE IF k \in DOMAIN accumulated THEN Merges(accumulated[k], Items[k]) ELSE Items[k]
  BY <1>1 DEF Accumulate
<1>4. CASE k \notin DOMAIN Items
  BY <1>1, <1>2, <1>3, <1>4 DEF ObservedIsKept
<1>5. CASE k \in DOMAIN Items /\ k \notin DOMAIN accumulated
  BY <1>1, <1>2, <1>3, <1>5 DEF ObservedIsKept
<1>6. CASE k \in DOMAIN Items /\ k \in DOMAIN accumulated
  <2>1. Observed(accumulated[k]) \/ Observed(Items[k])
    BY DEF ObservedIsKept
  <2> QED BY <1>1, <1>2, <1>3, <1>6, <2>1, MergeKeepsObserved
<1> QED BY <1>4, <1>5, <1>6

LEMMA MarionetteStep == MarionetteInv /\ [MarionetteNext]_MarionetteVars => MarionetteInv'
<1> SUFFICES ASSUME MarionetteInv, [MarionetteNext]_MarionetteVars PROVE MarionetteInv'
  OBVIOUS
<1>0. DeniedIsNoticed /\ ObservedIsKept
  BY DEF MarionetteInv
<1> USE DEF RunFails
(* Steps that neither ask for anything nor merge anything. *)
<1>1. ASSUME Prepared \/ Breaks \/ PolicyChecked \/ CollectBegins \/ Skip \/ AgentCreated \/ Choose \/ StepLimit \/ Acted
             \/ Export \/ UNCHANGED MarionetteVars
      PROVE  MarionetteInv'
  <2>1. UNCHANGED <<denied, accumulated, everObserved>>
    BY <1>1 DEF Prepared, Breaks, PolicyChecked, CollectBegins, Skip, AgentCreated, Choose, StepLimit, Acted, Export,
      MarionetteVars, RunVars
  <2>2. DeniedIsNoticed'
    BY <1>0, <1>1, <2>1 DEF Prepared, Breaks, PolicyChecked, CollectBegins, Skip, AgentCreated, Choose, StepLimit, Acted, Export,
      MarionetteVars, DeniedIsNoticed
  <2> QED BY <1>0, <2>1, <2>2 DEF MarionetteInv, ObservedIsKept
(* Steps that may be denied: they stay where that is looked at, or fail. *)
<1>2. ASSUME Probe \/ PageRequests \/ CarryOut
      PROVE  MarionetteInv'
  <2>1. UNCHANGED <<accumulated, everObserved>> /\ mstage' \in {"act", "acted", "probe", "failed"}
    BY <1>2 DEF Probe, PageRequests, CarryOut
  <2> QED BY <1>0, <2>1 DEF MarionetteInv, ObservedIsKept, DeniedIsNoticed
(* The merge at the end of a collection, which looks at denied. *)
<1>3. CASE CollectEnds
  <2>1. DeniedIsNoticed'
    BY <1>3 DEF CollectEnds, DeniedIsNoticed
  <2>2. ObservedIsKept'
    <3> SUFFICES ASSUME NEW k \in everObserved'
                 PROVE  k \in DOMAIN accumulated' /\ Observed(accumulated'[k])
      BY DEF ObservedIsKept, Observed
    <3>1. accumulated' = Accumulate /\ (k \in everObserved \/ (k \in DOMAIN Items /\ Observed(Items[k])))
      BY <1>3 DEF CollectEnds
    <3> QED BY <1>0, <3>1, AccumulateKeepsObserved
  <2> QED BY <2>1, <2>2 DEF MarionetteInv
<1> QED BY <1>1, <1>2, <1>3 DEF MarionetteNext

(* ResultsAreHonest, for any catalogue of endpoints, any pages, any policy  *)
(* and any budget: a run that ends with a result was never denied a request *)
(* and reports every endpoint some collection observed as observed.         *)
THEOREM ResultsStayHonest == MarionetteSpec => []ResultsAreHonest
<1>1. MarionetteInit => MarionetteInv
  BY DEF MarionetteInit, MarionetteInv, DeniedIsNoticed, ObservedIsKept
<1>2. MarionetteInv => ResultsAreHonest
  BY DEF MarionetteInv, DeniedIsNoticed, ObservedIsKept, ResultsAreHonest
<1> QED BY <1>1, <1>2, MarionetteStep, PTL DEF MarionetteSpec

-----------------------------------------------------------------------------
(* The CDP server.                                                         *)

(* The CDP tables.  They only grow, an element is in the table of nodes     *)
(* once, and what the client was told or an id was resolved to is there.    *)
CdpElements == [doc : Nat, place : 1..PageElements]
Once(list) == \A i, j \in DOMAIN list : list[i] = list[j] => i = j
IsNamed(a, ns, os) ==
  \/ a.table = "node" /\ a.id \in DOMAIN ns /\ ns[a.id] = a.element
  \/ a.table = "object" /\ a.id \in DOMAIN os /\ os[a.id] = a.element
CdpInv ==
  /\ shown \in Nat /\ installs \in Nat
  /\ nodes \in Seq(CdpElements) /\ Once(nodes) /\ objects \in Seq(CdpElements)
  /\ \A a \in told \cup resolved : IsNamed(a, nodes, objects)

(* A part of a list without repetitions has none.                           *)
LEMMA PartIsOnce ==
  ASSUME NEW S, NEW s \in Seq(S), NEW kept, kept \subseteq DOMAIN s, Once(s)
  PROVE  Once(AtPositions(s, kept))
<1> DEFINE r == AtPositions(s, kept)
<1>1. IsPart(r, s, kept) /\ r \in Seq(S)
  BY PartOfSequence
<1>2. \A k \in DOMAIN r : k \in Nat
  BY <1>1, LenProperties
<1>3. \A i \in kept : i \in Nat
  BY LenProperties
<1> HIDE DEF r
<1>4. Once(r)
  <2>1. PICK from \in [DOMAIN r -> kept] :
          /\ \A k \in DOMAIN r : r[k] = s[from[k]]
          /\ \A k, l \in DOMAIN r : k < l => from[k] < from[l]
    BY <1>1 DEF IsPart
  <2> SUFFICES ASSUME NEW k \in DOMAIN r, NEW l \in DOMAIN r, r[k] = r[l] PROVE k = l
    BY DEF Once
  <2>2. from[k] = from[l]
    BY <2>1 DEF Once
  <2>3. from[k] \in Nat /\ from[l] \in Nat /\ k \in Nat /\ l \in Nat
    BY <1>2, <1>3
  <2>4. ~(k < l) /\ ~(l < k)
    BY <2>1, <2>2, <2>3
  <2> QED BY <2>3, <2>4
<1> QED BY <1>4 DEF r

(* node_id of one element after the other: ids that were given stay, every  *)
(* element has one now, and none has two.                                   *)
LEMMA NodesGrow ==
  ASSUME nodes \in Seq(CdpElements), Once(nodes), NEW elements \in Seq(CdpElements), Once(elements)
  PROVE  /\ WithNodes(elements) \in Seq(CdpElements) /\ Once(WithNodes(elements))
         /\ \A i \in DOMAIN nodes : i \in DOMAIN WithNodes(elements) /\ WithNodes(elements)[i] = nodes[i]
         /\ Range(elements) \subseteq Range(WithNodes(elements))
<1> DEFINE kept == {i \in DOMAIN elements : elements[i] \notin Range(nodes)}
           new == AtPositions(elements, kept)
           all == nodes \o new
<1> HIDE DEF CdpElements
<1>1. new \in Seq(CdpElements) /\ IsPart(new, elements, kept) /\ Once(new)
  BY PartOfSequence, PartIsOnce
<1>2. Range(new) = {elements[i] : i \in kept}
  <2>1. {new[k] : k \in DOMAIN new} = {elements[i] : i \in kept}
    BY ElementsOfPart
  <2> QED BY <2>1 DEF Range
<1> HIDE DEF new
<1>3. /\ all \in Seq(CdpElements) /\ Len(all) = Len(nodes) + Len(new) /\ Len(nodes) \in Nat /\ Len(new) \in Nat
      /\ DOMAIN all = 1..(Len(nodes) + Len(new)) /\ DOMAIN nodes = 1..Len(nodes) /\ DOMAIN new = 1..Len(new)
      /\ \A i \in 1..(Len(nodes) + Len(new)) : all[i] = IF i <= Len(nodes) THEN nodes[i] ELSE new[i - Len(nodes)]
  BY <1>1, ConcatProperties, LenProperties, Z3
<1>4. \A i \in DOMAIN nodes : i \in DOMAIN all /\ all[i] = nodes[i]
  BY <1>3
<1>5. \A i \in DOMAIN new : Len(nodes) + i \in DOMAIN all /\ all[Len(nodes) + i] = new[i]
  <2> SUFFICES ASSUME NEW i \in DOMAIN new PROVE Len(nodes) + i \in DOMAIN all /\ all[Len(nodes) + i] = new[i]
    OBVIOUS
  <2>1. i \in 1..Len(new)
    BY <1>3
  <2>2. Len(nodes) + i \in 1..(Len(nodes) + Len(new)) /\ ~(Len(nodes) + i <= Len(nodes)) /\ (Len(nodes) + i) - Len(nodes) = i
    BY <1>3, <2>1
  <2> QED BY <1>3, <2>2
<1>6. Once(all)
  <2> SUFFICES ASSUME NEW i \in DOMAIN all, NEW j \in DOMAIN all, all[i] = all[j] PROVE i = j
    BY DEF Once
  <2>1. \A k \in DOMAIN all : \/ k \in DOMAIN nodes /\ all[k] = nodes[k] /\ all[k] \in Range(nodes)
                              \/ /\ k - Len(nodes) \in DOMAIN new /\ all[k] = new[k - Len(nodes)]
                                 /\ all[k] \notin Range(nodes)
    <3> SUFFICES ASSUME NEW k \in DOMAIN all
                 PROVE  \/ k \in DOMAIN nodes /\ all[k] = nodes[k] /\ all[k] \in Range(nodes)
                        \/ k - Len(nodes) \in DOMAIN new /\ all[k] = new[k - Len(nodes)] /\ all[k] \notin Range(nodes)
      OBVIOUS
    <3>1. CASE k <= Len(nodes)
      <4>1. k \in DOMAIN nodes /\ all[k] = nodes[k]
        BY <1>3, <3>1
      <4> QED BY <4>1 DEF Range
    <3>2. CASE ~(k <= Len(nodes))
      <4>1. k - Len(nodes) \in DOMAIN new /\ all[k] = new[k - Len(nodes)]
        BY <1>3, <3>2
      <4>2. new[k - Len(nodes)] \in Range(new)
        BY <4>1 DEF Range
      <4>3. new[k - Len(nodes)] \notin Range(nodes)
        BY <1>2, <4>2
      <4> QED BY <4>1, <4>3
    <3> QED BY <3>1, <3>2
  <2>2. CASE all[i] \in Range(nodes)
    <3>1. i \in DOMAIN nodes /\ j \in DOMAIN nodes /\ nodes[i] = nodes[j]
      BY <2>1, <2>2
    <3> QED BY <3>1 DEF Once
  <2>3. CASE all[i] \notin Range(nodes)
    <3>1. /\ i - Len(nodes) \in DOMAIN new /\ j - Len(nodes) \in DOMAIN new
          /\ new[i - Len(nodes)] = new[j - Len(nodes)]
      BY <2>1, <2>3
    <3>2. i - Len(nodes) = j - Len(nodes)
      BY <1>1, <3>1 DEF Once
    <3> QED BY <1>3, <3>2
  <2> QED BY <2>2, <2>3
<1>7. Range(elements) \subseteq Range(all)
  <2> SUFFICES ASSUME NEW i \in DOMAIN elements PROVE \E k \in DOMAIN all : all[k] = elements[i]
    BY DEF Range
  <2>1. CASE elements[i] \in Range(nodes)
    BY <1>4, <2>1 DEF Range
  <2>2. CASE elements[i] \notin Range(nodes)
    <3>1. PICK k \in DOMAIN new : new[k] = elements[i]
      BY <1>2, <2>2 DEF Range
    <3> QED BY <1>5, <3>1
  <2> QED BY <2>1, <2>2
<1>8. WithNodes(elements) = all
  BY DEF WithNodes, new
<1> HIDE DEF all
<1> QED BY <1>3, <1>4, <1>6, <1>7, <1>8

(* What a command that reports elements leaves behind.                      *)
LEMMA ReportedIsNamed ==
  ASSUME CdpInv, NEW elements \in Seq(CdpElements), Once(elements),
         nodes' = WithNodes(elements), UNCHANGED <<shown, installs, objects>>,
         told' \subseteq told \cup NodeNames(nodes', elements),
         \A a \in resolved' : a \in resolved \/ (\E id \in DOMAIN nodes : a = Named("node", id, nodes[id]))
  PROVE  CdpInv'
<1> HIDE DEF CdpElements
<1>1. /\ nodes' \in Seq(CdpElements) /\ Once(nodes') /\ Range(elements) \subseteq Range(nodes')
      /\ \A i \in DOMAIN nodes : i \in DOMAIN nodes' /\ nodes'[i] = nodes[i]
  BY NodesGrow DEF CdpInv
<1>2. \A a : IsNamed(a, nodes, objects) => IsNamed(a, nodes', objects')
  BY <1>1 DEF IsNamed
<1>3. \A a \in NodeNames(nodes', elements) : IsNamed(a, nodes', objects')
  <2> SUFFICES ASSUME NEW e \in Range(elements) PROVE IsNamed(Named("node", NodeIdIn(nodes', e), e), nodes', objects')
    BY DEF NodeNames
  <2>1. \E i \in DOMAIN nodes' : nodes'[i] = e
    BY <1>1 DEF Range
  <2>2. NodeIdIn(nodes', e) \in DOMAIN nodes' /\ nodes'[NodeIdIn(nodes', e)] = e
    BY <2>1 DEF NodeIdIn
  <2> QED BY <2>2 DEF Named, IsNamed
<1>4. \A id \in DOMAIN nodes : IsNamed(Named("node", id, nodes[id]), nodes, objects)
  BY DEF IsNamed, Named
<1>5. \A a \in told' \cup resolved' : IsNamed(a, nodes', objects')
  BY <1>2, <1>3, <1>4 DEF CdpInv
<1>6. shown' \in Nat /\ installs' \in Nat /\ objects' \in Seq(CdpElements)
  BY DEF CdpInv
<1> QED BY <1>1, <1>5, <1>6 DEF CdpInv

LEMMA DocumentIsOnce ==
  ASSUME NEW n \in Nat
  PROVE  LET all == [i \in 1..PageElements |-> El(n, i)] IN all \in Seq(CdpElements) /\ Once(all)
<1> DEFINE all == [i \in 1..PageElements |-> El(n, i)]
<1>1. PageElements \in Nat
  BY CdpConstants
<1>2. \A i \in 1..PageElements : El(n, i) \in CdpElements /\ El(n, i).place = i
  BY DEF El, CdpElements
<1>3. all \in [1..PageElements -> CdpElements]
  BY <1>2
<1> HIDE DEF CdpElements
<1>4. all \in Seq(CdpElements)
  BY <1>1, <1>3, SeqDef
<1>5. Once(all)
  BY <1>2 DEF Once
<1> QED BY <1>4, <1>5

LEMMA BelowIsOnce ==
  ASSUME NEW root \in CdpElements
  PROVE  Below(root) \in Seq(CdpElements) /\ Once(Below(root))
<1>1. PageElements \in Nat /\ root.doc \in Nat /\ root.place \in 1..PageElements
  BY CdpConstants DEF CdpElements
<1> DEFINE n == PageElements - root.place
<1>2. n \in Nat
  BY <1>1
<1>3. \A i \in 1..n : root.place + i \in 1..PageElements
  BY <1>1
<1>4. \A i \in 1..n : El(root.doc, root.place + i) \in CdpElements /\ El(root.doc, root.place + i).place = root.place + i
  BY <1>1, <1>3 DEF El, CdpElements
<1>5. Below(root) = [i \in 1..n |-> El(root.doc, root.place + i)]
  BY DEF Below
<1>6. Below(root) \in [1..n -> CdpElements]
  BY <1>4, <1>5
<1>7. Once(Below(root))
  <2> SUFFICES ASSUME NEW i \in 1..n, NEW j \in 1..n, Below(root)[i] = Below(root)[j] PROVE i = j
    BY <1>5 DEF Once
  <2>1. root.place + i = root.place + j
    BY <1>4, <1>5
  <2> QED BY <1>1, <1>2, <2>1
<1> HIDE DEF CdpElements, n
<1> QED BY <1>2, <1>6, <1>7, SeqDef

LEMMA QueryKeeps ==
  ASSUME CdpInv, NEW root \in CdpElements, QueryIn(root), UNCHANGED <<shown, installs, objects>>,
         \A a \in resolved' : a \in resolved \/ (\E id \in DOMAIN nodes : a = Named("node", id, nodes[id]))
  PROVE  CdpInv'
<1>1. PICK keep \in SUBSET DOMAIN Below(root) :
        /\ nodes' = WithNodes(AtPositions(Below(root), keep))
        /\ RepliesWith(NodeNames(nodes', AtPositions(Below(root), keep)))
  BY DEF QueryIn
<1> DEFINE matches == AtPositions(Below(root), keep)
<1> HIDE DEF CdpElements
<1>2. matches \in Seq(CdpElements) /\ Once(matches)
  BY BelowIsOnce, PartOfSequence, PartIsOnce
<1>3. nodes' = WithNodes(matches) /\ told' \subseteq told \cup NodeNames(nodes', matches)
  BY <1>1 DEF RepliesWith
<1> HIDE DEF matches
<1> QED BY <1>2, <1>3, ReportedIsNamed

(* Commands that give no element a new node id.                             *)
LEMMA NothingReported ==
  ASSUME CdpInv, UNCHANGED nodes, shown' \in Nat, installs' \in Nat,
         objects' \in Seq(CdpElements), \A i \in DOMAIN objects : i \in DOMAIN objects' /\ objects'[i] = objects[i],
         \A a \in told' \cup resolved' : a \in told \cup resolved \/ IsNamed(a, nodes', objects')
  PROVE  CdpInv'
<1>1. \A a : IsNamed(a, nodes, objects) => IsNamed(a, nodes', objects')
  BY DEF IsNamed
<1> HIDE DEF CdpElements
<1> QED BY <1>1 DEF CdpInv

LEMMA CdpStep == CdpInv /\ [CdpServerNext]_CdpServerVars => CdpInv'
<1> SUFFICES ASSUME CdpInv, [CdpServerNext]_CdpServerVars PROVE CdpInv'
  OBVIOUS
<1>0. /\ shown \in Nat /\ installs \in Nat /\ nodes \in Seq(CdpElements) /\ objects \in Seq(CdpElements)
  BY DEF CdpInv
<1>1. ASSUME Handshake \/ SocketEnds \/ CommandThrows \/ UNCHANGED CdpServerVars PROVE CdpInv'
  <2>1. UNCHANGED <<shown, installs, nodes, objects, told, resolved>>
    BY <1>1 DEF Handshake, SocketEnds, CommandThrows, CdpServerVars
  <2> HIDE DEF CdpElements
  <2> QED BY <2>1 DEF CdpInv
<1>2. ASSUME NewDocument, RepliesWith({}), UNCHANGED resolved PROVE CdpInv'
  <2>1. UNCHANGED <<nodes, objects>> /\ told' = told /\ shown' \in Nat /\ installs' \in Nat
    BY <1>0, <1>2 DEF NewDocument, IdsAfterNavigation, RepliesWith
  <2> HIDE DEF CdpElements
  <2> QED BY <1>0, <1>2, <2>1, NothingReported
<1>3. CASE GetDocument
  <2>1. DocumentOrder \in Seq(CdpElements) /\ Once(DocumentOrder)
    BY <1>0, DocumentIsOnce DEF DocumentOrder
  <2>2. /\ nodes' = WithNodes(DocumentOrder) /\ told' \subseteq told \cup NodeNames(nodes', DocumentOrder)
        /\ UNCHANGED <<shown, installs, objects, resolved>>
    BY <1>3 DEF GetDocument, RepliesWith
  <2> QED BY <2>1, <2>2, ReportedIsNamed
<1>4. CASE QueryNode
  <2>0. UNCHANGED <<shown, installs, objects>>
    BY <1>4 DEF QueryNode
  <2>1. CASE QueryIn(El(shown, 1)) /\ UNCHANGED resolved
    <3>1. El(shown, 1) \in CdpElements
      BY <1>0, CdpConstants DEF El, CdpElements
    <3> QED BY <2>0, <2>1, <3>1, QueryKeeps
  <2>2. ASSUME NEW id \in DOMAIN nodes, QueryIn(nodes[id]), resolved' = resolved \cup {Named("node", id, nodes[id])}
        PROVE  CdpInv'
    <3>1. nodes[id] \in CdpElements
      <4> HIDE DEF CdpElements
      <4> QED BY <1>0, ElementOfSeq, LenProperties
    <3> QED BY <2>0, <2>2, <3>1, QueryKeeps
  <2> QED BY <1>4, <2>1, <2>2 DEF QueryNode
<1>5. CASE ReadNode
  <2>1. PICK id \in DOMAIN nodes : resolved' = resolved \cup {Named("node", id, nodes[id])}
    BY <1>5 DEF ReadNode
  <2>2. UNCHANGED <<shown, installs, nodes, objects, told>>
    BY <1>5 DEF ReadNode, RepliesWith
  <2>3. IsNamed(Named("node", id, nodes[id]), nodes', objects')
    BY <2>1, <2>2 DEF IsNamed, Named
  <2> HIDE DEF CdpElements
  <2> QED BY <1>0, <2>1, <2>2, <2>3, NothingReported
<1>6. CASE CallFunctionOn
  <2>1. PICK id \in DOMAIN objects : resolved' = resolved \cup {Named("object", id, objects[id])}
    BY <1>6 DEF CallFunctionOn
  <2>2. UNCHANGED <<shown, installs, nodes, objects, told>>
    BY <1>6 DEF CallFunctionOn, RepliesWith
  <2>3. IsNamed(Named("object", id, objects[id]), nodes', objects')
    BY <2>1, <2>2 DEF IsNamed, Named
  <2> HIDE DEF CdpElements
  <2> QED BY <1>0, <2>1, <2>2, <2>3, NothingReported
<1>7. ASSUME NEW i \in 1..PageElements, objects' = WithObject(El(shown, i)),
             RepliesWith({Named("object", Len(objects'), El(shown, i))}), UNCHANGED <<shown, installs, nodes, resolved>>
      PROVE  CdpInv'
  <2> DEFINE e == El(shown, i)
  <2>1. e \in CdpElements
    BY <1>0 DEF El, CdpElements
  <2> HIDE DEF CdpElements, e
  <2>2. /\ objects' \in Seq(CdpElements) /\ Len(objects') = Len(objects) + 1
        /\ \A k \in 1..Len(objects) : objects'[k] = objects[k]
        /\ objects'[Len(objects) + 1] = e
    <3>1. objects' = Append(objects, e)
      BY <1>7 DEF WithObject, e
    <3> QED BY <1>0, <2>1, <3>1, AppendProperties
  <2>3. /\ Len(objects) \in Nat /\ DOMAIN objects = 1..Len(objects) /\ DOMAIN objects' = 1..Len(objects')
    BY <1>0, <2>2, LenProperties
  <2>4. \A k \in DOMAIN objects : k \in DOMAIN objects' /\ objects'[k] = objects[k]
    BY <2>2, <2>3
  <2>5. Len(objects') \in DOMAIN objects' /\ objects'[Len(objects')] = e
    BY <2>2, <2>3
  <2>6. IsNamed(Named("object", Len(objects'), e), nodes', objects')
    BY <2>5 DEF IsNamed, Named
  <2>7. told' \subseteq told \cup {Named("object", Len(objects'), e)}
    BY <1>7 DEF RepliesWith, e
  <2> QED BY <1>0, <1>7, <2>2, <2>4, <2>6, <2>7, NothingReported
<1>8. CASE CdpNavigates
  BY <1>2, <1>8 DEF CdpNavigates
<1>9. CASE Evaluate
  BY <1>2, <1>7, <1>9 DEF Evaluate
<1> QED BY <1>1, <1>3, <1>4, <1>5, <1>6, <1>8, <1>9 DEF CdpServerNext

(* An id names one element for ever, and an element has one node id, for    *)
(* documents of any size and any number of commands, navigations and        *)
(* connections.                                                             *)
THEOREM IdsStayNames == CdpServerSpec => []IdsNameOneElement
<1>1. CdpServerInit => CdpInv
  <2> SUFFICES ASSUME CdpServerInit PROVE CdpInv
    OBVIOUS
  <2>1. <<>> \in Seq(CdpElements) /\ DOMAIN <<>> = {}
    <3> HIDE DEF CdpElements
    <3> QED BY EmptySeq
  <2> HIDE DEF CdpElements
  <2> QED BY <2>1 DEF CdpServerInit, CdpInv, Once
<1>2. CdpInv => IdsNameOneElement
  <2> SUFFICES ASSUME CdpInv PROVE IdsNameOneElement
    OBVIOUS
  <2>1. \A a, b \in told \cup resolved : a.table = b.table /\ a.id = b.id => a.element = b.element
    BY DEF CdpInv, IsNamed
  <2>2. \A a, b \in told : a.table = "node" /\ b.table = "node" /\ a.element = b.element => a.id = b.id
    BY DEF CdpInv, IsNamed, Once
  <2> QED BY <2>1, <2>2 DEF IdsNameOneElement
<1> QED BY <1>1, <1>2, CdpStep, PTL DEF CdpServerSpec

-----------------------------------------------------------------------------
(* The clients of external agents.                                         *)

(* While a prompt is polled for, mark is the number of messages its session *)
(* had when the baseline was read: the baseline is what the list showed     *)
(* then, and no answer was taken from behind mark.  A clean call finds      *)
(* nothing outstanding until it posts, so what is queued from then on, and  *)
(* every message behind mark, is of its run.                                *)
Msgs == [run : Nat, kind : {"assistant", "idle"}, state : {"working", "done", "failed"}, text : BOOLEAN]
AgentSteps == {"create", "baseline", "message", "post", "poll", "async", "stream", "deliver", "interrupt", "ask"}
AgentCalls ==
  [op : AgentMethods \cup {"ask"}, session : AgentSessions, at : AgentSteps, baseline : SUBSET Nat,
   run : Nat, clean : BOOLEAN, left : Nat]
Window(n) == (IF n > ListLimit THEN n - ListLimit + 1 ELSE 1)..n

ServerHolds ==
  /\ messages \in [AgentSessions -> Seq(Msgs)] /\ queue \in [AgentSessions -> Seq(Nat)] /\ runsTaken \in Nat
AnswersHold ==
  /\ \A a \in answers : /\ a.session \in AgentSessions
                        /\ a.message \in 1..Len(messages[a.session])
                        /\ a.clean => a.of = a.run
  /\ \A a, b \in answers : a.session = b.session /\ a.message = b.message => a = b
Quiet(c, q) == \A k \in 1..Len(q) : c.at = "poll" /\ q[k] = c.run
Marked(c, ms, given, n) ==
  /\ n <= Len(ms) /\ c.baseline = Window(n)
  /\ \A a \in given : a.session = c.session => a.message <= n
  /\ c.clean => \A i \in (n + 1)..Len(ms) : c.at = "poll" /\ ms[i].run = c.run
CallHolds(c) ==
  /\ c \in AgentCalls
  /\ c.clean /\ c.at \in {"create", "baseline", "post", "poll"} => Quiet(c, queue[c.session])
  /\ c.at \in {"post", "poll"} => \E n \in Nat : Marked(c, messages[c.session], answers, n)
ClientHolds == client \in [open : BOOLEAN, busy : BOOLEAN, used : Nat]
OcInv ==
  /\ ServerHolds /\ ClientHolds /\ AnswersHold
  /\ InCall => client.open /\ client.busy /\ CallHolds(acall)

(* What a step of the server does to a session: messages keep their run,    *)
(* and one that is added is of the run at the head of the queue.            *)
Worked(ms, ms2, q, q2) ==
  /\ Len(ms) <= Len(ms2)
  /\ \A i \in 1..Len(ms) : ms2[i].run = ms[i].run
  /\ \A i \in (Len(ms) + 1)..Len(ms2) : q # <<>> /\ ms2[i].run = Head(q)
  /\ q2 = q \/ (q # <<>> /\ q2 = Tail(q))

LEMMA SaidOne ==
  ASSUME NEW ms \in Seq(Msgs), NEW m \in Msgs, NEW q \in Seq(Nat), NEW q2, q # <<>>, m.run = Head(q),
         q2 \in {q, Tail(q)}
  PROVE  Append(ms, m) \in Seq(Msgs) /\ Worked(ms, Append(ms, m), q, q2)
<1> DEFINE M == Msgs
<1>0. ms \in Seq(M) /\ m \in M  OBVIOUS
<1> HIDE DEF M
<1>1. /\ Append(ms, m) \in Seq(M) /\ Len(Append(ms, m)) = Len(ms) + 1
      /\ \A i \in 1..Len(ms) : Append(ms, m)[i] = ms[i]
      /\ Append(ms, m)[Len(ms) + 1] = m
      /\ Len(ms) \in Nat
  BY <1>0, AppendProperties, LenProperties
<1>2. \A i \in (Len(ms) + 1)..(Len(ms) + 1) : i = Len(ms) + 1
  BY <1>1
<1> QED
  BY <1>1, <1>2 DEF Worked, M

LEMMA AmendedOne ==
  ASSUME NEW ms \in Seq(Msgs), NEW m \in Msgs, NEW q, ms # <<>>, m.run = ms[Len(ms)].run
  PROVE  LET r == [ms EXCEPT ![Len(ms)] = m]
         IN  /\ r \in Seq(Msgs) /\ Len(r) = Len(ms) /\ Worked(ms, r, q, q)
             /\ \A i \in 1..Len(ms) : r[i].run = ms[i].run
<1> DEFINE M == Msgs
           r == [ms EXCEPT ![Len(ms)] = m]
<1>0. ms \in Seq(M) /\ m \in M  OBVIOUS
<1> HIDE DEF M
<1>1. Len(ms) \in 1..Len(ms) /\ Len(ms) \in Nat
  BY <1>0, LenProperties, EmptySeq
<1>2. r \in Seq(M) /\ Len(r) = Len(ms) /\ \A i \in 1..Len(ms) : r[i] = IF i = Len(ms) THEN m ELSE ms[i]
  BY <1>0, <1>1, ExceptSeq
<1>3. \A i \in 1..Len(ms) : r[i].run = ms[i].run
  BY <1>2
<1>4. \A i \in (Len(ms) + 1)..Len(ms) : FALSE
  BY <1>1
<1> HIDE DEF r
<1>5. r \in Seq(Msgs) /\ Len(r) = Len(ms) /\ Worked(ms, r, q, q) /\ \A i \in 1..Len(ms) : r[i].run = ms[i].run
  BY <1>1, <1>2, <1>3, <1>4 DEF Worked, M
<1> QED
  BY <1>5 DEF r

LEMMA NewestIs ==
  ASSUME ServerHolds, NEW s \in AgentSessions, messages[s] # <<>>
  PROVE  /\ messages[s] \in Seq(Msgs) /\ queue[s] \in Seq(Nat) /\ Newest(s) \in Msgs
         /\ \A st \in {"working", "done", "failed"}, t \in BOOLEAN :
              Message(Newest(s).run, Newest(s).kind, st, t) \in Msgs
<1> DEFINE M == Msgs
<1>1. messages[s] \in Seq(M) /\ queue[s] \in Seq(Nat)
  BY DEF ServerHolds
<1> HIDE DEF M
<1>2. Newest(s) \in M
  BY <1>1, EmptySeq, LenProperties, ElementOfSeq DEF Newest
<1> QED
  BY <1>1, <1>2 DEF M, Msgs, Message

LEMMA AmendedWorks ==
  ASSUME ServerHolds, NEW s \in AgentSessions, messages[s] # <<>>, NEW st \in {"done", "failed"}, NEW x \in BOOLEAN
  PROVE  /\ Amended(s, st, x) \in Seq(Msgs) /\ Len(Amended(s, st, x)) = Len(messages[s])
         /\ Worked(messages[s], Amended(s, st, x), queue[s], queue[s])
<1> DEFINE m == Message(Newest(s).run, Newest(s).kind, st, x)
           ms == messages[s]
           q == queue[s]
<1>1. m \in Msgs /\ m.run = ms[Len(ms)].run /\ ms \in Seq(Msgs) /\ ms # <<>>
  BY NewestIs DEF Message, Newest
<1>2. Amended(s, st, x) = [ms EXCEPT ![Len(ms)] = m]
  BY DEF Amended
<1> HIDE DEF m, ms, q
<1>3. /\ [ms EXCEPT ![Len(ms)] = m] \in Seq(Msgs) /\ Len([ms EXCEPT ![Len(ms)] = m]) = Len(ms)
      /\ Worked(ms, [ms EXCEPT ![Len(ms)] = m], q, q)
  BY <1>1, AmendedOne
<1> QED
  BY <1>2, <1>3 DEF ms, q

LEMMA AgentStep ==
  ASSUME OcInv, Agent
  PROVE  /\ ServerHolds'
         /\ \A t \in AgentSessions : Worked(messages[t], messages'[t], queue[t], queue'[t])
<1>1. PICK s \in AgentSessions : AgentWorks(s) \/ AgentSays(s) \/ AgentRests(s)
  BY DEF Agent
<1>0. /\ messages \in [AgentSessions -> Seq(Msgs)] /\ queue \in [AgentSessions -> Seq(Nat)] /\ runsTaken \in Nat
      /\ runsTaken' = runsTaken
  BY DEF OcInv, ServerHolds, Agent
<1>t. \A t \in AgentSessions : Worked(messages[t], messages[t], queue[t], queue[t])
  <2> SUFFICES ASSUME NEW t \in AgentSessions PROVE Worked(messages[t], messages[t], queue[t], queue[t])
    OBVIOUS
  <2> DEFINE M == Msgs
  <2>1. messages[t] \in Seq(M)
    BY <1>0
  <2> HIDE DEF M
  <2>2. Len(messages[t]) \in Nat
    BY <2>1, LenProperties
  <2> QED
    BY <2>2 DEF Worked
<1>q. ASSUME queue[s] # <<>> PROVE Head(queue[s]) \in Nat /\ Tail(queue[s]) \in Seq(Nat)
  BY <1>0, <1>q, HeadTailProperties
<1> DEFINE Result(ms2, q2) == /\ ms2 \in Seq(Msgs) /\ q2 \in Seq(Nat)
                             /\ messages' = [messages EXCEPT ![s] = ms2] /\ queue' = [queue EXCEPT ![s] = q2]
                             /\ Worked(messages[s], ms2, queue[s], q2)
<1>s. messages[s] \in Seq(Msgs) /\ queue[s] \in Seq(Nat) /\ queue = [queue EXCEPT ![s] = queue[s]]
  BY <1>0
<1>m. ASSUME queue[s] # <<>>, NEW k \in {"assistant", "idle"}, NEW st \in {"working", "done", "failed"}
      PROVE  Message(Head(queue[s]), k, st, FALSE) \in Msgs /\ Message(Head(queue[s]), k, st, FALSE).run = Head(queue[s])
  BY <1>q, <1>m DEF Message, Msgs
<1>2. \E ms2, q2 : Result(ms2, q2)
  <2>1. CASE AgentWorks(s)
    <3> DEFINE m == Message(Head(queue[s]), "assistant", "working", FALSE)
    <3>0. queue[s] # <<>>
      BY <2>1 DEF AgentWorks
    <3>1. m \in Msgs /\ m.run = Head(queue[s])
      BY <1>m, <3>0
    <3>2. messages' = [messages EXCEPT ![s] = Append(messages[s], m)] /\ queue' = queue
      BY <2>1 DEF AgentWorks, Say
    <3> HIDE DEF m
    <3>3. Append(messages[s], m) \in Seq(Msgs) /\ Worked(messages[s], Append(messages[s], m), queue[s], queue[s])
      BY <3>0, <3>1, <1>s, SaidOne
    <3>4. Result(Append(messages[s], m), queue[s])
      BY <3>2, <3>3, <1>s
    <3> QED
      BY <3>4
  <2>2. CASE AgentSays(s)
    <3>0. messages[s] # <<>>
      BY <2>2 DEF AgentSays, Working, Begun
    <3>1. PICK st \in {"done", "failed"}, x \in BOOLEAN : messages' = [messages EXCEPT ![s] = Amended(s, st, x)]
      BY <2>2 DEF AgentSays
    <3>4. Amended(s, st, x) \in Seq(Msgs) /\ Worked(messages[s], Amended(s, st, x), queue[s], queue[s])
      BY <3>0, AmendedWorks DEF OcInv
    <3>5. Result(Amended(s, st, x), queue[s])
      BY <2>2, <3>1, <3>4, <1>s DEF AgentSays
    <3> QED
      BY <3>5
  <2>3. CASE AgentRests(s)
    <3> DEFINE st == IF Fails(Newest(s)) THEN "failed" ELSE "done"
               m == Message(Head(queue[s]), "idle", st, FALSE)
    <3>0. queue[s] # <<>>
      BY <2>3 DEF AgentRests, Begun
    <3>1. m \in Msgs /\ m.run = Head(queue[s])
      BY <1>m, <3>0
    <3>2. messages' = [messages EXCEPT ![s] = Append(messages[s], m)] /\ queue' = [queue EXCEPT ![s] = Tail(queue[s])]
      BY <2>3 DEF AgentRests, Say
    <3> HIDE DEF m, st
    <3>3. Append(messages[s], m) \in Seq(Msgs) /\ Worked(messages[s], Append(messages[s], m), queue[s], Tail(queue[s]))
      BY <3>0, <3>1, <1>s, SaidOne
    <3>4. Result(Append(messages[s], m), Tail(queue[s]))
      BY <3>0, <3>2, <3>3, <1>q
    <3> QED
      BY <3>4
  <2> QED
    BY <1>1, <2>1, <2>2, <2>3
<1>3. PICK ms2, q2 : Result(ms2, q2)
  BY <1>2
<1>4. ServerHolds'
  BY <1>0, <1>3 DEF ServerHolds
<1>5. \A t \in AgentSessions : messages'[t] = (IF t = s THEN ms2 ELSE messages[t]) /\ queue'[t] = (IF t = s THEN q2 ELSE queue[t])
  BY <1>0, <1>3
<1> QED
  BY <1>3, <1>4, <1>5, <1>t

LEMMA AnswersKept ==
  ASSUME ServerHolds, ServerHolds', AnswersHold, answers' = answers,
         \A t \in AgentSessions : Len(messages[t]) <= Len(messages'[t])
  PROVE  AnswersHold'
<1>1. \A t \in AgentSessions : Len(messages[t]) \in Nat /\ Len(messages'[t]) \in Nat
  <2> DEFINE M == Msgs
  <2>1. messages \in [AgentSessions -> Seq(M)] /\ messages' \in [AgentSessions -> Seq(M)]
    BY DEF ServerHolds
  <2> HIDE DEF M
  <2> QED
    BY <2>1, LenProperties
<1>2. \A t \in AgentSessions : \A i \in 1..Len(messages[t]) : i \in 1..Len(messages'[t])
  BY <1>1
<1> QED
  BY <1>2 DEF AnswersHold

LEMMA SessionIs ==
  ASSUME ServerHolds, NEW s \in AgentSessions
  PROVE  messages[s] \in Seq(Msgs) /\ queue[s] \in Seq(Nat) /\ Len(messages[s]) \in Nat
<1> DEFINE M == Msgs
<1>1. messages[s] \in Seq(M) /\ queue[s] \in Seq(Nat)
  BY DEF ServerHolds
<1> HIDE DEF M
<1>2. Len(messages[s]) \in Nat
  BY <1>1, LenProperties
<1> QED
  BY <1>1, <1>2 DEF M

(* A step of the server keeps a call's queue and its mark.                  *)
LEMMA WorkedQuiet ==
  ASSUME NEW c \in AgentCalls, NEW ms \in Seq(Msgs), NEW ms2 \in Seq(Msgs), NEW q \in Seq(Nat), NEW q2 \in Seq(Nat),
         NEW given, Worked(ms, ms2, q, q2), c.clean => Quiet(c, q)
  PROVE  /\ c.clean => Quiet(c, q2)
         /\ \A n \in Nat : Marked(c, ms, given, n) => Marked(c, ms2, given, n)
<1>1. CASE q = <<>>
  <2>1. q2 = q /\ Len(ms2) <= Len(ms)
    <3> DEFINE M == Msgs
    <3>1. ms \in Seq(M) /\ ms2 \in Seq(M)  OBVIOUS
    <3> HIDE DEF M
    <3>2. Len(ms) \in Nat /\ Len(ms2) \in Nat
      BY <3>1, LenProperties
    <3>3. \A i \in (Len(ms) + 1)..Len(ms2) : FALSE
      BY <1>1 DEF Worked
    <3>4. ~(Len(ms) < Len(ms2))
      <4> SUFFICES ASSUME Len(ms) < Len(ms2) PROVE FALSE  OBVIOUS
      <4>1. Len(ms2) \in (Len(ms) + 1)..Len(ms2)
        BY <3>2
      <4> QED
        BY <4>1, <3>3
    <3> QED
      BY <1>1, <3>2, <3>4 DEF Worked
  <2> QED
    BY <2>1 DEF Worked, Marked
<1>2. CASE q # <<>>
  <2> DEFINE M == Msgs
  <2>0. ms \in Seq(M) /\ ms2 \in Seq(M)  OBVIOUS
  <2> HIDE DEF M
  <2>1. Len(ms) \in Nat /\ Len(ms2) \in Nat /\ Len(ms) <= Len(ms2) /\ Len(q) \in Nat /\ 1 \in 1..Len(q) /\ Head(q) = q[1]
        /\ Tail(q) \in Seq(Nat) /\ Len(Tail(q)) = Len(q) - 1 /\ \A k \in 1..Len(Tail(q)) : Tail(q)[k] = q[k + 1]
    BY <1>2, <2>0, LenProperties, EmptySeq, HeadTailProperties DEF Worked
  <2>2. c.clean => c.at = "poll" /\ Head(q) = c.run
    BY <2>1 DEF Quiet
  <2>3. c.clean => Quiet(c, Tail(q))
    <3> SUFFICES ASSUME c.clean, NEW k \in 1..Len(Tail(q)) PROVE c.at = "poll" /\ Tail(q)[k] = c.run
      BY DEF Quiet
    <3>1. k + 1 \in 1..Len(q)
      BY <2>1
    <3> QED
      BY <3>1, <2>1 DEF Quiet
  <2>4. c.clean => Quiet(c, q2)
    BY <2>3 DEF Worked
  <2>5. ASSUME NEW n \in Nat, Marked(c, ms, given, n) PROVE Marked(c, ms2, given, n)
    <3>1. n <= Len(ms2)
      BY <2>1, <2>5 DEF Marked
    <3>2. ASSUME c.clean, NEW i \in (n + 1)..Len(ms2) PROVE c.at = "poll" /\ ms2[i].run = c.run
      <4>1. CASE i <= Len(ms)
        <5>1. i \in (n + 1)..Len(ms) /\ i \in 1..Len(ms)
          BY <4>1, <2>1
        <5> QED
          BY <5>1, <2>5, <3>2 DEF Marked, Worked
      <4>2. CASE i > Len(ms)
        <5>1. i \in (Len(ms) + 1)..Len(ms2)
          BY <4>2, <2>1
        <5> QED
          BY <5>1, <2>2, <3>2 DEF Worked
      <4> QED
        BY <4>1, <4>2, <2>1
    <3> QED
      BY <3>1, <3>2, <2>5 DEF Marked
  <2> QED
    BY <2>4, <2>5
<1> QED
  BY <1>1, <1>2

LEMMA AgentKeeps == OcInv /\ Agent => OcInv'
<1> SUFFICES ASSUME OcInv, Agent PROVE OcInv'  OBVIOUS
<1>0. /\ client' = client /\ acall' = acall /\ answers' = answers
      /\ ServerHolds /\ AnswersHold /\ ClientHolds
  BY DEF OcInv, Agent
<1>1. ServerHolds' /\ \A t \in AgentSessions : Worked(messages[t], messages'[t], queue[t], queue'[t])
  BY AgentStep
<1>2. AnswersHold'
  BY <1>0, <1>1, AnswersKept DEF Worked
<1>3. ASSUME InCall PROVE CallHolds(acall)'
  <2> DEFINE s == acall.session
             ms == messages[s]
             ms2 == messages'[s]
             q == queue[s]
             q2 == queue'[s]
  <2>0. CallHolds(acall) /\ acall \in AgentCalls /\ s \in AgentSessions
    BY <1>3 DEF OcInv, CallHolds, AgentCalls
  <2>1. ms \in Seq(Msgs) /\ q \in Seq(Nat) /\ Worked(ms, ms2, q, q2)
    BY <2>0, <1>0, <1>1, SessionIs
  <2>2. ms2 \in Seq(Msgs) /\ q2 \in Seq(Nat)
    BY <2>0, <1>1 DEF ServerHolds
  <2> HIDE DEF ms, ms2, q, q2, s
  <2>3. CASE acall.at \in {"create", "baseline", "post", "poll"}
    <3>1. acall.clean => Quiet(acall, q)
      BY <2>0, <2>3 DEF CallHolds, q, s
    <3>2. /\ acall.clean => Quiet(acall, q2)
          /\ \A n \in Nat : Marked(acall, ms, answers, n) => Marked(acall, ms2, answers, n)
      BY <2>0, <2>1, <2>2, <3>1, WorkedQuiet
    <3>3. acall.at \in {"post", "poll"} => \E n \in Nat : Marked(acall, ms, answers, n)
      BY <2>0 DEF CallHolds, ms, s
    <3>4. acall.at \in {"post", "poll"} => \E n \in Nat : Marked(acall, ms2, answers, n)
      BY <3>2, <3>3
    <3> QED
      BY <2>0, <3>2, <3>4, <1>0 DEF CallHolds, ms2, q2, s
  <2>4. CASE acall.at \notin {"create", "baseline", "post", "poll"}
    BY <2>0, <2>4, <1>0 DEF CallHolds
  <2> QED
    BY <2>3, <2>4
<1> QED
  BY <1>0, <1>1, <1>2, <1>3 DEF OcInv, InCall, ClientHolds

LEMMA LengthsSame ==
  ASSUME ServerHolds, messages' = messages
  PROVE  \A t \in AgentSessions : Len(messages[t]) <= Len(messages'[t])
<1> SUFFICES ASSUME NEW t \in AgentSessions PROVE Len(messages[t]) <= Len(messages[t])
  OBVIOUS
<1>1. Len(messages[t]) \in Nat
  BY SessionIs
<1> QED
  BY <1>1

(* A call that ends leaves the answers to be accounted for.                 *)
LEMMA CallEnds ==
  ASSUME OcInv, NEW used \in Nat, Returns(used), answers' = answers, ServerHolds',
         \A t \in AgentSessions : Len(messages[t]) <= Len(messages'[t])
  PROVE  OcInv'
<1>1. ClientHolds' /\ acall' = NoCall
  BY DEF OcInv, ClientHolds, Returns
<1>2. AnswersHold'
  BY AnswersKept DEF OcInv
<1> QED
  BY <1>1, <1>2 DEF OcInv, InCall

LEMMA ServerSame == ServerHolds /\ UNCHANGED ServerVars => ServerHolds' /\ messages' = messages /\ queue' = queue /\ opened' = opened
  BY DEF ServerHolds, ServerVars

LEMMA Counted == OcInv => client.used \in Nat /\ client.used + 1 \in Nat /\ ServerHolds /\ AnswersHold
  BY DEF OcInv, ClientHolds

LEMMA TookOne ==
  ASSUME ServerHolds, NEW s \in AgentSessions, Took(s, runsTaken + 1)
  PROVE  /\ ServerHolds' /\ messages' = messages /\ queue'[s] = Append(queue[s], runsTaken + 1)
<1>1. queue[s] \in Seq(Nat) /\ runsTaken + 1 \in Nat /\ queue' = [queue EXCEPT ![s] = Append(queue[s], runsTaken + 1)]
      /\ runsTaken' = runsTaken + 1 /\ messages' = messages
  BY DEF ServerHolds, Took
<1>2. Append(queue[s], runsTaken + 1) \in Seq(Nat)
  BY <1>1, AppendProperties
<1> QED
  BY <1>1, <1>2 DEF ServerHolds

LEMMA CallIs ==
  ASSUME OcInv, InCall
  PROVE  client.open /\ client.busy /\ CallHolds(acall) /\ acall \in AgentCalls /\ acall.session \in AgentSessions
  BY DEF OcInv, CallHolds, AgentCalls

(* A step of a method that leaves the server and the answers alone.         *)
LEMMA MovesOn ==
  ASSUME OcInv, InCall, UNCHANGED ServerVars, answers' = answers, CallHolds(acall'),
         client' = client \/ client' = [client EXCEPT !.used = @ + 1]
  PROVE  OcInv'
<1>1. ServerHolds' /\ messages' = messages /\ queue' = queue
  BY ServerSame DEF OcInv
<1>2. AnswersHold'
  BY <1>1, AnswersKept, LengthsSame DEF OcInv
<1>3. ClientHolds' /\ client'.open /\ client'.busy
  BY CallIs DEF OcInv, ClientHolds
<1>4. CallHolds(acall)'
  BY <1>1 DEF CallHolds
<1> QED
  BY <1>1, <1>2, <1>3, <1>4 DEF OcInv

LEMMA InterruptedStep ==
  ASSUME OcInv, Interrupted
  PROVE  ServerHolds' /\ \A t \in AgentSessions : Len(messages[t]) <= Len(messages'[t])
<1> DEFINE s == acall.session
           ended == IF Working(s) THEN Amended(s, "failed", FALSE) ELSE messages[s]
           m == Message(Head(queue[s]), "idle", "failed", FALSE)
<1>0. ServerHolds /\ s \in AgentSessions /\ runsTaken' = runsTaken
  BY CallIs DEF Interrupted, AgentAt, OcInv
<1>1. CASE queue[s] = <<>>
  <2>1. messages' = messages /\ queue' = queue
    BY <1>1 DEF Interrupted
  <2> QED
    BY <2>1, <1>0, LengthsSame DEF ServerHolds
<1>2. CASE queue[s] # <<>>
  <2>1. messages' = [messages EXCEPT ![s] = Append(ended, m)] /\ queue' = [queue EXCEPT ![s] = Tail(queue[s])]
    BY <1>2 DEF Interrupted
  <2>2. messages[s] \in Seq(Msgs) /\ queue[s] \in Seq(Nat) /\ Len(messages[s]) \in Nat
    BY <1>0, SessionIs
  <2>3. Head(queue[s]) \in Nat /\ Tail(queue[s]) \in Seq(Nat)
    BY <1>2, <2>2, HeadTailProperties
  <2>4. m \in Msgs
    BY <2>3 DEF Message, Msgs
  <2>5. ended \in Seq(Msgs) /\ Len(ended) = Len(messages[s])
    <3>1. CASE Working(s)
      <4>3. Amended(s, "failed", FALSE) \in Seq(Msgs) /\ Len(Amended(s, "failed", FALSE)) = Len(messages[s])
        BY <3>1, <1>0, AmendedWorks DEF Working, Begun
      <4> QED
        BY <4>3, <3>1
    <3> QED
      BY <3>1, <2>2
  <2> HIDE DEF ended, m
  <2>6. Append(ended, m) \in Seq(Msgs) /\ Len(Append(ended, m)) = Len(messages[s]) + 1
    <3> DEFINE M == Msgs
    <3>1. ended \in Seq(M) /\ m \in M
      BY <2>4, <2>5
    <3> HIDE DEF M
    <3>2. Append(ended, m) \in Seq(M) /\ Len(Append(ended, m)) = Len(ended) + 1
      BY <3>1, AppendProperties
    <3> QED
      BY <3>2, <2>5 DEF M
  <2>7. ServerHolds'
    BY <2>1, <2>6, <2>3, <1>0 DEF ServerHolds
  <2>8. \A t \in AgentSessions : messages'[t] = IF t = s THEN Append(ended, m) ELSE messages[t]
    BY <2>1, <1>0 DEF ServerHolds
  <2>9. \A t \in AgentSessions : Len(messages[t]) \in Nat
    BY <1>0, SessionIs
  <2>a. ASSUME NEW t \in AgentSessions PROVE Len(messages[t]) <= Len(messages'[t])
    <3>1. CASE t = s
      <4>1. messages'[t] = Append(ended, m)
        BY <3>1, <2>8
      <4> QED
        BY <4>1, <3>1, <2>6, <2>2
    <3>2. CASE t # s
      <4>1. messages'[t] = messages[t]
        BY <3>2, <2>8
      <4> QED
        BY <4>1, <2>9
    <3> QED
      BY <3>1, <3>2
  <2> QED
    BY <2>7, <2>a
<1> QED
  BY <1>1, <1>2

LEMMA EnterKeeps ==
  ASSUME OcInv, NEW op \in AgentMethods \cup {"ask"}, NEW s \in AgentSessions, MayEnter, EnterMethod(op, s),
         UNCHANGED ServerVars, answers' = answers
  PROVE  OcInv'
<1>1. ServerHolds' /\ messages' = messages /\ queue' = queue /\ ServerHolds
  BY ServerSame DEF OcInv
<1>2. AnswersHold'
  BY <1>1, AnswersKept, LengthsSame DEF OcInv
<1>3. ClientHolds' /\ client'.open /\ client'.busy
  BY DEF OcInv, ClientHolds, EnterMethod, MayEnter
<1>4. FirstStep(op) \in AgentSteps \ {"post", "poll"}
  BY DEF FirstStep, AgentSteps, AgentMethods
<1>5. acall' = [op |-> op, session |-> s, at |-> FirstStep(op), baseline |-> {}, run |-> 0,
                clean |-> queue[s] = <<>>, left |-> 0]
  BY DEF EnterMethod
<1>6. /\ acall' \in AgentCalls /\ acall'.session = s /\ acall'.at \notin {"post", "poll"}
      /\ acall'.clean => queue[s] = <<>>
  BY <1>4, <1>5 DEF AgentCalls
<1>7. queue[s] = <<>> => Quiet(acall', queue[s])
  BY DEF Quiet
<1>8. CallHolds(acall)'
  BY <1>1, <1>6, <1>7 DEF CallHolds
<1> QED
  BY <1>1, <1>2, <1>3, <1>8 DEF OcInv

LEMMA SessionCreatedKeeps == OcInv /\ SessionCreated => OcInv'
<1> SUFFICES ASSUME OcInv, SessionCreated PROVE OcInv'  OBVIOUS
<1>0. /\ InCall /\ acall.at = "create" /\ messages' = messages /\ queue' = queue /\ runsTaken' = runsTaken /\ answers' = answers
  BY DEF SessionCreated, AgentAt
<1>1. ServerHolds' /\ client.used + 1 \in Nat /\ ServerHolds
  BY <1>0, Counted DEF ServerHolds
<1>2. \A t \in AgentSessions : Len(messages[t]) <= Len(messages'[t])
  BY <1>0, <1>1, LengthsSame
<1>3. CASE Returns(client.used + 1)
  BY <1>0, <1>1, <1>2, <1>3, CallEnds
<1>4. CASE Goes(FirstStep("prompt"))
  <2> DEFINE p == FirstStep("prompt")
  <2>0. CallHolds(acall) /\ acall \in AgentCalls /\ client.open /\ client.busy
    BY <1>0, CallIs
  <2>1. p \in {"baseline", "message"}
    BY DEF FirstStep
  <2> HIDE DEF p
  <2>2. acall' = [acall EXCEPT !.at = p] /\ client' = [client EXCEPT !.used = @ + 1]
    BY <1>4 DEF Goes, p
  <2>3. acall' \in AgentCalls /\ acall'.at = p /\ acall'.session = acall.session /\ acall'.run = acall.run /\ acall'.clean = acall.clean
    BY <2>0, <2>1, <2>2 DEF AgentCalls, AgentSteps
  <2>4. acall.clean => Quiet(acall, queue[acall.session])
    BY <2>0, <1>0 DEF CallHolds
  <2>5. acall.clean => Quiet(acall', queue[acall.session])
    BY <2>4, <1>0 DEF Quiet
  <2>6. CallHolds(acall)'
    BY <2>1, <2>3, <2>5, <1>0 DEF CallHolds
  <2>7. AnswersHold'
    BY <1>0, <1>1, <1>2, AnswersKept DEF OcInv
  <2>8. ClientHolds' /\ client'.open /\ client'.busy
    BY <2>0, <2>2 DEF OcInv, ClientHolds
  <2> QED
    BY <1>1, <2>6, <2>7, <2>8 DEF OcInv
<1> QED
  BY <1>3, <1>4 DEF SessionCreated

LEMMA BaselineKeeps == OcInv /\ BaselineRead => OcInv'
<1> SUFFICES ASSUME OcInv, BaselineRead PROVE OcInv'  OBVIOUS
<1> DEFINE s == acall.session
           n == Len(messages[s])
<1>0. /\ InCall /\ acall.at = "baseline" /\ UNCHANGED ServerVars /\ answers' = answers
      /\ client' = [client EXCEPT !.used = @ + 1]
      /\ acall' = [acall EXCEPT !.at = "post", !.baseline = Window(n)]
  BY DEF BaselineRead, AgentAt, Baseline, Listed, Window
<1>1. CallHolds(acall) /\ acall \in AgentCalls /\ s \in AgentSessions /\ ServerHolds /\ AnswersHold
  BY <1>0, CallIs DEF OcInv
<1>2. n \in Nat
  BY <1>1, SessionIs
<1>3. Window(n) \in SUBSET Nat
  BY <1>2, OpenCodeConstants DEF Window
<1>4. /\ acall' \in AgentCalls /\ acall'.at = "post" /\ acall'.session = s /\ acall'.clean = acall.clean
      /\ acall'.baseline = Window(n) /\ acall'.run = acall.run
  BY <1>0, <1>1, <1>3 DEF AgentCalls, AgentSteps
<1>5. acall.clean => Quiet(acall', queue[s])
  <2>1. acall.clean => Quiet(acall, queue[s])
    BY <1>0, <1>1 DEF CallHolds
  <2> QED
    BY <2>1, <1>0 DEF Quiet
<1>6. Marked(acall', messages[s], answers, n)
  <2>1. n <= n /\ \A i \in (n + 1)..n : FALSE
    BY <1>2
  <2>2. \A a \in answers : a.session = s => a.message <= n
    BY <1>1, <1>2 DEF AnswersHold
  <2> QED
    BY <2>1, <2>2, <1>4 DEF Marked
<1>7. CallHolds(acall')
  BY <1>2, <1>4, <1>5, <1>6 DEF CallHolds
<1> QED
  BY <1>0, <1>7, MovesOn

LEMMA PostedKeeps == OcInv /\ PromptPosted => OcInv'
<1> SUFFICES ASSUME OcInv, PromptPosted PROVE OcInv'  OBVIOUS
<1> DEFINE s == acall.session
           r == runsTaken + 1
<1>0. /\ InCall /\ acall.at = "post" /\ Took(s, runsTaken + 1) /\ answers' = answers
      /\ client' = [client EXCEPT !.used = @ + 1]
      /\ acall' = [acall EXCEPT !.at = "poll", !.run = r]
  BY DEF PromptPosted, AgentAt
<1>1. CallHolds(acall) /\ acall \in AgentCalls /\ s \in AgentSessions /\ ServerHolds /\ AnswersHold /\ client.open /\ client.busy
  BY <1>0, CallIs DEF OcInv
<1>2. ServerHolds' /\ messages' = messages /\ queue'[s] = Append(queue[s], r) /\ r \in Nat
  BY <1>0, <1>1, TookOne DEF ServerHolds
<1> HIDE DEF r
<1>3. AnswersHold'
  BY <1>0, <1>1, <1>2, LengthsSame, AnswersKept
<1>4. ClientHolds' /\ client'.open /\ client'.busy
  BY <1>0, <1>1 DEF OcInv, ClientHolds
<1>5. /\ acall' \in AgentCalls /\ acall'.at = "poll" /\ acall'.session = s /\ acall'.clean = acall.clean
      /\ acall'.baseline = acall.baseline /\ acall'.run = r
  BY <1>0, <1>1, <1>2 DEF AgentCalls, AgentSteps
<1>6. acall.clean => Quiet(acall', Append(queue[s], r))
  <2> SUFFICES ASSUME acall.clean, NEW k \in 1..Len(Append(queue[s], r))
               PROVE  acall'.at = "poll" /\ Append(queue[s], r)[k] = acall'.run
    BY DEF Quiet
  <2>1. queue[s] \in Seq(Nat)
    BY <1>1, SessionIs
  <2>2. \A j \in 1..Len(queue[s]) : FALSE
    BY <1>0, <1>1 DEF CallHolds, Quiet
  <2>3. queue[s] = <<>>
    BY <2>1, <2>2, LenProperties, EmptySeq
  <2>4. Append(queue[s], r) = <<r>>
    BY <2>3
  <2> QED
    BY <2>4, <1>5
<1>7. PICK n \in Nat : Marked(acall, messages[s], answers, n)
  BY <1>0, <1>1 DEF CallHolds
<1>8. Marked(acall', messages[s], answers, n)
  <2>1. acall.clean => \A i \in (n + 1)..Len(messages[s]) : FALSE
    BY <1>0, <1>7 DEF Marked
  <2> QED
    BY <2>1, <1>5, <1>7 DEF Marked
<1>9. CallHolds(acall)'
  BY <1>0, <1>2, <1>5, <1>6, <1>8 DEF CallHolds
<1> QED
  BY <1>2, <1>3, <1>4, <1>9 DEF OcInv

(* What is listed and was not before is behind mark: an answer is new, and  *)
(* a clean one of the call's run.                                           *)
LEMMA PollKeeps == OcInv /\ PollMessages => OcInv'
<1> SUFFICES ASSUME OcInv, PollMessages PROVE OcInv'  OBVIOUS
<1> DEFINE s == acall.session
<1>0. InCall /\ acall.at = "poll" /\ UNCHANGED ServerVars
  BY DEF PollMessages, AgentAt
<1>1. CallHolds(acall) /\ acall \in AgentCalls /\ s \in AgentSessions /\ ServerHolds /\ AnswersHold /\ client.used + 1 \in Nat
  BY <1>0, CallIs, Counted DEF OcInv
<1>2. ServerHolds' /\ messages' = messages /\ queue' = queue
  BY <1>0, <1>1, ServerSame
<1>3. \A t \in AgentSessions : Len(messages[t]) <= Len(messages'[t])
  BY <1>1, <1>2, LengthsSame
<1>4. CASE Returns(client.used + 1) /\ answers' = answers
  BY <1>4, <1>1, <1>2, <1>3, CallEnds
<1>5. CASE Goes("poll") /\ answers' = answers
  <2>1. acall' = acall /\ client' = [client EXCEPT !.used = @ + 1]
    BY <1>0, <1>1, <1>5 DEF Goes, AgentCalls
  <2> QED
    BY <1>0, <1>1, <1>5, <2>1, MovesOn
<1>6. ASSUME NEW i \in Decisive, Returns(client.used + 1), answers' = answers \cup {AnswerOf(i)}
      PROVE  OcInv'
  <2>1. PICK n \in Nat : Marked(acall, messages[s], answers, n)
    BY <1>0, <1>1 DEF CallHolds
  <2>2. Len(messages[s]) \in Nat
    BY <1>1, SessionIs
  <2>3. i \in Window(Len(messages[s])) /\ i \notin Window(n) /\ n <= Len(messages[s])
    BY <1>6, <2>1 DEF Decisive, Listed, Window, Marked
  <2>4. i \in (n + 1)..Len(messages[s]) /\ i \in 1..Len(messages[s])
    BY <2>2, <2>3, OpenCodeConstants DEF Window
  <2> DEFINE a == AnswerOf(i)
  <2>5. /\ a.session = s /\ a.message = i /\ a.run = acall.run /\ a.of = messages[s][i].run /\ a.clean = acall.clean
    BY DEF AnswerOf
  <2> HIDE DEF a
  <2>6. a.clean => a.of = a.run
    BY <2>1, <2>4, <2>5 DEF Marked
  <2>7. \A b \in answers : b.session = s => b.message <= n
    BY <2>1 DEF Marked
  <2>8. \A b \in answers : b.session = a.session => b.message # a.message
    BY <1>1, <2>1, <2>2, <2>4, <2>5, <2>7 DEF AnswersHold
  <2>9. AnswersHold'
    <3>1. answers' = answers \cup {a}
      BY <1>6 DEF a
    <3>2. \A b \in answers' : /\ b.session \in AgentSessions
                              /\ b.message \in 1..Len(messages'[b.session])
                              /\ b.clean => b.of = b.run
      BY <1>1, <1>2, <2>4, <2>5, <2>6, <3>1 DEF AnswersHold
    <3>3. \A b, c \in answers' : b.session = c.session /\ b.message = c.message => b = c
      BY <1>1, <2>8, <3>1 DEF AnswersHold
    <3> QED
      BY <3>2, <3>3 DEF AnswersHold
  <2>10. ClientHolds' /\ acall' = NoCall
    BY <1>6, <1>1 DEF OcInv, ClientHolds, Returns
  <2> QED
    BY <1>2, <2>9, <2>10 DEF OcInv, InCall
<1> QED
  BY <1>4, <1>5, <1>6 DEF PollMessages

LEMMA StreamKeeps == OcInv /\ (Streamed \/ Delivered) => OcInv'
<1> SUFFICES ASSUME OcInv, Streamed \/ Delivered PROVE OcInv'  OBVIOUS
<1>0. InCall /\ acall.at \in {"stream", "deliver"} /\ UNCHANGED ServerVars /\ answers' = answers
  BY DEF Streamed, Delivered, AgentAt
<1>1. CallHolds(acall) /\ acall \in AgentCalls /\ ServerHolds /\ client.used \in Nat /\ client.used + 1 \in Nat
  BY <1>0, CallIs, Counted
<1>2. ServerHolds' /\ messages' = messages /\ queue' = queue
  BY <1>0, <1>1, ServerSame
<1>3. \A t \in AgentSessions : Len(messages[t]) <= Len(messages'[t])
  BY <1>1, <1>2, LengthsSame
<1>4. CASE \E used \in Nat : Returns(used)
  BY <1>4, <1>0, <1>2, <1>3, CallEnds
<1>5. ASSUME NEW n \in Nat, acall' = [acall EXCEPT !.at = "deliver", !.left = n]
      PROVE  CallHolds(acall')
  <2>1. acall' \in AgentCalls /\ acall'.at = "deliver"
    BY <1>1, <1>5 DEF AgentCalls, AgentSteps
  <2> QED
    BY <2>1 DEF CallHolds
<1>6. ASSUME acall.at = "deliver", acall.left > 1, acall' = [acall EXCEPT !.left = @ - 1]
      PROVE  CallHolds(acall')
  <2>1. acall' \in AgentCalls /\ acall'.at = "deliver"
    BY <1>1, <1>6 DEF AgentCalls
  <2> QED
    BY <2>1 DEF CallHolds
<1>7. CASE Streamed
  <2>1. PICK n \in 0..MaxAgentEvents :
          \/ Returns(client.used + 1)
          \/ client' = [client EXCEPT !.used = @ + 1] /\ acall' = [acall EXCEPT !.at = "deliver", !.left = n]
    BY <1>7 DEF Streamed
  <2>2. n \in Nat
    BY OpenCodeConstants
  <2> QED
    BY <2>1, <2>2, <1>0, <1>1, <1>4, <1>5, MovesOn
<1>8. CASE Delivered
  <2>1. \/ Returns(client.used)
        \/ acall.at = "deliver" /\ acall.left > 1 /\ acall' = [acall EXCEPT !.left = @ - 1] /\ client' = client
    BY <1>8 DEF Delivered, AgentAt
  <2> QED
    BY <2>1, <1>0, <1>1, <1>4, <1>6, MovesOn
<1> QED
  BY <1>7, <1>8

LEMMA ReturnsKeeps ==
  OcInv /\ (SendRefused \/ SendFails \/ Replied \/ AskRefused \/ OracleReplied \/ PromptQueued \/ Interrupted) => OcInv'
<1> SUFFICES ASSUME OcInv,
                    SendRefused \/ SendFails \/ Replied \/ AskRefused \/ OracleReplied \/ PromptQueued \/ Interrupted
             PROVE  OcInv'
  OBVIOUS
<1>0. answers' = answers /\ InCall /\ client.used \in Nat /\ client.used + 1 \in Nat /\ ServerHolds
  BY Counted DEF SendRefused, SendFails, Replied, AskRefused, OracleReplied, PromptQueued, Interrupted, AgentAt
<1>1. \E used \in Nat : Returns(used)
  BY <1>0 DEF SendRefused, SendFails, Replied, AskRefused, OracleReplied, PromptQueued, Interrupted
<1>2. \/ UNCHANGED ServerVars
      \/ Took(acall.session, runsTaken + 1)
      \/ Interrupted
  BY DEF SendRefused, SendFails, Replied, AskRefused, OracleReplied, PromptQueued
<1>3. ServerHolds' /\ \A t \in AgentSessions : Len(messages[t]) <= Len(messages'[t])
  <2>1. CASE UNCHANGED ServerVars
    BY <2>1, <1>0, ServerSame, LengthsSame
  <2>2. CASE Took(acall.session, runsTaken + 1)
    <3>1. ServerHolds' /\ messages' = messages
      BY <2>2, <1>0, TookOne, CallIs
    <3> QED
      BY <3>1, <1>0, LengthsSame
  <2>3. CASE Interrupted
    BY <2>3, InterruptedStep
  <2> QED
    BY <1>2, <2>1, <2>2, <2>3
<1> QED
  BY <1>0, <1>1, <1>3, CallEnds

LEMMA CloseKeeps == OcInv /\ (CloseCalled \/ Collect) => OcInv'
<1> SUFFICES ASSUME OcInv, CloseCalled \/ Collect PROVE OcInv'  OBVIOUS
<1>1. acall' = acall /\ answers' = answers /\ UNCHANGED ServerVars
  BY DEF CloseCalled, Collect
<1>2. ServerHolds' /\ messages' = messages /\ queue' = queue
  BY <1>1, ServerSame DEF OcInv
<1>3. AnswersHold'
  BY <1>1, <1>2, AnswersKept, LengthsSame DEF OcInv
<1>4. ClientHolds' /\ (InCall => client' = client)
  BY DEF OcInv, ClientHolds, CloseCalled, CloseClient, Collect
<1>5. InCall => CallHolds(acall)'
  BY <1>1, <1>2 DEF OcInv, CallHolds
<1> QED
  BY <1>1, <1>2, <1>3, <1>4, <1>5 DEF OcInv, InCall

(* A prompt returns an answer to itself and no message answers two prompts; *)
(* a handle stays open while one of its methods runs (prompt_v2,            *)
(* BusyGuard), for every pace of the server and every limit of the list.    *)
THEOREM AnswersStayTheirs == OpenCodeSpec => []AnswersAreTheirs
<1>1. OpenCodeInit => OcInv
  <2> SUFFICES ASSUME OpenCodeInit PROVE OcInv  OBVIOUS
  <2> DEFINE M == Msgs
  <2>1. messages \in [AgentSessions -> Seq(M)] /\ queue \in [AgentSessions -> Seq(Nat)]
    BY EmptySeq DEF OpenCodeInit
  <2> QED
    BY <2>1 DEF OpenCodeInit, OcInv, ServerHolds, ClientHolds, AnswersHold, InCall
<1>2. OcInv /\ [OpenCodeNext]_OpenCodeVars => OcInv'
  <2> SUFFICES ASSUME OcInv, [OpenCodeNext]_OpenCodeVars PROVE OcInv'  OBVIOUS
  <2>1. CASE CallMethod \/ AskOracle
    <3>1. /\ MayEnter /\ UNCHANGED ServerVars /\ answers' = answers
          /\ \E op \in AgentMethods \cup {"ask"}, s \in AgentSessions : EnterMethod(op, s)
      BY <2>1 DEF CallMethod, AskOracle
    <3> QED
      BY <3>1, EnterKeeps
  <2>2. CASE CloseCalled \/ Collect
    BY <2>2, CloseKeeps
  <2>3. CASE SendRefused \/ SendFails \/ Replied \/ AskRefused \/ OracleReplied \/ PromptQueued \/ Interrupted
    BY <2>3, ReturnsKeeps
  <2>4. CASE SessionCreated
    BY <2>4, SessionCreatedKeeps
  <2>5. CASE BaselineRead
    BY <2>5, BaselineKeeps
  <2>6. CASE PromptPosted
    BY <2>6, PostedKeeps
  <2>7. CASE PollMessages
    BY <2>7, PollKeeps
  <2>8. CASE Streamed \/ Delivered
    BY <2>8, StreamKeeps
  <2>9. CASE Agent
    BY <2>9, AgentKeeps
  <2>10. CASE UNCHANGED OpenCodeVars
    BY <2>10 DEF OpenCodeVars, OcInv, ServerHolds, ClientHolds, AnswersHold, InCall, CallHolds
  <2> QED
    BY <2>1, <2>2, <2>3, <2>4, <2>5, <2>6, <2>7, <2>8, <2>9, <2>10 DEF OpenCodeNext
<1>3. OcInv => AnswersAreTheirs
  BY DEF OcInv, AnswersHold, AnswersAreTheirs
<1> QED
  BY <1>1, <1>2, <1>3, PTL DEF OpenCodeSpec

-----------------------------------------------------------------------------
(* Crawlers.                                                               *)

CrawlTasks == [url : CrawlUrls, depth : Nat]
CrawlRecords == [page : CrawlUrls, depth : Nat]
FileNames == {"pages", "openapi", "postman"}
Endpoint(e) == e = [key |-> e.key, confidence |-> e.confidence, parameters |-> e.parameters] /\ e.confidence \in 0..100

(* The shapes; and while a crawler walks it has its place in the queue.     *)
WalkTypes ==
  /\ climits \in CrawlLimits /\ frontier \in Seq(CrawlTasks) /\ records \in Seq(CrawlRecords)
  /\ cursor \in 1..(Len(frontier) + 1)
(* The tool's queue has every URL once and is what was seen; unless it was  *)
(* truncated every admissible link of a page reported is there, and the     *)
(* walk that ended was through.                                             *)
QueueIsSeen(tasks, known) ==
  /\ \A i, j \in DOMAIN tasks : tasks[i].url = tasks[j].url => i = j
  /\ \A i \in DOMAIN tasks : tasks[i].url \in known
  /\ \A u \in known : \E i \in DOMAIN tasks : tasks[i].url = u
Allowed(perm, u) == Home(u) /\ u \notin BlockedUrls /\ (perm = "all" \/ (perm = "rules" /\ u \notin DisallowedUrls))
LinksSeen(reported, known, perm) ==
  \A r \in DOMAIN reported : \A i \in DOMAIN LinksOn[reported[r].page] :
    Allowed(perm, LinksOn[reported[r].page][i].here) => LinksOn[reported[r].page][i].here \in known
AllFound(reported, found) ==
  /\ \A k \in DOMAIN found : Endpoint(found[k])
  /\ \A r \in DOMAIN reported : \A e \in FoundOn[reported[r].page] :
       e.key \in DOMAIN found /\ e.parameters \subseteq found[e.key].parameters /\ e.confidence <= found[e.key].confidence
Starting == {"login", "robots", "seed"}
Ended == {"pages", "openapi", "postman", "done"}
FilesHold(fs, reported, found) ==
  DOMAIN fs = FileNames /\ \A f \in FileNames : fs[f] \in {<<>>, <<[pages |-> reported, openapi |-> found, postman |-> found][f]>>}
ToolPlace ==
  /\ cpc \in {"begin", "walk", "assist", "failed"} \cup Starting \cup Ended
  /\ truncated \in BOOLEAN
  /\ cpc \in Starting => cursor = 1 /\ frontier = <<>> /\ records = <<>> /\ seen = {} /\ endpoints = <<>> /\ truncated = FALSE
  /\ cpc \in Ended /\ ~truncated => cursor = Len(frontier) + 1
  /\ cpc \notin Ended \cup {"failed"} => \A f \in FileNames : files[f] = <<>>
ToolWalk ==
  /\ QueueIsSeen(frontier, seen) /\ (~truncated => LinksSeen(records, seen, permitted)) /\ AllFound(records, endpoints)
ToolFiles == FilesHold(files, records, endpoints)
ToolInv == ToolPlace /\ ToolWalk /\ ToolFiles
(* What the driver took off its queue was visited, and every link it must   *)
(* follow was visited or is in the queue.                                   *)
LinksQueued(reported, tasks, been, deepest) ==
  \A r \in DOMAIN reported : \A i \in DOMAIN LinksOn[reported[r].page] :
    LET u == LinksOn[reported[r].page][i].fromStart
    IN  reported[r].depth < deepest /\ Home(u) => u \in been \/ \E k \in DOMAIN tasks : tasks[k].url = u
Behind(tasks, place, been) == \A i \in DOMAIN tasks : i < place => tasks[i].url \in been
DriverPlace ==
  /\ cpc \in {"begin", "walk", "done", "failed"}
  /\ cpc = "begin" => cursor = 1 /\ frontier = <<>> /\ records = <<>>
  /\ cpc = "walk" => frontier # <<>>
  /\ cpc = "done" /\ frontier # <<>> /\ Len(records) < climits.pages => cursor = Len(frontier) + 1
DriverWalk ==
  /\ Behind(frontier, cursor, visited)
  /\ frontier # <<>> => LinksQueued(records, frontier, visited, climits.depth)
DriverInv == DriverPlace /\ DriverWalk
(* With the HTML given there is one page at most, whose links do not matter. *)
OfflinePlace ==
  /\ cpc \in {"begin", "failed"} \cup Ended
  /\ cpc = "begin" => records = <<>> /\ endpoints = <<>> /\ \A f \in FileNames : files[f] = <<>>
OfflineInv == OfflinePlace /\ QueueIsSeen(frontier, seen) /\ AllFound(records, endpoints) /\ ToolFiles
CrawlInv ==
  /\ WalkTypes /\ crawler \in {"driver", "tool", "offline"}
  /\ crawler = "tool" => ToolInv
  /\ crawler = "driver" => DriverInv
  /\ crawler = "offline" => OfflineInv

-----------------------------------------------------------------------------
(* Queues that grow at their end.                                           *)
LEMMA QueueGrows ==
  ASSUME NEW S, NEW q \in Seq(S), NEW n \in Seq(S)
  PROVE  LET r == q \o n
         IN  /\ r \in Seq(S) /\ Len(q) \in Nat /\ Len(n) \in Nat /\ Len(r) = Len(q) + Len(n)
             /\ DOMAIN q = 1..Len(q) /\ DOMAIN n = 1..Len(n) /\ DOMAIN r = 1..Len(r)
             /\ \A i \in DOMAIN q : i \in DOMAIN r /\ r[i] = q[i]
             /\ \A k \in DOMAIN n : Len(q) + k \in DOMAIN r /\ r[Len(q) + k] = n[k]
             /\ \A i \in DOMAIN r : i \in DOMAIN q \/ \E k \in DOMAIN n : i = Len(q) + k
<1> DEFINE r == q \o n
<1>1. /\ r \in Seq(S) /\ Len(r) = Len(q) + Len(n)
      /\ \A i \in 1..(Len(q) + Len(n)) : r[i] = IF i <= Len(q) THEN q[i] ELSE n[i - Len(q)]
  BY ConcatProperties
<1>2. Len(q) \in Nat /\ Len(n) \in Nat /\ DOMAIN q = 1..Len(q) /\ DOMAIN n = 1..Len(n)
  BY LenProperties
<1>3. DOMAIN r = 1..Len(r)
  BY <1>1, LenProperties
<1> HIDE DEF r
<1>4. \A i \in DOMAIN q : i \in DOMAIN r /\ r[i] = q[i]
  BY <1>1, <1>2, <1>3
<1>5. ASSUME NEW k \in DOMAIN n PROVE Len(q) + k \in DOMAIN r /\ r[Len(q) + k] = n[k]
  <2>1. k \in Nat /\ 1 <= k /\ k <= Len(n)
    BY <1>2
  <2>2. Len(q) + k \in 1..(Len(q) + Len(n)) /\ ~(Len(q) + k <= Len(q)) /\ (Len(q) + k) - Len(q) = k
    BY <1>2, <2>1
  <2> QED BY <1>1, <1>3, <2>2
<1>6. ASSUME NEW i \in DOMAIN r, i \notin DOMAIN q PROVE \E k \in DOMAIN n : i = Len(q) + k
  <2>1. i \in 1..(Len(q) + Len(n)) /\ ~(i \in 1..Len(q))
    BY <1>1, <1>2, <1>3, <1>6
  <2>2. i - Len(q) \in 1..Len(n) /\ i = Len(q) + (i - Len(q))
    BY <1>2, <2>1
  <2> QED BY <1>2, <2>2
<1> QED BY <1>1, <1>2, <1>3, <1>4, <1>5, <1>6 DEF r

LEMMA OneReported ==
  ASSUME NEW S, NEW q \in Seq(S), NEW e \in S
  PROVE  LET r == Append(q, e)
         IN  /\ r \in Seq(S) /\ Len(q) \in Nat /\ Len(r) = Len(q) + 1 /\ r[Len(q) + 1] = e
             /\ \A i \in DOMAIN q : i \in DOMAIN r /\ r[i] = q[i]
             /\ \A i \in DOMAIN r : (i \in DOMAIN q /\ r[i] = q[i]) \/ r[i] = e
<1> DEFINE r == Append(q, e)
<1>1. /\ r \in Seq(S) /\ Len(q) \in Nat /\ DOMAIN q = 1..Len(q) /\ Len(r) = Len(q) + 1 /\ r[Len(q) + 1] = e
      /\ \A i \in 1..Len(q) : r[i] = q[i]
  BY AppendProperties, LenProperties
<1>2. DOMAIN r = 1..(Len(q) + 1)
  BY <1>1, LenProperties
<1> HIDE DEF r
<1>3. /\ \A i \in DOMAIN q : i \in DOMAIN r /\ r[i] = q[i]
      /\ \A i \in DOMAIN r : (i \in DOMAIN q /\ r[i] = q[i]) \/ r[i] = e
  BY <1>1, <1>2
<1> QED BY <1>1, <1>3 DEF r

LEMMA LinkTypes ==
  ASSUME NEW page \in CrawlUrls
  PROVE  LET links == LinksOn[page]
         IN  /\ Len(links) \in Nat /\ DOMAIN links = 1..Len(links)
             /\ \A i \in DOMAIN links : links[i].here \in CrawlUrls /\ links[i].fromStart \in CrawlUrls
<1> DEFINE L == [here : CrawlUrls, fromStart : CrawlUrls]
           links == LinksOn[page]
<1>1. links \in Seq(L)
  BY CrawlConstants
<1> HIDE DEF L, links
<1>2. Len(links) \in Nat /\ DOMAIN links = 1..Len(links) /\ \A i \in DOMAIN links : links[i] \in L
  BY <1>1, LenProperties, ElementOfSeq
<1>3. \A i \in DOMAIN links : links[i].here \in CrawlUrls /\ links[i].fromStart \in CrawlUrls
  BY <1>2 DEF L
<1> QED BY <1>2, <1>3 DEF links

(* The links the driver follows, and those the tool takes.                  *)
LEMMA FollowedLinks ==
  ASSUME NEW page \in CrawlUrls, NEW known
  PROVE  LET links == LinksOn[page]
             f == Followed(page, known)
         IN  /\ f \in Seq(CrawlUrls)
             /\ \A i \in DOMAIN links : Home(links[i].fromStart) /\ links[i].fromStart \notin known =>
                  \E k \in DOMAIN f : f[k] = links[i].fromStart
<1> DEFINE links == LinksOn[page]
           s == [i \in DOMAIN links |-> links[i].fromStart]
           kept == {i \in DOMAIN links : links[i].fromStart \notin known /\ Home(links[i].fromStart)}
           f == AtPositions(s, kept)
<1>1. Len(links) \in Nat /\ DOMAIN links = 1..Len(links) /\ \A i \in DOMAIN links : links[i].fromStart \in CrawlUrls
  BY LinkTypes
<1> HIDE DEF links
<1>2. s \in Seq(CrawlUrls) /\ kept \subseteq DOMAIN s /\ \A i \in DOMAIN links : s[i] = links[i].fromStart
  BY <1>1
<1>3. \A i \in DOMAIN links : i \in kept <=> links[i].fromStart \notin known /\ Home(links[i].fromStart)
  OBVIOUS
<1> HIDE DEF s, kept
<1>4. f \in Seq(CrawlUrls) /\ IsPart(f, s, kept)
  BY <1>2, PartOfSequence
<1>5. Followed(page, known) = f
  BY DEF Followed, f, s, kept, links
<1> HIDE DEF f
<1>6. PICK from \in [DOMAIN f -> kept] : (\A k \in DOMAIN f : f[k] = s[from[k]]) /\ \A i \in kept : \E k \in DOMAIN f : from[k] = i
  BY <1>4 DEF IsPart
<1>7. \A i \in DOMAIN links : Home(links[i].fromStart) /\ links[i].fromStart \notin known => \E k \in DOMAIN f : f[k] = links[i].fromStart
  BY <1>2, <1>3, <1>6
<1> QED BY <1>4, <1>5, <1>7 DEF links

LEMMA TakenLinks ==
  ASSUME NEW page \in CrawlUrls, Room \in Nat
  PROVE  LET links == LinksOn[page]
             fresh == FreshLinks(page)
             t == Taken(page)
         IN  /\ Len(t) \in Nat /\ DOMAIN t = 1..Len(t) /\ Len(t) <= Len(fresh) /\ Len(fresh) \in Nat
             /\ \A k \in DOMAIN t : t[k] \in DOMAIN links /\ Fresh(page, t[k])
             /\ \A k, l \in DOMAIN t : k < l => t[k] < t[l]
             /\ ~(Len(t) < Len(fresh)) => \A i \in DOMAIN links : Fresh(page, i) => \E k \in DOMAIN t : t[k] = i
<1> DEFINE links == LinksOn[page]
           D == DOMAIN links
           s == [i \in D |-> i]
           kept == {i \in D : Fresh(page, i)}
           fresh == AtPositions(s, kept)
           n == IF Len(fresh) < Room THEN Len(fresh) ELSE Room
           t == SubSeq(fresh, 1, n)
<1>1. Len(links) \in Nat /\ D = 1..Len(links)
  BY LinkTypes
<1>2. s \in Seq(D) /\ DOMAIN s = D /\ \A i \in D : s[i] = i
  <2> HIDE DEF links, D
  <2> QED BY <1>1
<1>3. kept \subseteq D /\ \A i \in D : i \in kept <=> Fresh(page, i)
  OBVIOUS
<1>a. FreshLinks(page) = fresh /\ Taken(page) = t
  BY DEF FreshLinks, Taken
<1>d. D \subseteq Nat
  BY <1>1
<1> HIDE DEF links, D, s, kept
<1>4. fresh \in Seq(D) /\ IsPart(fresh, s, kept)
  BY <1>2, <1>3, PartOfSequence
<1> HIDE DEF fresh
<1>5. PICK from \in [DOMAIN fresh -> kept] :
        /\ \A k \in DOMAIN fresh : fresh[k] = s[from[k]]
        /\ \A k, l \in DOMAIN fresh : k < l => from[k] < from[l]
        /\ \A i \in kept : \E k \in DOMAIN fresh : from[k] = i
  BY <1>4 DEF IsPart
<1>6. \A k \in DOMAIN fresh : fresh[k] = from[k] /\ fresh[k] \in kept
  BY <1>2, <1>3, <1>5
<1>7. Len(fresh) \in Nat /\ DOMAIN fresh = 1..Len(fresh) /\ n \in Nat /\ n <= Len(fresh)
  BY <1>4, LenProperties
<1> HIDE DEF n
<1>8. t \in Seq(D) /\ Len(t) = n /\ \A k \in 1..n : t[k] = fresh[k]
  <2>1. \A i \in 1..n : i \in DOMAIN fresh
    BY <1>7
  <2>2. \A i \in 1..n : fresh[i] \in D
    BY <1>3, <1>6, <2>1
  <2>3. n \in Int /\ 1 \in Int
    BY <1>7
  <2>4. /\ t \in Seq(D) /\ Len(t) = (IF 1 <= n THEN n - 1 + 1 ELSE 0)
        /\ \A i \in 1..(n - 1 + 1) : t[i] = fresh[1 + i - 1]
    BY <2>2, <2>3, SubSeqProperties
  <2> HIDE DEF t
  <2>5. Len(t) = n
    BY <1>7, <2>4
  <2>6. \A i \in 1..n : i \in 1..(n - 1 + 1) /\ 1 + i - 1 = i
    BY <1>7
  <2> QED BY <2>4, <2>5, <2>6
<1> HIDE DEF t
<1>9. DOMAIN t = 1..n /\ \A k \in 1..n : k \in DOMAIN fresh
  BY <1>7, <1>8, LenProperties
<1>10. \A k \in DOMAIN t : t[k] \in D /\ Fresh(page, t[k])
  BY <1>3, <1>6, <1>8, <1>9
<1>11. \A k, l \in DOMAIN t : k < l => t[k] < t[l]
  BY <1>5, <1>6, <1>8, <1>9
<1>12. ASSUME ~(Len(t) < Len(fresh)), NEW i \in D, Fresh(page, i) PROVE \E k \in DOMAIN t : t[k] = i
  <2>a. ~(n < Len(fresh))
    BY <1>8, <1>12
  <2> DEFINE m == Len(fresh)
  <2>b. m \in Nat /\ n \in Nat /\ n <= m /\ ~(n < m)
    BY <1>7, <2>a
  <2> HIDE DEF m
  <2>c. n = m
    BY <2>b
  <2>1. n = Len(fresh)
    BY <2>c DEF m
  <2>2. PICK k \in DOMAIN fresh : from[k] = i
    BY <1>3, <1>5, <1>12
  <2> QED BY <1>6, <1>7, <1>8, <1>9, <2>1, <2>2
<1>13. Len(t) \in Nat /\ DOMAIN t = 1..Len(t) /\ Len(t) <= Len(fresh) /\ Len(fresh) \in Nat
  BY <1>7, <1>8, <1>9
<1> QED BY <1>10, <1>11, <1>12, <1>13, <1>a DEF D, links

(* The first of the links that name a URL.                                  *)
LEMMA FirstLink ==
  ASSUME NEW page \in CrawlUrls, NEW i \in DOMAIN LinksOn[page], Admissible(LinksOn[page][i].here), LinksOn[page][i].here \notin seen
  PROVE  \E j \in DOMAIN LinksOn[page] : LinksOn[page][j].here = LinksOn[page][i].here /\ Fresh(page, j)
<1> DEFINE links == LinksOn[page]
           T == {j \in DOMAIN links : links[j].here = links[i].here}
<1>1. Len(links) \in Nat /\ DOMAIN links = 1..Len(links)
  BY LinkTypes
<1>2. i \in T /\ T \subseteq Nat
  BY <1>1
<1>3. \A j \in DOMAIN links : j \in T <=> links[j].here = links[i].here
  OBVIOUS
<1>a. T \subseteq DOMAIN links
  OBVIOUS
<1> HIDE DEF T
<1>4. PICK j \in T : \A k \in T : j <= k
  BY <1>2, SmallestExists
<1>5. ~ \E k \in 1..(j - 1) : links[k].here = links[i].here
  <2> SUFFICES ASSUME NEW k \in 1..(j - 1), links[k].here = links[i].here PROVE FALSE
    OBVIOUS
  <2>1. j \in 1..Len(links)
    BY <1>1, <1>a
  <2>2. k \in DOMAIN links /\ ~(j <= k)
    BY <1>1, <2>1
  <2> QED BY <1>3, <1>4, <2>2
<1>6. j \in DOMAIN links /\ links[j].here = links[i].here
  BY <1>3, <1>a
<1>7. Fresh(page, j)
  BY <1>5, <1>6 DEF Fresh
<1> QED BY <1>6, <1>7

(* The strongest of some endpoints, with the parameters of all.             *)
LEMMA Merged ==
  ASSUME NEW all, \A e \in all : Endpoint(e), NEW e \in all
  PROVE  LET m == MergeEndpoint(all)
         IN  Endpoint(m) /\ \A o \in all : o.parameters \subseteq m.parameters /\ o.confidence <= m.confidence
<1> DEFINE T == {100 - o.confidence : o \in all}
           p == UNION {o.parameters : o \in all}
<1>1. \A o \in all : o.confidence \in 0..100
  BY DEF Endpoint
<1>2. T \subseteq Nat /\ T # {}
  BY <1>1
<1>3. PICK x \in T : \A y \in T : x <= y
  <2> HIDE DEF T
  <2> QED BY <1>2, SmallestExists
<1>4. PICK b \in all : x = 100 - b.confidence
  OBVIOUS
<1>5. \A o \in all : o.confidence <= b.confidence
  <2> TAKE o \in all
  <2>1. 100 - b.confidence <= 100 - o.confidence
    BY <1>3, <1>4
  <2> DEFINE most == b.confidence
             its == o.confidence
  <2>2. most \in 0..100 /\ its \in 0..100
    BY <1>1
  <2>3. 100 - most <= 100 - its
    BY <2>1
  <2> HIDE DEF most, its
  <2>4. its <= most
    BY <2>2, <2>3
  <2> QED BY <2>4 DEF most, its
<1> DEFINE g == Strongest(all)
<1>6. g \in all /\ \A o \in all : o.confidence <= g.confidence
  BY <1>4, <1>5 DEF Strongest
<1>7. MergeEndpoint(all) = [g EXCEPT !.parameters = p]
  BY DEF MergeEndpoint
<1>8. \A o \in all : o.parameters \subseteq p
  OBVIOUS
<1> HIDE DEF g, p
<1>9. g = [key |-> g.key, confidence |-> g.confidence, parameters |-> g.parameters] /\ g.confidence \in 0..100
  BY <1>6 DEF Endpoint
<1>10. [g EXCEPT !.parameters = p] = [key |-> g.key, confidence |-> g.confidence, parameters |-> p]
  BY <1>9
<1> DEFINE m == MergeEndpoint(all)
<1>11. m = [key |-> g.key, confidence |-> g.confidence, parameters |-> p]
  BY <1>7, <1>10
<1> HIDE DEF m
<1>12. m.confidence = g.confidence /\ m.parameters = p /\ m.key = g.key
  BY <1>11
<1>13. Endpoint(m)
  BY <1>9, <1>11, <1>12 DEF Endpoint
<1> QED BY <1>6, <1>8, <1>12, <1>13 DEF m

LEMMA EndpointsMerged ==
  ASSUME AllFound(records, endpoints), NEW page \in CrawlUrls
  PROVE  LET w == WithEndpoints(page)
         IN  /\ \A k \in DOMAIN w : Endpoint(w[k])
             /\ \A k \in DOMAIN endpoints : k \in DOMAIN w /\ endpoints[k].parameters \subseteq w[k].parameters /\ endpoints[k].confidence <= w[k].confidence
             /\ \A e \in FoundOn[page] : e.key \in DOMAIN w /\ e.parameters \subseteq w[e.key].parameters /\ e.confidence <= w[e.key].confidence
<1> DEFINE F == FoundOn[page]
           all(k) == {e \in F : e.key = k} \cup {endpoints[j] : j \in DOMAIN endpoints \cap {k}}
           D == DOMAIN endpoints \cup {e.key : e \in F}
           w == WithEndpoints(page)
<1>1. DOMAIN w = D /\ \A k \in D : w[k] = MergeEndpoint(all(k))
  BY DEF WithEndpoints
<1>2. \A e \in F : Endpoint(e)
  BY CrawlConstants DEF Endpoint
<1>3. \A k \in DOMAIN endpoints : Endpoint(endpoints[k])
  BY DEF AllFound
<1>4. ASSUME NEW k \in D PROVE (\A e \in all(k) : Endpoint(e)) /\ \E e : e \in all(k)
  BY <1>2, <1>3
<1>5. (\A k \in DOMAIN endpoints : endpoints[k] \in all(k) /\ k \in D) /\ \A e \in F : e \in all(e.key) /\ e.key \in D
  OBVIOUS
<1> HIDE DEF F, all, D, w
<1>6. ASSUME NEW k \in D PROVE Endpoint(w[k]) /\ \A o \in all(k) : o.parameters \subseteq w[k].parameters /\ o.confidence <= w[k].confidence
  <2> DEFINE A == all(k)
             m == MergeEndpoint(A)
  <2>1. PICK e : e \in A
    BY <1>4
  <2>2. \A o \in A : Endpoint(o)
    BY <1>4
  <2> HIDE DEF A
  <2>3. Endpoint(m) /\ \A o \in A : o.parameters \subseteq m.parameters /\ o.confidence <= m.confidence
    BY <2>1, <2>2, Merged
  <2>4. w[k] = m
    BY <1>1 DEF A
  <2> HIDE DEF m
  <2> QED BY <2>3, <2>4 DEF A
<1> QED BY <1>1, <1>5, <1>6 DEF w, F

LEMMA FoundKept ==
  ASSUME AllFound(records, endpoints), records \in Seq(CrawlRecords), NEW page \in CrawlUrls, NEW d \in Nat
  PROVE  AllFound(Append(records, Report(page, d)), WithEndpoints(page))
<1> DEFINE w == WithEndpoints(page)
           R == CrawlRecords
           e == Report(page, d)
           r == Append(records, e)
<1>1. /\ \A k \in DOMAIN w : Endpoint(w[k])
      /\ \A k \in DOMAIN endpoints : k \in DOMAIN w /\ endpoints[k].parameters \subseteq w[k].parameters /\ endpoints[k].confidence <= w[k].confidence
      /\ \A o \in FoundOn[page] : o.key \in DOMAIN w /\ o.parameters \subseteq w[o.key].parameters /\ o.confidence <= w[o.key].confidence
  BY EndpointsMerged
<1>2. e \in R /\ e.page = page
  BY DEF Report, CrawlRecords
<1>0. records \in Seq(R)
  OBVIOUS
<1> HIDE DEF w, R, e
<1>3. \A i \in DOMAIN r : (i \in DOMAIN records /\ r[i] = records[i]) \/ r[i] = e
  BY <1>0, <1>2, OneReported
<1>p. \A i \in DOMAIN records : records[i].page \in CrawlUrls
  <2>1. \A i \in DOMAIN records : records[i] \in R
    BY <1>0, LenProperties, ElementOfSeq
  <2> QED BY <2>1 DEF R, CrawlRecords
<1> HIDE DEF r
<1>4. ASSUME NEW i \in DOMAIN r, NEW o \in FoundOn[r[i].page]
      PROVE  o.key \in DOMAIN w /\ o.parameters \subseteq w[o.key].parameters /\ o.confidence <= w[o.key].confidence
  <2>1. CASE r[i] = e
    BY <1>1, <1>2, <2>1
  <2>2. CASE i \in DOMAIN records /\ r[i] = records[i]
    <3>1. o \in FoundOn[records[i].page]
      BY <2>2
    <3>2. o.key \in DOMAIN endpoints /\ o.parameters \subseteq endpoints[o.key].parameters /\ o.confidence <= endpoints[o.key].confidence
      BY <2>2, <3>1 DEF AllFound
    <3>3. o.confidence \in 0..100 /\ endpoints[o.key].confidence \in 0..100 /\ w[o.key].confidence \in 0..100
      <4>1. Endpoint(endpoints[o.key]) /\ Endpoint(w[o.key])
        BY <1>1, <3>2 DEF AllFound
      <4>2. o.confidence \in 0..100
        BY <1>p, <2>2, <3>1, CrawlConstants
      <4> QED BY <4>1, <4>2 DEF Endpoint
    <3>4. o.key \in DOMAIN w /\ endpoints[o.key].parameters \subseteq w[o.key].parameters /\ endpoints[o.key].confidence <= w[o.key].confidence
      BY <1>1, <3>2
    <3> DEFINE a == o.confidence
               b == endpoints[o.key].confidence
               c == w[o.key].confidence
    <3>5. a \in 0..100 /\ b \in 0..100 /\ c \in 0..100 /\ a <= b /\ b <= c
      BY <3>2, <3>3, <3>4
    <3> HIDE DEF a, b, c
    <3>6. a <= c
      BY <3>5
    <3> QED BY <3>2, <3>4, <3>6 DEF a, c
  <2> QED BY <1>3, <2>1, <2>2
<1>5. AllFound(r, w)
  BY <1>1, <1>4 DEF AllFound
<1> QED BY <1>5 DEF r, w, e

-----------------------------------------------------------------------------
(* The entry in front.                                                      *)
LEMMA InFront ==
  ASSUME WalkTypes, Queued
  PROVE  /\ Popped \in CrawlTasks /\ Popped.url \in CrawlUrls /\ Popped.depth \in Nat /\ PageAt[Popped.url] \in CrawlUrls
         /\ cursor \in DOMAIN frontier /\ cursor + 1 \in 1..(Len(frontier) + 1) /\ cursor \in Nat
         /\ climits.pages \in Nat /\ climits.depth \in Nat /\ climits.frontier \in Nat /\ Room \in Nat
<1> DEFINE T == CrawlTasks
<1>0. frontier \in Seq(T) /\ cursor \in 1..(Len(frontier) + 1) /\ cursor <= Len(frontier) /\ climits \in CrawlLimits
  BY DEF WalkTypes, Queued
<1>l. climits.pages \in Nat /\ climits.depth \in Nat /\ climits.frontier \in Nat
  BY <1>0, CrawlConstants
<1> HIDE DEF T
<1>1. Len(frontier) \in Nat /\ DOMAIN frontier = 1..Len(frontier)
  BY <1>0, LenProperties
<1>2. cursor \in 1..Len(frontier) /\ cursor \in DOMAIN frontier /\ cursor + 1 \in 1..(Len(frontier) + 1) /\ cursor \in Nat
  BY <1>0, <1>1
<1>3. frontier[cursor] \in T
  BY <1>0, <1>2, ElementOfSeq
<1>4. Popped \in CrawlTasks /\ Popped.url \in CrawlUrls /\ Popped.depth \in Nat
  BY <1>3 DEF T, Popped, CrawlTasks
<1>5. PageAt[Popped.url] \in CrawlUrls
  BY <1>4, CrawlConstants
<1>6. Room \in Nat
  BY <1>1, <1>4, <1>l DEF Room
<1> QED BY <1>2, <1>4, <1>5, <1>6, <1>l

LEMMA NextTask ==
  ASSUME WalkTypes, Queued, cursor' = cursor + 1, UNCHANGED <<climits, frontier, records>>
  PROVE  WalkTypes'
<1>1. cursor + 1 \in 1..(Len(frontier) + 1)
  BY InFront
<1> QED BY <1>1 DEF WalkTypes

(* New URLs at the end of a queue that is what was seen.                    *)
LEMMA SeenGrows ==
  ASSUME NEW S, NEW q \in Seq(S), NEW n \in Seq(S), NEW known, NEW all, QueueIsSeen(q, known),
         \A k \in DOMAIN n : n[k].url \notin known /\ n[k].url \in all,
         \A k, l \in DOMAIN n : n[k].url = n[l].url => k = l,
         known \subseteq all, \A u \in all : u \in known \/ \E k \in DOMAIN n : n[k].url = u
  PROVE  QueueIsSeen(q \o n, all)
<1> DEFINE r == q \o n
<1>1. /\ Len(q) \in Nat /\ DOMAIN n = 1..Len(n) /\ Len(n) \in Nat
      /\ \A i \in DOMAIN q : i \in DOMAIN r /\ r[i] = q[i]
      /\ \A k \in DOMAIN n : Len(q) + k \in DOMAIN r /\ r[Len(q) + k] = n[k]
      /\ \A i \in DOMAIN r : i \in DOMAIN q \/ \E k \in DOMAIN n : i = Len(q) + k
  BY QueueGrows
<1>2. /\ \A i, j \in DOMAIN q : q[i].url = q[j].url => i = j
      /\ \A i \in DOMAIN q : q[i].url \in known
      /\ \A u \in known : \E i \in DOMAIN q : q[i].url = u
  BY DEF QueueIsSeen
<1> HIDE DEF r
<1>3. ASSUME NEW i \in DOMAIN r, NEW j \in DOMAIN r, r[i].url = r[j].url PROVE i = j
  <2>1. CASE i \in DOMAIN q /\ j \in DOMAIN q
    BY <1>1, <1>2, <1>3, <2>1
  <2>2. CASE i \in DOMAIN q /\ \E l \in DOMAIN n : j = Len(q) + l
    BY <1>1, <1>2, <1>3, <2>2
  <2>3. CASE j \in DOMAIN q /\ \E k \in DOMAIN n : i = Len(q) + k
    BY <1>1, <1>2, <1>3, <2>3
  <2>4. CASE (\E k \in DOMAIN n : i = Len(q) + k) /\ \E l \in DOMAIN n : j = Len(q) + l
    BY <1>1, <1>3, <2>4
  <2> QED BY <1>1, <2>1, <2>2, <2>3, <2>4
<1>4. \A i \in DOMAIN r : r[i].url \in all
  BY <1>1, <1>2
<1>5. \A u \in all : \E i \in DOMAIN r : r[i].url = u
  BY <1>1, <1>2
<1>6. QueueIsSeen(r, all)
  BY <1>3, <1>4, <1>5 DEF QueueIsSeen
<1> QED BY <1>6 DEF r

(* What a page the tool reports adds.                                       *)
LEMMA ToolGrows ==
  ASSUME WalkTypes, ToolWalk, Queued, NEW page \in CrawlUrls, truncated \in BOOLEAN,
         NEW n, n = [i \in DOMAIN Taken(page) |-> Entry(LinksOn[page][Taken(page)[i]].here, Popped.depth + 1)],
         cursor' = cursor + 1, records' = Append(records, Report(page, Popped.depth)), endpoints' = WithEndpoints(page),
         frontier' = frontier \o n, seen' = seen \cup {LinksOn[page][Taken(page)[i]].here : i \in DOMAIN Taken(page)},
         truncated' = (truncated \/ Len(Taken(page)) < Len(FreshLinks(page))), UNCHANGED <<climits, permitted>>
  PROVE  WalkTypes' /\ ToolWalk'
<1> DEFINE t == Taken(page)
           fresh == FreshLinks(page)
           links == LinksOn[page]
           d == Popped.depth
           T == CrawlTasks
           R == CrawlRecords
           e == Report(page, d)
<1>0. /\ frontier \in Seq(T) /\ records \in Seq(R) /\ cursor \in 1..(Len(frontier) + 1) /\ climits \in CrawlLimits
      /\ QueueIsSeen(frontier, seen) /\ AllFound(records, endpoints) /\ (~truncated => LinksSeen(records, seen, permitted))
  BY DEF WalkTypes, ToolWalk
<1>1. d \in Nat /\ cursor + 1 \in 1..(Len(frontier) + 1) /\ Room \in Nat
  BY InFront
<1>2. /\ Len(t) \in Nat /\ DOMAIN t = 1..Len(t) /\ Len(t) <= Len(fresh) /\ Len(fresh) \in Nat
      /\ \A k \in DOMAIN t : t[k] \in DOMAIN links /\ Fresh(page, t[k])
      /\ \A k, l \in DOMAIN t : k < l => t[k] < t[l]
      /\ ~(Len(t) < Len(fresh)) => \A i \in DOMAIN links : Fresh(page, i) => \E k \in DOMAIN t : t[k] = i
  BY <1>1, TakenLinks
<1>3. Len(links) \in Nat /\ DOMAIN links = 1..Len(links) /\ \A i \in DOMAIN links : links[i].here \in CrawlUrls
  BY LinkTypes
<1>4. seen' = seen \cup {links[t[i]].here : i \in DOMAIN t} /\ (~truncated' => ~truncated /\ ~(Len(t) < Len(fresh)))
  OBVIOUS
<1>5. ASSUME NEW i \in DOMAIN links, Fresh(page, i)
      PROVE  links[i].here \notin seen /\ \A j \in 1..(i - 1) : links[j].here # links[i].here
  BY <1>5 DEF Fresh
<1>a. n = [i \in DOMAIN t |-> Entry(links[t[i]].here, d + 1)]
  OBVIOUS
<1>e. e \in R /\ e.page = page
  BY <1>1 DEF Report, CrawlRecords
<1> HIDE DEF t, fresh, links, T, R, e
<1>6. \A k \in DOMAIN t : Entry(links[t[k]].here, d + 1) \in T
  <2> HIDE DEF d
  <2> QED BY <1>1, <1>2, <1>3 DEF T, CrawlTasks, Entry
<1> HIDE DEF d
<1>7. n \in Seq(T) /\ DOMAIN n = DOMAIN t /\ \A k \in DOMAIN t : n[k].url = links[t[k]].here
  <2>1. n \in [1..Len(t) -> T]
    BY <1>2, <1>6, <1>a
  <2>2. n \in Seq(T)
    BY <1>2, <2>1, SeqDef
  <2>3. \A k \in DOMAIN t : n[k].url = links[t[k]].here
    BY <1>a DEF Entry
  <2> QED BY <1>a, <2>2, <2>3
<1>8. frontier' \in Seq(T) /\ Len(frontier) \in Nat /\ Len(n) \in Nat /\ Len(frontier') = Len(frontier) + Len(n)
  <2> DEFINE q == frontier
  <2>1. q \in Seq(T) /\ frontier' = q \o n
    BY <1>0
  <2> HIDE DEF q
  <2>2. q \o n \in Seq(T) /\ Len(q) \in Nat /\ Len(n) \in Nat /\ Len(q \o n) = Len(q) + Len(n)
    BY <1>7, <2>1, QueueGrows
  <2>3. frontier' \in Seq(T) /\ Len(q) \in Nat /\ Len(n) \in Nat /\ Len(frontier') = Len(q) + Len(n)
    BY <2>1, <2>2
  <2> QED BY <2>3 DEF q
<1>9. records' \in Seq(R) /\ \A i \in DOMAIN records' : (i \in DOMAIN records /\ records'[i] = records[i]) \/ records'[i] = e
  <2>1. records' = Append(records, e)
    BY DEF e, d
  <2> QED BY <1>0, <1>e, <2>1, OneReported
<1>10. WalkTypes'
  <2>1. cursor + 1 \in 1..(Len(frontier') + 1)
    <3> DEFINE x == Len(frontier)
               y == Len(n)
               z == Len(frontier')
               c == cursor + 1
    <3>1. x \in Nat /\ y \in Nat /\ z = x + y /\ c \in 1..(x + 1)
      BY <1>1, <1>8
    <3> HIDE DEF x, y, z, c
    <3>2. c \in 1..(z + 1)
      BY <3>1
    <3> QED BY <3>2 DEF c, z
  <2> QED BY <1>0, <1>8, <1>9, <2>1 DEF WalkTypes, T, R
<1>11. QueueIsSeen(frontier', seen')
  <2>2. ASSUME NEW k \in DOMAIN n PROVE n[k].url \notin seen /\ n[k].url \in seen'
    <3>1. k \in DOMAIN t /\ t[k] \in DOMAIN links /\ Fresh(page, t[k]) /\ n[k].url = links[t[k]].here
      BY <1>2, <1>7
    <3>2. links[t[k]].here \notin seen
      BY <1>5, <3>1
    <3>3. links[t[k]].here \in seen'
      BY <1>4, <3>1
    <3> QED BY <3>1, <3>2, <3>3
  <2>3. ASSUME NEW k \in DOMAIN n, NEW l \in DOMAIN n, k < l PROVE n[k].url # n[l].url
    <3>1. t[k] < t[l] /\ t[k] \in 1..Len(links) /\ t[l] \in 1..Len(links)
      BY <1>2, <1>3, <1>7, <2>3
    <3>2. t[k] \in 1..(t[l] - 1)
      BY <1>3, <3>1
    <3> QED BY <1>2, <1>5, <1>7, <3>2
  <2>4. ASSUME NEW k \in DOMAIN n, NEW l \in DOMAIN n, n[k].url = n[l].url PROVE k = l
    <3>1. k \in Nat /\ l \in Nat
      BY <1>2, <1>7
    <3>2. ~(k < l) /\ ~(l < k)
      BY <2>3, <2>4
    <3> QED BY <3>1, <3>2
  <2>5. seen \subseteq seen' /\ \A u \in seen' : u \in seen \/ \E k \in DOMAIN n : n[k].url = u
    BY <1>4, <1>7
  <2> DEFINE q == frontier
             all == seen'
             known == seen
  <2>6. /\ q \in Seq(T) /\ frontier' = q \o n /\ QueueIsSeen(q, known)
        /\ \A k \in DOMAIN n : n[k].url \notin known /\ n[k].url \in all
        /\ known \subseteq all /\ \A u \in all : u \in known \/ \E k \in DOMAIN n : n[k].url = u
    BY <1>0, <2>2, <2>5
  <2> HIDE DEF q, all, known
  <2>7. QueueIsSeen(q \o n, all)
    <3>1. \A k, l \in DOMAIN n : n[k].url = n[l].url => k = l
      BY <2>4
    <3>2. n \in Seq(T)
      BY <1>7
    <3> QED BY ONLY <2>6, <3>1, <3>2, SeenGrows
  <2> QED BY <2>6, <2>7 DEF all
<1>12. ASSUME ~truncated' PROVE LinksSeen(records', seen', permitted)
  <2> SUFFICES ASSUME NEW r \in DOMAIN records', NEW i \in DOMAIN LinksOn[records'[r].page],
                      Allowed(permitted, LinksOn[records'[r].page][i].here)
               PROVE  LinksOn[records'[r].page][i].here \in seen'
    BY DEF LinksSeen
  <2>0. LinksSeen(records, seen, permitted) /\ ~(Len(t) < Len(fresh)) /\ seen \subseteq seen'
    BY <1>0, <1>4, <1>12
  <2>1. CASE r \in DOMAIN records /\ records'[r] = records[r]
    BY <2>0, <2>1 DEF LinksSeen
  <2>2. CASE records'[r] = e
    <3>1. LinksOn[records'[r].page] = links
      BY <1>e, <2>2 DEF links
    <3>2. i \in DOMAIN links /\ Admissible(links[i].here)
      BY <3>1 DEF Allowed, Admissible, Permits
    <3>3. CASE links[i].here \in seen
      BY <2>0, <3>1, <3>3
    <3>4. CASE links[i].here \notin seen
      <4>1. PICK j \in DOMAIN links : links[j].here = links[i].here /\ Fresh(page, j)
        BY <3>2, <3>4, FirstLink DEF links
      <4>2. PICK k \in DOMAIN t : t[k] = j
        BY <1>2, <2>0, <4>1
      <4> QED BY <1>4, <3>1, <4>1, <4>2
    <3> QED BY <3>3, <3>4
  <2> QED BY <1>9, <2>1, <2>2
<1>13. AllFound(records', endpoints')
  BY <1>0, <1>1, FoundKept DEF d, R
<1> QED BY <1>10, <1>11, <1>12, <1>13 DEF ToolWalk

-----------------------------------------------------------------------------
(* What the driver must follow stays visited or queued as both grow.        *)
LEMMA QueuedStays ==
  ASSUME NEW rs, NEW q, NEW p, NEW been, NEW more, NEW deepest, LinksQueued(rs, q, been, deepest), been \subseteq more,
         \A k \in DOMAIN q : k \in DOMAIN p /\ p[k] = q[k]
  PROVE  LinksQueued(rs, p, more, deepest)
<1> SUFFICES ASSUME NEW r \in DOMAIN rs, NEW i \in DOMAIN LinksOn[rs[r].page],
                    rs[r].depth < deepest /\ Home(LinksOn[rs[r].page][i].fromStart)
             PROVE  \/ LinksOn[rs[r].page][i].fromStart \in more
                    \/ \E k \in DOMAIN p : p[k].url = LinksOn[rs[r].page][i].fromStart
  BY DEF LinksQueued
<1> DEFINE u == LinksOn[rs[r].page][i].fromStart
<1>1. u \in been \/ \E k \in DOMAIN q : q[k].url = u
  BY DEF LinksQueued
<1> HIDE DEF u
<1>2. u \in more \/ \E k \in DOMAIN p : p[k].url = u
  BY <1>1
<1> QED BY <1>2 DEF u

LEMMA QueuedReported ==
  ASSUME NEW rs \in Seq(CrawlRecords), NEW p, NEW been, NEW deepest, LinksQueued(rs, p, been, deepest), NEW e \in CrawlRecords,
         \A i \in DOMAIN LinksOn[e.page] : e.depth < deepest /\ Home(LinksOn[e.page][i].fromStart) =>
           LinksOn[e.page][i].fromStart \in been \/ \E k \in DOMAIN p : p[k].url = LinksOn[e.page][i].fromStart
  PROVE  LinksQueued(Append(rs, e), p, been, deepest)
<1> DEFINE S == CrawlRecords
           a == Append(rs, e)
<1>0. rs \in Seq(S) /\ e \in S
  OBVIOUS
<1> HIDE DEF S
<1>1. \A r \in DOMAIN a : (r \in DOMAIN rs /\ a[r] = rs[r]) \/ a[r] = e
  BY <1>0, OneReported
<1> HIDE DEF a
<1>2. ASSUME NEW r \in DOMAIN a, NEW i \in DOMAIN LinksOn[a[r].page],
             a[r].depth < deepest /\ Home(LinksOn[a[r].page][i].fromStart)
      PROVE  \/ LinksOn[a[r].page][i].fromStart \in been
             \/ \E k \in DOMAIN p : p[k].url = LinksOn[a[r].page][i].fromStart
  <2>1. CASE a[r] = e
    BY <1>2, <2>1
  <2>2. CASE r \in DOMAIN rs /\ a[r] = rs[r]
    BY <1>2, <2>2 DEF LinksQueued
  <2> QED BY <1>1, <2>1, <2>2
<1>3. LinksQueued(a, p, been, deepest)
  BY <1>2 DEF LinksQueued
<1> QED BY <1>3 DEF a

(* The entries a page adds to the driver's queue.                           *)
Added(next, level) == [i \in DOMAIN next |-> Entry(next[i], level)]
HasUnknown(tasks, page, known) ==
  \A i \in DOMAIN LinksOn[page] : Home(LinksOn[page][i].fromStart) /\ LinksOn[page][i].fromStart \notin known =>
    \E k \in DOMAIN tasks : tasks[k].url = LinksOn[page][i].fromStart
LEMMA DriverAdds ==
  ASSUME NEW page \in CrawlUrls, NEW known, NEW d \in Nat
  PROVE  Added(Followed(page, known), d) \in Seq(CrawlTasks) /\ HasUnknown(Added(Followed(page, known), d), page, known)
<1> DEFINE f == Followed(page, known)
           n == [i \in DOMAIN f |-> Entry(f[i], d)]
           T == CrawlTasks
<1>1. /\ f \in Seq(CrawlUrls)
      /\ \A i \in DOMAIN LinksOn[page] : Home(LinksOn[page][i].fromStart) /\ LinksOn[page][i].fromStart \notin known =>
           \E k \in DOMAIN f : f[k] = LinksOn[page][i].fromStart
  BY FollowedLinks
<1> HIDE DEF f
<1>2. Len(f) \in Nat /\ DOMAIN f = 1..Len(f) /\ \A k \in DOMAIN f : f[k] \in CrawlUrls
  BY <1>1, LenProperties, ElementOfSeq
<1>3. \A k \in DOMAIN f : Entry(f[k], d) \in T /\ Entry(f[k], d).url = f[k]
  BY <1>2 DEF CrawlTasks, Entry
<1> HIDE DEF T
<1>4. n \in [1..Len(f) -> T] /\ DOMAIN n = DOMAIN f /\ \A k \in DOMAIN f : n[k].url = f[k]
  BY <1>2, <1>3
<1> HIDE DEF n
<1>5. n \in Seq(T)
  BY <1>2, <1>4, SeqDef
<1>6. \A i \in DOMAIN LinksOn[page] : Home(LinksOn[page][i].fromStart) /\ LinksOn[page][i].fromStart \notin known =>
        \E k \in DOMAIN n : n[k].url = LinksOn[page][i].fromStart
  BY <1>1, <1>4
<1>7. Added(Followed(page, known), d) = n
  BY DEF Added, n, f
<1>8. HasUnknown(n, page, known)
  BY <1>6 DEF HasUnknown
<1> QED BY <1>5, <1>7, <1>8 DEF T

(* The queue up to the cursor is visited.                                   *)
LEMMA BehindGrows ==
  ASSUME WalkTypes, Queued, NEW p, NEW been, Behind(frontier, cursor, been),
         \A k \in DOMAIN frontier : k \in DOMAIN p /\ p[k] = frontier[k],
         \A k \in DOMAIN p : k \in DOMAIN frontier \/ k > Len(frontier), DOMAIN p \subseteq Nat
  PROVE  Behind(p, cursor + 1, been \cup {Popped.url})
<1>1. cursor \in DOMAIN frontier /\ cursor \in Nat
  BY InFront
<1>2. Len(frontier) \in Nat /\ cursor <= Len(frontier)
  <2> DEFINE T == CrawlTasks
  <2>1. frontier \in Seq(T) /\ cursor <= Len(frontier)
    BY DEF WalkTypes, Queued
  <2> HIDE DEF T
  <2> QED BY <2>1, LenProperties
<1> SUFFICES ASSUME NEW i \in DOMAIN p, i < cursor + 1 PROVE p[i].url \in been \cup {Popped.url}
  BY DEF Behind
<1>3. i \in Nat /\ ~(i > Len(frontier)) /\ (i < cursor \/ i = cursor)
  <2> DEFINE x == Len(frontier)
             c == cursor
  <2>1. i \in Nat /\ x \in Nat /\ c \in Nat /\ c <= x /\ i < c + 1
    BY <1>1, <1>2
  <2> HIDE DEF x, c
  <2>2. ~(i > x) /\ (i < c \/ i = c)
    BY <2>1
  <2> QED BY <2>1, <2>2 DEF x, c
<1>4. i \in DOMAIN frontier /\ p[i] = frontier[i]
  BY <1>3
<1>5. CASE i < cursor
  BY <1>4, <1>5 DEF Behind
<1>6. CASE i = cursor
  BY <1>4, <1>6 DEF Popped
<1> QED BY <1>3, <1>5, <1>6

(* A page the driver visits.                                                *)
LEMMA DriverGoesOn ==
  ASSUME WalkTypes, DriverInv, DriverVisits
  PROVE  WalkTypes' /\ DriverInv'
<1> DEFINE page == PageAt[Popped.url]
           T == CrawlTasks
           R == CrawlRecords
           been == visited \cup {Popped.url}
           f == Followed(page, been)
           n == [i \in DOMAIN f |-> Entry(f[i], Popped.depth + 1)]
           e == Report(page, Popped.depth)
           q == frontier
<1>1. /\ page \in CrawlUrls /\ Popped.depth \in Nat /\ cursor \in DOMAIN frontier /\ cursor \in Nat
      /\ cursor + 1 \in 1..(Len(frontier) + 1) /\ climits.depth \in Nat /\ Queued
  <2>1. Queued
    BY DEF DriverVisits, DriverWalks
  <2> QED BY <2>1, InFront
<1>2. /\ q \in Seq(T) /\ records \in Seq(R) /\ climits \in CrawlLimits /\ Behind(q, cursor, visited)
      /\ q # <<>> => LinksQueued(records, q, visited, climits.depth)
  BY DEF WalkTypes, DriverInv, DriverWalk
<1>3. /\ cpc = "walk" /\ cpc' = "walk" /\ q # <<>> /\ visited' = been /\ cursor' = cursor + 1 /\ climits' = climits
      /\ \/ records' = Append(records, e) /\ frontier' = (IF Popped.depth < climits.depth THEN q \o n ELSE q)
         \/ records' = records /\ frontier' = q
  BY DEF DriverVisits, DriverWalks, DriverInv, DriverPlace
<1>4. e \in R /\ e.page = page /\ e.depth = Popped.depth
  BY <1>1 DEF Report, CrawlRecords
<1>5. /\ n \in Seq(T)
      /\ \A i \in DOMAIN LinksOn[page] : Home(LinksOn[page][i].fromStart) /\ LinksOn[page][i].fromStart \notin been =>
           \E k \in DOMAIN n : n[k].url = LinksOn[page][i].fromStart
  <2> DEFINE u == page
             b == been
             d == Popped.depth + 1
  <2>1. u \in CrawlUrls /\ d \in Nat
    BY <1>1
  <2> HIDE DEF u, b, d, T
  <2> DEFINE m == Added(Followed(u, b), d)
  <2>2. m \in Seq(CrawlTasks) /\ HasUnknown(m, u, b)
    BY <2>1, DriverAdds
  <2>3. n = m
    BY DEF u, b, d, Added
  <2> HIDE DEF m, n
  <2> QED BY <2>2, <2>3 DEF u, b, T, HasUnknown
<1>6. visited \subseteq been
  OBVIOUS
<1> HIDE DEF n, f, e, T, R, q, page
<1>7. Len(q) \in Nat /\ DOMAIN q = 1..Len(q)
  BY <1>2, LenProperties
<1>8. ASSUME NEW p, p = q \/ p = q \o n
      PROVE  /\ p \in Seq(T) /\ Len(p) \in Nat /\ Len(q) <= Len(p) /\ DOMAIN p = 1..Len(p)
             /\ \A k \in DOMAIN q : k \in DOMAIN p /\ p[k] = q[k]
             /\ \A k \in DOMAIN p : k \in DOMAIN q \/ k > Len(q)
  <2>1. CASE p = q
    BY <1>2, <1>7, <2>1
  <2>2. CASE p = q \o n
    <3>1. /\ p \in Seq(T) /\ Len(n) \in Nat /\ Len(p) = Len(q) + Len(n) /\ DOMAIN p = 1..Len(p)
          /\ \A k \in DOMAIN q : k \in DOMAIN p /\ p[k] = q[k]
      BY <1>2, <1>5, <2>2, QueueGrows
    <3>2. \A k \in DOMAIN p : k \in DOMAIN q \/ k > Len(q)
      BY <1>7, <3>1
    <3> QED BY <1>7, <3>1, <3>2
  <2> QED BY <1>8, <2>1, <2>2
<1>9. frontier' = q \/ frontier' = q \o n
  BY <1>3
<1>10. /\ frontier' \in Seq(T) /\ Len(frontier') \in Nat /\ Len(q) <= Len(frontier') /\ DOMAIN frontier' = 1..Len(frontier')
       /\ \A k \in DOMAIN q : k \in DOMAIN frontier' /\ frontier'[k] = q[k]
       /\ \A k \in DOMAIN frontier' : k \in DOMAIN q \/ k > Len(q)
  <2> DEFINE p == frontier'
  <2>1. p = q \/ p = q \o n
    BY <1>9
  <2> HIDE DEF p
  <2>2. /\ p \in Seq(T) /\ Len(p) \in Nat /\ Len(q) <= Len(p) /\ DOMAIN p = 1..Len(p)
        /\ \A k \in DOMAIN q : k \in DOMAIN p /\ p[k] = q[k]
        /\ \A k \in DOMAIN p : k \in DOMAIN q \/ k > Len(q)
    BY <1>8, <2>1
  <2> QED BY <2>2 DEF p
<1>11. WalkTypes'
  <2>1. records' \in Seq(R)
    BY <1>2, <1>3, <1>4, OneReported
  <2>2. cursor + 1 \in 1..(Len(frontier') + 1)
    <3> DEFINE x == Len(q)
               z == Len(frontier')
               c == cursor + 1
    <3>1. x \in Nat /\ z \in Nat /\ x <= z /\ c \in 1..(x + 1)
      BY <1>1, <1>7, <1>10 DEF q
    <3> HIDE DEF x, z, c
    <3>2. c \in 1..(z + 1)
      BY <3>1
    <3> QED BY <3>2 DEF c, z
  <2> QED BY <1>2, <1>3, <1>10, <2>1, <2>2 DEF WalkTypes, T, R
<1>12. Behind(frontier', cursor', visited')
  <2> DEFINE p == frontier'
  <2>1. /\ \A k \in DOMAIN q : k \in DOMAIN p /\ p[k] = q[k]
        /\ \A k \in DOMAIN p : k \in DOMAIN q \/ k > Len(q)
        /\ DOMAIN p \subseteq Nat
    BY <1>10
  <2> HIDE DEF p
  <2>2. Behind(p, cursor + 1, been)
    BY <1>1, <1>2, <2>1, BehindGrows DEF q
  <2> QED BY <1>3, <2>2 DEF p
<1>13. frontier' # <<>>
  <2>1. cursor \in DOMAIN frontier'
    BY <1>1, <1>10 DEF q
  <2> QED BY <2>1
<1>14. LinksQueued(records, frontier', visited', climits.depth)
  <2> DEFINE p == frontier'
  <2>1. \A k \in DOMAIN q : k \in DOMAIN p /\ p[k] = q[k]
    BY <1>10
  <2> HIDE DEF p
  <2>2. LinksQueued(records, p, been, climits.depth)
    BY <1>2, <1>3, <1>6, <2>1, QueuedStays
  <2> QED BY <1>3, <2>2 DEF p
<1>15. LinksQueued(records', frontier', visited', climits.depth)
  <2>1. CASE records' = records
    BY <1>14, <2>1
  <2>2. CASE records' = Append(records, e) /\ frontier' = (IF Popped.depth < climits.depth THEN q \o n ELSE q)
    <3> DEFINE p == frontier'
               v == visited'
    <3>1. ASSUME NEW i \in DOMAIN LinksOn[e.page], e.depth < climits.depth /\ Home(LinksOn[e.page][i].fromStart)
          PROVE  LinksOn[e.page][i].fromStart \in v \/ \E k \in DOMAIN p : p[k].url = LinksOn[e.page][i].fromStart
      <4>1. p = q \o n /\ LinksOn[e.page] = LinksOn[page] /\ v = been
        BY <1>3, <1>4, <2>2, <3>1
      <4> HIDE DEF p, v
      <4>2. \A k \in DOMAIN n : \E l \in DOMAIN p : p[l] = n[k]
        <5>1. \A k \in DOMAIN n : Len(q) + k \in DOMAIN (q \o n) /\ (q \o n)[Len(q) + k] = n[k]
          BY <1>2, <1>5, QueueGrows
        <5> QED BY <4>1, <5>1
      <4>3. CASE LinksOn[e.page][i].fromStart \in been
        BY <4>1, <4>3
      <4>4. CASE LinksOn[e.page][i].fromStart \notin been
        <5>1. PICK k \in DOMAIN n : n[k].url = LinksOn[e.page][i].fromStart
          BY <1>5, <3>1, <4>1, <4>4
        <5> QED BY <4>2, <5>1
      <4> QED BY <4>3, <4>4
    <3>2. LinksQueued(records, p, v, climits.depth)
      BY <1>14
    <3> HIDE DEF p, v
    <3>3. records \in Seq(CrawlRecords) /\ e \in CrawlRecords
      BY <1>2, <1>4 DEF R
    <3>4. LinksQueued(Append(records, e), p, v, climits.depth)
      BY <3>1, <3>2, <3>3, QueuedReported
    <3> QED BY <2>2, <3>4 DEF p, v
  <2> QED BY <1>3, <2>1, <2>2
<1>16. DriverPlace' /\ DriverWalk'
  BY <1>3, <1>12, <1>13, <1>15 DEF DriverPlace, DriverWalk
<1> QED BY <1>11, <1>16 DEF DriverInv

-----------------------------------------------------------------------------
(* The driver's steps.                                                      *)
LEMMA DriverSteps ==
  ASSUME WalkTypes, DriverInv, DriverBegins \/ DriverSkips \/ DriverVisits \/ DriverWrites \/ DriverOffline
  PROVE  WalkTypes' /\ DriverInv'
<1>1. CASE DriverBegins
  <2> DEFINE e == Entry(CrawlStart, 0)
             T == CrawlTasks
  <2>1. e \in T
    BY CrawlConstants DEF Entry, CrawlTasks
  <2>2. frontier' = <<e>> /\ cpc' = "walk" /\ cursor' = 1 /\ records' = <<>> /\ climits' = climits
    BY <1>1 DEF DriverBegins, DriverInv, DriverPlace
  <2> HIDE DEF e, T
  <2>3. frontier' \in Seq(T) /\ Len(frontier') = 1 /\ DOMAIN frontier' = 1..1 /\ frontier' # <<>>
    BY <2>1, <2>2
  <2>4. WalkTypes'
    <3>1. climits \in CrawlLimits /\ records' \in Seq(CrawlRecords)
      BY <2>2, EmptySeq DEF WalkTypes
    <3>2. cursor' \in 1..(Len(frontier') + 1)
      BY <2>2, <2>3
    <3> QED BY <2>2, <2>3, <3>1, <3>2 DEF WalkTypes, T
  <2>5. DriverPlace'
    BY <2>2, <2>3 DEF DriverPlace
  <2>6. Behind(frontier', cursor', visited')
    BY <2>2, <2>3 DEF Behind
  <2>7. LinksQueued(records', frontier', visited', climits'.depth)
    BY <2>2 DEF LinksQueued
  <2> QED BY <2>4, <2>5, <2>6, <2>7 DEF DriverInv, DriverWalk
<1>2. CASE DriverSkips
  <2>1. Queued /\ cpc = "walk" /\ Popped.url \in visited /\ cursor' = cursor + 1 /\ UNCHANGED <<climits, cpc, frontier, visited, records>>
    BY <1>2 DEF DriverSkips, DriverWalks
  <2>2. WalkTypes'
    BY <2>1, NextTask
  <2>3. Behind(frontier, cursor + 1, visited)
    <3> DEFINE T == CrawlTasks
    <3>1. frontier \in Seq(T) /\ Behind(frontier, cursor, visited)
      BY DEF WalkTypes, DriverInv, DriverWalk
    <3> HIDE DEF T
    <3>2. DOMAIN frontier \subseteq Nat
      BY <3>1, LenProperties
    <3>3. Behind(frontier, cursor + 1, visited \cup {Popped.url})
      BY <2>1, <3>1, <3>2, BehindGrows
    <3>4. visited \cup {Popped.url} = visited
      BY <2>1
    <3> QED BY <3>3, <3>4
  <2>4. DriverPlace' /\ DriverWalk'
    BY <2>1, <2>3 DEF DriverInv, DriverPlace, DriverWalk
  <2> QED BY <2>2, <2>4 DEF DriverInv
<1>3. CASE DriverVisits
  BY <1>3, DriverGoesOn
<1>4. CASE DriverWrites
  <2>1. /\ cpc = "walk" /\ cpc' \in {"done", "failed"} /\ ~(Queued /\ Len(records) < climits.pages)
        /\ UNCHANGED <<climits, frontier, cursor, visited, records>>
    BY <1>4 DEF DriverWrites, Walk
  <2>2. WalkTypes' /\ DriverWalk'
    BY <2>1 DEF WalkTypes, DriverInv, DriverWalk
  <2>3. ~Queued => cursor = Len(frontier) + 1
    <3> DEFINE T == CrawlTasks
               x == Len(frontier)
    <3>1. frontier \in Seq(T) /\ cursor \in 1..(x + 1)
      BY DEF WalkTypes
    <3> HIDE DEF T
    <3>2. x \in Nat
      BY <3>1, LenProperties
    <3> HIDE DEF x
    <3>3. ~(cursor <= x) => cursor = x + 1
      BY <3>1, <3>2
    <3> QED BY <3>3 DEF Queued, x
  <2>4. DriverPlace'
    BY <2>1, <2>3 DEF DriverInv, DriverPlace
  <2> QED BY <2>2, <2>4 DEF DriverInv
<1>5. CASE DriverOffline
  <2> DEFINE e == Report(CrawlStart, 0)
             R == CrawlRecords
  <2>1. e \in R
    BY CrawlConstants DEF Report, CrawlRecords
  <2>2. /\ records' = <<e>> /\ cpc' = "done" /\ cursor = 1 /\ frontier = <<>>
        /\ UNCHANGED <<climits, frontier, cursor, visited>>
    BY <1>5 DEF DriverOffline, DriverInv, DriverPlace
  <2> HIDE DEF e, R
  <2>3. records' \in Seq(R)
    BY <2>1, <2>2
  <2>4. WalkTypes'
    BY <2>2, <2>3 DEF WalkTypes, R
  <2>5. DriverPlace' /\ DriverWalk'
    BY <2>2 DEF DriverInv, DriverPlace, DriverWalk
  <2> QED BY <2>4, <2>5 DEF DriverInv
<1> QED BY <1>1, <1>2, <1>3, <1>4, <1>5

(* The tool's steps that report no page.                                    *)
LEMMA WalkKept ==
  ASSUME ToolWalk, truncated \in BOOLEAN, truncated => truncated', UNCHANGED <<permitted, frontier, seen, records, endpoints>>
  PROVE  ToolWalk'
BY DEF ToolWalk

LEMMA FilesKept ==
  ASSUME ToolFiles, UNCHANGED <<files, records, endpoints>>
  PROVE  ToolFiles'
BY DEF ToolFiles

LEMMA NoFiles ==
  ASSUME ToolFiles, \A f \in FileNames : files[f] = <<>>, UNCHANGED files
  PROVE  ToolFiles'
BY DEF ToolFiles, FilesHold

LEMMA FilesWritten ==
  ASSUME ToolFiles, cpc \in FileNames, UNCHANGED <<records, endpoints>>, files' = [files EXCEPT ![cpc] = <<Contents[cpc]>>]
  PROVE  ToolFiles'
<1> DEFINE c == Contents
<1>1. c = [pages |-> records, openapi |-> endpoints, postman |-> endpoints]
  BY DEF Contents
<1>2. DOMAIN files = FileNames /\ \A f \in FileNames : files[f] \in {<<>>, <<c[f]>>}
  BY <1>1 DEF ToolFiles, FilesHold
<1> HIDE DEF c
<1>3. DOMAIN files' = FileNames /\ \A f \in FileNames : files'[f] \in {<<>>, <<c[f]>>}
  BY <1>2 DEF c
<1> QED BY <1>1, <1>3 DEF ToolFiles, FilesHold

(* A crawl of given HTML.                                                   *)
LEMMA OfflineSteps ==
  ASSUME WalkTypes, OfflineInv, ToolOffline \/ HostWrites
  PROVE  WalkTypes' /\ OfflineInv'
<1>0. OfflinePlace /\ QueueIsSeen(frontier, seen) /\ AllFound(records, endpoints) /\ ToolFiles
  BY DEF OfflineInv
<1>1. CASE ToolOffline
  <2> DEFINE u == CrawlStart
             e == Entry(u, 0)
             g == Report(u, 0)
             T == CrawlTasks
             R == CrawlRecords
  <2>1. /\ cpc = "begin" /\ cpc' \in {"pages", "failed"} /\ frontier' = <<e>> /\ cursor' = 2 /\ seen' = {u}
        /\ UNCHANGED <<climits, files>>
        /\ \/ endpoints' = WithEndpoints(u) /\ records' = Append(records, g)
           \/ UNCHANGED <<endpoints, records>>
    BY <1>1 DEF ToolOffline
  <2>2. u \in CrawlUrls /\ e \in T /\ e.url = u /\ g \in R /\ records \in Seq(R) /\ climits \in CrawlLimits
    BY CrawlConstants DEF Entry, Report, CrawlTasks, CrawlRecords, WalkTypes
  <2>3. AllFound(Append(records, g), WithEndpoints(u))
    BY <1>0, <2>2, FoundKept
  <2> HIDE DEF u, e, g, T, R
  <2>4. AllFound(records', endpoints')
    BY <1>0, <2>1, <2>3
  <2>5. records' \in Seq(R)
    BY <2>1, <2>2, AppendProperties
  <2>6. frontier' \in Seq(T) /\ Len(frontier') = 1 /\ DOMAIN frontier' = {1} /\ frontier'[1] = e
    BY <2>1, <2>2
  <2>7. cursor' \in 1..(Len(frontier') + 1)
    BY <2>1, <2>6
  <2>8. WalkTypes'
    BY <2>1, <2>2, <2>5, <2>6, <2>7 DEF WalkTypes, T, R
  <2>9. QueueIsSeen(frontier', seen')
    BY <2>1, <2>2, <2>6 DEF QueueIsSeen
  <2>10. \A f \in FileNames : files[f] = <<>>
    BY <1>0, <2>1 DEF OfflinePlace
  <2>11. ToolFiles'
    BY <1>0, <2>1, <2>10, NoFiles
  <2>12. OfflinePlace'
    BY <2>1 DEF OfflinePlace, Ended
  <2> QED BY <2>4, <2>8, <2>9, <2>11, <2>12 DEF OfflineInv
<1>2. CASE HostWrites
  <2>1. cpc \in FileNames /\ cpc' \in {"openapi", "postman", "done", "failed"}
        /\ UNCHANGED <<climits, cursor, permitted, frontier, seen, records, endpoints, truncated>>
        /\ (files' = files \/ files' = [files EXCEPT ![cpc] = <<Contents[cpc]>>])
    BY <1>2 DEF HostWrites, Walk, NextFile, FileNames
  <2>2. WalkTypes' /\ OfflinePlace'
    BY <2>1 DEF WalkTypes, OfflinePlace, Ended
  <2>3. ToolFiles'
    BY <1>0, <2>1, FilesKept, FilesWritten
  <2> QED BY <1>0, <2>1, <2>2, <2>3 DEF OfflineInv
<1> QED BY <1>1, <1>2

LEMMA HostSteps ==
  ASSUME WalkTypes, ToolInv, HostBegins \/ Authenticate \/ Robots \/ Seed \/ Assistant \/ HostWrites
  PROVE  WalkTypes' /\ ToolInv'
<1>0. /\ ToolPlace /\ ToolWalk /\ ToolFiles /\ truncated \in BOOLEAN
      /\ cpc \notin Ended \cup {"failed"} => \A f \in FileNames : files[f] = <<>>
  BY DEF ToolInv, ToolPlace
<1>1. CASE HostBegins
  <2>1. /\ cpc = "begin" /\ cpc' = "login" /\ frontier' = <<>> /\ cursor' = 1 /\ seen' = {} /\ records' = <<>> /\ endpoints' = <<>>
        /\ truncated' = FALSE /\ files' = files /\ climits' = climits
    BY <1>1 DEF HostBegins
  <2>2. WalkTypes'
    <3>1. climits \in CrawlLimits /\ records' \in Seq(CrawlRecords) /\ frontier' \in Seq(CrawlTasks)
      BY <2>1, EmptySeq DEF WalkTypes
    <3>2. cursor' \in 1..(Len(frontier') + 1)
      BY <2>1
    <3> QED BY <2>1, <3>1, <3>2 DEF WalkTypes
  <2>3. \A f \in FileNames : files[f] = <<>>
    BY <1>0, <2>1 DEF Ended
  <2>4. ToolPlace'
    BY <2>1, <2>3 DEF ToolPlace, Starting, Ended
  <2>5. ToolWalk'
    BY <2>1 DEF ToolWalk, QueueIsSeen, LinksSeen, AllFound
  <2>6. ToolFiles'
    BY <1>0, <2>1, <2>3, NoFiles
  <2> QED BY <2>2, <2>4, <2>5, <2>6 DEF ToolInv
<1>2. CASE Authenticate
  <2>1. cpc = "login" /\ cpc' \in {"robots", "assist"}
        /\ UNCHANGED <<climits, cursor, permitted, frontier, seen, records, endpoints, truncated, files>>
    BY <1>2 DEF Authenticate, Walk
  <2>2. WalkTypes' /\ ToolWalk' /\ ToolFiles'
    BY <1>0, <2>1, WalkKept, FilesKept DEF WalkTypes
  <2>3. ToolPlace'
    BY <1>0, <2>1 DEF ToolPlace, Starting, Ended
  <2> QED BY <2>2, <2>3 DEF ToolInv
<1>3. CASE Robots
  <2>1. cpc = "robots" /\ cpc' = "seed" /\ UNCHANGED <<climits, cursor, frontier, seen, records, endpoints, truncated, files>>
    BY <1>3 DEF Robots, Walk
  <2>2. WalkTypes' /\ ToolFiles'
    BY <1>0, <2>1, FilesKept DEF WalkTypes
  <2>3. ToolPlace' /\ records = <<>>
    BY <1>0, <2>1 DEF ToolPlace, Starting, Ended
  <2>4. ToolWalk'
    BY <1>0, <2>1, <2>3 DEF ToolWalk, LinksSeen
  <2> QED BY <2>2, <2>3, <2>4 DEF ToolInv
<1>4. CASE Seed
  <2>1. PICK url \in CrawlUrls : frontier' = <<Entry(url, 0)>> /\ seen' = {url}
    BY <1>4, CrawlConstants DEF Seed
  <2>2. cpc = "seed" /\ cpc' = "walk" /\ UNCHANGED <<climits, cursor, permitted, records, endpoints, truncated, files>>
    BY <1>4 DEF Seed
  <2>3. cursor = 1 /\ records = <<>> /\ truncated = FALSE /\ \A f \in FileNames : files[f] = <<>>
    BY <1>0, <2>2 DEF ToolPlace, Starting, Ended
  <2> DEFINE e == Entry(url, 0)
             T == CrawlTasks
  <2>4. e \in T /\ e.url = url /\ frontier' = <<e>>
    BY <2>1 DEF Entry, CrawlTasks
  <2> HIDE DEF e, T
  <2>5. frontier' \in Seq(T) /\ Len(frontier') = 1 /\ DOMAIN frontier' = {1} /\ frontier'[1] = e
    BY <2>4
  <2>6. WalkTypes'
    <3>1. cursor' \in 1..(Len(frontier') + 1)
      BY <2>2, <2>3, <2>5
    <3> QED BY <2>2, <2>5, <3>1 DEF WalkTypes, T
  <2>7. QueueIsSeen(frontier', seen')
    BY <2>1, <2>4, <2>5 DEF QueueIsSeen
  <2>8. ToolWalk'
    BY <1>0, <2>2, <2>3, <2>7 DEF ToolWalk, LinksSeen
  <2>9. ToolPlace'
    BY <1>0, <2>2, <2>3 DEF ToolPlace, Starting, Ended
  <2>10. ToolFiles'
    BY <1>0, <2>2, FilesKept
  <2> QED BY <2>6, <2>8, <2>9, <2>10 DEF ToolInv
<1>5. CASE Assistant
  <2>1. cpc = "assist" /\ cpc' \in {"begin", "failed"}
        /\ UNCHANGED <<climits, cursor, permitted, frontier, seen, records, endpoints, truncated, files>>
    BY <1>5 DEF Assistant, Walk
  <2>2. WalkTypes' /\ ToolWalk' /\ ToolFiles'
    BY <1>0, <2>1, WalkKept, FilesKept DEF WalkTypes
  <2>3. ToolPlace'
    BY <1>0, <2>1 DEF ToolPlace, Starting, Ended
  <2> QED BY <2>2, <2>3 DEF ToolInv
<1>6. CASE HostWrites
  <2>1. cpc \in FileNames /\ cpc' \in {"openapi", "postman", "done", "failed"}
        /\ UNCHANGED <<climits, cursor, permitted, frontier, seen, records, endpoints, truncated>>
        /\ (files' = files \/ files' = [files EXCEPT ![cpc] = <<Contents[cpc]>>])
    BY <1>6 DEF HostWrites, Walk, NextFile, FileNames
  <2>2. WalkTypes' /\ ToolWalk'
    BY <1>0, <2>1, WalkKept DEF WalkTypes
  <2>3. ToolPlace'
    BY <1>0, <2>1 DEF ToolPlace, Starting, Ended, FileNames
  <2>4. ToolFiles'
    <3>1. CASE files' = files
      BY <1>0, <2>1, <3>1, FilesKept
    <3>2. CASE files' = [files EXCEPT ![cpc] = <<Contents[cpc]>>]
      BY <1>0, <2>1, <3>2, FilesWritten
    <3> QED BY <2>1, <3>1, <3>2
  <2> QED BY <2>2, <2>3, <2>4 DEF ToolInv
<1> QED BY <1>1, <1>2, <1>3, <1>4, <1>5, <1>6

(* The tool's walk.                                                         *)
LEMMA WalkSteps ==
  ASSUME WalkTypes, ToolInv, ToolFails \/ ToolChallenged \/ ToolLeaves \/ ToolAgain \/ ToolRaises
  PROVE  WalkTypes' /\ ToolInv'
<1>1. /\ cpc = "walk" /\ cpc' \in {"walk", "assist", "failed"} /\ Queued /\ cursor' = cursor + 1
      /\ UNCHANGED <<climits, permitted, frontier, seen, records, endpoints, truncated, files>>
  BY DEF ToolFails, ToolChallenged, ToolLeaves, ToolAgain, ToolRaises, ToolWalks
<1>2. ToolPlace /\ ToolWalk /\ ToolFiles /\ truncated \in BOOLEAN
  BY DEF ToolInv, ToolPlace
<1>3. WalkTypes'
  BY <1>1, NextTask
<1>4. ToolWalk' /\ ToolFiles'
  BY <1>1, <1>2, WalkKept, FilesKept
<1>5. ToolPlace'
  BY <1>1, <1>2 DEF ToolPlace, Starting, Ended
<1> QED BY <1>3, <1>4, <1>5 DEF ToolInv

LEMMA ToolReports ==
  ASSUME WalkTypes, ToolInv, ToolVisits
  PROVE  WalkTypes' /\ ToolInv'
<1> DEFINE page == PageAt[Popped.url]
           n == [i \in DOMAIN Taken(page) |-> Entry(LinksOn[page][Taken(page)[i]].here, Popped.depth + 1)]
<1>1. /\ cpc = "walk" /\ cpc' = "walk" /\ Queued /\ cursor' = cursor + 1 /\ records' = Append(records, Report(page, Popped.depth))
      /\ endpoints' = WithEndpoints(page) /\ frontier' = frontier \o n
      /\ seen' = seen \cup {LinksOn[page][Taken(page)[i]].here : i \in DOMAIN Taken(page)}
      /\ truncated' = (truncated \/ Len(Taken(page)) < Len(FreshLinks(page))) /\ UNCHANGED <<climits, permitted, files>>
  BY DEF ToolVisits, ToolWalks
<1>2. ToolPlace /\ ToolWalk /\ ToolFiles /\ truncated \in BOOLEAN
  BY DEF ToolInv, ToolPlace
<1>3. page \in CrawlUrls
  BY <1>1, InFront
<1>4. WalkTypes' /\ ToolWalk'
  <2> DEFINE u == page
             m == n
  <2>1. u \in CrawlUrls /\ m = [i \in DOMAIN Taken(u) |-> Entry(LinksOn[u][Taken(u)[i]].here, Popped.depth + 1)]
    BY <1>3
  <2>2. /\ records' = Append(records, Report(u, Popped.depth)) /\ endpoints' = WithEndpoints(u) /\ frontier' = frontier \o m
        /\ seen' = seen \cup {LinksOn[u][Taken(u)[i]].here : i \in DOMAIN Taken(u)}
        /\ truncated' = (truncated \/ Len(Taken(u)) < Len(FreshLinks(u)))
    BY <1>1
  <2> HIDE DEF u, m, n, page
  <2> QED BY <1>1, <1>2, <2>1, <2>2, ToolGrows
<1>5. ToolPlace'
  <2>1. truncated' \in BOOLEAN
    <3> HIDE DEF page
    <3> QED BY <1>1, <1>2
  <2>2. \A f \in FileNames : files'[f] = <<>>
    BY <1>1, <1>2 DEF ToolPlace, Ended
  <2>3. cpc' = "walk"
    BY <1>1
  <2> QED BY <2>1, <2>2, <2>3 DEF ToolPlace, Starting, Ended
<1>6. ToolFiles'
  <2>1. (\A f \in FileNames : files[f] = <<>>) /\ UNCHANGED files
    BY <1>1, <1>2 DEF ToolPlace, Ended
  <2> QED BY <1>2, <2>1, NoFiles
<1> QED BY <1>4, <1>5, <1>6 DEF ToolInv

LEMMA ToolStops ==
  ASSUME WalkTypes, ToolInv, ToolEnds
  PROVE  WalkTypes' /\ ToolInv'
<1>1. /\ cpc = "walk" /\ cpc' \in {"pages", "failed"} /\ truncated' = (truncated \/ Queued)
      /\ UNCHANGED <<climits, cursor, permitted, frontier, seen, records, endpoints, files>>
  BY DEF ToolEnds, LeftOver
<1>2. ToolPlace /\ ToolWalk /\ ToolFiles /\ truncated \in BOOLEAN
  BY DEF ToolInv, ToolPlace
<1>3. truncated => truncated'
  BY <1>1, Zenon
<1>4. WalkTypes' /\ ToolWalk' /\ ToolFiles'
  BY <1>1, <1>2, <1>3, WalkKept, FilesKept DEF WalkTypes
<1>5. ~truncated' => cursor = Len(frontier) + 1
  <2> DEFINE T == CrawlTasks
             x == Len(frontier)
  <2>1. frontier \in Seq(T) /\ cursor \in 1..(x + 1)
    BY DEF WalkTypes
  <2> HIDE DEF T
  <2>2. x \in Nat
    BY <2>1, LenProperties
  <2> HIDE DEF x
  <2>3. ~(cursor <= x) => cursor = x + 1
    BY <2>1, <2>2
  <2>4. ~truncated' => ~(cursor <= x)
    BY <1>1 DEF Queued, x
  <2> QED BY <2>3, <2>4 DEF x
<1>6. truncated' \in BOOLEAN
  BY <1>1
<1>7. ToolPlace'
  BY <1>1, <1>2, <1>5, <1>6 DEF ToolPlace, Starting, Ended
<1> QED BY <1>4, <1>7 DEF ToolInv

(* The invariant is inductive.                                              *)
LEMMA CrawlStarts ==
  ASSUME CrawlInit
  PROVE  CrawlInv
<1>1. /\ crawler \in {"driver", "tool", "offline"} /\ climits \in CrawlLimits /\ cpc = "begin" /\ frontier = <<>> /\ cursor = 1 /\ seen = {}
      /\ records = <<>> /\ endpoints = <<>> /\ truncated = FALSE /\ files = [f \in FileNames |-> <<>>]
  BY DEF CrawlInit, FileNames
<1>2. WalkTypes
  <2>1. records \in Seq(CrawlRecords) /\ frontier \in Seq(CrawlTasks)
    BY <1>1, EmptySeq
  <2>2. cursor \in 1..(Len(frontier) + 1)
    BY <1>1
  <2> QED BY <1>1, <2>1, <2>2 DEF WalkTypes
<1>3. ToolPlace
  BY <1>1 DEF ToolPlace, Starting, Ended
<1>4. ToolWalk
  BY <1>1 DEF ToolWalk, QueueIsSeen, LinksSeen, AllFound
<1>5. ToolFiles
  BY <1>1 DEF ToolFiles, FilesHold
<1>6. DriverInv
  BY <1>1 DEF DriverInv, DriverPlace, DriverWalk, Behind
<1>7. OfflineInv
  BY <1>1, <1>4, <1>5 DEF OfflineInv, OfflinePlace, ToolWalk, Ended
<1> QED BY <1>1, <1>2, <1>3, <1>4, <1>5, <1>6, <1>7 DEF CrawlInv, ToolInv

LEMMA CrawlStep ==
  ASSUME CrawlInv, [CrawlNext]_CrawlVars
  PROVE  CrawlInv'
<1> DEFINE Drives == DriverBegins \/ DriverSkips \/ DriverVisits \/ DriverWrites \/ DriverOffline
           Hosts == HostBegins \/ Authenticate \/ Robots \/ Seed \/ Assistant \/ HostWrites
           Walks == ToolFails \/ ToolChallenged \/ ToolLeaves \/ ToolAgain \/ ToolRaises
<1>0. /\ WalkTypes /\ crawler \in {"driver", "tool", "offline"} /\ (crawler = "tool" => ToolInv) /\ (crawler = "driver" => DriverInv)
      /\ crawler = "offline" => OfflineInv
  BY DEF CrawlInv
<1>1. Drives \/ Hosts \/ Walks \/ ToolVisits \/ ToolEnds \/ ToolOffline \/ UNCHANGED CrawlVars
  BY DEF CrawlNext
<1>2. CASE Drives
  <2>1. crawler = "driver" /\ crawler' = crawler
    BY <1>2 DEF DriverBegins, DriverSkips, DriverVisits, DriverWrites, DriverOffline, DriverWalks
  <2>2. WalkTypes' /\ DriverInv'
    BY <1>0, <1>2, <2>1, DriverSteps
  <2> QED BY <2>1, <2>2 DEF CrawlInv
<1>3. CASE Hosts
  <2>1. /\ crawler' = crawler
        /\ crawler = "tool" \/ cpc \in {"login", "robots", "seed", "assist"} \/ (cpc \in {"pages", "openapi", "postman"} /\ HostWrites)
    BY <1>3 DEF HostBegins, Authenticate, Robots, Seed, Assistant, HostWrites, NextFile
  <2>2. crawler = "tool" \/ (crawler = "offline" /\ HostWrites)
    BY <1>0, <2>1 DEF DriverInv, DriverPlace, OfflineInv, OfflinePlace, Ended
  <2>3. CASE crawler = "tool"
    <3>1. WalkTypes' /\ ToolInv'
      BY <1>0, <1>3, <2>3, HostSteps
    <3> QED BY <2>1, <2>3, <3>1 DEF CrawlInv
  <2>4. CASE crawler = "offline" /\ HostWrites
    <3>1. WalkTypes' /\ OfflineInv'
      BY <1>0, <2>4, OfflineSteps
    <3> QED BY <2>1, <2>4, <3>1 DEF CrawlInv
  <2> QED BY <2>2, <2>3, <2>4
<1>4. CASE Walks
  <2>1. crawler = "tool" /\ crawler' = crawler
    BY <1>4 DEF ToolFails, ToolChallenged, ToolLeaves, ToolAgain, ToolRaises, ToolWalks
  <2>2. WalkTypes' /\ ToolInv'
    BY <1>0, <1>4, <2>1, WalkSteps
  <2> QED BY <2>1, <2>2 DEF CrawlInv
<1>5. CASE ToolVisits
  <2>1. crawler = "tool" /\ crawler' = crawler
    BY <1>5 DEF ToolVisits, ToolWalks
  <2>2. WalkTypes' /\ ToolInv'
    BY <1>0, <1>5, <2>1, ToolReports
  <2> QED BY <2>1, <2>2 DEF CrawlInv
<1>6. CASE ToolEnds
  <2>1. crawler = "tool" /\ crawler' = crawler
    BY <1>6 DEF ToolEnds
  <2>2. WalkTypes' /\ ToolInv'
    BY <1>0, <1>6, <2>1, ToolStops
  <2> QED BY <2>1, <2>2 DEF CrawlInv
<1>7. CASE UNCHANGED CrawlVars
  BY <1>0, <1>7 DEF CrawlVars, CrawlInv, WalkTypes, ToolInv, ToolPlace, ToolWalk, ToolFiles, DriverInv, DriverPlace, DriverWalk,
    OfflineInv, OfflinePlace
<1>8. CASE ToolOffline
  <2>1. crawler = "offline" /\ crawler' = crawler
    BY <1>8 DEF ToolOffline
  <2>2. WalkTypes' /\ OfflineInv'
    BY <1>0, <1>8, <2>1, OfflineSteps
  <2> QED BY <2>1, <2>2 DEF CrawlInv
<1> QED BY <1>1, <1>2, <1>3, <1>4, <1>5, <1>6, <1>7, <1>8

LEMMA CrawlInvSuffices ==
  ASSUME CrawlInv
  PROVE  CrawlAccountsForPages
<1> DEFINE T == CrawlTasks
<1>0. frontier \in Seq(T) /\ crawler \in {"driver", "tool", "offline"}
  BY DEF CrawlInv, WalkTypes
<1> HIDE DEF T
<1>1. Len(frontier) \in Nat /\ DOMAIN frontier = 1..Len(frontier)
  BY <1>0, LenProperties
<1>2. CASE crawler = "tool"
  <2>1. ToolPlace /\ ToolWalk /\ ToolFiles
    BY <1>2 DEF CrawlInv, ToolInv
  <2>2. \A i, j \in DOMAIN frontier : frontier[i].url = frontier[j].url => i = j
    BY <2>1 DEF ToolWalk, QueueIsSeen
  <2>3. ASSUME cpc \in Ended, ~truncated, NEW r \in DOMAIN records, NEW i \in DOMAIN LinksOn[records[r].page],
               Admissible(LinksOn[records[r].page][i].here)
        PROVE  LinksOn[records[r].page][i].here \in Asked
    <3> DEFINE u == LinksOn[records[r].page][i].here
    <3>1. Allowed(permitted, u)
      BY <2>3 DEF Allowed, Admissible, Permits
    <3>2. u \in seen
      BY <2>1, <2>3, <3>1 DEF ToolWalk, LinksSeen
    <3> HIDE DEF u
    <3>3. PICK k \in DOMAIN frontier : frontier[k].url = u
      BY <2>1, <3>2 DEF ToolWalk, QueueIsSeen
    <3>4. cursor = Len(frontier) + 1
      BY <2>1, <2>3 DEF ToolPlace
    <3>5. k \in 1..(cursor - 1)
      BY <1>1, <3>4
    <3>6. u \in Asked
      BY <3>3, <3>5 DEF Asked
    <3> QED BY <3>6 DEF u
  <2>4. \A r \in DOMAIN records : \A e \in FoundOn[records[r].page] :
          e.key \in DOMAIN endpoints /\ e.parameters \subseteq endpoints[e.key].parameters /\ e.confidence <= endpoints[e.key].confidence
    BY <2>1 DEF ToolWalk, AllFound
  <2>5. \A f \in DOMAIN files : files[f] \in {<<>>, <<Contents[f]>>}
    BY <2>1 DEF ToolFiles, FilesHold, Contents
  <2>6. ToolAccounts
    BY <2>2, <2>3, <2>4, <2>5 DEF ToolAccounts, Ended
  <2> QED BY <1>2, <2>6 DEF CrawlAccountsForPages
<1>3. CASE crawler = "driver"
  <2>1. DriverPlace /\ DriverWalk
    BY <1>3 DEF CrawlInv, DriverInv
  <2>2. ASSUME cpc = "done", frontier # <<>>, Len(records) < climits.pages, NEW r \in DOMAIN records,
               NEW i \in DOMAIN LinksOn[records[r].page], records[r].depth < climits.depth,
               Home(LinksOn[records[r].page][i].fromStart)
        PROVE  LinksOn[records[r].page][i].fromStart \in visited
    <3> DEFINE u == LinksOn[records[r].page][i].fromStart
    <3>1. u \in visited \/ \E k \in DOMAIN frontier : frontier[k].url = u
      BY <2>1, <2>2 DEF DriverWalk, LinksQueued
    <3>2. cursor = Len(frontier) + 1
      BY <2>1, <2>2 DEF DriverPlace
    <3> HIDE DEF u
    <3>3. \A k \in DOMAIN frontier : k < cursor
      BY <1>1, <3>2
    <3>4. u \in visited
      BY <2>1, <3>1, <3>3 DEF DriverWalk, Behind
    <3> QED BY <3>4 DEF u
  <2>3. DriverAccounts
    BY <2>2 DEF DriverAccounts
  <2> QED BY <1>3, <2>3 DEF CrawlAccountsForPages
<1>4. CASE crawler = "offline"
  <2>1. QueueIsSeen(frontier, seen) /\ AllFound(records, endpoints) /\ ToolFiles
    BY <1>4 DEF CrawlInv, OfflineInv
  <2>2. ToolAccounts
    BY <1>4, <2>1 DEF ToolAccounts, QueueIsSeen, AllFound, ToolFiles, FilesHold, Contents
  <2> QED BY <1>4, <2>2 DEF CrawlAccountsForPages
<1> QED BY <1>0, <1>2, <1>3, <1>4

(* What a crawl that ended reports can be relied on, whatever failed,       *)
(* redirected and repeated on the way, for any site and any limits: the     *)
(* tool asked for every admissible link of its pages once unless it says    *)
(* truncated or offline, its endpoints have all parameters, its files are   *)
(* of one attempt; the driver has visited every link it must follow unless it met  *)
(* its limit (lcrawler.lua, M.run; main.cpp, the retry; crawl_site.lua).    *)
THEOREM CrawlsStayAccountedFor == CrawlSpec => []CrawlAccountsForPages
<1>1. CrawlInit => CrawlInv
  BY CrawlStarts
<1>2. CrawlInv /\ [CrawlNext]_CrawlVars => CrawlInv'
  BY CrawlStep
<1>3. CrawlInv => CrawlAccountsForPages
  BY CrawlInvSuffices
<1> QED BY <1>1, <1>2, <1>3, PTL DEF CrawlSpec
=============================================================================
