----------------------------- MODULE Marionette ------------------------------
(***************************************************************************)
(* The endpoint explorer (plugins/opencode-marionette/src): an agent       *)
(* chooses among the actions a policy permits, the page acts, and after    *)
(* every action the endpoints of the page are collected, probed and merged *)
(* into what is known.  Hooks on the session deny what leaves the origin   *)
(* or exceeds the budget; a denial makes the whole run fail.               *)
(*                                                                         *)
(* An endpoint is a number, its place in the order of the keys             *)
(* "method url"; two endpoints of one path differ in their query, two of   *)
(* one template in a path parameter.                                       *)
(* Every page an admitted request leads to is of the origin.               *)
(***************************************************************************)
EXTENDS Naturals, Sequences, FiniteSets

CONSTANTS
  Catalogue,        \* the endpoints, in the order of their keys: [method, path,
                    \* template, confidence, logout, home, leaves]
  Shows,            \* the endpoints each page shows: [pages -> SUBSET endpoints]
  FormsOn,          \* the endpoints each page has a form for
  ServedAt,         \* the endpoint each page is the answer of
  FirstPage,
  Policy,           \* the permitted actions: [ids -> [kind, to, uses]]
  MaxSteps, MaxPageRequests, MaxGetProbes,
  MaxSchemas,       \* 4096 in the code
  ProbeStatus       \* the statuses of answers

VARIABLES
  mstage,     \* where main and run are
  mopts,      \* the options: offline, and no_xcors with a host it drops
  mpage,      \* the document of the session
  requests, denied, observations, probed, probes, bodies, accumulated, uses, steps,   \* locals of execute
  mtodo,      \* the endpoints of this collection that are still to be probed
  collected,  \* the endpoints of this collection
  seenBefore, \* the ones of them that were observed before it began
  action,     \* the action the page carries out
  exports,    \* what the files written report: the OpenAPI one, then the Postman one
  everObserved  \* history: the keys a collection reported with an observed response

RunVars == <<requests, denied, observations, probed, probes, bodies, accumulated, uses, steps>>
MarionetteVars == <<mstage, mopts, mpage, RunVars, mtodo, collected, seenBefore, action, exports, everObserved>>

Indices == DOMAIN Catalogue
AtHome(e) == Catalogue[e].home
MarionetteInit ==
  /\ mstage = "prepare" /\ mopts \in [offline : BOOLEAN, dropped : BOOLEAN]
  /\ mpage = FirstPage
  /\ requests = 0 /\ denied = FALSE /\ observations = {} /\ probed = {} /\ probes = 0 /\ bodies = <<>>
  /\ accumulated = <<>> /\ uses = [a \in DOMAIN Policy |-> 0] /\ steps = 0
  /\ mtodo = {} /\ collected = {} /\ seenBefore = {} /\ action = "none" /\ exports = <<>> /\ everObserved = {}

-----------------------------------------------------------------------------
(* main: options, cookies and preparation, any of which ends the program.  *)

(* parse_decisions: every action is of a known kind and has uses.          *)
ParsedPolicy == \A a \in DOMAIN Policy : Policy[a].kind \in {"navigate", "click", "type"} /\ Policy[a].uses > 0
Prepared ==
  /\ mstage = "prepare" /\ ParsedPolicy /\ mstage' = "policy"
  /\ UNCHANGED <<mopts, mpage, RunVars, mtodo, collected, seenBefore, action, exports, everObserved>>
RunFails == mstage' = "failed"
Breaks ==
  /\ mstage \in {"prepare", "policy", "collect", "create"} /\ RunFails
  /\ UNCHANGED <<mopts, mpage, RunVars, mtodo, collected, seenBefore, action, exports, everObserved>>
ProbeLimit == IF mopts.offline THEN 0 ELSE MaxGetProbes

(* execute: the policy is checked before anything happens: no navigation   *)
(* leaves the origin, every action has uses.                               *)
PolicyHolds == \A a \in DOMAIN Policy : Policy[a].uses > 0 /\ Policy[a].to \in DOMAIN Shows
PolicyChecked ==
  /\ mstage = "policy" /\ IF PolicyHolds THEN mstage' = "collect" ELSE RunFails
  /\ UNCHANGED <<mopts, mpage, RunVars, mtodo, collected, seenBefore, action, exports, everObserved>>

-----------------------------------------------------------------------------
(* The hooks.  A request is admitted or cancelled; an admitted one may be  *)
(* redirected off the origin, which is cancelled too and leaves the        *)
(* redirect as the answer; every answer is an observation.  The limit the  *)
(* observations have is the one of the requests, which is reached first.   *)

Admitted(e) == AtHome(e) /\ requests < MaxPageRequests
HookedRequest(e) == requests' = IF Admitted(e) THEN requests + 1 ELSE requests
Deny(e) == denied' = (denied \/ ~Admitted(e) \/ Catalogue[e].leaves)
AfterResponse(e) == observations' = IF Admitted(e) THEN observations \cup {e} ELSE observations
Hooks(e) == HookedRequest(e) /\ Deny(e) /\ AfterResponse(e)

-----------------------------------------------------------------------------
(* collect: the endpoints are those of the page and the observations made  *)
(* before, an observed one in place of a scraped one; what the probes of   *)
(* this collection make the hooks observe is for the next.                 *)

CollectBegins ==
  /\ mstage = "collect" /\ mstage' = "probe"
  /\ collected' = {e \in Shows[mpage] \cup observations : AtHome(e)}
  /\ seenBefore' = observations \cap collected'
  /\ mtodo' = collected' /\ bodies' = <<>>
  /\ UNCHANGED <<mopts, mpage, requests, denied, observations, probed, probes, accumulated, uses, steps, action,
                 exports, everObserved>>
NextKey == CHOOSE e \in mtodo : \A f \in mtodo : e <= f
Probes(e) == Catalogue[e].method = "get" /\ ~Catalogue[e].logout /\ e \notin probed /\ probes < ProbeLimit
Skip ==
  /\ mstage = "probe" /\ mtodo # {} /\ ~Probes(NextKey)
  /\ mtodo' = mtodo \ {NextKey}
  /\ UNCHANGED <<mstage, mopts, mpage, RunVars, collected, seenBefore, action, exports, everObserved>>
Probe ==
  LET e == NextKey
  IN  /\ mstage = "probe" /\ mtodo # {} /\ Probes(e)
      /\ mtodo' = mtodo \ {e} /\ probed' = probed \cup {e} /\ probes' = probes + 1
      /\ \/ /\ Hooks(e) /\ Admitted(e)
            /\ \E status \in IF Catalogue[e].leaves THEN {302} ELSE ProbeStatus, empty \in BOOLEAN :
                 bodies' = [f \in DOMAIN bodies \cup {e} |->
                              IF f = e THEN [status |-> status, empty |-> empty] ELSE bodies[f]]
         \/ HookedRequest(e) /\ Deny(e) /\ UNCHANGED <<observations, bodies>>      \* it throws: a warning
      /\ UNCHANGED <<mstage, mopts, mpage, accumulated, uses, steps, collected, seenBefore, action, exports, everObserved>>

(* enrich_endpoints: a body serves every endpoint of its method and path,  *)
(* the last one probed when there are several.  Endpoints of one template  *)
(* are merged into the first of them, which a later one replaces only when *)
(* its confidence is higher; a response of a status and type that is there *)
(* already is dropped.                                                     *)
ObservedConfidence == 95
Confidence(e) == IF e \in seenBefore THEN ObservedConfidence ELSE Catalogue[e].confidence
Bodies(e) == {f \in DOMAIN bodies : Catalogue[f].method = Catalogue[e].method /\ Catalogue[f].path = Catalogue[e].path}
First(set) == CHOOSE e \in set : \A f \in set : e <= f
Latest(set) == CHOOSE e \in set : \A f \in set : e >= f
Answered(e) == Bodies(e) # {} /\ ~bodies[Latest(Bodies(e))].empty
Enriched(e) ==
  IF Answered(e) THEN [status |-> bodies[Latest(Bodies(e))].status, type |-> "json", observed |-> TRUE]
  ELSE [status |-> 200, type |-> IF e \in seenBefore THEN "json" ELSE "none", observed |-> FALSE]
Known(r, s) == r.status = s.status /\ r.type = s.type
Mates(e) == {f \in collected : Catalogue[f].method = Catalogue[e].method /\ Catalogue[f].template = Catalogue[e].template}
Representative(mates) == First({e \in mates : \A f \in mates : Confidence(f) <= Confidence(e)})
MergedItem(mates) ==
  [responses |-> {Enriched(e) : e \in {m \in mates : ~\E f \in mates : f < m /\ Known(Enriched(f), Enriched(m))}},
   schema |-> \E e \in mates : e \in FormsOn[mpage]]
Groups == {Mates(e) : e \in collected}
Items == [k \in {Representative(g) : g \in Groups} |-> MergedItem(Mates(k))]

(* The merge into accumulated keeps observed responses and request schemas *)
(* the new item does not have.                                             *)
Observed(item) == \E r \in item.responses : r.observed
Replaces(old, new) == new
Merges(old, new) ==
  [responses |-> IF Observed(old) /\ ~Observed(new) THEN old.responses ELSE new.responses,
   schema |-> old.schema \/ new.schema]
Accumulate ==
  [k \in DOMAIN accumulated \cup DOMAIN Items |->
     IF k \notin DOMAIN Items THEN accumulated[k]
     ELSE IF k \in DOMAIN accumulated THEN Merges(accumulated[k], Items[k]) ELSE Items[k]]
CollectEnds ==
  /\ mstage = "probe" /\ mtodo = {}
  /\ accumulated' = Accumulate
  /\ everObserved' = everObserved \cup {k \in DOMAIN Items : Observed(Items[k])}
  /\ IF Cardinality(DOMAIN Accumulate) > MaxSchemas \/ denied THEN RunFails
     ELSE mstage' = IF action = "none" THEN "create" ELSE "decide"
  /\ UNCHANGED <<mopts, mpage, requests, denied, observations, probed, probes, bodies, uses, steps, mtodo, collected,
                 seenBefore, action, exports>>

-----------------------------------------------------------------------------
(* The agent's session, its choices, and what the page does.               *)

AgentCreated ==
  /\ mstage = "create" /\ mstage' = "decide"
  /\ UNCHANGED <<mopts, mpage, RunVars, mtodo, collected, seenBefore, action, exports, everObserved>>
(* An answer that is none of the choices, and one that does not come, fail.*)
Choose ==
  /\ mstage = "decide" /\ steps < MaxSteps
  /\ \/ \E a \in DOMAIN Policy :
          /\ uses[a] < Policy[a].uses
          /\ uses' = [uses EXCEPT ![a] = @ + 1] /\ action' = a /\ mstage' = "act"
     \/ mstage' = "stopped" /\ UNCHANGED <<uses, action>>
     \/ RunFails /\ UNCHANGED <<uses, action>>
  /\ UNCHANGED <<mopts, mpage, requests, denied, observations, probed, probes, bodies, accumulated, steps, mtodo, collected,
                 seenBefore, exports, everObserved>>
StepLimit ==
  /\ mstage = "decide" /\ steps >= MaxSteps /\ mstage' = "stopped"
  /\ UNCHANGED <<mopts, mpage, RunVars, mtodo, collected, seenBefore, action, exports, everObserved>>
(* Scripts and elements make requests while an action runs.                *)
PageRequests ==
  /\ mstage \in {"act", "acted"}
  /\ \E e \in Indices : Hooks(e) /\ (Admitted(e) \/ ~denied)
  /\ UNCHANGED <<mstage, mopts, mpage, probed, probes, bodies, accumulated, uses, steps, mtodo, collected, seenBefore, action, exports,
                 everObserved>>
(* navigate fails when its request is cancelled; a target may be missing   *)
(* or disabled.                                                            *)
CarryOut ==
  /\ mstage = "act"
  /\ \/ /\ Policy[action].kind = "navigate" /\ Hooks(ServedAt[Policy[action].to])
        /\ IF Admitted(ServedAt[Policy[action].to]) THEN mpage' = Policy[action].to /\ mstage' = "acted"
           ELSE RunFails /\ UNCHANGED mpage
     \/ /\ Policy[action].kind \in {"click", "type"}
        /\ mpage' = Policy[action].to /\ mstage' = "acted" /\ UNCHANGED <<requests, denied, observations>>
     \/ Policy[action].kind \in {"click", "type"} /\ RunFails /\ UNCHANGED <<mpage, requests, denied, observations>>
  /\ UNCHANGED <<mopts, probed, probes, bodies, accumulated, uses, steps, mtodo, collected, seenBefore, action, exports,
                 everObserved>>
Acted ==
  /\ mstage = "acted" /\ steps' = steps + 1
  /\ IF denied THEN RunFails ELSE mstage' = "collect"
  /\ UNCHANGED <<mopts, mpage, requests, denied, observations, probed, probes, bodies, accumulated, uses, mtodo, collected,
                 seenBefore, action, exports, everObserved>>

(* The result is rendered and both files are written, one after the other. *)
Reported == IF mopts.dropped THEN {} ELSE DOMAIN accumulated
Export ==
  /\ mstage = "stopped" /\ Len(exports) < 2
  /\ \/ exports' = Append(exports, Reported) /\ UNCHANGED mstage
     \/ RunFails /\ UNCHANGED exports
  /\ UNCHANGED <<mopts, mpage, RunVars, mtodo, collected, seenBefore, action, everObserved>>

MarionetteNext ==
  \/ Prepared \/ Breaks \/ PolicyChecked \/ CollectBegins \/ Skip \/ Probe \/ CollectEnds \/ AgentCreated \/ Choose
  \/ StepLimit \/ PageRequests \/ CarryOut \/ Acted \/ Export
MarionetteSpec == MarionetteInit /\ [][MarionetteNext]_MarionetteVars

-----------------------------------------------------------------------------
(* A run that ends with a result never left its origin or its budget,      *)
(* whichever of the page, the actions or the probes tried to, and reports  *)
(* an observed response for every endpoint that some collection reported   *)
(* one for, although later collections do not probe it again, find other   *)
(* mates of its template or see it from a page without it (marionette.cpp, *)
(* the hooks and the merge in collect).                                    *)
ResultsAreHonest ==
  mstage = "stopped" =>
    /\ ~denied
    /\ \A k \in everObserved : k \in DOMAIN accumulated /\ Observed(accumulated[k])
=============================================================================
