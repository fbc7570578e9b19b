----------------------------- MODULE MCDrivers -------------------------------
(***************************************************************************)
(* What a driver calls, and what may call it back: a session whose         *)
(* handlers call any operation of it again, the socket client under it,    *)
(* and the login helpers, the crawlers, the clients of agents, the         *)
(* endpoint explorer and the CDP server above it, with the JSON they speak *)
(* and the rpc module for pages that speak it themselves.  Each module has *)
(* what the others do to it among its own choices, so a behaviour is one   *)
(* of one of them: chosen is fixed at the start and the others stay as     *)
(* they are.                                                               *)
(***************************************************************************)
EXTENDS Session, OpenCode, Marionette, Login, Transport, Crawlers, CdpServer, RpcModule, TLC

CONSTANTS uLogin, uNext, uPartner, uForeign, uAccount, pHome, pList, pItem, pMoved, pOut, pAlso

(* Six endpoints: two queries of one path and another path of the template, *)
(* a logout, a form that leaves the origin, and one of another origin.      *)
Found(method, path, template, confidence) ==
  [method |-> method, path |-> path, template |-> template, confidence |-> confidence, logout |-> path = 3,
   home |-> path # 5, leaves |-> method = "post"]
Endpoints6 == <<Found("get", 1, 1, 60), Found("get", 1, 1, 80), Found("get", 2, 1, 60), Found("get", 3, 2, 80),
                Found("post", 4, 3, 80), Found("get", 5, 4, 80)>>
ShownOn == ("home" :> {1, 4, 6}) @@ ("list" :> {1, 2, 5})
FormsShown == ("home" :> {}) @@ ("list" :> {5})
PageUrls == ("home" :> 4) @@ ("list" :> 3)
Permitted == ("open" :> [kind |-> "navigate", to |-> "list", uses |-> 1]) @@ ("tab" :> [kind |-> "click", to |-> "home", uses |-> 1])

(* Login pages: a name first, then a password; a form of its own origin,    *)
(* of a foreign one, of a trusted partner.                                  *)
LoginPages == {uLogin, uNext, uPartner, uForeign}
LoginHosts == [u \in LoginPages |-> CASE u \in {uLogin, uNext} -> 1 [] u = uPartner -> 2 [] u = uForeign -> 3] @@ (uAccount :> 4)
AForm(dom, post, to, user, pass) == [dom |-> dom, post |-> post, action |-> to, user |-> user, pass |-> pass]
LoginForms == {AForm(TRUE, TRUE, NoUrl, TRUE, FALSE), AForm(FALSE, TRUE, uNext, TRUE, TRUE), AForm(TRUE, TRUE, uForeign, TRUE, TRUE),
               AForm(TRUE, TRUE, uPartner, FALSE, TRUE), AForm(FALSE, FALSE, NoUrl, TRUE, TRUE)}

(* Responses shorter than, as long as and longer than the limit of three,   *)
(* with line ends inside and at the border of a chunk, and one that         *)
(* announces all a size_t counts and contains what looks like a last chunk. *)
HttpAnswer(framing, b, chunks) == [framing |-> framing, body |-> b, chunks |-> chunks]
HttpAnswers == {HttpAnswer("chunked", <<Byte(1), Eol, Byte(2)>>, <<2, 1>>), HttpAnswer("chunked", <<Eol, Byte(1)>>, <<2>>),
            HttpAnswer("chunked", <<Byte(1), Eol, Byte(2), Byte(3)>>, <<2, 2>>),
            HttpAnswer("chunked", <<Byte(1), Token("size", 0), Eol, Eol>> \o [n \in 1..12 |-> Byte(2)], <<1, 15>>),
            HttpAnswer("length", <<Byte(1), Eol>>, <<>>), HttpAnswer("length", <<Byte(1), Eol, Byte(2), Byte(3)>>, <<>>),
            HttpAnswer("close", <<Byte(1), Eol>>, <<>>), HttpAnswer("close", <<Byte(1), Eol, Byte(2), Byte(3)>>, <<>>)}

(* A site: the home page links to a list, to an item and to itself; the     *)
(* item and a moved address of it link back; one address leads to the       *)
(* partner's origin; robots.txt disallows the list.                         *)
SitePages == {pHome, pList, pItem, pMoved, pOut, pAlso}
SiteOrigins == [u \in SitePages |-> IF u = pAlso THEN 2 ELSE 1]
LeadsTo == [u \in SitePages |-> CASE u = pMoved -> pItem [] u = pOut -> pAlso [] OTHER -> u]
Linked(u) == [here |-> u, fromStart |-> u]
SiteLinks == [u \in SitePages |->
  CASE u = pHome -> <<Linked(pHome), Linked(pMoved), Linked(pList), Linked(pMoved), Linked(pAlso)>>
    [] u = pItem -> <<Linked(pList), [here |-> pItem, fromStart |-> pOut]>>
    [] u = pList -> <<Linked(pItem), Linked(pOut)>>
    [] OTHER -> <<>>]
Api(key, confidence, parameters) == [key |-> key, confidence |-> confidence, parameters |-> parameters]
SiteApis == [u \in SitePages |-> CASE u = pHome -> {Api(1, 1, {"q"})} [] u = pItem -> {Api(1, 2, {"id"}), Api(2, 1, {})} [] OTHER -> {}]
Limits(pages, level, size, sends) == [pages |-> pages, depth |-> level, frontier |-> size, requests |-> sends]
SiteLimits == {Limits(5, 3, 5, 9), Limits(3, 2, 5, 6), Limits(5, 1, 5, 9), Limits(5, 3, 2, 9)}

(* Strings with all that is escaped and all that is not UTF-8, numbers     *)
(* with more digits than are printed, too small and too large to be        *)
(* printed plainly, arrays too deep for some, and a repeated name.         *)
Decimals(negative, digits, ten) == JNumber([negative |-> negative, digits |-> digits, ten |-> ten])
Lexemes == {"quote", "[", "]", "{", "}", ",", ":", " ", "vt", "nl", "null", "0", "1", "-", "+", ".", "e", "a", "byte",
            "\\quote", "\\n", "\\u0061", "\\u+061", "\\q", "\\ud83d", "\\ude00"}
SomeValues ==
  { JString(<<"quote", "\\", "a">>), JString(<<"nl", "vt">>), JString(<<"wide", "byte">>),
    Decimals(FALSE, 112, -2), Decimals(FALSE, 1, -6), Decimals(TRUE, 12, 3), Decimals(TRUE, 1, -2),
    JArray(<<JArray(<<JArray(<<>>)>>), JBool(TRUE), JNull>>), JArray(<<JArray(<<JArray(<<JNull>>)>>)>>),
    JObject(<<JMember(<<"a">>, Decimals(FALSE, 0, 0)), JMember(<<"a">>, JString(<<"high">>))>>),
    JObject(<<JMember(<<"nl">>, JArray(<<Decimals(FALSE, 1, 1)>>)), JMember(<<"a">>, JObject(<<>>))>>) }
(* Ids of the same number under several spellings, of the largest safe     *)
(* integer and beyond it, of fractions that round to integers, and zeros.  *)
PageIds == {NullId, NameId(<<"1">>), NumberId(<<"1", ".", "0">>), NumberId(<<"1", "1", ".", "1">>)}
OtherSpellings ==
  { NumberId(<<"1", "e", "0">>), NumberId(<<"9", "9", ".", "9">>), NumberId(<<"0", ".", "0", "e", "-", "3">>), NumberId(<<"-", "0">>),
    NumberId(<<"9", "9">>), NumberId(<<"1", "e", "2">>), NumberId(<<"1", "1", "1", "e", "-", "1">>), NumberId(<<"1", "2", "0", "e", "-", "1">>) }
ErrorCodes == {NumberId(<<"0", ".", "1">>)}

VARIABLE chosen
DriversVars == <<vars, OpenCodeVars, MarionetteVars, LoginVars, TransportVars, CrawlVars, CdpServerVars, JsonVars, RpcVars, chosen>>

(* What a part that is not chosen was configured with is not looked at.     *)
DriversInit ==
  /\ OpenCodeInit /\ MarionetteInit /\ LoginInit /\ TransportInit /\ CrawlInit /\ CdpServerInit /\ JsonInit /\ RpcInit
  /\ Init
  /\ chosen \in {"session", "agents", "explorer", "login", "socket", "crawl", "client", "json", "rpc"}
  /\ chosen # "agents" => flavour = "v2"
  /\ chosen # "explorer" => ~mopts.offline /\ ~mopts.dropped
  /\ chosen # "login" => lmode = "form" /\ ~lopts.follows /\ ~lopts.policy
  /\ chosen # "socket" => treq.https /\ treq.ws
  /\ chosen # "crawl" => crawler = "driver" /\ climits = Limits(5, 1, 5, 9)

DriversNext ==
  /\ \/ chosen = "session" /\ Next /\ UNCHANGED <<OpenCodeVars, MarionetteVars, LoginVars, TransportVars, CrawlVars, CdpServerVars, JsonVars, RpcVars>>
     \/ chosen = "agents" /\ OpenCodeNext /\ UNCHANGED <<vars, MarionetteVars, LoginVars, TransportVars, CrawlVars, CdpServerVars, JsonVars, RpcVars>>
     \/ chosen = "explorer" /\ MarionetteNext /\ UNCHANGED <<vars, OpenCodeVars, LoginVars, TransportVars, CrawlVars, CdpServerVars, JsonVars, RpcVars>>
     \/ chosen = "login" /\ LoginNext /\ UNCHANGED <<vars, OpenCodeVars, MarionetteVars, TransportVars, CrawlVars, CdpServerVars, JsonVars, RpcVars>>
     \/ chosen = "socket" /\ TransportNext /\ UNCHANGED <<vars, OpenCodeVars, MarionetteVars, LoginVars, CrawlVars, CdpServerVars, JsonVars, RpcVars>>
     \/ chosen = "crawl" /\ CrawlNext /\ UNCHANGED <<vars, OpenCodeVars, MarionetteVars, LoginVars, TransportVars, CdpServerVars, JsonVars, RpcVars>>
     \/ chosen = "client" /\ CdpServerNext /\ UNCHANGED <<vars, OpenCodeVars, MarionetteVars, LoginVars, TransportVars, CrawlVars, JsonVars, RpcVars>>
     \/ chosen = "json" /\ JsonNext
        /\ UNCHANGED <<vars, OpenCodeVars, MarionetteVars, LoginVars, TransportVars, CrawlVars, CdpServerVars, RpcVars>>
     \/ chosen = "rpc" /\ RpcNext
        /\ UNCHANGED <<vars, OpenCodeVars, MarionetteVars, LoginVars, TransportVars, CrawlVars, CdpServerVars, JsonVars>>
  /\ UNCHANGED chosen

DriversSpec == DriversInit /\ [][DriversNext]_DriversVars
=============================================================================
