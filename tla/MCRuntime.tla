------------------------------ MODULE MCRuntime ------------------------------
(***************************************************************************)
(* The parts of the runtime, side by side: the handles of the Lua runtime, *)
(* the plugin host, the stores, the way of a page to paper, the discovery  *)
(* of the API behind a page, Beacon's broker and addon, the document       *)
(* scripts work on, their handles and their engine, what the shim gives a  *)
(* page of requests, window and codecs, and the layout.  As in MCServices  *)
(* a behaviour is one of one of them, chosen by part; only safety is       *)
(* checked of them.                                                        *)
(***************************************************************************)
EXTENDS LuaHandles, PluginHost, DurableStorage, PagePrint, Discovery, Beacon, PageDom, BoxLayout, ScriptHost, ScriptEngine,
        PageRequests, WindowState, TextCodec

(* Two hosts, one under the other, and cookies of every kind of scope.     *)
CONSTANTS site, www
StoreDomains == {site, www}
StorePairs == {<<www, site>>}
StorePaths == {<<"/", "/">>, <<"/p", "/">>, <<"/p", "/p">>}
StoreOrigins == {[host |-> www, https |-> TRUE, path |-> "/p"], [host |-> site, https |-> FALSE, path |-> "/"]}
NewCookie(d, p, s, e) == [name |-> "n", domain |-> d, path |-> p, secure |-> s, expires |-> e]
StoreCookies ==
  { NewCookie("", "/", FALSE, 99), NewCookie(site, "/", FALSE, 1),
    NewCookie(www, "/p", TRUE, 99), NewCookie(www, "/p", FALSE, 0) }

(* Documents that wrap lines, break pages, hide subtrees, mix font sizes,  *)
(* have text and comments outside elements, nest too deeply, and have      *)
(* blocks whose padding and height lead into the next page's margin.       *)
El(t, d, names, a) == [kind |-> "element", tag |-> t, depth |-> d, names |-> {t} \cup names, attrs |-> a, words |-> 0]
Tx(d, w) == [kind |-> "text", tag |-> "#text", depth |-> d, names |-> {}, attrs |-> 0, words |-> w]
Cm(d) == [kind |-> "comment", tag |-> "#comment", depth |-> d, names |-> {}, attrs |-> 0, words |-> 0]
PrintDocs ==
  { <<El("p", 0, {}, 1), Tx(1, 5), El("b", 1, {".big"}, 1), Tx(2, 3), Tx(1, 2), Cm(0), El("p", 0, {"#x"}, 2), Tx(1, 2)>>,
    <<Tx(0, 2), El("p", 0, {}, 0), Tx(1, 1), Tx(1, 0)>>,
    <<El("head", 0, {}, 0), El("b", 1, {}, 0), Tx(2, 1), El("p", 0, {}, 0), El("p", 1, {".big"}, 1), Tx(2, 4),
      El("p", 1, {".big", "#x"}, 0), Tx(2, 3), El("p", 1, {}, 0), El("b", 2, {"#x"}, 0), Tx(3, 6)>>,
    <<El("b", 0, {}, 0), El("b", 1, {}, 0), El("b", 2, {}, 0), El("b", 3, {}, 0), El("b", 4, {}, 0), Tx(5, 1)>>,
    <<El("p", 0, {}, 0), Tx(1, 2), El("p", 0, {"#tall"}, 0), Tx(1, 3), El("p", 1, {"#deep"}, 0), Tx(2, 2), Tx(1, 1),
      El("p", 0, {"#x"}, 0), Tx(1, 3)>>,
    <<El("p", 0, {"#tall"}, 0), El("p", 1, {"#deep"}, 0), Tx(2, 4), Tx(1, 3), El("p", 0, {".big"}, 0), Tx(1, 2)>>,
    <<>> }
PrintSheet ==
  << [of |-> "#x", tier |-> 3, property |-> "margin", value |-> 2],
     [of |-> ".big", tier |-> 2, property |-> "size", value |-> 3],
     [of |-> "b", tier |-> 1, property |-> "size", value |-> 2],
     [of |-> ".big", tier |-> 2, property |-> "margin", value |-> 1],
     [of |-> "#tall", tier |-> 3, property |-> "height", value |-> 6],
     [of |-> "#deep", tier |-> 3, property |-> "padding", value |-> 5] >>
TagStyle(d, s, m, p) == [display |-> d, size |-> s, height |-> 0, margin |-> m, padding |-> p]
PrintDefaults ==
  [t \in {"p", "b", "head"} |->
    CASE t = "p" -> TagStyle("block", 0, 1, 1)
      [] t = "b" -> TagStyle("inline", 0, 0, 0)
      [] OTHER -> TagStyle("none", 0, 0, 0)]

(* Every page of at most two of these mentions: the same path under two    *)
(* methods, relative, absolute and foreign URLs, every way to write a      *)
(* call; and a site whose answers link on, redirect and hold forms.        *)
Url(h, p, q) == [host |-> h, path |-> p, query |-> q]
Says(from, how, method, url, fields, type) ==
  [from |-> from, how |-> how, method |-> method, url |-> url, fields |-> fields, type |-> type]
SiteMentions ==
  { Says("link", "", "get", Url("", 1, {"q"}), {}, ""), Says("link", "", "get", Url("", 7, {}), {}, ""),
    Says("network", "", "get", Url("home", 3, {}), {}, "json"), Says("form", "", "post", Url("", 3, {}), {"f"}, ""),
    Says("file", "fetch", "get", Url("", 1, {}), {}, ""), Says("inline", "fetch", "post", Url("", 4, {}), {"b"}, ""),
    Says("attribute", "", "get", Url("", 2, {"r"}), {}, ""), Says("inline", "open", "get", Url("cdn", 6, {}), {}, ""),
    Says("file", "beacon", "get", Url("", 6, {}), {}, ""), Says("resource", "", "get", Url("home", 5, {}), {}, ""),
    Says("inline", "object", "post", Url("", 2, {"r"}), {}, ""), Says("inline", "ajax-type", "post", Url("", 1, {}), {}, ""),
    Says("inline", "typed", "post", Url("", 6, {}), {}, ""), Says("inline", "helper", "post", Url("", 3, {}), {"h"}, ""),
    Says("inline", "string", "get", Url("", 2, {"r"}), {}, "") }
SitePages == UNION {[1..n -> SiteMentions] : n \in 0..2}
Reply(n, type, host, links, answerPage, rows) ==
  [status |-> n, type |-> type, host |-> host, links |-> links, page |-> answerPage,
   body |-> [kind |-> CASE type = "html" -> "text" [] type = "text" -> "empty"
                          [] OTHER -> IF Len(rows) = 1 THEN "object" ELSE "array", rows |-> rows]]
SiteAnswer(u) ==
  CASE u.path = 3 -> Reply(200, "json", "home", <<Url("", 1, {}), Url("", 6, {}), Url("cdn", 2, {}), Url("", 5, {})>>,
                           <<>>, <<<<"a", "b", "c">>>>)
    [] u.path = 1 -> Reply(200, "html", "home", <<Url("", 2, {}), Url("", 7, {})>>,
                           <<Says("form", "", "post", Url("", 2, {}), {"g"}, ""),
                             Says("inline", "fetch", "post", Url("cdn", 4, {}), {}, "")>>, <<>>)
    [] u.path = 6 -> Reply(200, "json", "cdn", <<Url("", 3, {}), Url("home", 1, {})>>, <<>>, <<<<"a">>, <<"b", "c">>>>)
    [] OTHER -> Reply(404, "text", u.host, <<>>, <<>>, <<>>)
SiteTemplate(p) == IF p = 2 THEN 1 ELSE p

(* Two Flashes, of which one asks for a page that is open.                 *)
CONSTANTS flash1, flash2, tab1
OpenTabs == {<<flash1, tab1>>}

(* A form with radio buttons, an open dialog with a form, details with a   *)
(* checkbox, and a page with a link, a field and a script that is not in   *)
(* the tree; on each of them someone listens already, to what the timers   *)
(* fire as well.                                                           *)
CONSTANTS d1, d2, d3, d4
ListenerSort(type, callback, capture, once, passive, with) ==
  [type |-> type, callback |-> callback, capture |-> capture, once |-> once, passive |-> passive, signal |-> with]
DomHeard ==
  << ListenerSort("click", "g", FALSE, FALSE, TRUE, FALSE), ListenerSort("click", "f", FALSE, TRUE, FALSE, TRUE),
     ListenerSort("change", "f", TRUE, FALSE, FALSE, FALSE), ListenerSort("toggle", "f", TRUE, TRUE, FALSE, FALSE),
     ListenerSort("close", "f", TRUE, FALSE, FALSE, FALSE) >>
DomSorts == {DomHeard[2], DomHeard[4]}
DomPage(kinds, under, on, hears) ==
  [kind |-> [n \in DomNodes |-> CASE n = d1 -> "body" [] n = d2 -> kinds[1] [] n = d3 -> kinds[2] [] OTHER -> kinds[3]],
   kids |-> [n \in DomNodes |-> CASE n = d1 -> under[1] [] n = d2 -> under[2] [] n = d3 -> under[3] [] OTHER -> <<>>],
   flags |-> [n \in DomNodes |-> IF n \in on THEN {"checked", "open"} ELSE {}],
   listeners |-> [p \in DomNodes \cup {"document", "window"} |-> IF p \in hears THEN DomHeard ELSE <<>>]]
DomSite ==
  { DomPage(<<"form", "radio", "radio">>, <<<<d2>>, <<d3, d4>>, <<>>>>, {d3}, {d2}),
    DomPage(<<"dialog", "dialog-form", "submit">>, <<<<d2>>, <<d3>>, <<d4>>>>, {d2}, {d4, "document"}),
    DomPage(<<"details", "summary", "checkbox">>, <<<<d2>>, <<d3, d4>>, <<>>>>, {}, {"document"}),
    DomPage(<<"anchor", "text", "script">>, <<<<d2, d3>>, <<>>, <<>>>>, {}, {"window"}) }

(* A clipped element between text and a box, with another clipped element  *)
(* in it or not, in lines of every alignment and in flex rows that wrap,   *)
(* reverse, stretch and overflow.                                          *)
PlainBox ==
  [display |-> "block", width |-> AutoLength, height |-> AutoLength, minWidth |-> AutoLength, maxWidth |-> AutoLength, minHeight |-> AutoLength, maxHeight |-> AutoLength,
   borderBox |-> FALSE, pad |-> 0, ml |-> 0, mr |-> 0, mt |-> 0, mb |-> 0, autoL |-> FALSE, autoR |-> FALSE, hidden |-> FALSE,
   align |-> "start", wrap |-> TRUE, visible |-> TRUE, atomic |-> FALSE, relX |-> 0, relY |-> 0, grow |-> 0, shrink |-> 1, basis |-> AutoLength,
   wraps |-> FALSE, reverse |-> FALSE, justify |-> "start", alignItems |-> "stretch", alignSelf |-> "", order |-> 0, gap |-> 0]
Hides(display) == [PlainBox EXCEPT !.display = display, !.hidden = TRUE]
BoxNode(tag, up, style, words) ==
  [tag |-> tag, parent |-> up, style |-> style, words |-> words, open |-> FALSE, disabled |-> FALSE, interactive |-> tag = "a"]
OuterBoxes ==
  {[PlainBox EXCEPT !.width = 6, !.align = a, !.pad = p] : a \in {"start", "center", "end"}, p \in {0, 1}}
  \cup {[PlainBox EXCEPT !.display = "flex", !.width = 6, !.justify = j, !.reverse = r, !.alignItems = al, !.height = h, !.gap = 1] :
          j \in {"end", "space-around"}, r \in BOOLEAN, al \in {"stretch", "end"}, h \in {AutoLength, 3}}
  \cup {[PlainBox EXCEPT !.display = "flex", !.width = 4, !.wraps = TRUE, !.justify = j] : j \in {"space-between", "space-evenly", "center"}}
InnerBoxes ==
  {[Hides(d) EXCEPT !.width = 3, !.height = h] : d \in {"block", "inline-block", "flex"}, h \in {AutoLength, 1}}
  \cup {[Hides("inline-block") EXCEPT !.borderBox = TRUE, !.pad = 1, !.maxHeight = 3, !.grow = 1],
        [Hides("block") EXCEPT !.maxWidth = 4, !.mt = 1, !.autoL = TRUE, !.autoR = TRUE, !.relY = 1],
        [Hides("list-item") EXCEPT !.ml = 2, !.alignSelf = "center", !.order = 1, !.shrink = 0],
        [Hides("inline-block") EXCEPT !.atomic = TRUE, !.height = 2], Hides("inline"), Hides("none")}
LinkBoxes == {[PlainBox EXCEPT !.display = d, !.wrap = w] : d \in {"inline", "inline-block"}, w \in BOOLEAN}
             \cup {[Hides("inline-block") EXCEPT !.width = 2, !.relX = 1], [Hides("block") EXCEPT !.height = 1]}
LaidSet == {<<>>} \cup
  { << BoxNode("div", 0, outer, <<>>), BoxNode("#text", 1, PlainBox, <<1, 0>>), BoxNode("div", 1, inner, <<>>),
       BoxNode("a", 3, link, <<>>), BoxNode("#text", 4, PlainBox, <<2, 0, 4>>),
       BoxNode("div", 1, [PlainBox EXCEPT !.display = "inline-block", !.width = 2, !.mb = 1], <<>>) >> :
      outer \in OuterBoxes, inner \in InnerBoxes, link \in LinkBoxes }

(* Two documents and a fragment; queries that size, orientation and        *)
(* negation decide, and one with a part that is not understood.            *)
PageAt(d, h) == [doc |-> d, hash |-> h]
WindowUrls == {PageAt(1, 0), PageAt(1, 1), PageAt(2, 0)}
Screen(w, h) == [width |-> w, height |-> h, ratio |-> 1]
WindowSizes == {Screen(4, 2), Screen(4, 6), Screen(2, 2)}
Part(of, is, wanted) == [of |-> of, is |-> is, wanted |-> wanted]
Alternative(parts, negate) == [parts |-> parts, negate |-> negate]
WindowQueries ==
  { <<Alternative({Part("width", "min", 3), Part("screen", "type", 0)}, FALSE),
      Alternative({Part("ratio", "exactly", 1), Part("dark", "preference", 0)}, FALSE)>>,
    <<Alternative({Part("portrait", "orientation", 0)}, TRUE), Alternative({Part("hover", "unknown", 0)}, TRUE),
      Alternative({Part("height", "max", 1)}, FALSE)>> }

(* Texts of at most three of these bytes, whole or cut characters among    *)
(* them, marks, overlong forms and surrogates; and of two of these units.  *)
CodecBytes == {65, 195, 224, 239, 187, 191, 244}
CodecByteTexts == UNION {[1..n -> CodecBytes] : n \in 0..3} \cup
  {<<239, 187, 191, 65>>, <<240, 159, 152, 128>>, <<244, 191, 191, 191, 65>>, <<237, 160, 128, 195, 169>>, <<239, 187, 191, 239, 187, 191>>}
CodecUnitTexts == UNION {[1..n -> {65, 233, 2048, 65279, 65535, 55357, 56832}] : n \in 1..2}
MakesDecoder(encoding, fatal, ignoreBOM) == [encoding |-> encoding, fatal |-> fatal, ignoreBOM |-> ignoreBOM]
CodecKinds == {MakesDecoder("utf-8", FALSE, FALSE), MakesDecoder("utf-8", TRUE, FALSE), MakesDecoder("utf-8", FALSE, TRUE),
               MakesDecoder("windows-1252", FALSE, FALSE)}

VARIABLE part
RuntimeVars ==
  <<LuaVars, HostVars, StoreVars, PrintVars, DiscoveryVars, BeaconVars, DomVars, BoxVars, ScriptHostVars, EngineVars,
    RequestVars, WindowVars, CodecVars, part>>

RuntimeInit ==
  /\ part \in {"lua", "plugins", "stores", "print", "discovery", "beacon", "dom", "layout", "handles", "engine",
              "requests", "window", "codec"}
  /\ (IF part = "layout" THEN TRUE ELSE bpage = <<>>) /\ BoxInit
  /\ LuaInit /\ ScriptHostInit /\ EngineInit /\ RequestInit
  /\ HostInit
  /\ StoreInit
  /\ (IF part = "print" THEN TRUE ELSE doc = <<>> /\ fmt = "events" /\ tool = "page2pdf") /\ PrintInit
  /\ (IF part = "discovery" THEN TRUE ELSE mention = <<>> /\ kit = "schema") /\ DiscoveryInit
  /\ (IF part = "window" THEN TRUE ELSE viewport = Screen(4, 2) /\ loadedUrl = PageAt(1, 0)) /\ WindowInit
  /\ (IF part = "codec" THEN TRUE ELSE units = <<>> /\ bytes = <<>> /\ decoder = MakesDecoder("utf-8", FALSE, FALSE)) /\ CodecInit
  /\ BeaconInit
  /\ DomInit /\ (part # "dom" => kind[d2] = "form")

RuntimeNext ==
  /\ \/ part = "lua" /\ LuaNext
        /\ UNCHANGED <<HostVars, StoreVars, PrintVars, DiscoveryVars, BeaconVars, DomVars, BoxVars, ScriptHostVars,
                       EngineVars, RequestVars, WindowVars, CodecVars>>
     \/ part = "plugins" /\ HostNext
        /\ UNCHANGED <<LuaVars, StoreVars, PrintVars, DiscoveryVars, BeaconVars, DomVars, BoxVars, ScriptHostVars,
                       EngineVars, RequestVars, WindowVars, CodecVars>>
     \/ part = "stores" /\ StoreNext
        /\ UNCHANGED <<LuaVars, HostVars, PrintVars, DiscoveryVars, BeaconVars, DomVars, BoxVars, ScriptHostVars,
                       EngineVars, RequestVars, WindowVars, CodecVars>>
     \/ part = "print" /\ PrintNext
        /\ UNCHANGED <<LuaVars, HostVars, StoreVars, DiscoveryVars, BeaconVars, DomVars, BoxVars, ScriptHostVars,
                       EngineVars, RequestVars, WindowVars, CodecVars>>
     \/ part = "discovery" /\ DiscoveryNext
        /\ UNCHANGED <<LuaVars, HostVars, StoreVars, PrintVars, BeaconVars, DomVars, BoxVars, ScriptHostVars,
                       EngineVars, RequestVars, WindowVars, CodecVars>>
     \/ part = "beacon" /\ BeaconNext
        /\ UNCHANGED <<LuaVars, HostVars, StoreVars, PrintVars, DiscoveryVars, DomVars, BoxVars, ScriptHostVars,
                       EngineVars, RequestVars, WindowVars, CodecVars>>
     \/ part = "dom" /\ DomNext
        /\ UNCHANGED <<LuaVars, HostVars, StoreVars, PrintVars, DiscoveryVars, BeaconVars, BoxVars, ScriptHostVars,
                       EngineVars, RequestVars, WindowVars, CodecVars>>
     \/ part = "layout" /\ BoxNext
        /\ UNCHANGED <<LuaVars, HostVars, StoreVars, PrintVars, DiscoveryVars, BeaconVars, DomVars, ScriptHostVars,
                       EngineVars, RequestVars, WindowVars, CodecVars>>
     \/ part = "handles" /\ ScriptHostNext
        /\ UNCHANGED <<LuaVars, HostVars, StoreVars, PrintVars, DiscoveryVars, BeaconVars, DomVars, BoxVars,
                       EngineVars, RequestVars, WindowVars, CodecVars>>
     \/ part = "engine" /\ EngineNext
        /\ UNCHANGED <<LuaVars, HostVars, StoreVars, PrintVars, DiscoveryVars, BeaconVars, DomVars, BoxVars,
                       ScriptHostVars, RequestVars, WindowVars, CodecVars>>
     \/ part = "requests" /\ RequestNext
        /\ UNCHANGED <<LuaVars, HostVars, StoreVars, PrintVars, DiscoveryVars, BeaconVars, DomVars, BoxVars,
                       ScriptHostVars, EngineVars, WindowVars, CodecVars>>
     \/ part = "window" /\ WindowNext
        /\ UNCHANGED <<LuaVars, HostVars, StoreVars, PrintVars, DiscoveryVars, BeaconVars, DomVars, BoxVars,
                       ScriptHostVars, EngineVars, RequestVars, CodecVars>>
     \/ part = "codec" /\ CodecNext
        /\ UNCHANGED <<LuaVars, HostVars, StoreVars, PrintVars, DiscoveryVars, BeaconVars, DomVars, BoxVars,
                       ScriptHostVars, EngineVars, RequestVars, WindowVars>>
  /\ UNCHANGED part

RuntimeSpec == RuntimeInit /\ [][RuntimeNext]_RuntimeVars
=============================================================================
