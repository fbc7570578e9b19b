------------------------------- MODULE Cascade ------------------------------
(***************************************************************************)
(* Which CSS declaration wins: the stylesheet parser, the rules bucketed   *)
(* by the key of their last compound, the cascade of each element over the *)
(* buckets, which stand in a hash map and come in any order, the inline    *)
(* style, the shorthands, and the computed style with what is inherited    *)
(* (src/core/render/css_parser.cpp and style_resolver.cpp).                *)
(*                                                                         *)
(* A property is a tuple, <<"margin", "left">>, a value a sequence of      *)
(* tokens.  A selector is a sequence of compounds, each inside the one     *)
(* before.  Class attributes are sequences of characters, since the        *)
(* buckets look for a substring.                                           *)
(***************************************************************************)
EXTENDS Integers, Sequences, FiniteSets, SequencesExt, TLC

CONSTANTS
  AgentSheet,       \* user_agent_stylesheet()
  AuthorSheets,     \* the <style> texts a page may have
  StyledPages,      \* sequences of elements in document order
  MaxRules,         \* max_render_rules
  MaxDeclarations,  \* max_render_declarations
  MaxMedia,         \* nesting of @media (32)
  MatchBudget,      \* selector matches per page (2000000)
  RootSize,         \* root_font_size
  MaxFontSize       \* 512

ASSUME CascadeAssumption ==
  /\ {MaxRules, MaxDeclarations, MaxMedia, MatchBudget} \subseteq Nat
  /\ {RootSize, MaxFontSize} \subseteq Nat \ {0}

VARIABLES cphase,    \* "sheets", "universal", "keyed", "styled" or "refused"
          cpage, csheet,
          rules,     \* the rules of both origins, in order
          current,   \* index of the element being styled
          buckets,   \* keys still to visit for it
          declared,  \* property -> the declaration that leads
          styles,    \* computed styles of the elements before it
          matchesLeft
CascadeVars == <<cphase, cpage, csheet, rules, current, buckets, declared, styles, matchesLeft>>

Edges == {"top", "right", "bottom", "left"}

-----------------------------------------------------------------------------
(* Values.  A token is a length, a number, a colour or a word.             *)
Token(unit, n) == [unit |-> unit, n |-> n, word |-> ""]
Word(w) == [unit |-> "word", n |-> 0, word |-> w]
ParseLength(t) == t.unit \in {"px", "em", "auto", "number"}
ParseNumber(t) == t.unit = "number"
ParseColor(t) == t.unit = "color"
(* The words a property takes and what each computes to.                   *)
Keywords(p) ==
  CASE p = <<"display">> ->
         ("none" :> "none") @@ ("block" :> "block") @@ ("inline" :> "inline") @@ ("inline-block" :> "inline-block") @@
         ("flex" :> "flex") @@ ("list-item" :> "list-item") @@ ("table" :> "table") @@ ("inline-table" :> "table") @@
         ("table-row" :> "table-row") @@ ("inline-table-row" :> "table-row") @@ ("table-cell" :> "table-cell") @@
         ("inline-table-cell" :> "table-cell") @@ ("grid" :> "block") @@ ("inline-grid" :> "block") @@ ("inline-flex" :> "block")
    [] p = <<"position">> -> [w \in {"static", "relative"} |-> w]
    [] p = <<"white-space">> -> [w \in {"normal", "pre", "nowrap", "pre-wrap", "pre-line"} |-> w]
    [] p = <<"text-align">> ->
         ("left" :> "start") @@ ("start" :> "start") @@ ("right" :> "end") @@ ("end" :> "end") @@
         ("center" :> "center") @@ ("justify" :> "justify")
    [] p = <<"overflow">> -> [w \in {"visible", "hidden"} |-> w]
    [] p \in {<<"align-items">>, <<"align-self">>} ->
         ("stretch" :> "stretch") @@ ("start" :> "start") @@ ("flex-start" :> "start") @@ ("end" :> "end") @@
         ("flex-end" :> "end") @@ ("center" :> "center")
    [] p = <<"justify-content">> ->
         ("start" :> "start") @@ ("flex-start" :> "start") @@ ("end" :> "end") @@ ("flex-end" :> "end") @@
         ("center" :> "center") @@ [w \in {"space-between", "space-around", "space-evenly"} |-> w]
    [] p = <<"visibility">> -> ("visible" :> "visible") @@ ("hidden" :> "hidden") @@ ("collapse" :> "hidden")
    [] p = <<"vertical-align">> -> [w \in {"baseline", "top", "middle", "bottom", "text-top", "text-bottom"} |-> w]
    [] p = <<"object-fit">> -> [w \in {"fill", "contain", "cover", "none", "scale-down"} |-> w]
    [] p = <<"list-style", "type">> ->
         ("lower-latin" :> "lower-alpha") @@ ("upper-latin" :> "upper-alpha") @@
         [w \in {"none", "disc", "circle", "square", "decimal", "lower-alpha", "upper-alpha", "lower-roman", "upper-roman"} |-> w]
    [] p = <<"list-style", "position">> -> [w \in {"outside", "inside"} |-> w]
    [] p = <<"border", "style">> ->
         ("hidden" :> "none") @@ [w \in {"none", "solid", "dashed", "dotted", "double", "groove", "ridge"} |-> w]
    [] p = <<"font", "style">> -> ("italic" :> "italic") @@ ("oblique" :> "italic") @@ ("normal" :> "normal")
    [] p = <<"flex-wrap">> -> [w \in {"wrap"} |-> w]
    [] OTHER -> [w \in {} |-> w]
Keyword(p, t) == t.unit = "word" /\ t.word \in DOMAIN Keywords(p)
ParseFontWeight(t) == t.unit = "number" \/ (t.unit = "word" /\ t.word \in {"normal", "bold", "bolder", "lighter"})

-----------------------------------------------------------------------------
(* compute_specificity, counted over the text: the name after a "." or a   *)
(* "#" counts as a type once more.                                         *)
CountOf(sel, test(_)) == Cardinality({k \in DOMAIN sel : test(sel[k])})
Named(c) == c.tag \notin {"", "*"}
Specificity(sel) ==
  LET ids == CountOf(sel, LAMBDA c : c.id # "")
      classes == CountOf(sel, LAMBDA c : c.class # <<>>)
  IN  [id |-> ids, cls |-> classes + CountOf(sel, LAMBDA c : c.attr # ""),
       type |-> CountOf(sel, Named) + ids + classes]

(* parse_declaration_block: empty values and malformed declarations are    *)
(* passed over, custom properties only spend the budget.                   *)
NoSheet == [rules |-> <<>>, ruleBudget |-> MaxRules, declBudget |-> MaxDeclarations, stopped |-> FALSE, threw |-> FALSE]
ParseDeclaration(s, d) ==
  CASE s.threw \/ d.value = <<>> -> s
    [] ~s.threw /\ d.value # <<>> /\ s.declBudget = 0 -> [s EXCEPT !.threw = TRUE]
    [] OTHER -> [s EXCEPT !.declBudget = @ - 1, !.decls = IF d.custom THEN @ ELSE Append(@, d)]
ParseDeclarationBlock(s, body) == FoldLeft(ParseDeclaration, s @@ [decls |-> <<>>], body)

(* One rule per selector of the list; copies of the declarations count.    *)
AddRule(s, sel) ==
  IF s.threw \/ s.ruleBudget = 0 \/ Len(s.decls) > s.declBudget THEN [s EXCEPT !.threw = TRUE]
  ELSE [s EXCEPT !.ruleBudget = @ - 1, !.declBudget = @ - Len(s.decls),
                 !.rules = Append(@, [selector |-> sel, decls |-> s.decls, spec |-> Specificity(sel)])]
(* media_applies: every word before the first "(" is "all" or "screen".    *)
MediaApplies(words) == \A i \in DOMAIN words : words[i] \in {"all", "screen"}

(* parse_into: an unterminated block ends the sheet.                       *)
RECURSIVE ParseInto(_, _, _)
ParseItem(s, item, nesting) ==
  CASE s.threw \/ s.stopped \/ item.is = "import" -> s
    [] ~s.threw /\ ~s.stopped /\ item.is = "unterminated" -> [s EXCEPT !.stopped = TRUE]
    [] ~s.threw /\ ~s.stopped /\ item.is = "media" ->
         IF MediaApplies(item.words)
         THEN [ParseInto(s, item.items, nesting + 1) EXCEPT !.stopped = FALSE] ELSE s
    [] OTHER ->
         LET block == ParseDeclarationBlock(s, item.body)
             done == IF block.threw \/ block.decls = <<>> THEN block ELSE FoldLeft(AddRule, block, item.selectors)
         IN  [f \in DOMAIN NoSheet |-> done[f]]
ParseInto(s, items, nesting) ==
  IF nesting > MaxMedia THEN [s EXCEPT !.threw = TRUE]
  ELSE FoldLeft(LAMBDA t, item : ParseItem(t, item, nesting), s, items)
ParseStylesheet(items) == ParseInto(NoSheet, items, 0)

-----------------------------------------------------------------------------
(* Rules and elements.  Element::matches is Flatworm's (module Selectors). *)
RECURSIVE AncestorsOf(_, _)
AncestorsOf(page, e) == IF page[e].parent = 0 THEN {} ELSE {page[e].parent} \cup AncestorsOf(page, page[e].parent)
ClassWords(text) ==
  LET cut == FoldLeft(LAMBDA w, c : IF c = " " THEN Append(w, <<>>) ELSE Append(Front(w), Append(Last(w), c)), << <<>> >>, text)
  IN  Range(cut) \ {<<>>}
CompoundMatches(el, c) ==
  /\ c.tag \in {"", "*", el.tag}
  /\ c.id \in {"", el.id}
  /\ c.class = <<>> \/ c.class \in ClassWords(el.class)
  /\ c.attr = "" \/ c.attr \in el.attrs
RuleMatches(page, e, sel) ==
  \E at \in [DOMAIN sel -> DOMAIN page] :
    /\ at[Len(sel)] = e
    /\ \A k \in DOMAIN sel : CompoundMatches(page[at[k]], sel[k])
    /\ \A k \in 2..Len(sel) : at[k - 1] \in AncestorsOf(page, at[k])

(* bucket_of: the tag and the first id or class of the last compound;      *)
(* nothing when the selector has a ":", "[" or "(" anywhere.               *)
NoKey == [id |-> "", cls |-> <<>>, tag |-> ""]
BucketOf(sel) ==
  LET c == Last(sel)
  IN  IF \E k \in DOMAIN sel : sel[k].attr # "" THEN NoKey
      ELSE [id |-> c.id, cls |-> IF c.id = "" THEN c.class ELSE <<>>, tag |-> IF c.tag = "*" THEN "" ELSE c.tag]
HasSubstring(text, part) == \E i \in 1..Len(text) + 1 : IsPrefix(part, SubSeq(text, i, Len(text)))
BucketExact(key, el) == key.tag \in {"", el.tag} /\ key.id \in {"", el.id} /\ key.cls \in {<<>>, el.class}
BucketCompatible(key, el) ==
  /\ key.tag \in {"", el.tag}
  /\ key.id \in {"", el.id}
  /\ key.cls = <<>> \/ HasSubstring(el.class, key.cls)
Bucket(key) == SelectSeq([i \in DOMAIN rules |-> i], LAMBDA i : BucketOf(rules[i].selector) = key)
KeysInUse == {BucketOf(rules[i].selector) : i \in DOMAIN rules} \ {NoKey}

-----------------------------------------------------------------------------
(* Declared::beats, and the leading declaration per property.              *)
Beats(a, b) ==
  CASE a.important # b.important -> a.important
    [] a.important = b.important /\ a.origin # b.origin -> a.origin > b.origin
    [] a.important = b.important /\ a.origin = b.origin /\ a.id # b.id -> a.id > b.id
    [] a.important = b.important /\ a.origin = b.origin /\ a.id = b.id /\ a.cls # b.cls -> a.cls > b.cls
    [] a.important = b.important /\ a.origin = b.origin /\ a.id = b.id /\ a.cls = b.cls /\ a.type # b.type -> a.type > b.type
    [] OTHER -> a.order >= b.order
Record(map, p, candidate) ==
  IF p \notin DOMAIN map \/ Beats(candidate, map[p]) THEN (p :> candidate) @@ map ELSE map
Claimant(d, origin, spec, order) ==
  [value |-> d.value, important |-> d.important, origin |-> origin, id |-> spec.id, cls |-> spec.cls,
   type |-> spec.type, order |-> order]
(* apply, for rule r in its place i.                                       *)
RuleOrder(i, j) == (i - 1) * (MaxDeclarations + 1) + (j - 1)
Apply(map, i) ==
  FoldLeft(LAMBDA m, j : Record(m, rules[i].decls[j].prop,
                                Claimant(rules[i].decls[j], rules[i].origin, rules[i].spec, RuleOrder(i, j))),
           map, [j \in DOMAIN rules[i].decls |-> j])
(* apply_inline: above every selector, after every rule.                   *)
InlineSpec == [id |-> 1048576, cls |-> 0, type |-> 0]
InlineDecls(el) == SelectSeq(el.style, LAMBDA d : d.value # <<>> /\ ~d.custom)
InlineOrder(j) == (Len(rules) + 1) * (MaxDeclarations + 1) + (j - 1)
ApplyInline(map, el) ==
  LET decls == InlineDecls(el)
  IN  FoldLeft(LAMBDA m, j : Record(m, decls[j].prop, Claimant(decls[j], 1, InlineSpec, InlineOrder(j))),
               map, [j \in DOMAIN decls |-> j])

-----------------------------------------------------------------------------
(* Shorthands: the longhands a value gives, nothing when it does not parse. *)
Sides == <<"top", "right", "bottom", "left">>
BoxSlot(value, edge) ==
  value[CASE Len(value) = 1 -> 1
          [] Len(value) = 2 -> IF edge \in {"top", "bottom"} THEN 1 ELSE 2
          [] Len(value) = 3 -> IF edge = "top" THEN 1 ELSE IF edge = "bottom" THEN 3 ELSE 2
          [] OTHER -> CHOOSE k \in 1..4 : Sides[k] = edge]
ParseBox(value) == Len(value) \in 1..4 /\ \A t \in Range(value) : ParseLength(t)
ExpandBox(p, value) ==
  IF ~ParseBox(value) THEN {} ELSE {[prop |-> p \o <<edge>>, value |-> <<BoxSlot(value, edge)>>] : edge \in Edges}
BorderPart(t) ==
  CASE Keyword(<<"border", "style">>, t) -> "style" [] ParseColor(t) -> "color"
    [] ParseLength(t) /\ t.unit # "auto" -> "width" [] OTHER -> "none"
ExpandBorder(value) ==
  IF value = <<>> \/ \E t \in Range(value) : BorderPart(t) = "none" THEN {}
  ELSE {[prop |-> <<"border", edge, BorderPart(value[i])>>, value |-> <<value[i]>>] :
          edge \in Edges, i \in {j \in DOMAIN value : \A k \in j + 1..Len(value) : BorderPart(value[k]) # BorderPart(value[j])}}
(* font: styles and weights up to the first other token, the size, the rest *)
(* is the family.                                                          *)
FontLead(t) == Keyword(<<"font", "style">>, t) \/ ParseFontWeight(t)
ExpandFont(value) ==
  LET size == SelectInSeq(value, LAMBDA t : ~FontLead(t))
      lead == IF size = 0 THEN Len(value) ELSE size - 1
      last(kind) == {i \in 1..lead : Keyword(<<"font", "style">>, value[i]) = (kind = "style")}
      pick(kind) == {i \in last(kind) : \A j \in last(kind) : j <= i}
  IN  {[prop |-> <<"font", "style">>, value |-> <<value[i]>>] : i \in pick("style")}
      \cup {[prop |-> <<"font", "weight">>, value |-> <<value[i]>>] : i \in pick("weight")}
      \cup (IF size = 0 THEN {} ELSE {[prop |-> <<"font", "size">>, value |-> <<value[size]>>]})
      \cup (IF size \in {0, Len(value)} THEN {}
            ELSE {[prop |-> <<"font", "family">>, value |-> SubSeq(value, size + 1, Len(value))]})
ExpandList(value) ==
  UNION {{[prop |-> p, value |-> <<value[i]>>] :
            i \in {j \in DOMAIN value : Keyword(p, value[j]) /\ \A k \in j + 1..Len(value) : ~Keyword(p, value[k])}} :
          p \in {<<"list-style", "type">>, <<"list-style", "position">>}}
ExpandGap(value) ==
  IF Len(value) \notin 1..2 \/ \E t \in Range(value) : ~ParseLength(t) \/ t.unit = "auto" \/ t.n < 0 THEN {}
  ELSE {[prop |-> <<"row-gap">>, value |-> <<value[1]>>], [prop |-> <<"column-gap">>, value |-> <<Last(value)>>]}
(* flex: up to two numbers, then at most one length.                       *)
FlexParts(grow, shrink, basis) ==
  {[prop |-> <<"flex", "grow">>, value |-> <<grow>>], [prop |-> <<"flex", "shrink">>, value |-> <<shrink>>],
   [prop |-> <<"flex", "basis">>, value |-> <<basis>>]}
ExpandFlex(value) ==
  LET word == IF Len(value) = 1 THEN value[1].word ELSE ""
      number(k, default) == IF k <= Len(value) /\ ParseNumber(value[k]) THEN value[k] ELSE Token("number", default)
      numbers == Cardinality({k \in 1..2 : k <= Len(value) /\ \A m \in 1..k : ParseNumber(value[m])})
      rest == SubSeq(value, numbers + 1, Len(value))
  IN  CASE word = "none" -> FlexParts(Token("number", 0), Token("number", 0), Token("auto", 0))
        [] word = "initial" -> FlexParts(Token("number", 0), Token("number", 1), Token("auto", 0))
        [] value = <<Token("auto", 0)>> -> FlexParts(Token("number", 1), Token("number", 1), Token("auto", 0))
        [] OTHER ->
             IF value = <<>> \/ Len(rest) > 1 \/ \E t \in Range(value) : ~ParseLength(t) \/ t.n < 0 THEN {}
             ELSE FlexParts(number(1, 1), IF numbers = 2 THEN value[2] ELSE Token("number", 1),
                            IF rest = <<>> THEN Token("px", 0) ELSE rest[1])
ExpandBackground(value) ==
  IF Len(value) = 1 /\ ParseColor(value[1]) THEN {[prop |-> <<"background", "color">>, value |-> value]} ELSE {}
Shorthands == {<<"margin">>, <<"padding">>, <<"border">>, <<"border", "width">>, <<"border", "color">>, <<"border", "style">>,
               <<"font">>, <<"list-style">>, <<"flex">>, <<"gap">>, <<"background">>}
Expansion(p, value) ==
  CASE p \in {<<"margin">>, <<"padding">>} -> ExpandBox(p, value)
    [] p[1] = "border" -> ExpandBorder(value)
    [] p = <<"font">> -> ExpandFont(value)
    [] p = <<"list-style">> -> ExpandList(value)
    [] p = <<"flex">> -> ExpandFlex(value)
    [] p = <<"gap">> -> ExpandGap(value)
    [] p = <<"background">> -> ExpandBackground(value)
(* expand_shorthands: each part competes with the longhand in its own      *)
(* right, shorthand by shorthand.                                          *)
ExpandOne(map, out, p) ==
  FoldSet(LAMBDA part, m : Record(m, part.prop, [map[p] EXCEPT !.value = part.value]), out, Expansion(p, map[p].value))
ExpandShorthands(map) ==
  FoldSet(LAMBDA p, out : ExpandOne(map, out, p), map, Shorthands \cap DOMAIN map)

-----------------------------------------------------------------------------
(* compute: own value if it parses, else the parent's or the initial one.  *)
Inherited == {<<"color">>, <<"font", "size">>, <<"font", "weight">>, <<"font", "style">>, <<"font", "family">>,
              <<"line-height">>, <<"text-align">>, <<"white-space">>, <<"visibility">>, <<"vertical-align">>,
              <<"list-style", "type">>, <<"list-style", "position">>}
Boxed == {<<side, edge>> : side \in {"margin", "padding"}, edge \in Edges}
Longhands == Inherited \cup Boxed \cup {<<"display">>, <<"background", "color">>, <<"overflow">>, <<"row-gap">>, <<"column-gap">>,
                                        <<"border", "style">>} \cup {<<"border", edge, "width">> : edge \in Edges}
Px(n) == Token("px", n)
InitialValue(p) ==
  CASE p = <<"display">> -> Word("inline")
    [] p = <<"font", "size">> -> Px(RootSize)
    [] p \in Boxed \cup {<<"row-gap">>, <<"column-gap">>} \cup {<<"border", edge, "width">> : edge \in Edges} -> Px(0)
    [] p = <<"border", "style">> -> Word("none")
    [] OTHER -> Word("initial")
Only(map, p) == IF Len(map[p].value) = 1 THEN map[p].value[1] ELSE Token("none", 0)
InitialStyle == [p \in Longhands |-> InitialValue(p)]
Pixels(t, size) == CASE t.unit = "em" -> t.n * size [] t.unit = "auto" -> 0 [] OTHER -> t.n
Valid(p, t) ==
  CASE p \in {<<"color">>, <<"background", "color">>} -> ParseColor(t)
    [] p = <<"font", "size">> -> ParseLength(t)
    [] p = <<"font", "weight">> -> ParseFontWeight(t)
    [] p = <<"font", "family">> -> t.unit = "word"
    [] p \in Boxed \cup {<<"line-height">>} -> ParseLength(t)
    [] p \in {<<"row-gap">>, <<"column-gap">>} -> ParseLength(t) /\ t.n >= 0
    [] OTHER -> Keyword(p, t)
(* Font sizes resolve against the parent's size, everything else against   *)
(* the element's own.  Sizes out of bounds keep the parent's.              *)
FontSize(map, parent) ==
  LET t == Only(map, <<"font", "size">>)
      inherited == parent[<<"font", "size">>].n
      size == Pixels(t, inherited)
  IN  IF <<"font", "size">> \in DOMAIN map /\ ParseLength(t) /\ size \in 1..MaxFontSize THEN size ELSE inherited
Used(p, t, size) ==
  CASE p = <<"line-height">> -> Px(IF t.unit = "number" THEN t.n * size ELSE Pixels(t, size))
    [] p[1] = "padding" -> Px(IF Pixels(t, size) < 0 THEN 0 ELSE Pixels(t, size))
    [] p[1] = "margin" -> IF t.unit = "auto" THEN t ELSE Px(Pixels(t, size))
    [] p \in {<<"row-gap">>, <<"column-gap">>} -> t
    [] t.unit = "word" /\ t.word \in DOMAIN Keywords(p) -> Word(Keywords(p)[t.word])
    [] OTHER -> t
(* The first border style that is not none, of the shorthand and the edges. *)
BorderStyle(map) ==
  LET shown == SelectSeq(<< <<"border", "style">> >> \o [k \in 1..4 |-> <<"border", Sides[k], "style">>],
                         LAMBDA p : p \in DOMAIN map /\ Keyword(<<"border", "style">>, Only(map, p))
                                    /\ Keywords(<<"border", "style">>)[Only(map, p).word] # "none")
  IN  IF shown = <<>> THEN "none" ELSE Keywords(<<"border", "style">>)[map[shown[1]].value[1].word]
BorderWidth(map, p) ==
  IF BorderStyle(map) = "none" \/ p \notin DOMAIN map \/ ~ParseLength(Only(map, p)) \/ Only(map, p).unit = "auto" THEN 0
  ELSE LET n == Only(map, p).n IN IF n < 0 THEN -n ELSE n
Compute(map, parent, isRoot) ==
  LET size == FontSize(map, parent)
      token(p) == IF p \in Boxed /\ ParseBox(map[p].value) THEN BoxSlot(map[p].value, p[2])
                  ELSE IF p = <<"font", "family">> THEN map[p].value[1] ELSE Only(map, p)
      own(p) == p \in DOMAIN map /\ Valid(p, token(p))
      column == /\ <<"flex-direction">> \in DOMAIN map
                /\ Only(map, <<"flex-direction">>).word \in {"column", "column-reverse"}
      plain(p) == CASE p = <<"font", "size">> -> Px(size)
                    [] p = <<"border", "style">> -> Word(BorderStyle(map))
                    [] p[1] = "border" /\ Last(p) = "width" -> Px(BorderWidth(map, p))
                    [] p # <<"font", "size">> /\ p[1] # "border" /\ own(p) -> Used(p, token(p), size)
                    [] p = <<"display">> /\ ~own(p) /\ isRoot -> Word("block")
                    [] OTHER -> IF p \in Inherited THEN parent[p] ELSE InitialValue(p)
  IN  [p \in Longhands |-> IF p = <<"display">> /\ column /\ plain(p) = Word("flex") THEN Word("block") ELSE plain(p)]

-----------------------------------------------------------------------------
(* resolve_computed_styles.                                                *)
CascadeInit ==
  /\ cphase = "sheets" /\ cpage \in StyledPages /\ csheet \in AuthorSheets
  /\ rules = <<>> /\ current = 1 /\ buckets = {} /\ declared = <<>> /\ styles = <<>> /\ matchesLeft = MatchBudget

WithOrigin(parsed, origin) == [i \in DOMAIN parsed |-> parsed[i] @@ [origin |-> origin]]
ReadSheets ==
  LET agent == ParseStylesheet(AgentSheet)
      author == ParseStylesheet(csheet)
  IN  /\ cphase = "sheets"
      /\ rules' = WithOrigin(agent.rules, 0) \o WithOrigin(author.rules, 1)
      /\ cphase' = IF agent.threw \/ author.threw THEN "refused" ELSE IF cpage = <<>> THEN "styled" ELSE "universal"
      /\ UNCHANGED <<cpage, csheet, current, buckets, declared, styles, matchesLeft>>

(* Rules of a bucket that match, applied in order; each test is paid for.  *)
ApplyMatching(map, list) ==
  FoldLeft(LAMBDA m, i : IF RuleMatches(cpage, current, rules[i].selector) THEN Apply(m, i) ELSE m, map, list)
Pay(n, next) ==
  /\ matchesLeft' = IF n > matchesLeft THEN 0 ELSE matchesLeft - n
  /\ cphase' = IF n > matchesLeft THEN "refused" ELSE next
ApplyUniversal ==
  /\ cphase = "universal"
  /\ declared' = ApplyMatching(<<>>, Bucket(NoKey))
  /\ buckets' = KeysInUse
  /\ Pay(Len(Bucket(NoKey)), "keyed")
  /\ UNCHANGED <<cpage, csheet, rules, current, styles>>
ApplyBucket(key) ==
  LET list == IF BucketCompatible(key, cpage[current]) THEN Bucket(key) ELSE <<>>
  IN  /\ cphase = "keyed" /\ key \in buckets
      /\ declared' = ApplyMatching(declared, list)
      /\ buckets' = buckets \ {key}
      /\ Pay(1 + Len(list), "keyed")
      /\ UNCHANGED <<cpage, csheet, rules, current, styles>>
StyleElement ==
  LET el == cpage[current]
      parent == IF el.parent = 0 THEN InitialStyle ELSE styles[el.parent]
      expanded == ExpandShorthands(ApplyInline(declared, el))
  IN  /\ cphase = "keyed" /\ buckets = {}
      /\ styles' = Append(styles, Compute(expanded, parent, el.parent = 0))
      /\ current' = current + 1
      /\ cphase' = IF current = Len(cpage) THEN "styled" ELSE "universal"
      /\ declared' = <<>>
      /\ UNCHANGED <<cpage, csheet, rules, buckets, matchesLeft>>

CascadeNext == ReadSheets \/ ApplyUniversal \/ StyleElement \/ \E key \in buckets : ApplyBucket(key)
CascadeSpec == CascadeInit /\ [][CascadeNext]_CascadeVars

-----------------------------------------------------------------------------
(* What wins: of all the declarations of the property in rules that match  *)
(* and in the inline style, the one that is first by importance, origin,   *)
(* specificity and place in the sources.                                   *)
Claims(e, p) ==
  {<<i, j>> \in {<<i, j>> \in (DOMAIN rules) \X (1..MaxDeclarations) : j \in DOMAIN rules[i].decls} :
     rules[i].decls[j].prop = p /\ RuleMatches(cpage, e, rules[i].selector)}
Rank(e, c) ==
  IF c[1] > 0
  THEN LET r == rules[c[1]] IN <<IF r.decls[c[2]].important THEN 1 ELSE 0, r.origin, 0, r.spec.id, r.spec.cls, r.spec.type, c[1], c[2]>>
  ELSE <<IF InlineDecls(cpage[e])[c[2]].important THEN 1 ELSE 0, 1, 1, 0, 0, 0, 0, c[2]>>
Above(a, b) == \E k \in DOMAIN a : a[k] > b[k] /\ \A m \in 1..k - 1 : a[m] = b[m]
AllClaims(e, p) == Claims(e, p) \cup {<<0, j>> : j \in {j \in DOMAIN InlineDecls(cpage[e]) : InlineDecls(cpage[e])[j].prop = p}}
Foremost(e, p) == CHOOSE c \in AllClaims(e, p) : \A d \in AllClaims(e, p) \ {c} : Above(Rank(e, c), Rank(e, d))
ClaimValue(e, c) == IF c[1] > 0 THEN rules[c[1]].decls[c[2]].value ELSE InlineDecls(cpage[e])[c[2]].value
(* A longhand is claimed by itself and by the shorthands that have a part   *)
(* for it, each through its own foremost declaration.                      *)
ClaimsOn(e, p) ==
  {[rank |-> Rank(e, Foremost(e, q)), value |-> ClaimValue(e, Foremost(e, q))] : q \in {q \in {p} : AllClaims(e, q) # {}}}
  \cup UNION {{[rank |-> Rank(e, Foremost(e, s)), value |-> part.value] :
                part \in {x \in Expansion(s, ClaimValue(e, Foremost(e, s))) : x.prop = p}} :
              s \in {q \in Shorthands : AllClaims(e, q) # {}}}
Winner(e, p) == CHOOSE c \in ClaimsOn(e, p) : \A d \in ClaimsOn(e, p) \ {c} : Above(c.rank, d.rank)
Properties == Longhands \cup {<<"flex-direction">>} \cup {<<"border", edge, "style">> : edge \in Edges}
Won(e) == [p \in {q \in Properties : ClaimsOn(e, q) # {}} |-> [value |-> Winner(e, p).value]]

(* The style of an element follows from the declarations that win by the   *)
(* rank of their rules and from its parent's style alone: neither the      *)
(* order in which the hash map yields the buckets, nor the bucketing, nor  *)
(* the shorthands being expanded after the cascade changes a winner.       *)
CascadeIsTheDefinition ==
  styles # <<>> =>
    LET e == Len(styles)
        el == cpage[e]
    IN  styles[e] = Compute(Won(e), IF el.parent = 0 THEN InitialStyle ELSE styles[el.parent], el.parent = 0)
=============================================================================
