------------------------------ MODULE Selectors -----------------------------
(***************************************************************************)
(* Flatworm's selectors over the trees of Markup: the parser of a selector *)
(* list, the matcher that walks back from the last compound, and the       *)
(* queries in document order (src/flatworm/selector_*.cpp,                 *)
(* css_selector.cpp), against what the selectors mean.                     *)
(*                                                                         *)
(* A selector is a sequence of symbols: white space, combinators, commas   *)
(* and compounds.  A compound is a record of its conditions.               *)
(***************************************************************************)
EXTENDS Markup, Integers, FiniteSets

CONSTANTS SelectorTexts,  \* the selectors asked of every tree
          MaxCompounds,   \* the parser's bound (256)
          SelectorBudget  \* MatchBudget: the steps of one element (100000)

ASSUME SelectorAssumption == {MaxCompounds, SelectorBudget} \subseteq Nat \ {0}

Space == [sym |-> " "]
Comma == [sym |-> ","]
Combine(c) == [sym |-> "combinator", combinator |-> c]
Compound(tag, id, class, attr, pseudo) ==
  [sym |-> "compound", tag |-> tag, id |-> id, class |-> class, attr |-> attr, pseudo |-> pseudo]

-----------------------------------------------------------------------------
(* Parser::parse_list and parse_complex.  state says what was read last:   *)
(* nothing, a compound, space after one, or a combinator.                  *)
NoSelector == [list |-> <<>>, compounds |-> <<>>, combinators |-> <<>>, state |-> "start",
               pending |-> "descendant", count |-> 0, failed |-> FALSE]
Failed(p) == [p EXCEPT !.failed = TRUE]
Ended(p) ==
  IF p.state \in {"start", "combinator"} THEN Failed(p)
  ELSE [p EXCEPT !.list = Append(@, [compounds |-> p.compounds, combinators |-> p.combinators]),
                 !.compounds = <<>>, !.combinators = <<>>, !.state = "start"]
TakeCompound(p, c) ==
  IF p.count = MaxCompounds THEN Failed(p)
  ELSE [p EXCEPT !.compounds = Append(@, c), !.state = "compound", !.count = @ + 1, !.pending = "descendant",
                 !.combinators = IF p.state = "start" THEN @ ELSE Append(@, p.pending)]
SelectorStep(p, s) ==
  CASE p.failed -> p
    [] ~p.failed /\ s.sym = " " -> IF p.state = "compound" THEN [p EXCEPT !.state = "space"] ELSE p
    [] ~p.failed /\ s.sym = "," -> Ended(p)
    [] ~p.failed /\ s.sym = "compound" -> TakeCompound(p, s)
    [] OTHER -> IF p.state \in {"compound", "space"}
                THEN [p EXCEPT !.state = "combinator", !.pending = s.combinator] ELSE Failed(p)
ParseSelector(text) == Ended(FoldLeft(SelectorStep, NoSelector, text))

-----------------------------------------------------------------------------
(* Trees: the parent of a node, 0 for the document, and its children.      *)
ParentNode(t, i) == SelectLastInSubSeq(t, 1, i - 1, LAMBDA n : n.depth < t[i].depth)
IsElement(t, i) == t[i].type = "element"
SiblingsOf(t, i) == {j \in DOMAIN t : t[j].depth = t[i].depth /\ ParentNode(t, j) = ParentNode(t, i)}
(* element_index and element_count.                                        *)
Counted(t, i, ofType) == {j \in SiblingsOf(t, i) : IsElement(t, j) /\ (ofType => t[j].name = t[i].name)}
ElementIndex(t, i, ofType) == Cardinality({j \in Counted(t, i, ofType) : j <= i})
ElementCount(t, i, ofType) == Cardinality(Counted(t, i, ofType))

AttrNamed(t, i, name) == SelectSeq(t[i].attrs, LAMBDA a : a.name = name)
(* split_whitespace, and the operators of an attribute condition.          *)
SplitWords(value) ==
  LET cut == FoldLeft(LAMBDA w, c : IF c.is = " " THEN Append(w, <<>>) ELSE Append(Front(w), Append(Last(w), c)), << <<>> >>, value)
  IN  SelectSeq(cut, LAMBDA w : w # <<>>)
MatchValue(op, value, wanted) ==
  CASE op = "exists" -> TRUE
    [] op = "=" -> value = wanted
    [] op = "~=" -> \E i \in DOMAIN SplitWords(value) : SplitWords(value)[i] = wanted
    [] op = "|=" -> value = wanted \/ IsPrefix(Append(wanted, [is |-> "-", esc |-> 0]), value)
    [] op = "^=" -> wanted # <<>> /\ IsPrefix(wanted, value)
    [] op = "$=" -> wanted # <<>> /\ IsSuffix(wanted, value)
    [] op = "*=" -> wanted # <<>> /\ \E i \in 1..Len(value) : IsPrefix(wanted, SubSeq(value, i, Len(value)))
MatchAttr(t, i, attr) ==
  LET have == AttrNamed(t, i, attr.name) IN have # <<>> /\ MatchValue(attr.op, have[1].value, attr.value)

(* The nth pseudo-classes: C++ division truncates, its remainder is zero   *)
(* for either sign of the divisor.                                         *)
Abs(n) == IF n < 0 THEN -n ELSE n
NthMatches(a, b, index) ==
  IF a = 0 THEN index = b
  ELSE /\ Abs(index - b) % Abs(a) = 0
       /\ (index - b >= 0) = (a > 0) \/ index = b

(* Where match_complex goes on from node i, nearest first.                 *)
Parents(t, i) == {j \in 1..i - 1 : t[j].depth < t[i].depth /\ \A k \in j + 1..i : t[k].depth > t[j].depth}
Befores(t, i) == {j \in SiblingsOf(t, i) : j < i /\ IsElement(t, j)}
Nearest(set) == {j \in set : \A k \in set : k <= j}
CandidatesNear(t, i, combinator) ==
  Nearest(IF combinator \in {"descendant", ">"} THEN Parents(t, i) ELSE Befores(t, i))
Candidates(t, i, combinator) ==
  CASE combinator = "descendant" -> Parents(t, i)
    [] combinator = ">" -> Nearest(Parents(t, i))
    [] combinator = "+" -> Nearest(Befores(t, i))
    [] combinator = "~" -> Befores(t, i)

(* A match answers, and what is left of its budget; every compound takes   *)
(* one step, and with none left the query throws.                          *)
Match(hit, left) == [hit |-> hit, left |-> left]
Throws == Match(FALSE, -1)
Thrown(m) == m.left < 0
(* The first of a sequence that matches, each with what the ones before it *)
(* left of the budget.                                                     *)
AnyOf(Op(_, _), seq, left) ==
  FoldLeft(LAMBDA m, x : IF m.hit \/ Thrown(m) THEN m ELSE Op(x, m.left), Match(FALSE, left), seq)
(* descendant tries the document as well, which is no element.             *)
Tried(t, i, combinator) ==
  SetToSortSeq(Candidates(t, i, combinator), >) \o IF combinator = "descendant" THEN <<0>> ELSE <<>>

RECURSIVE MatchComplex(_, _, _, _, _)
PseudoHolds(t, i, p) ==
  CASE p.kind = "first" -> ElementIndex(t, i, p.ofType) = 1
    [] p.kind = "last" -> ElementIndex(t, i, p.ofType) = ElementCount(t, i, p.ofType)
    [] p.kind = "only" -> ElementCount(t, i, p.ofType) = 1
    [] p.kind = "nth" -> NthMatches(p.a, p.b, ElementIndex(t, i, p.ofType))
    [] p.kind = "nth-last" ->
         NthMatches(p.a, p.b, ElementCount(t, i, p.ofType) - ElementIndex(t, i, p.ofType) + 1)
    [] p.kind = "empty" -> ~\E j \in i + 1..Len(t) : ParentNode(t, j) = i /\ t[j].type \in {"element", "text"}
    [] p.kind = "root" -> t[i].depth = 0
MatchPseudo(t, i, p, left) ==
  IF p.kind # "not" THEN Match(PseudoHolds(t, i, p), left)
  ELSE LET m == AnyOf(LAMBDA s, n : MatchComplex(t, i, s, Len(s.compounds), n), ParseSelector(p.text).list, left)
       IN  [m EXCEPT !.hit = ~@]
Conditions(t, i, c) ==
  /\ i # 0 /\ IsElement(t, i)
  /\ c.tag = "*" \/ t[i].name = c.tag
  /\ c.id = <<>> \/ MatchAttr(t, i, [name |-> "id", op |-> "=", value |-> c.id])
  /\ c.class = <<>> \/ MatchAttr(t, i, [name |-> "class", op |-> "~=", value |-> c.class])
  /\ \A a \in c.attr : MatchAttr(t, i, a)
MatchCompound(t, i, c, left) ==
  IF left = 0 THEN Throws
  ELSE FoldLeft(LAMBDA m, p : IF m.hit /\ ~Thrown(m) THEN MatchPseudo(t, i, p, m.left) ELSE m,
                Match(Conditions(t, i, c), left - 1), c.pseudo)
MatchComplex(t, i, selector, k, left) ==
  LET own == MatchCompound(t, i, selector.compounds[k], left)
  IN  IF ~own.hit \/ Thrown(own) \/ k = 1 THEN own
      ELSE AnyOf(LAMBDA j, n : MatchComplex(t, j, selector, k - 1, n), Tried(t, i, selector.combinators[k - 1]), own.left)
Matches(t, i, list) == AnyOf(LAMBDA s, n : MatchComplex(t, i, s, Len(s.compounds), n), list, SelectorBudget)

(* query_selector_all below the document: the matching nodes in order; it  *)
(* throws when the budget of any node is used up.                          *)
QueryThrows(t, list) == \E i \in DOMAIN t : Thrown(Matches(t, i, list))
QueryAll(t, list) == SelectSeq([i \in DOMAIN t |-> i], LAMBDA i : Matches(t, i, list).hit)

-----------------------------------------------------------------------------
(* What a selector means: nodes stand for its compounds, each satisfies    *)
(* its conditions, and neighbours are related as the combinator says.      *)
Related(t, j, i, combinator) ==
  CASE combinator = "descendant" -> j < i /\ \A m \in j + 1..i : t[m].depth > t[j].depth
    [] combinator = ">" -> ParentNode(t, i) = j
    [] combinator = "~" -> j < i /\ ParentNode(t, j) = ParentNode(t, i) /\ t[j].depth = t[i].depth
    [] combinator = "+" -> /\ j < i /\ ParentNode(t, j) = ParentNode(t, i) /\ t[j].depth = t[i].depth
                           /\ ~\E m \in j + 1..i - 1 : IsElement(t, m) /\ ParentNode(t, m) = ParentNode(t, i)
Position(t, i, p, list) == Cardinality({j \in list : IF p.kind = "nth" THEN j <= i ELSE j >= i})
Satisfies(t, i, c) ==
  /\ Conditions(t, i, c)
  /\ \A p \in Range(c.pseudo) :
       CASE p.kind \in {"nth", "nth-last"} ->
              \E n \in 0..Len(t) + Abs(p.b) : Position(t, i, p, Counted(t, i, p.ofType)) = p.a * n + p.b
         [] p.kind = "not" ->
              ~\E k \in DOMAIN p.text : /\ p.text[k].sym = "compound" /\ Conditions(t, i, p.text[k])
                                        /\ \A q \in Range(p.text[k].pseudo) : PseudoHolds(t, i, q)
         [] OTHER -> PseudoHolds(t, i, p)
Denotes(t, i, selector) ==
  LET n == Len(selector.compounds)
  IN  \E at \in [1..n -> DOMAIN t] :
        /\ at[n] = i
        /\ \A k \in 1..n : Satisfies(t, at[k], selector.compounds[k])
        /\ \A k \in 1..n - 1 : Related(t, at[k], at[k + 1], selector.combinators[k])

(* On every tree the parser builds, a query returns the elements a         *)
(* selector denotes, in document order and each once: walking back from    *)
(* the last compound, with the matcher's own idea of siblings, positions   *)
(* and where to try again, misses none and adds none, unless it takes more *)
(* steps than its budget has and the query fails as a whole; a selector    *)
(* without combinators and lists never does.                               *)
QueryIsTheDefinition ==
  builder.nodes # <<>> => \A text \in SelectorTexts :
    LET parsed == ParseSelector(text)
        t == builder.nodes
        simple == Len(parsed.list) = 1 /\ Len(parsed.list[1].compounds) = 1 /\ parsed.list[1].compounds[1].pseudo = <<>>
    IN  /\ ~parsed.failed /\ simple => ~QueryThrows(t, parsed.list)
        /\ ~parsed.failed /\ ~QueryThrows(t, parsed.list) =>
          QueryAll(t, parsed.list) = SelectSeq([i \in DOMAIN t |-> i], LAMBDA i : \E k \in DOMAIN parsed.list : Denotes(t, i, parsed.list[k]))

(* What the parser made of a page is stable: written out and parsed again  *)
(* it is the same; and what is in it is found, by every selector that      *)
(* denotes it and by no other.                                             *)
MarkupIsFaithful == MarkupIsStable /\ QueryIsTheDefinition
=============================================================================
