------------------------------- MODULE Markup -------------------------------
(***************************************************************************)
(* Flatworm's way from markup to a tree and back: the tokenizer, the tree  *)
(* builder with its restricted recovery, the limits, and the serializer    *)
(* that innerHTML and page output use (src/flatworm/html_*.cpp).           *)
(*                                                                         *)
(* Markup is a sequence of lexemes: tags, comments, a character or a word, *)
(* a lone "<".  esc counts how often a lexeme is escaped: "&amp;lt;p>" is  *)
(* the tag <p> with esc = 2, and is text wherever it stands.  A tree is    *)
(* the sequence of its nodes in document order, each with its depth.       *)
(***************************************************************************)
EXTENDS Naturals, Sequences, SequencesExt

CONSTANTS
  Lexemes,       \* what the markup is made of
  MaxLexemes,    \* bound: length of the markup
  MaxBytes,      \* max_bytes (16 MiB)
  MaxTreeNodes,  \* max_nodes, the document included
  MaxTreeDepth   \* max_depth, the document included

ASSUME MarkupAssumption == {MaxLexemes, MaxBytes, MaxTreeNodes, MaxTreeDepth} \subseteq Nat \ {0}

VARIABLES builder,  \* the parser: bytes read, nodes, open elements, text state
          read      \* number of lexemes read
MarkupVars == <<builder, read>>

Void == {"area", "base", "br", "col", "embed", "hr", "img", "input", "link", "meta", "param", "source", "track", "wbr"}
RawText == {"script", "style"}
Rcdata == {"title", "textarea"}

(* decode_entities and the escapes of the serializer.                      *)
PlainText(l) == l.is = "text"
Decoded(l) == IF l.esc > 0 THEN [l EXCEPT !.esc = @ - 1] ELSE l
Escaped(l) == IF PlainText(l) THEN l ELSE [l EXCEPT !.esc = @ + 1]
EachValue(Op(_), attrs) == [i \in DOMAIN attrs |-> [attrs[i] EXCEPT !.value = [j \in DOMAIN @ |-> Op(@[j])]]]
(* The tokenizer keeps the first attribute of a name.                      *)
FirstOfName(attrs) ==
  FoldLeft(LAMBDA kept, a : IF \E k \in Range(kept) : k.name = a.name THEN kept ELSE Append(kept, a), <<>>, attrs)

(* Bytes: a character one, a tag or comment three and what its values take, *)
(* and every escape four more.                                             *)
LetterBytes(l) == (IF l.is \in {"start", "end", "comment"} THEN 3 ELSE 1) + 4 * l.esc
ValueBytes(attr) == 1 + FoldLeft(LAMBDA n, c : n + LetterBytes(c), 0, attr.value)
Bytes(l) ==
  LetterBytes(l) + IF l.is = "start" THEN FoldLeft(LAMBDA n, a : n + ValueBytes(a), 0, l.attrs) ELSE 0
Size(markup) == FoldLeft(LAMBDA n, l : n + Bytes(l), 0, markup)

-----------------------------------------------------------------------------
(* close_for_start: the rules that apply to a start tag, in order, each    *)
(* with what it closes and what it does not look beyond.                   *)
ClosesP ==
  {"address", "article", "aside", "blockquote", "div", "dl", "fieldset", "footer", "form", "h1", "h2", "h3", "h4",
   "h5", "h6", "header", "hgroup", "hr", "main", "menu", "nav", "ol", "p", "pre", "section", "table", "ul"}
Sections == {"tbody", "thead", "tfoot"}
CloseRules ==
  << [for |-> ClosesP, targets |-> {"p"}, barriers |-> {"html", "table", "td", "th", "button", "template"}],
     [for |-> {"li"}, targets |-> {"li"}, barriers |-> {"ul", "ol", "menu", "html", "template"}],
     [for |-> {"dt", "dd"}, targets |-> {"dt", "dd"}, barriers |-> {"dl", "html", "template"}],
     [for |-> {"option", "optgroup"}, targets |-> {"option"},
      barriers |-> {"select", "datalist", "optgroup", "html", "template"}],
     [for |-> {"optgroup"}, targets |-> {"optgroup"}, barriers |-> {"select", "html", "template"}],
     [for |-> {"td", "th", "tr"} \cup Sections, targets |-> {"td", "th"}, barriers |-> {"tr", "table", "html", "template"}],
     [for |-> {"tr"} \cup Sections, targets |-> {"tr"}, barriers |-> {"table", "html", "template"} \cup Sections],
     [for |-> Sections, targets |-> Sections, barriers |-> {"table", "html", "template"}] >>
Innermost(stack, names) == SelectLastInSubSeq(stack, 1, Len(stack), LAMBDA n : n \in names)
CloseScoped(stack, rule) ==
  LET at == Innermost(stack, rule.targets)
  IN  IF at = 0 \/ Innermost(stack, rule.barriers) > at THEN stack ELSE SubSeq(stack, 1, at - 1)
CloseForStart(stack, name) ==
  FoldLeft(LAMBDA s, rule : IF name \in rule.for THEN CloseScoped(s, rule) ELSE s, stack, CloseRules)

-----------------------------------------------------------------------------
(* parse_html_tree, one lexeme at a time.                                  *)
EmptyTree == [size |-> 0, nodes |-> <<>>, stack |-> <<>>, raw |-> "", inRun |-> FALSE, refused |-> FALSE]
Leaf(type, text, depth) == [type |-> type, name |-> "", attrs |-> <<>>, text |-> text, depth |-> depth]

(* Too many nodes or too deep a tree: the whole parse throws.              *)
Grown(s, node) ==
  IF Len(s.nodes) + 2 > MaxTreeNodes \/ Len(s.stack) + 1 > MaxTreeDepth THEN [s EXCEPT !.refused = TRUE]
  ELSE [s EXCEPT !.nodes = Append(@, node)]
AddText(s, l) ==
  IF s.inRun THEN [s EXCEPT !.nodes[Len(s.nodes)].text = Append(@, l)]
  ELSE [Grown(s, Leaf("text", <<l>>, Len(s.stack))) EXCEPT !.inRun = TRUE]
EndTag(s, name) ==
  LET at == Innermost(s.stack, {name})
  IN  [s EXCEPT !.raw = "", !.inRun = FALSE, !.stack = IF at = 0 THEN @ ELSE SubSeq(@, 1, at - 1)]
StartTag(s, l) ==
  LET closed == [s EXCEPT !.stack = CloseForStart(@, l.name), !.inRun = FALSE]
      node == [type |-> "element", name |-> l.name, attrs |-> EachValue(Decoded, FirstOfName(l.attrs)),
               text |-> <<>>, depth |-> Len(closed.stack)]
      grown == Grown(closed, node)
  IN  IF l.name \in Void THEN grown
      ELSE [grown EXCEPT !.stack = Append(@, l.name), !.raw = IF l.name \in RawText \cup Rcdata THEN l.name ELSE ""]
TreeStep(s, l) ==
  CASE s.raw # "" ->
         IF l.is = "end" /\ l.esc = 0 /\ l.name = s.raw THEN EndTag(s, l.name)
         ELSE AddText(s, IF s.raw \in Rcdata THEN Decoded(l) ELSE l)
    [] s.raw = "" /\ (PlainText(l) \/ l.esc > 0) -> AddText(s, Decoded(l))
    [] OTHER ->
         CASE l.is = "start" -> StartTag(s, l)
           [] l.is = "end" -> EndTag(s, l.name)
           [] l.is = "<" -> [Grown(s, Leaf("text", <<l>>, Len(s.stack))) EXCEPT !.inRun = FALSE]
           [] OTHER -> [Grown(s, Leaf(l.is, <<>>, Len(s.stack))) EXCEPT !.inRun = FALSE]
(* Too many bytes throw before the first token is read: refusing where     *)
(* they become too many leaves nothing behind either.                      *)
ParseStep(s, l) ==
  IF s.refused \/ s.size + Bytes(l) > MaxBytes THEN [s EXCEPT !.refused = TRUE]
  ELSE TreeStep([s EXCEPT !.size = @ + Bytes(l)], l)
Parse(markup) == FoldLeft(ParseStep, EmptyTree, markup)

-----------------------------------------------------------------------------
(* serialize: the tags and texts of a tree, every element closed.          *)
Lexeme(is, name, attrs) == [is |-> is, name |-> name, attrs |-> attrs, esc |-> 0]
TextEscaped(text, parent) == [i \in DOMAIN text |-> Escaped(text[i])]
TextOut(text, parent) == IF parent \in RawText THEN text ELSE [i \in DOMAIN text |-> Escaped(text[i])]
Closing(open, depth) == [i \in 1..Len(open) - depth |-> Lexeme("end", open[Len(open) + 1 - i], <<>>)]
SerializeNode(s, node) ==
  LET open == SubSeq(s.open, 1, node.depth)
      before == s.out \o Closing(s.open, node.depth)
  IN  CASE node.type = "text" -> [out |-> before \o TextOut(node.text, IF open = <<>> THEN "" ELSE Last(open)), open |-> open]
        [] node.type = "element" ->
             [out |-> Append(before, Lexeme("start", node.name, EachValue(Escaped, node.attrs))),
              open |-> IF node.name \in Void THEN open ELSE Append(open, node.name)]
        [] OTHER -> [out |-> Append(before, Lexeme(node.type, "", <<>>)), open |-> open]
Serialize(nodes) ==
  LET done == FoldLeft(SerializeNode, [out |-> <<>>, open |-> <<>>], nodes) IN done.out \o Closing(done.open, 0)

-----------------------------------------------------------------------------
MarkupInit == builder = EmptyTree /\ read = 0
ReadLexeme ==
  \E l \in Lexemes :
    /\ read < MaxLexemes /\ ~builder.refused /\ read' = read + 1
    /\ builder' = ParseStep(builder, l)
MarkupNext == ReadLexeme
MarkupSpec == MarkupInit /\ [][MarkupNext]_MarkupVars

(* Neighbouring texts count as one: a lone "<" is a text of its own until  *)
(* the tree is written out.                                                *)
Normal(nodes) ==
  FoldLeft(LAMBDA done, n :
             IF done # <<>> /\ n.type = "text" /\ Last(done).type = "text" /\ Last(done).depth = n.depth
             THEN Append(Front(done), [n EXCEPT !.text = Last(done).text \o @]) ELSE Append(done, n),
           <<>>, nodes)

(* Whatever the markup, writing the tree out and parsing the result, as    *)
(* innerHTML = innerHTML and every cached page do, gives the same tree:    *)
(* the recovery rules close nothing new, escapes and raw text survive, and *)
(* a tree within the limits on nodes and depth stays within them.  Only    *)
(* the limit on bytes can refuse it, for escapes and end tags make markup  *)
(* longer than what it was parsed from.                                    *)
MarkupIsStable ==
  ~builder.refused =>
    LET out == Serialize(builder.nodes)
        again == Parse(out)
    IN  IF Size(out) > MaxBytes THEN again.refused
        ELSE ~again.refused /\ Normal(again.nodes) = Normal(builder.nodes)
=============================================================================
