------------------------------- MODULE PagePrint -------------------------------
(***************************************************************************)
(* A page on its way to paper: the encoders of the page IR                 *)
(* (src/core/ir_model.cpp, ir_events.cpp, ir_vtd.cpp, ir_iml.cpp), the     *)
(* stream between two processes, which may be cut off anywhere, and the    *)
(* two tools that read it: page2pdf, which replays it into a tree, lays    *)
(* the tree out and paints pages, and page2latex.  A document is the list  *)
(* of its nodes in document order, each with its depth.  Lengths are small *)
(* integers for points.                                                    *)
(***************************************************************************)
EXTENDS Integers, Sequences, FiniteSets, SequencesExt

CONSTANTS
  Docs,        \* documents: nodes with kind, tag, depth, names, attrs, words
  Sheet,       \* the rules of their style elements: of, tier, property, value
  Defaults,    \* compute_style's own styles: of a tag, display, size, height, margin, padding
  MaxWalk,     \* depth at which walk_tree throws (256)
  MaxNesting,  \* PAGE2PDF_MAX_NESTING (512)
  Height, Margin, KeepClear, Width, MinWidth,  \* a page; room a block needs; its least width
  MaxPrinted   \* PAGE2PDF_MAX_PAGES (512)

ASSUME PrintConstants ==
  /\ {MaxWalk, MaxNesting, Height, Margin, KeepClear, Width, MinWidth, MaxPrinted} \subseteq Nat
  /\ Height > 2 * Margin + KeepClear

VARIABLES
  doc, fmt, tool,  \* the document, its encoding, and who reads it
  emitted,         \* the nodes the encoder has passed
  open,            \* the elements it has open
  attrsDue,        \* attribute records still to come
  frames,          \* Renderer::frames: the reader's open elements
  tree,            \* the nodes it has built
  status,          \* "reading", "laying", "done" or "failed"
  short,           \* history: the stream was cut off
  at, word,        \* layout: the next node, the words of it that are placed
  sizes,           \* the font size at each depth
  blocks,          \* the flows of the open blocks, the innermost last
  runs,            \* the words placed: node, word, left, top, line height
  carried          \* history: pages into whose top margin a block's own space led

PrintVars == <<doc, fmt, tool, emitted, open, attrsDue, frames, tree, status, short, at, word,
               sizes, blocks, runs, carried>>

Paper == [depth |-> -1, x |-> Margin, width |-> Width, y |-> Margin, lineX |-> Margin,
          lineTop |-> Margin, lineHeight |-> 0, top |-> Margin, height |-> 0, margin |-> 0, padding |-> 0]

PrintInit ==
  /\ doc \in Docs /\ fmt \in {"events", "vtd", "iml"} /\ tool \in {"page2pdf", "page2latex"}
  /\ tool = "page2latex" => fmt = "events"
  /\ emitted = 0 /\ open = <<>> /\ attrsDue = 0 /\ frames = <<>> /\ tree = <<>>
  /\ status = "reading" /\ short = FALSE /\ at = 1 /\ word = 0
  /\ sizes = <<>> /\ blocks = <<Paper>> /\ runs = <<>> /\ carried = {}

-----------------------------------------------------------------------------
(* The reader: renderer_start, renderer_attribute, renderer_text and        *)
(* renderer_end, and the checks of parse_events, which are the same.  A     *)
(* record that does not fit where the reader is fails the conversion.       *)
Reads(ok) == status' = IF ok THEN "reading" ELSE "failed"
StartRecord(n, depth) ==
  LET ok == depth = Len(frames) /\ depth < MaxNesting IN
  /\ Reads(ok)
  /\ frames' = IF ok THEN Append(frames, n.tag) ELSE frames
  /\ tree' = IF ok THEN Append(tree, n) ELSE tree
AttributeRecord(depth) ==
  Reads(frames # <<>> /\ depth + 1 = Len(frames)) /\ UNCHANGED <<frames, tree>>
TextRecord(n, depth, tag) ==
  LET ok == depth = Len(frames) /\ (fmt = "iml" \/ (depth > 0 /\ Last(frames) = tag)) IN
  /\ Reads(ok) /\ tree' = IF ok THEN Append(tree, n) ELSE tree
  /\ UNCHANGED frames
EndRecord(tag, depth) ==
  LET ok == frames # <<>> /\ depth + 1 = Len(frames) /\ Last(frames) = tag IN
  /\ Reads(ok) /\ frames' = IF ok THEN Front(frames) ELSE frames
  /\ UNCHANGED tree

(* The encoder: walk_tree, and emit_iml_node, which walks the DOM itself    *)
(* and knows no depth limit.                                                *)
Encoding == status = "reading" /\ UNCHANGED <<doc, fmt, tool, at, word, sizes, blocks, runs, carried>>
Upcoming == doc[emitted + 1]
Inside == emitted < Len(doc) /\ Upcoming.depth >= Len(open)
EmitStart ==
  /\ Encoding /\ attrsDue = 0 /\ Inside /\ Upcoming.kind = "element"
  /\ Upcoming.depth < MaxWalk \/ fmt = "iml"
  /\ StartRecord(Upcoming, Len(open))
  /\ open' = Append(open, Upcoming.tag) /\ attrsDue' = Upcoming.attrs /\ emitted' = emitted + 1
  /\ UNCHANGED short
EmitAttribute ==
  /\ Encoding /\ attrsDue > 0 /\ attrsDue' = attrsDue - 1 /\ AttributeRecord(Len(open) - 1)
  /\ UNCHANGED <<emitted, open, short>>
(* Blank text and comments are left out everywhere, text outside every      *)
(* element by the walk over elements.                                       *)
Emits(n) == n.kind = "text" /\ n.words > 0 /\ (fmt = "iml" \/ n.depth > 0)
EmitText ==
  /\ Encoding /\ attrsDue = 0 /\ Inside /\ Upcoming.kind # "element" /\ emitted' = emitted + 1
  /\ IF Emits(Upcoming)
     THEN TextRecord(Upcoming, Len(open), IF open = <<>> THEN "" ELSE Last(open))
     ELSE UNCHANGED <<status, frames, tree>>
  /\ UNCHANGED <<open, attrsDue, short>>
EmitEnd ==
  /\ Encoding /\ attrsDue = 0 /\ ~Inside /\ open # <<>>
  /\ EndRecord(Last(open), Len(open) - 1) /\ open' = Front(open)
  /\ UNCHANGED <<emitted, attrsDue, short>>
WalkThrows ==
  /\ Encoding /\ attrsDue = 0 /\ Inside /\ Upcoming.kind = "element"
  /\ Upcoming.depth >= MaxWalk /\ fmt # "iml"
  /\ status' = "failed" /\ UNCHANGED <<emitted, open, attrsDue, frames, tree, short>>

(* Mutant: a stream may end inside an element. *)
EndOfStreamAnywhere ==
  LET complete == emitted = Len(doc) /\ open = <<>> /\ attrsDue = 0 IN
  /\ Encoding /\ short' = ~complete
  /\ status' = IF fmt = "events" => tree # <<>> THEN "laying" ELSE "failed"
  /\ UNCHANGED <<emitted, open, attrsDue, frames, tree>>

(* The stream ends, where it should or before.  VTD counts its tokens and   *)
(* IML closes its document; lines have neither.                             *)
EndOfStream ==
  LET complete == emitted = Len(doc) /\ open = <<>> /\ attrsDue = 0 IN
  /\ Encoding /\ short' = ~complete
  /\ status' = IF /\ frames = <<>>
                  /\ fmt = "events" => tree # <<>>
                  /\ fmt # "events" => complete
               THEN "laying" ELSE "failed"
  /\ UNCHANGED <<emitted, open, attrsDue, frames, tree>>

-----------------------------------------------------------------------------
(* compute_style: the defaults of the tag, then the matching rules tier by  *)
(* tier (tags, classes, ids), the later of one tier over the earlier.       *)
Bids(n, property) == {i \in DOMAIN Sheet : Sheet[i].of \in n.names /\ Sheet[i].property = property}
Computed(n, property) ==
  IF Bids(n, property) = {} THEN Defaults[n.tag][property]
  ELSE LET i == CHOOSE i \in Bids(n, property) : \A k \in Bids(n, property) :
                  Sheet[k].tier < Sheet[i].tier \/ (Sheet[k].tier = Sheet[i].tier /\ k <= i)
       IN  Sheet[i].value
Hidden(n) == n.kind = "element" /\ Computed(n, "display") = "none"
After(i) ==    \* the node that follows i and what is in it
  IF \E k \in (i + 1)..Len(tree) : tree[k].depth <= tree[i].depth
  THEN CHOOSE k \in (i + 1)..Len(tree) :
         tree[k].depth <= tree[i].depth /\ \A j \in (i + 1)..(k - 1) : tree[j].depth > tree[i].depth
  ELSE Len(tree) + 1

Flow == Last(blocks)
PageOf(top) == top \div Height
(* Mutant: the next line starts one unit down, whatever stood on this one. *)
LineFinishFlat(f) ==
  LET y == IF f.lineX # f.x THEN f.lineTop + 1 ELSE f.y
  IN  [f EXCEPT !.y = y, !.lineTop = y, !.lineX = f.x, !.lineHeight = 0]

LineFinish(f) ==
  LET y == IF f.lineX # f.x THEN f.lineTop + f.lineHeight ELSE f.y
  IN  [f EXCEPT !.y = y, !.lineTop = y, !.lineX = f.x, !.lineHeight = 0]
PageBreak(f, height) ==
  IF f.lineTop + height > PageOf(f.lineTop) * Height + Height - Margin
  THEN LET top == (PageOf(f.lineTop) + 1) * Height + Margin
       IN  [f EXCEPT !.lineTop = top, !.y = top, !.lineX = f.x]
  ELSE f

Laying == status = "laying" /\ tool = "page2pdf"
          /\ UNCHANGED <<doc, fmt, tool, emitted, open, attrsDue, frames, tree, short>>
InFlow == at <= Len(tree) /\ tree[at].depth > Flow.depth
SizeHere(n) == IF Computed(n, "size") # 0 THEN Computed(n, "size")
               ELSE IF n.depth = 0 THEN 1 ELSE sizes[n.depth]
Sized(n) == sizes' = Append(SubSeq(sizes, 1, n.depth), SizeHere(n))

(* layout_text: a word goes on the line or the next, on the page or the     *)
(* next; a word is one unit wide, and so is the space after it.             *)
LayWord ==
  LET n == tree[at]
      size == IF n.depth = 0 THEN 1 ELSE sizes[n.depth]
      wrapped == IF Flow.lineX > Flow.x /\ Flow.lineX + 1 > Flow.x + Flow.width
                 THEN LineFinish(Flow) ELSE Flow
      f == PageBreak(wrapped, size) IN
  /\ Laying /\ InFlow /\ n.kind = "text"
  /\ runs' = Append(runs, [node |-> at, word |-> word + 1, left |-> f.lineX, top |-> f.lineTop, height |-> size])
  /\ blocks' = Append(Front(blocks), [f EXCEPT !.lineX = @ + 2, !.lineHeight = IF @ < size THEN size ELSE @])
  /\ IF word + 1 < n.words THEN word' = word + 1 /\ UNCHANGED at ELSE word' = 0 /\ at' = at + 1
  /\ UNCHANGED <<sizes, status, carried>>
LayInline ==     \* layout_node, of an element that is hidden or not a block
  LET n == tree[at] IN
  /\ Laying /\ InFlow /\ n.kind = "element" /\ Computed(n, "display") # "block"
  /\ at' = IF Hidden(n) THEN After(at) ELSE at + 1
  /\ Sized(n) /\ UNCHANGED <<word, blocks, runs, status, carried>>
(* A block asks for room for its own top alone: its padding, and the margin *)
(* under it, may lead past the end of the page, and the next line starts    *)
(* in the margin of the one after.                                          *)
Carried(y) == carried' = IF y % Height < Margin THEN carried \cup {PageOf(y)} ELSE carried
LayBlock ==
  LET n == tree[at]
      m == Computed(n, "margin")  p == Computed(n, "padding")
      f == LineFinish(Flow)
      y == IF (f.y + m) % Height > Height - Margin - KeepClear
           THEN (PageOf(f.y + m) + 1) * Height + Margin ELSE f.y + m
      wide == f.width - 2 * m - 2 * p
      x == f.x + m + p IN
  /\ Laying /\ InFlow /\ n.kind = "element" /\ Computed(n, "display") = "block"
  /\ blocks' = Append(Append(Front(blocks), f),
       [depth |-> n.depth, x |-> x, width |-> IF wide < MinWidth THEN MinWidth ELSE wide,
        y |-> y + p, lineX |-> x, lineTop |-> y + p, lineHeight |-> 0,
        top |-> y, height |-> Computed(n, "height"), margin |-> m, padding |-> p])
  /\ Carried(y + p)
  /\ Sized(n) /\ at' = at + 1 /\ UNCHANGED <<word, runs, status>>
LayBlockEnd ==
  LET inside == LineFinish(Flow)
      outer == Last(Front(blocks))
      end == inside.y + inside.padding
      least == inside.top + inside.height
      y == (IF end < least THEN least ELSE end) + inside.margin IN
  /\ Laying /\ ~InFlow /\ Len(blocks) > 1
  /\ blocks' = Append(Front(Front(blocks)),
                      [outer EXCEPT !.y = y, !.lineTop = y, !.lineX = outer.x])
  /\ Carried(y)
  /\ UNCHANGED <<at, word, sizes, runs, status>>

(* paint_node and page_at: a word whose page is beyond the last fails.      *)
Paint ==
  /\ Laying /\ ~InFlow /\ Len(blocks) = 1
  /\ status' = IF \E i \in DOMAIN runs : PageOf(runs[i].top) >= MaxPrinted THEN "failed" ELSE "done"
  /\ UNCHANGED <<at, word, sizes, blocks, runs, carried>>

(* LatexWriter: all text outside the elements it skips *)
LatexSkips == {"head", "title", "style", "script"}
Render ==
  /\ status = "laying" /\ tool = "page2latex"
  /\ LET visited == IF at <= Len(tree) /\ tree[at].kind = "text"
                    THEN Append(runs, [node |-> at, word |-> 1, left |-> 0, top |-> at, height |-> 1]) ELSE runs
     IN  runs' = visited
  /\ at' = IF at > Len(tree) THEN at ELSE IF tree[at].tag \in LatexSkips THEN After(at) ELSE at + 1
  /\ status' = IF at > Len(tree) THEN "done" ELSE "laying"
  /\ UNCHANGED <<doc, fmt, tool, emitted, open, attrsDue, frames, tree, short, word, sizes, blocks, carried>>

PrintNext ==
  \/ EmitStart \/ EmitAttribute \/ EmitText \/ EmitEnd \/ WalkThrows \/ EndOfStream
  \/ LayWord \/ LayInline \/ LayBlock \/ LayBlockEnd \/ Paint \/ Render
PrintSpec == PrintInit /\ [][PrintNext]_PrintVars

-----------------------------------------------------------------------------
PrintTypeOK ==
  /\ status \in {"reading", "laying", "done", "failed"} /\ emitted \in 0..Len(doc)
  /\ Len(frames) <= MaxNesting /\ attrsDue \in Nat /\ word \in Nat /\ at \in 1..(Len(tree) + 1)
  /\ \A i \in DOMAIN runs : runs[i].top \in Nat /\ runs[i].left \in Nat

(* What is printed is the page: every encoding that is accepted gives the   *)
(* reader the document's elements and text; a stream that was cut off is    *)
(* refused, except that lines may end between two top elements, which       *)
(* gives the document up to there.                                          *)
Expected == SelectSeq(SubSeq(doc, 1, emitted), LAMBDA n : n.kind = "element" \/ Emits(n))
AcceptedIsThePage ==
  status \in {"laying", "done"} =>
    /\ tree = Expected /\ open = <<>>
    /\ short => fmt = "events" /\ (emitted < Len(doc) => doc[emitted + 1].depth = 0)
    /\ ~short => emitted = Len(doc)

(* And it reads in order: every word that no style hides is printed once,   *)
(* in document order, to the right of the word before or below its line,    *)
(* never over it.  No word reaches into the bottom margin of its page, and  *)
(* none into the top margin, but on a page to which the padding, margin or  *)
(* height of a block has led.                                               *)
Shown(i) == tree[i].kind = "text" /\ \A k \in 1..i : Hidden(tree[k]) => After(k) <= i
Below(r, s) == s.top >= r.top + r.height
WordsInReadingOrder ==
  tool = "page2pdf" =>
    /\ \A i \in 2..Len(runs) : LET r == runs[i - 1] s == runs[i] IN
         /\ r.node < s.node \/ (r.node = s.node /\ r.word + 1 = s.word)
         /\ Below(r, s) \/ (r.top = s.top /\ r.left + 1 < s.left)
    /\ \A i \in DOMAIN runs :
         /\ (runs[i].top % Height) + runs[i].height <= Height - Margin
         /\ runs[i].top % Height >= Margin \/ PageOf(runs[i].top) \in carried
    /\ status = "done" =>
         {<<runs[i].node, runs[i].word>> : i \in DOMAIN runs}
           = UNION {{<<i, w>> : w \in 1..tree[i].words} : i \in {k \in DOMAIN tree : Shown(k)}}
(* What is printed is what the page shows, and in its order.                *)
PrintIsThePage == AcceptedIsThePage /\ WordsInReadingOrder
=============================================================================
