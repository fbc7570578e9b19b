------------------------------ MODULE BoxLayout -----------------------------
(***************************************************************************)
(* From computed styles to what a click hits: normal flow, lines of text   *)
(* with their alignment, flex rows, the clips of overflow: hidden, the     *)
(* paint list and the hit test (src/core/render/box_layout.cpp,            *)
(* flex_layout.cpp, text_metrics.cpp, paint.cpp, hit_test.cpp,             *)
(* renderer.cpp).                                                          *)
(*                                                                         *)
(* A page is a sequence of nodes in document order.  Lengths are integers  *)
(* and divisions round; a character is one wide, a line one high.  pad is  *)
(* padding and border together, the same on every side.  White space that  *)
(* is preserved and the wording of markers and labels are left out.        *)
(***************************************************************************)
EXTENDS Integers, Sequences, SequencesExt, FiniteSets

CONSTANTS
  LaidPages,     \* the pages to render
  Viewport,      \* width and height
  MaxFragments,  \* max_render_paint_items / 2
  MaxDepth,      \* max_render_depth
  AutoLength           \* a length that is not given

ASSUME BoxAssumption == Viewport \in Nat \ {0} /\ MaxFragments \in Nat /\ MaxDepth \in Nat /\ AutoLength \notin 0..Viewport

VARIABLES bpage, bphase, laid, limited
BoxVars == <<bpage, bphase, laid, limited>>

Least(a, b) == IF a < b THEN a ELSE b
Most(a, b) == IF a > b THEN a ELSE b
SumOf(s) == FoldLeft(LAMBDA a, b : a + b, 0, s)

-----------------------------------------------------------------------------
(* Rectangles; an empty intersection is the rectangle of size zero.        *)
Rect(x, y, w, h) == [x |-> x, y |-> y, w |-> w, h |-> h]
Covers(r, px, py) == r.w > 0 /\ r.h > 0 /\ px >= r.x /\ px < r.x + r.w /\ py >= r.y /\ py < r.y + r.h
Intersect(r, s) ==
  LET l == Most(r.x, s.x)  right == Least(r.x + r.w, s.x + s.w)
      t == Most(r.y, s.y)  bottom == Least(r.y + r.h, s.y + s.h)
  IN  IF right <= l \/ bottom <= t THEN Rect(0, 0, 0, 0) ELSE Rect(l, t, right - l, bottom - t)

Frag(kind, node, rect, shown) == [kind |-> kind, node |-> node, rect |-> rect, shown |-> shown, clipped |-> FALSE, clip |-> Rect(0, 0, 0, 0)]
Tall(f, height) == [f EXCEPT !.rect = Rect(@.x, @.y, @.w, height)]
(* translate moves fragments from..to with their clips; constrain narrows  *)
(* their clips.                                                            *)
MovedBare(f, dx, dy) == [f EXCEPT !.rect = Rect(@.x + dx, @.y + dy, @.w, @.h)]
Moved(f, dx, dy) ==
  [f EXCEPT !.rect = Rect(@.x + dx, @.y + dy, @.w, @.h), !.clip = IF f.clipped THEN Rect(@.x + dx, @.y + dy, @.w, @.h) ELSE @]
Translate(frags, from, to, dx, dy) == [k \in DOMAIN frags |-> IF k \in from..to THEN Moved(frags[k], dx, dy) ELSE frags[k]]
Constrain(frags, from, to, bounds) ==
  [k \in DOMAIN frags |->
     IF k \notin from..to THEN frags[k]
     ELSE [frags[k] EXCEPT !.clipped = TRUE, !.clip = IF frags[k].clipped THEN Intersect(@, bounds) ELSE bounds]]

-----------------------------------------------------------------------------
(* A flow: where the next box goes, the line so far and its fragments.     *)
FlowAt(left, y, width, align) ==
  [left |-> left, y |-> y, width |-> width, align |-> align, used |-> 0, line |-> 0, margin |-> 0, space |-> FALSE, ranges |-> <<>>]
Flush(s) ==
  LET f == s.flow
      free == f.width - f.used
      dx == CASE f.align = "center" -> free \div 2 [] f.align = "end" -> free [] OTHER -> 0
  IN  [s EXCEPT !.frags = FoldLeft(LAMBDA fs, r : Translate(fs, r[1], r[2], dx, 0), @, f.ranges),
                !.flow = [f EXCEPT !.y = @ + f.line, !.used = 0, !.line = 0, !.space = FALSE, !.ranges = <<>>]]
Budget(s) == Len(s.frags) < MaxFragments
Spent(s) == IF Budget(s) THEN s ELSE [s EXCEPT !.limited = TRUE]

(* text: words break between lines and, when longer than a line, within.   *)
Spans(width, line) == [k \in 1..(width + line - 1) \div line |-> Least(line, width - (k - 1) * line)]
PlaceSpan(s, owner, style, width) ==
  LET f == s.flow
      placed == [s EXCEPT !.flow.used = @ + width, !.flow.line = Most(@, 1)]
  IN  IF ~Budget(s) THEN Spent(s)
      ELSE IF ~style.visible THEN placed
      ELSE [placed EXCEPT !.frags = Append(@, Frag("text", owner, Rect(f.left + f.used, f.y, width, 1), TRUE)),
                          !.flow.ranges = Append(@, <<Len(s.frags) + 1, Len(s.frags) + 1>>)]
PlaceWord(s, owner, style, width) ==
  LET wrap == style.wrap
      gap == IF s.flow.space /\ s.flow.used > 0 THEN 1 ELSE 0
      breaks == wrap /\ s.flow.used > 0 /\ s.flow.used + gap + width > s.flow.width
      ready == IF breaks THEN Flush(s) ELSE [s EXCEPT !.flow.used = @ + gap, !.flow.space = FALSE]
      spans == IF wrap THEN Spans(width, Most(1, ready.flow.width - ready.flow.used)) ELSE <<width>>
  IN  FoldLeft(LAMBDA t, k : PlaceSpan(IF k = 1 THEN t ELSE Flush(t), owner, style, spans[k]), ready, [k \in DOMAIN spans |-> k])
PlaceText(s, owner, style, words) ==
  FoldLeft(LAMBDA t, w : IF ~Budget(t) THEN Spent(t)
                         ELSE IF w = 0 THEN [t EXCEPT !.flow.space = TRUE] ELSE PlaceWord(t, owner, style, w),
           s, words)

-----------------------------------------------------------------------------
(* The nodes below a node; closed details show their first summary.        *)
ChildrenOf(page, i) ==
  LET all == SelectSeq([k \in DOMAIN page |-> k], LAMBDA k : page[k].parent = i)
      summaries == SelectSeq(all, LAMBDA k : page[k].tag = "summary")
  IN  IF i > 0 /\ page[i].tag = "details" /\ ~page[i].open THEN SubSeq(summaries, 1, Least(1, Len(summaries))) ELSE all
IsText(page, k) == page[k].tag = "#text"
RECURSIVE LabelWidth(_, _)
LabelWidth(page, i) ==
  IF IsText(page, i) THEN SumOf([k \in DOMAIN page[i].words |-> Most(1, page[i].words[k])])
  ELSE SumOf([k \in DOMAIN ChildrenOf(page, i) |-> LabelWidth(page, ChildrenOf(page, i)[k])])
IsBlock(style) == style.display \in {"block", "list-item", "table", "table-row", "table-cell", "flex"}
Size(v, low, high, style, decoration) ==
  LET subtract == IF style.borderBox THEN decoration ELSE 0
      below == IF high = AutoLength THEN v ELSE Least(v, Most(0, high - subtract))
  IN  Most(0, IF low = AutoLength THEN below ELSE Most(below, Most(0, low - subtract)))

-----------------------------------------------------------------------------
(* Flex rows.  An item: basis, smallest and largest width, fixed extent,   *)
(* margins, grow and shrink.                                               *)
Clamp(v, low, high) == IF v < low THEN low ELSE IF v > high THEN high ELSE v
Wide == 1000
FlexMeasure(page, k, style, anonymous) ==
  LET decoration == IF anonymous THEN 0 ELSE 2 * style.pad
      subtract == IF style.borderBox THEN decoration ELSE 0
      basis == IF anonymous THEN AutoLength ELSE IF style.basis = AutoLength THEN style.width ELSE style.basis
      minimum == IF anonymous \/ style.minWidth = AutoLength THEN 0 ELSE Most(0, style.minWidth - subtract)
  IN  [basis |-> IF basis = AutoLength THEN LabelWidth(page, k) ELSE Most(0, basis - subtract), min |-> minimum,
       max |-> IF anonymous \/ style.maxWidth = AutoLength THEN Wide ELSE Most(minimum, style.maxWidth - subtract),
       fixed |-> IF anonymous THEN 0 ELSE decoration + style.ml + style.mr,
       ml |-> IF anonymous THEN 0 ELSE style.ml, mr |-> IF anonymous THEN 0 ELSE style.mr,
       autoL |-> ~anonymous /\ style.autoL, autoR |-> ~anonymous /\ style.autoR,
       grow |-> IF anonymous THEN 0 ELSE style.grow, shrink |-> IF anonymous THEN 1 ELSE style.shrink]
Extent(m) == Most(0, Clamp(m.basis, m.min, m.max) + m.fixed)
(* arrange_flex_rows: the first items of the rows.                         *)
RowStarts(measures, width, gap, wraps) ==
  FoldLeft(LAMBDA r, k : IF wraps /\ k > Last(r.starts) /\ r.used + gap + Extent(measures[k]) > width
                         THEN [starts |-> Append(r.starts, k), used |-> Extent(measures[k])]
                         ELSE [r EXCEPT !.used = @ + (IF k > Last(r.starts) THEN gap ELSE 0) + Extent(measures[k])],
           [starts |-> <<1>>, used |-> 0], [k \in DOMAIN measures |-> k]).starts
(* resolve_line: shares of the free space until no limit is violated; the  *)
(* items on the violated side freeze.                                      *)
Violators(active, new, target, violation) ==
  {k \in active : violation = 0 \/ (violation > 0 /\ new[k] > target[k]) \/ (violation < 0 /\ new[k] < target[k])}
Violation(active, new, target) == SumOf([k \in DOMAIN new |-> IF k \in active THEN new[k] - target[k] ELSE 0])
RECURSIVE ShareOut(_, _, _, _, _)
ShareOut(row, widths, frozen, free, growing) ==
  LET factor(k) == IF growing THEN row[k].grow ELSE row[k].shrink * row[k].basis
      active == DOMAIN row \ frozen
      left == free - SumOf([k \in DOMAIN row |-> IF k \in frozen THEN widths[k] ELSE row[k].basis])
      weight == SumOf([k \in DOMAIN row |-> IF k \in active THEN factor(k) ELSE 0])
      target == [k \in DOMAIN row |-> row[k].basis + (IF weight > 0 THEN (left * factor(k)) \div weight ELSE 0)]
      new == [k \in DOMAIN row |-> IF k \in active THEN Clamp(target[k], row[k].min, row[k].max) ELSE widths[k]]
  IN  IF active = {} THEN widths
      ELSE ShareOut(row, new, frozen \cup Violators(active, new, target, Violation(active, new, target)), free, growing)
FlexWidths(row, width, gap) ==
  LET gaps == gap * (Len(row) - 1)
      fixed == gaps + SumOf([k \in DOMAIN row |-> row[k].fixed])
      bound == [k \in DOMAIN row |-> Clamp(row[k].basis, row[k].min, row[k].max)]
      growing == fixed + SumOf(bound) < width
      frozen == {k \in DOMAIN row : \/ (IF growing THEN row[k].grow ELSE row[k].shrink) = 0
                                    \/ (IF growing THEN row[k].basis > bound[k] ELSE row[k].basis < bound[k])}
  IN  ShareOut(row, [k \in DOMAIN row |-> IF k \in frozen THEN bound[k] ELSE row[k].basis], frozen, width - fixed, growing)
(* justify-content and automatic margins place the items.                  *)
FlexPlaces(row, widths, width, gap, style) ==
  LET n == Len(row)
      autos == SumOf([k \in DOMAIN row |-> (IF row[k].autoL THEN 1 ELSE 0) + (IF row[k].autoR THEN 1 ELSE 0)])
      rest == width - gap * (n - 1) - SumOf([k \in DOMAIN row |-> row[k].fixed + widths[k]])
      share == IF autos = 0 THEN 0 ELSE Most(0, rest) \div autos
      free == IF autos > 0 /\ rest > 0 THEN 0 ELSE rest
      extra == CASE style.justify = "space-between" -> IF n > 1 THEN Most(0, free) \div (n - 1) ELSE 0
                 [] style.justify = "space-around" -> Most(0, free) \div n
                 [] style.justify = "space-evenly" -> Most(0, free) \div (n + 1)
                 [] OTHER -> 0
      first == CASE style.justify = "end" -> free
                 [] style.justify = "center" -> free \div 2
                 [] style.justify = "space-around" -> IF free < 0 THEN free \div 2 ELSE extra \div 2
                 [] style.justify = "space-evenly" -> IF free < 0 THEN free \div 2 ELSE extra
                 [] OTHER -> 0
      left(k) == IF row[k].autoL THEN share ELSE row[k].ml
      right(k) == IF row[k].autoR THEN share ELSE row[k].mr
      border(k) == widths[k] + row[k].fixed - row[k].ml - row[k].mr
      before(k) == first + SumOf([m \in 1..k - 1 |-> border(m) + left(m) + right(m) + gap + extra])
  IN  [k \in DOMAIN row |-> IF style.reverse THEN width - before(k) - right(k) - border(k) ELSE before(k) + left(k)]

-----------------------------------------------------------------------------
RECURSIVE LayElement(_, _, _, _, _)
LayChildren(page, i, style, s) ==
  FoldLeft(LAMBDA t, k : IF ~Budget(t) THEN Spent(t)
                         ELSE IF IsText(page, k) THEN PlaceText(t, i, style, page[k].words)
                         ELSE LayElement(page, k, page[k].style, t, FALSE),
           s, ChildrenOf(page, i))

(* flex_children: each item is laid out at the origin, then moved to its   *)
(* place and only there clipped to its own content box.                    *)
FlexItems(page, i) ==
  LET shown == SelectSeq(ChildrenOf(page, i), LAMBDA k : IF IsText(page, k) THEN Range(page[k].words) # {0} ELSE page[k].style.display # "none")
      order(k) == IF IsText(page, k) THEN 0 ELSE page[k].style.order
  IN  SortSeq(shown, LAMBDA a, b : order(a) < order(b) \/ (order(a) = order(b) /\ a < b))
ItemStyle(style, width) ==
  LET inner(h) == IF style.borderBox /\ h # AutoLength THEN Most(0, h - 2 * style.pad) ELSE h
  IN  [style EXCEPT !.display = IF IsBlock(style) THEN @ ELSE "block", !.width = width, !.borderBox = FALSE,
                    !.height = inner(@), !.minHeight = inner(@), !.maxHeight = inner(@),
                    !.minWidth = AutoLength, !.maxWidth = AutoLength, !.ml = 0, !.mr = 0, !.mt = 0, !.mb = 0, !.autoL = FALSE, !.autoR = FALSE]
LaidItem(s, done) ==
  [s |-> [done EXCEPT !.flow = s.flow], from |-> Len(s.frags) + 1, to |-> Len(done.frags), height |-> done.flow.y]
LayItem(page, i, style, s, k, width) ==
  LET start == [s EXCEPT !.flow = FlowAt(0, 0, width, "start")]
  IN  LaidItem(s, IF IsText(page, k) THEN Flush(PlaceText(start, i, style, page[k].words))
                  ELSE LayElement(page, k, ItemStyle(page[k].style, width), start, TRUE))
PlaceItem(page, style, s, item, k, width, x, lineHeight) ==
  LET text == IsText(page, k)
      own == IF text THEN style ELSE page[k].style
      top == IF text THEN 0 ELSE own.mt
      margins == IF text THEN 0 ELSE own.mt + own.mb
      align == IF text \/ own.alignSelf = "" THEN style.alignItems ELSE own.alignSelf
      stretches == ~text /\ align = "stretch" /\ own.height = AutoLength
      vertical == 2 * own.pad
      content == Size(Most(0, lineHeight - margins - vertical), own.minHeight, own.maxHeight, own, vertical)
      height == IF stretches THEN content + vertical ELSE item.height
      free == lineHeight - height - margins
      dy == top + (CASE align = "center" -> free \div 2 [] align = "end" -> free [] OTHER -> 0)
      grown == [n \in DOMAIN s.frags |->
                  IF ~stretches \/ n \notin item.from..item.to THEN s.frags[n]
                  ELSE IF n = item.from THEN Tall(s.frags[n], height)
                  ELSE IF own.atomic /\ s.frags[n].kind = "control" THEN Tall(s.frags[n], content) ELSE s.frags[n]]
      placed == Translate(grown, item.from, item.to, s.flow.left + x, s.flow.y + dy)
      box == placed[item.from].rect
  IN  IF item.from > item.to THEN s
      ELSE [s EXCEPT !.frags = IF ~text /\ own.hidden
                               THEN Constrain(placed, item.from + 1, item.to,
                                              Rect(box.x + own.pad, box.y + own.pad, width, Most(0, height - vertical)))
                               ELSE placed]
(* The items of a row are laid out, which gives the row its height, and    *)
(* then placed.                                                            *)
AddItem(t, item, margins, whole) ==
  [s |-> item.s, done |-> Append(t.done, item), height |-> IF whole THEN t.height ELSE Most(t.height, item.height + margins)]
LayItems(page, i, style, s, items, widths, given) ==
  LET whole == ~style.wraps /\ given # AutoLength
      margins(k) == IF IsText(page, k) THEN 0 ELSE page[k].style.mt + page[k].style.mb
  IN  FoldLeft(LAMBDA t, n : IF ~Budget(t.s) THEN [t EXCEPT !.s = Spent(@)]
                             ELSE AddItem(t, LayItem(page, i, style, t.s, items[n], widths[n]), margins(items[n]), whole),
               [s |-> s, done |-> <<>>, height |-> IF whole THEN given ELSE 0], [n \in DOMAIN items |-> n])
PlaceItems(page, style, items, widths, xs, row, below) ==
  [FoldLeft(LAMBDA t, n : PlaceItem(page, style, t, row.done[n], items[n], widths[n], xs[n], row.height),
            row.s, [n \in DOMAIN row.done |-> n]) EXCEPT !.flow.y = @ + row.height + below]
LayRowOf(page, i, style, s, items, measures, widths, given, below) ==
  PlaceItems(page, style, items, widths, FlexPlaces(measures, widths, s.flow.width, style.gap, style),
             LayItems(page, i, style, s, items, widths, given), below)
LayRow(page, i, style, s, items, measures, given, below) ==
  LayRowOf(page, i, style, s, items, measures, FlexWidths(measures, s.flow.width, style.gap), given, below)
LayRows(page, i, style, s, items, measures, starts, given) ==
  LET last(r) == IF r = Len(starts) THEN Len(items) ELSE starts[r + 1] - 1
  IN  FoldLeft(LAMBDA t, r : LayRow(page, i, style, t, SubSeq(items, starts[r], last(r)), SubSeq(measures, starts[r], last(r)),
                                    given, IF r = Len(starts) THEN 0 ELSE style.gap),
               s, [r \in DOMAIN starts |-> r])
Measures(page, style, items) ==
  [n \in DOMAIN items |-> FlexMeasure(page, items[n], IF IsText(page, items[n]) THEN style ELSE page[items[n]].style, IsText(page, items[n]))]
LayFlex(page, i, style, s, given) ==
  LET items == FlexItems(page, i)
      measures == Measures(page, style, items)
  IN  IF items = <<>> THEN s
      ELSE LayRows(page, i, style, s, items, measures, RowStarts(measures, s.flow.width, style.gap, style.wraps), given)

(* element.  The box is placed in the flow around it, filled, and closed   *)
(* when its height is known: the box comes before its content in the paint *)
(* order, controls and markers after it.                                   *)
Deco(style) == 2 * style.pad
InContent(v, style) == Most(0, v - (IF style.borderBox THEN Deco(style) ELSE 0))
GivenHeight(style) == IF style.height = AutoLength THEN AutoLength ELSE InContent(style.height, style)
BoxWidth(page, i, style, flow) ==
  LET wide == IF style.width # AutoLength THEN InContent(style.width, style) ELSE Most(0, flow.width - style.ml - style.mr - Deco(style))
      snug == (~IsBlock(style) \/ style.atomic) /\ style.width = AutoLength
  IN  Size(IF snug THEN Least(wide, Most(1, LabelWidth(page, i))) ELSE wide, style.minWidth, style.maxWidth, style, Deco(style))
LineFor(style, s, width) ==
  IF ~IsBlock(style) /\ s.flow.used > 0 /\ s.flow.used + width + Deco(style) + style.ml + style.mr > s.flow.width THEN Flush(s) ELSE s
OpenBox(i, style, s, width) ==
  LET f == s.flow
      margin == IF IsBlock(style) THEN Most(style.mt, f.margin) ELSE style.mt
      free == Most(0, f.width - width - Deco(style) - style.ml - style.mr)
      autoLeft == IF IsBlock(style) /\ style.autoL THEN IF style.autoR THEN free \div 2 ELSE free ELSE 0
      x == f.left + f.used + style.ml + autoLeft + style.relX
      y == f.y + margin + style.relY
  IN  [outer |-> f, margin |-> margin, x |-> x, width |-> width, at |-> Len(s.frags) + 1, cx |-> x + style.pad, cy |-> y + style.pad,
       start |-> [s EXCEPT !.frags = Append(@, Frag("box", i, Rect(x, y, width + Deco(style), 0), style.visible)),
                           !.flow = FlowAt(x + style.pad, y + style.pad, width, style.align)]]
FillBox(page, i, style, start, given) ==
  CASE style.atomic -> [start EXCEPT !.flow.y = @ + (IF given = AutoLength THEN 1 ELSE given)]
    [] ~style.atomic /\ style.display = "flex" ->
         LayFlex(page, i, style, start, IF given = AutoLength THEN AutoLength ELSE Size(given, style.minHeight, style.maxHeight, style, Deco(style)))
    [] OTHER -> Flush(LayChildren(page, i, style, start))
FlowAfter(style, box, height, to) ==
  IF IsBlock(style) THEN [box.outer EXCEPT !.y = @ + box.margin + height + Deco(style), !.margin = style.mb]
  ELSE [box.outer EXCEPT !.ranges = Append(@, <<box.at, to>>), !.used = @ + box.width + Deco(style) + style.ml + style.mr,
                         !.line = Most(@, height + Deco(style) + style.mt + style.mb)]
CloseBox(i, style, box, inner, defer) ==
  LET given == GivenHeight(style)
      height == Size(IF given = AutoLength THEN inner.flow.y - box.cy ELSE given, style.minHeight, style.maxHeight, style, Deco(style))
      content == Rect(box.cx, box.cy, box.width, height)
      control == IF style.atomic /\ style.visible THEN <<Frag("control", i, content, TRUE)>> ELSE <<>>
      marker == IF style.display = "list-item" /\ style.visible THEN <<Frag("marker", i, Rect(box.x - 1, box.cy, 1, 1), TRUE)>> ELSE <<>>
      boxed == [k \in DOMAIN inner.frags |-> IF k = box.at THEN Tall(inner.frags[k], height + Deco(style)) ELSE inner.frags[k]]
      frags == boxed \o control \o marker
  IN  [inner EXCEPT !.frags = IF style.hidden /\ ~defer THEN Constrain(frags, box.at + 1, Len(frags), content) ELSE frags,
                    !.flow = FlowAfter(style, box, height, Len(frags))]
LayBox(page, i, style, s, defer) ==
  LET width == BoxWidth(page, i, style, s.flow)
      box == OpenBox(i, style, LineFor(style, s, width), width)
  IN  CloseBox(i, style, box, FillBox(page, i, style, box.start, GivenHeight(style)), defer)
LayElement(page, i, style, s, defer) ==
  CASE style.display = "none" -> s
    [] style.display # "none" /\ page[i].tag = "br" -> Flush([s EXCEPT !.flow.line = Most(@, 1)])
    [] style.display = "inline" /\ ~style.atomic /\ page[i].tag # "br" -> LayChildren(page, i, style, s)
    [] OTHER -> LayBox(page, i, style, IF IsBlock(style) THEN Flush(s) ELSE s, defer)

-----------------------------------------------------------------------------
RECURSIVE Depth(_, _)
Depth(page, i) == IF i = 0 THEN 0 ELSE 1 + Depth(page, page[i].parent)
BoxInit == bpage \in LaidPages /\ bphase = "blank" /\ laid = <<>> /\ limited = FALSE
(* render_document: too deep a page is refused, the rest is laid out.      *)
RenderDocument ==
  LET s == Flush(LayChildren(bpage, 0, bpage[1].style, [frags |-> <<>>, flow |-> FlowAt(0, 0, Viewport, "start"), limited |-> FALSE]))
  IN  /\ bphase = "blank"
      /\ IF \E i \in DOMAIN bpage : Depth(bpage, i) > MaxDepth
         THEN bphase' = "refused" /\ UNCHANGED <<laid, limited>>
         ELSE bphase' = "laid" /\ laid' = s.frags /\ limited' = s.limited
      /\ UNCHANGED bpage
BoxNext == RenderDocument
BoxSpec == BoxInit /\ [][BoxNext]_BoxVars

(* paint_layout keeps what can be seen; hit_test takes the last item at    *)
(* the point, then the nearest ancestor that reacts to a click, unless     *)
(* something on the way is disabled.                                       *)
RECURSIVE Reacting(_)
Reacting(i) ==
  CASE i = 0 -> 0
    [] i > 0 /\ bpage[i].disabled -> 0
    [] i > 0 /\ ~bpage[i].disabled /\ bpage[i].interactive -> i
    [] OTHER -> Reacting(bpage[i].parent)
Painted == SelectSeq(laid, LAMBDA f : f.shown /\ f.rect.w > 0 /\ f.rect.h > 0)
HitTest(px, py) ==
  LET at == SelectLastInSeq(Painted, LAMBDA f : Covers(f.rect, px, py) /\ (f.clipped => Covers(f.clip, px, py)))
  IN  IF at = 0 THEN [kind |-> "none", node |-> 0, reacts |-> 0]
      ELSE [kind |-> Painted[at].kind, node |-> Painted[at].node, reacts |-> Reacting(Painted[at].node)]
-----------------------------------------------------------------------------
RECURSIVE Enclosing(_)
Enclosing(i) == IF i = 0 THEN {} ELSE {i} \cup Enclosing(bpage[i].parent)
BoxOf(i) == {k \in DOMAIN laid : laid[k].kind = "box" /\ laid[k].node = i}
ContentOf(k) ==
  LET r == laid[k].rect  pad == bpage[laid[k].node].style.pad IN Rect(r.x + pad, r.y + pad, r.w - 2 * pad, r.h - 2 * pad)

VisibleAt(k, px, py) ==
  LET cutting == {a \in Enclosing(laid[k].node) : bpage[a].style.hidden /\ (a = laid[k].node => laid[k].kind # "box")}
  IN  /\ laid[k].shown /\ Covers(laid[k].rect, px, py)
      /\ \A a \in cutting : \A b \in BoxOf(a) : Covers(ContentOf(b), px, py)

(* A click reaches what the page shows at the point and nothing else:      *)
(* wherever lines are aligned and items stretched, shrunk or moved after   *)
(* their content was laid out and clipped, it hits the last fragment that  *)
(* lies in the final content boxes of all its ancestors with overflow:     *)
(* hidden, and of its element itself unless the fragment is its box.       *)
HitsAreVisible ==
  laid # <<>> => \A px, py \in -2..Viewport + 2 :
    LET visible == {k \in DOMAIN laid : VisibleAt(k, px, py)}
        hit == HitTest(px, py)
    IN  IF visible = {} THEN hit.kind = "none"
        ELSE \E k \in visible : (\A m \in visible : m <= k) /\ hit.kind = laid[k].kind /\ hit.node = laid[k].node
=============================================================================
