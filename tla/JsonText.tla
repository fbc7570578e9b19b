------------------------------ MODULE JsonText -------------------------------
(***************************************************************************)
(* The four readers and the writers of JSON in the repository: those of    *)
(* the web interface (web), of the CDP server (cdp), of the OpenCode       *)
(* client (open, which writes strings only) and of the rpc module (rpc).   *)
(* All descend recursively; they differ in what they take for space, in    *)
(* strings, in numbers and in how deep they go.  A text is a sequence of   *)
(* lexemes: a character, an escape, a word or a sign; a character stands   *)
(* for itself in a string.  Numbers beyond the range of a double are left  *)
(* out, and the rpc module, which keeps the spelling it read, spells each  *)
(* as it spells its own.                                                   *)
(***************************************************************************)
EXTENDS Integers, Sequences, FiniteSets, SequencesExt

CONSTANTS
  JsonLexemes,      \* the lexemes a text may be made of
  JsonValues,       \* the values that are written
  MaxJson,          \* bound on the lexemes of a text that nobody wrote
  OpenDepth,        \* 32 in parse_json_value
  RpcDepth,         \* max_json_depth
  RpcValues,        \* max_json_values
  PrintedDigits     \* 15 in %.15g

ASSUME JsonTextConstants == {MaxJson, OpenDepth, RpcDepth, RpcValues} \subseteq Nat /\ PrintedDigits \in Nat \ {0}

VARIABLES
  jtext,        \* the text on its way
  meant,        \* <<value>>: what it was written to say; <<>> when nobody wrote it
  damaged       \* a lexeme of it was changed on the way

JsonVars == <<jtext, meant, damaged>>
JsonReaders == {"web", "cdp", "open", "rpc"}
JsonWriters == {"web", "cdp", "rpc"}

-----------------------------------------------------------------------------
(* Values.                                                                 *)
JNull == [kind |-> "null"]
JBool(b) == [kind |-> "bool", boolean |-> b]
JNumber(n) == [kind |-> "number", number |-> n]
JString(s) == [kind |-> "string", string |-> s]
JArray(items) == [kind |-> "array", array |-> items]
JObject(members) == [kind |-> "object", object |-> members]
JMember(key, value) == [key |-> key, value |-> value]

(* What an escape stands for.  \u escapes are UTF-16 units; vt has no      *)
(* short escape.                                                           *)
ShortEscapes == [e \in {"\\quote", "\\\\", "\\n"} |-> CASE e = "\\quote" -> "quote" [] e = "\\\\" -> "\\" [] OTHER -> "nl"]
HighEscape == "\\ud83d"
LowEscape == "\\ude00"
UnicodeEscapes == [e \in {"\\u0061", "\\u000a", "\\u000b", HighEscape, LowEscape} |->
  CASE e = "\\u0061" -> "a" [] e = "\\u000a" -> "nl" [] e = "\\u000b" -> "vt" [] e = HighEscape -> "high" [] OTHER -> "low"]
LooseEscape == "\\u+061"    \* strtoul reads a sign
WrongEscape == "\\q"
Escapes == DOMAIN ShortEscapes \cup DOMAIN UnicodeEscapes \cup {LooseEscape, WrongEscape}
Controls == {"nl", "vt"}
NotUtf8 == {"byte", "high", "low"}

-----------------------------------------------------------------------------
(* One character or escape of a string at i, in each reader.               *)
JUnit(out, n) == [ok |-> TRUE, out |-> out, n |-> n]
JRefused == [ok |-> FALSE, out |-> "", n |-> 0]
LexemeAt(s, i) == IF i \in DOMAIN s THEN s[i] ELSE "end"
IsPair(s, i) == s[i] = HighEscape /\ LexemeAt(s, i + 1) = LowEscape

WebUnit(s, i) ==
  CASE s[i] \in DOMAIN ShortEscapes -> JUnit(ShortEscapes[s[i]], 1)
    [] s[i] = LooseEscape -> JUnit("a", 1)
    [] s[i] \in DOMAIN UnicodeEscapes -> IF IsPair(s, i) THEN JUnit("wide", 2) ELSE JUnit(UnicodeEscapes[s[i]], 1)
    [] s[i] \in Controls \cup {WrongEscape} -> JRefused
    [] OTHER -> JUnit(s[i], 1)
CdpUnit(s, i) ==
  CASE s[i] \in DOMAIN ShortEscapes -> JUnit(ShortEscapes[s[i]], 1)
    [] s[i] \in Escapes \ DOMAIN ShortEscapes -> JRefused
    [] OTHER -> JUnit(s[i], 1)
LoneSurrogate(s, i) ==
  IF s[i] = HighEscape /\ LexemeAt(s, i + 1) \in DOMAIN UnicodeEscapes \cup {LooseEscape} THEN JRefused ELSE JUnit("fffd", 1)
OpenUnit(s, i) ==
  CASE s[i] \in DOMAIN ShortEscapes -> JUnit(ShortEscapes[s[i]], 1)
    [] s[i] \in {HighEscape, LowEscape} -> IF IsPair(s, i) THEN JUnit("wide", 2) ELSE LoneSurrogate(s, i)
    [] s[i] \in DOMAIN UnicodeEscapes \ {HighEscape, LowEscape} -> JUnit(UnicodeEscapes[s[i]], 1)
    [] s[i] \in {LooseEscape, WrongEscape} -> JRefused
    [] OTHER -> JUnit(s[i], 1)
RpcUnit(s, i) ==
  CASE s[i] \in DOMAIN ShortEscapes -> JUnit(ShortEscapes[s[i]], 1)
    [] s[i] \in {HighEscape, LowEscape} -> IF IsPair(s, i) THEN JUnit("wide", 2) ELSE JRefused
    [] s[i] \in DOMAIN UnicodeEscapes \ {HighEscape, LowEscape} -> JUnit(UnicodeEscapes[s[i]], 1)
    [] s[i] \in {LooseEscape, WrongEscape} \cup Controls \cup NotUtf8 -> JRefused
    [] OTHER -> JUnit(s[i], 1)
UnitOf(r, s, i) ==
  CASE r = "web" -> WebUnit(s, i) [] r = "cdp" -> CdpUnit(s, i) [] r = "open" -> OpenUnit(s, i) [] OTHER -> RpcUnit(s, i)

(* A string whose first character is at i; at is past the closing quote.   *)
JAccepted(value, past) == [ok |-> TRUE, value |-> value, at |-> past, values |-> 1]
JRejected == [ok |-> FALSE, value |-> JNull, at |-> 0, values |-> 0]
RECURSIVE ReadString(_, _, _, _)
AfterUnit(r, s, i, out, unit) == IF unit.ok THEN ReadString(r, s, i + unit.n, Append(out, unit.out)) ELSE JRejected
ReadString(r, s, i, out) ==
  IF i > Len(s) THEN JRejected
  ELSE IF s[i] = "quote" THEN JAccepted(JString(out), i + 1)
  ELSE AfterUnit(r, s, i, out, UnitOf(r, s, i))

-----------------------------------------------------------------------------
(* Numbers: the parts of a run of the characters of numbers.  Whatever of  *)
(* the run a reader does not take makes it refuse the text after it.       *)
DigitNames == <<"0", "1", "2", "3", "4", "5", "6", "7", "8", "9">>
DigitSet == {DigitNames[d] : d \in 1..10}
NumberSigns == DigitSet \cup {"-", "+", ".", "e"}
RunAt(s, i) ==
  LET ends == {j \in i..Len(s) : s[j] \notin NumberSigns}
      end == IF ends = {} THEN Len(s) + 1 ELSE CHOOSE j \in ends : \A k \in ends : j <= k
  IN  SubSeq(s, i, end - 1)
FirstIn(c, s) == LET found == {i \in DOMAIN s : s[i] = c} IN IF found = {} THEN Len(s) + 1 ELSE CHOOSE i \in found : \A j \in found : i <= j
SignOf(s) == IF s # <<>> /\ s[1] \in {"-", "+"} THEN s[1] ELSE ""
Unsigned(s) == IF SignOf(s) = "" THEN s ELSE Tail(s)
NumberParts(run) ==
  LET s == Unsigned(run)
      e == FirstIn("e", s)
      mantissa == SubSeq(s, 1, e - 1)
      dot == FirstIn(".", mantissa)
      power == SubSeq(s, e + 1, Len(s))
  IN  [ sign |-> SignOf(run), whole |-> SubSeq(mantissa, 1, dot - 1), dotted |-> dot <= Len(mantissa),
        fraction |-> SubSeq(mantissa, dot + 1, Len(mantissa)), raised |-> e <= Len(s), powerSign |-> SignOf(power), power |-> Unsigned(power) ]
OnlyDigits(p) == \A s \in {p.whole, p.fraction, p.power} : \A i \in DOMAIN s : s[i] \in DigitSet
(* What strtod takes whole; and the grammar of JSON.                       *)
Strtod(p) == OnlyDigits(p) /\ p.whole \o p.fraction # <<>> /\ (p.raised => p.power # <<>>)
Grammar(p) ==
  /\ OnlyDigits(p) /\ p.sign # "+" /\ p.whole # <<>> /\ (p.whole[1] = "0" => Len(p.whole) = 1)
  /\ (p.dotted => p.fraction # <<>>) /\ (p.raised => p.power # <<>>)
WebNumber(p) == Strtod(p) /\ p.sign # "+" /\ (p.sign = "" => p.whole # <<>>)
CdpNumber(p) == Strtod(p)
OpenNumber(p) == Grammar(p)
RpcNumber(p) == Grammar(p)
NumberTaken(r, p) ==
  CASE r = "web" -> WebNumber(p) [] r = "cdp" -> CdpNumber(p) [] r = "open" -> OpenNumber(p) [] OTHER -> RpcNumber(p)
(* The number: digits, without zeros at their end, times a power of ten.   *)
DigitOf(c) == (CHOOSE d \in 1..10 : DigitNames[d] = c) - 1
Decimal(s) == FoldLeft(LAMBDA n, c : n * 10 + DigitOf(c), 0, s)
RECURSIVE JsonNormal(_, _, _)
JsonNormal(negative, digits, ten) ==
  IF digits = 0 THEN [negative |-> FALSE, digits |-> 0, ten |-> 0]
  ELSE IF digits % 10 = 0 THEN JsonNormal(negative, digits \div 10, ten + 1)
  ELSE [negative |-> negative, digits |-> digits, ten |-> ten]
NumberOf(p) ==
  LET power == Decimal(p.power)
  IN  JsonNormal(p.sign = "-", Decimal(p.whole \o p.fraction), (IF p.powerSign = "-" THEN -power ELSE power) - Len(p.fraction))

-----------------------------------------------------------------------------
(* parse_value and its like: the value at i, and where the text goes on.   *)
WordValues == [w \in {"true", "false", "null"} |-> IF w = "null" THEN JNull ELSE JBool(w = "true")]
Spaces(r) == IF r \in {"web", "cdp"} THEN {" ", "nl", "vt"} ELSE {" ", "nl"}
RECURSIVE PastSpace(_, _, _)
PastSpace(r, s, i) == IF LexemeAt(s, i) \in Spaces(r) THEN PastSpace(r, s, i + 1) ELSE i
TooDeep(r, level) == (r = "open" /\ level > OpenDepth) \/ (r = "rpc" /\ level > RpcDepth)
KeysOf(members) == {members[i].key : i \in DOMAIN members}
Counting(result, n) == IF result.ok THEN [result EXCEPT !.values = @ + n] ELSE result

(* The name of a member and its colon; and whether an item is the last.    *)
WithColon(r, s, key, members, colon) ==
  LET repeats == r = "rpc" /\ key.value.string \in KeysOf(members)
  IN  IF key.ok /\ ~repeats /\ LexemeAt(s, colon) = ":" THEN JAccepted(key.value, colon + 1) ELSE JRejected
NameAt(r, s, i) == IF LexemeAt(s, i) = "quote" THEN ReadString(r, s, i + 1, <<>>) ELSE JRejected
AfterName(r, s, key, members) == IF key.ok THEN WithColon(r, s, key, members, PastSpace(r, s, key.at)) ELSE JRejected
ReadKey(r, s, i, members) == AfterName(r, s, NameAt(r, s, PastSpace(r, s, i)), members)
(* After an item, at i, is what closes the container or a comma.           *)
RECURSIVE ReadValue(_, _, _, _), ReadItems(_, _, _, _, _), ReadMembers(_, _, _, _, _)
AfterItem(r, s, i, level, all, n) ==
  CASE LexemeAt(s, i) = "]" -> Counting(JAccepted(JArray(all), i + 1), n)
    [] LexemeAt(s, i) = "," -> Counting(ReadItems(r, s, i + 1, level, all), n)
    [] OTHER -> JRejected
WithItem(r, s, level, items, item) ==
  IF item.ok THEN AfterItem(r, s, PastSpace(r, s, item.at), level, Append(items, item.value), item.values) ELSE JRejected
ReadItems(r, s, i, level, items) == WithItem(r, s, level, items, ReadValue(r, s, i, level + 1))
AfterMember(r, s, i, level, all, n) ==
  CASE LexemeAt(s, i) = "}" -> Counting(JAccepted(JObject(all), i + 1), n)
    [] LexemeAt(s, i) = "," -> Counting(ReadMembers(r, s, i + 1, level, all), n)
    [] OTHER -> JRejected
WithMember(r, s, level, members, key, item) ==
  IF item.ok THEN AfterMember(r, s, PastSpace(r, s, item.at), level, Append(members, JMember(key.value.string, item.value)), item.values)
  ELSE JRejected
WithKey(r, s, level, members, key) ==
  IF key.ok THEN WithMember(r, s, level, members, key, ReadValue(r, s, key.at, level + 1)) ELSE JRejected
ReadMembers(r, s, i, level, members) == WithKey(r, s, level, members, ReadKey(r, s, i, members))
ReadContainer(r, s, opening, inside, level) ==
  CASE opening = "[" /\ LexemeAt(s, inside) = "]" -> JAccepted(JArray(<<>>), inside + 1)
    [] opening = "[" /\ LexemeAt(s, inside) # "]" -> ReadItems(r, s, inside, level, <<>>)
    [] opening = "{" /\ LexemeAt(s, inside) = "}" -> JAccepted(JObject(<<>>), inside + 1)
    [] OTHER -> ReadMembers(r, s, inside, level, <<>>)
WithParts(r, p, past) == IF NumberTaken(r, p) THEN JAccepted(JNumber(NumberOf(p)), past) ELSE JRejected
WithRun(r, run, i) == WithParts(r, NumberParts(run), i + Len(run))
ReadNumber(r, s, i) == WithRun(r, RunAt(s, i), i)
ReadAt(r, s, i, c, level) ==
  CASE c = "quote" -> ReadString(r, s, i + 1, <<>>)
    [] c \in {"[", "{"} -> ReadContainer(r, s, c, PastSpace(r, s, i + 1), level)
    [] c \in DOMAIN WordValues -> JAccepted(WordValues[c], i + 1)
    [] c \in NumberSigns -> ReadNumber(r, s, i)
    [] OTHER -> JRejected
FromHere(r, s, i, level) == ReadAt(r, s, i, LexemeAt(s, i), level)
ReadValue(r, s, from, level) == IF TooDeep(r, level) THEN JRejected ELSE FromHere(r, s, PastSpace(r, s, from), level)
(* The whole text.                                                         *)
Whole(r, s, result) ==
  IF result.ok /\ PastSpace(r, s, result.at) = Len(s) + 1 /\ (r = "rpc" => result.values <= RpcValues) THEN result ELSE JRejected
ReadJson(r, s) == Whole(r, s, ReadValue(r, s, 1, 0))

-----------------------------------------------------------------------------
(* Writers.  Control characters become escapes, short ones where there is  *)
(* one, except in the rpc module.                                          *)
JsonEscape(c) == CASE c = "quote" -> "\\quote" [] c = "\\" -> "\\\\" [] c = "nl" -> "\\n" [] c = "vt" -> "\\u000b" [] OTHER -> c
CdpEscape(c) == CASE c = "quote" -> "\\quote" [] c = "\\" -> "\\\\" [] c = "nl" -> "\\n" [] c = "vt" -> "\\u000b" [] OTHER -> c
OpenEscape(c) == CASE c = "quote" -> "\\quote" [] c = "\\" -> "\\\\" [] c = "nl" -> "\\n" [] c = "vt" -> "\\u000b" [] OTHER -> c
RpcEscape(c) == CASE c = "quote" -> "\\quote" [] c = "\\" -> "\\\\" [] c = "nl" -> "\\u000a" [] c = "vt" -> "\\u000b" [] OTHER -> c
EscapeOf(w, c) ==
  CASE w = "web" -> JsonEscape(c) [] w = "cdp" -> CdpEscape(c) [] w = "open" -> OpenEscape(c) [] OTHER -> RpcEscape(c)
QuotedBy(w, s) == <<"quote">> \o [i \in DOMAIN s |-> EscapeOf(w, s[i])] \o <<"quote">>

(* %.15g: rounded to so many digits, plain unless it is too small or too   *)
(* large for that.                                                         *)
RECURSIVE DigitsOf(_)
DigitsOf(n) == IF n < 10 THEN <<DigitNames[n + 1]>> ELSE DigitsOf(n \div 10) \o <<DigitNames[(n % 10) + 1]>>
Zeros(n) == [i \in 1..n |-> "0"]
RoundTo(n, count) ==
  LET over == Len(DigitsOf(n.digits)) - count
  IN  IF over <= 0 THEN n ELSE JsonNormal(n.negative, (n.digits + 5 * 10^(over - 1)) \div 10^over, n.ten + over)
Plainly(n) ==
  LET digits == DigitsOf(n.digits)
      point == Len(digits) + n.ten        \* digits before the point
  IN  CASE n.ten >= 0 -> digits \o Zeros(n.ten)
        [] n.ten < 0 /\ point > 0 -> SubSeq(digits, 1, point) \o <<".">> \o SubSeq(digits, point + 1, Len(digits))
        [] OTHER -> <<"0", ".">> \o Zeros(-point) \o digits
Scientific(n) ==
  LET digits == DigitsOf(n.digits)
      power == Len(digits) - 1 + n.ten
      size == DigitsOf(IF power < 0 THEN -power ELSE power)
  IN  <<digits[1]>> \o (IF Len(digits) > 1 THEN <<".">> \o Tail(digits) ELSE <<>>)
      \o <<"e", IF power < 0 THEN "-" ELSE "+">> \o Zeros(IF Len(size) < 2 THEN 1 ELSE 0) \o size
Printed(number) ==
  LET n == RoundTo(number, PrintedDigits)
      power == Len(DigitsOf(n.digits)) - 1 + n.ten
  IN  IF power < -4 \/ power >= PrintedDigits THEN Scientific(n) ELSE Plainly(n)
(* to_chars: all digits, in the shorter form.                              *)
Shortest(n) == IF Len(Scientific(n)) < Len(Plainly(n)) THEN Scientific(n) ELSE Plainly(n)
WriteNumber(w, n) == (IF n.negative THEN <<"-">> ELSE <<>>) \o (IF w = "rpc" THEN Shortest(n) ELSE Printed(n))
JoinedBy(parts) == FlattenSeq([i \in DOMAIN parts |-> IF i = 1 THEN parts[i] ELSE <<",">> \o parts[i]])
RECURSIVE WriteValue(_, _)
WriteValue(w, v) ==
  CASE v.kind = "null" -> <<"null">>
    [] v.kind = "bool" -> <<IF v.boolean THEN "true" ELSE "false">>
    [] v.kind = "number" -> WriteNumber(w, v.number)
    [] v.kind = "string" -> QuotedBy(w, v.string)
    [] v.kind = "array" -> <<"[">> \o JoinedBy([i \in DOMAIN v.array |-> WriteValue(w, v.array[i])]) \o <<"]">>
    [] OTHER -> <<"{">> \o JoinedBy([i \in DOMAIN v.object |->
                  QuotedBy(w, v.object[i].key) \o <<":">> \o WriteValue(w, v.object[i].value)]) \o <<"}">>

(* What the rpc module's encoder refuses: depth, size and bytes that are   *)
(* not UTF-8.                                                              *)
RECURSIVE JsonDepth(_), JsonSize(_), JsonStrings(_)
Children(v) == CASE v.kind = "array" -> v.array [] v.kind = "object" -> [i \in DOMAIN v.object |-> v.object[i].value] [] OTHER -> <<>>
JsonDepth(v) == FoldLeft(LAMBDA d, x : IF JsonDepth(x) + 1 > d THEN JsonDepth(x) + 1 ELSE d, 0, Children(v))
JsonSize(v) == FoldLeft(LAMBDA n, x : n + JsonSize(x), 1, Children(v))
JsonStrings(v) == (IF v.kind = "string" THEN {v.string} ELSE IF v.kind = "object" THEN KeysOf(v.object) ELSE {})
                  \cup UNION {JsonStrings(Children(v)[i]) : i \in DOMAIN Children(v)}
IsUtf8(v) == \A s \in JsonStrings(v) : \A i \in DOMAIN s : s[i] \notin NotUtf8
Encodable(w, v) == w = "rpc" => JsonDepth(v) <= RpcDepth /\ JsonSize(v) <= RpcValues /\ IsUtf8(v)

-----------------------------------------------------------------------------
JsonInit == jtext = <<>> /\ meant = <<>> /\ damaged = FALSE
(* Anything may arrive,                                                    *)
Arrives(l) == meant = <<>> /\ ~damaged /\ Len(jtext) < MaxJson /\ jtext' = Append(jtext, l) /\ UNCHANGED <<meant, damaged>>
(* among it what a writer wrote;                                           *)
Sends(w, v) == jtext = <<>> /\ Encodable(w, v) /\ jtext' = WriteValue(w, v) /\ meant' = <<v>> /\ UNCHANGED damaged
SendsString(v) == jtext = <<>> /\ v.kind = "string" /\ jtext' = QuotedBy("open", v.string) /\ meant' = <<v>> /\ UNCHANGED damaged
(* what was read may be written again and sent on;                         *)
SendsOn(r, w) ==
  \E got \in {ReadJson(r, jtext)} :
    /\ got.ok /\ Encodable(w, got.value)
    /\ jtext' = WriteValue(w, got.value)
    /\ meant' = IF meant = <<>> THEN <<got.value>> ELSE meant
    /\ UNCHANGED damaged
(* and a text may be damaged on its way.                                   *)
Damage(i, l) == meant # <<>> /\ ~damaged /\ jtext' = [jtext EXCEPT ![i] = l] /\ meant' = <<>> /\ damaged' = TRUE
JsonNext ==
  \/ \E l \in JsonLexemes : Arrives(l) \/ \E i \in DOMAIN jtext : Damage(i, l)
  \/ \E v \in JsonValues : SendsString(v) \/ \E w \in JsonWriters : Sends(w, v)
  \/ \E r \in JsonReaders, w \in JsonWriters : SendsOn(r, w)

-----------------------------------------------------------------------------
(* What a reader may refuse of a text that a writer wrote: the CDP server  *)
(* any \u escape, also those its own writer makes of control characters;   *)
(* the OpenCode client and the rpc module what is too deep; the rpc module *)
(* also repeated names, bytes that are not UTF-8 and too many values.      *)
RECURSIVE RepeatsNames(_)
RepeatsNames(v) ==
  \/ v.kind = "object" /\ Cardinality(KeysOf(v.object)) < Len(v.object)
  \/ \E i \in DOMAIN Children(v) : RepeatsNames(Children(v)[i])
MayRefuse(r, s, v) ==
  CASE r = "cdp" -> \E i \in DOMAIN s : s[i] \in DOMAIN UnicodeEscapes
    [] r = "open" -> JsonDepth(v) > OpenDepth
    [] r = "rpc" -> ~Encodable("rpc", v) \/ RepeatsNames(v)
    [] OTHER -> FALSE
RECURSIVE Alike(_, _, _)
Alike(digits, blurs, v) ==
  LET Text(t) == IF blurs THEN [i \in DOMAIN t |-> IF t[i] \in {"high", "low"} THEN "fffd" ELSE t[i]] ELSE t
  IN  CASE v.kind = "number" -> JNumber(RoundTo(v.number, digits))
        [] v.kind = "string" -> JString(Text(v.string))
        [] v.kind = "array" -> JArray([i \in DOMAIN v.array |-> Alike(digits, blurs, v.array[i])])
        [] v.kind = "object" -> JObject([i \in DOMAIN v.object |->
                                  JMember(Text(v.object[i].key), Alike(digits, blurs, v.object[i].value))])
        [] OTHER -> v
AsPrinted(v) == Alike(PrintedDigits, FALSE, v)
Blurred(v) == Alike(MaxJson, TRUE, v)       \* no text that arrives has more digits

(* What was written is read as it was meant, or with the digits that were  *)
(* printed of it, by every reader that may not refuse it, over any number  *)
(* of readers and writers.  Two readers that take the same text, whatever  *)
(* it is, take it for the same value, up to surrogates that stand alone;   *)
(* and what the rpc module takes every reader takes.                       *)
ReadersAgree(got) ==
  LET takers == {r \in JsonReaders : got[r].ok}
  IN  /\ meant # <<>> => \A r \in JsonReaders :
           IF got[r].ok THEN got[r].value \in {meant[1], AsPrinted(meant[1])} ELSE MayRefuse(r, jtext, meant[1])
      /\ \A r, q \in takers : Blurred(got[r].value) = Blurred(got[q].value)
      /\ "rpc" \in takers => \A r \in JsonReaders : got[r].ok \/ MayRefuse(r, jtext, got["rpc"].value)
JsonIsKept == jtext # <<>> => ReadersAgree([r \in JsonReaders |-> ReadJson(r, jtext)])
=============================================================================
