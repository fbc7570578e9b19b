------------------------------ MODULE TextCodec ------------------------------
(***************************************************************************)
(* TextEncoder, TextDecoder, btoa and atob of the shim                     *)
(* (web_platform_shim.hpp).  A page feeds a decoder some text in pieces;   *)
(* the decoder keeps the bytes of a character whose end has not come and   *)
(* whether it looked for a byte order mark.  Bytes and UTF-16 units are    *)
(* numbers.                                                                *)
(***************************************************************************)
EXTENDS Naturals, Sequences, SequencesExt

CONSTANTS
  ByteTexts,        \* texts as a page may receive them: sequences of bytes
  UnitTexts,        \* texts as a page may hold them: sequences of UTF-16 units
  Decoders,         \* [encoding, fatal, ignoreBOM]
  MaxPiece,         \* bound on the bytes of a piece
  MaxUses           \* bound on the texts one decoder decodes

ASSUME TextCodecConstants == MaxPiece \in Nat /\ MaxUses \in Nat

VARIABLES
  units,        \* the text as units, when the page encoded it
  bytes,        \* the text as bytes
  decoder,      \* how the decoder was made
  fed,          \* the bytes given to it
  pieces,       \* the pieces given to it
  pending,      \* _pending
  bomChecked,   \* _bomChecked
  output,       \* what its calls returned, joined
  ended,        \* "" or how the text ended: "done" or "thrown"
  uses,         \* the texts it has decoded
  clean         \* history: none of its calls threw, and none split a byte order mark
CodecVars == <<units, bytes, decoder, fed, pieces, pending, bomChecked, output, ended, uses, clean>>

Replacement == 65533
-----------------------------------------------------------------------------
(* TextEncoder: a surrogate without its other half is replaced.            *)
IsHigh(u) == u \in 55296..56319
IsLow(u) == u \in 56320..57343
PairAt(s, i) == IsHigh(s[i]) /\ i < Len(s) /\ IsLow(s[i + 1])
CodePointAt(s, i) ==
  CASE PairAt(s, i) -> 65536 + (s[i] - 55296) * 1024 + (s[i + 1] - 56320)
    [] ~PairAt(s, i) /\ (IsHigh(s[i]) \/ IsLow(s[i])) -> Replacement
    [] OTHER -> s[i]
UnitsAt(s, i) == IF PairAt(s, i) THEN 2 ELSE 1
FollowByte(code, shift) == 128 + ((code \div shift) % 64)
Utf8EncodeCodePoint(code) ==
  CASE code < 128 -> <<code>>
    [] code \in 128..2047 -> <<192 + (code \div 64), FollowByte(code, 1)>>
    [] code \in 2048..65535 -> <<224 + (code \div 4096), FollowByte(code, 64), FollowByte(code, 1)>>
    [] OTHER -> <<240 + (code \div 262144), FollowByte(code, 4096), FollowByte(code, 64), FollowByte(code, 1)>>
Encode(s) ==
  LET from[i \in 1..(Len(s) + 2)] == IF i > Len(s) THEN <<>> ELSE Utf8EncodeCodePoint(CodePointAt(s, i)) \o from[i + UnitsAt(s, i)]
  IN  from[1]
(* encodeInto: as many whole characters as the destination has room for.   *)
EncodeInto(s, limit) ==
  LET from[i \in 1..(Len(s) + 2), room \in 0..limit] ==
        LET code == Utf8EncodeCodePoint(CodePointAt(s, i))
        IN  IF i > Len(s) \/ Len(code) > room THEN [read |-> i - 1, written |-> <<>>]
            ELSE LET rest == from[i + UnitsAt(s, i), room - Len(code)] IN [rest EXCEPT !.written = code \o @]
  IN  from[1, limit]

-----------------------------------------------------------------------------
(* utf8DecodeChunk: stops at a character whose last byte is not there.     *)
Need(b) == CASE b \in 194..223 -> 1 [] b \in 224..239 -> 2 [] b \in 240..244 -> 3 [] OTHER -> 0
Lead(b) == CASE b \in 194..223 -> b % 32 [] b \in 224..239 -> b % 16 [] OTHER -> b % 8
Overlong(b, next) ==
  \/ b = 224 /\ next < 160
  \/ b = 240 /\ next < 144
  \/ b = 244 /\ next > 143
  \/ b = 237 /\ next >= 160
ValidAt(s, i) == (\A j \in 1..Need(s[i]) : s[i + j] \in 128..191) /\ ~Overlong(s[i], s[i + 1])
CodeAt(s, i) ==
  LET upto[j \in 0..3] == IF j = 0 THEN Lead(s[i]) ELSE (upto[j - 1] * 64) + (s[i + j] % 64) IN upto[Need(s[i])]
ToUnits(code) == IF code < 65536 THEN <<code>> ELSE <<55296 + ((code - 65536) \div 1024), 56320 + ((code - 65536) % 1024)>>
AtTheEnd(s, i) == i + Need(s[i]) >= Len(s)
Incomplete(s, i) == i + Need(s[i]) > Len(s)
DecodeChunk(s, fatal) ==
  LET Stop(i) == [out |-> <<>>, consumed |-> i - 1, invalid |-> FALSE]
      from[i \in 1..(Len(s) + 1)] ==
        LET after(out, n) == [from[i + n] EXCEPT !.out = out \o @]
            bad == IF fatal THEN [Stop(i) EXCEPT !.invalid = TRUE] ELSE after(<<Replacement>>, 1)
        IN  IF i > Len(s) THEN Stop(i)
            ELSE IF s[i] < 128 THEN after(<<s[i]>>, 1)
            ELSE IF Need(s[i]) = 0 THEN bad
            ELSE IF Incomplete(s, i) THEN Stop(i)
            ELSE IF ValidAt(s, i) THEN after(ToUnits(CodeAt(s, i)), Need(s[i]) + 1) ELSE bad
  IN  from[1]

W1252 == <<8364, 129, 8218, 402, 8222, 8230, 8224, 8225, 710, 8240, 352, 8249, 338, 141, 381, 143,
           144, 8216, 8217, 8220, 8221, 8226, 8211, 8212, 732, 8482, 353, 8250, 339, 157, 382, 376>>
Windows1252(s) == [i \in DOMAIN s |-> IF s[i] \in 128..159 THEN W1252[s[i] - 127] ELSE s[i]]

Bom == <<239, 187, 191>>
StartsWithBom(s) == Len(s) >= 3 /\ SubSeq(s, 1, 3) = Bom
(* decode: one call, of a decoder d that keeps kept and has looked for the *)
(* mark or not.                                                            *)
Decode(d, kept, looked, piece, stream) ==
  LET all == kept \o piece
      s == IF ~looked /\ ~d.ignoreBOM /\ d.encoding = "utf-8" /\ StartsWithBom(all) THEN SubSeq(all, 4, Len(all)) ELSE all
      chunk == DecodeChunk(s, d.fatal)
      rest == SubSeq(s, chunk.consumed + 1, Len(s))
  IN  IF d.encoding = "windows-1252" THEN [out |-> Windows1252(all), pending |-> <<>>, looked |-> TRUE, thrown |-> FALSE]
      ELSE [ out |-> IF stream THEN chunk.out ELSE chunk.out \o [i \in DOMAIN rest |-> Replacement],
             pending |-> IF stream /\ ~chunk.invalid THEN rest ELSE <<>>,
             thrown |-> chunk.invalid \/ (~stream /\ d.fatal /\ rest # <<>>),
             looked |-> stream \/ chunk.invalid \/ (d.fatal /\ rest # <<>>) ]

-----------------------------------------------------------------------------
(* A text: bytes that were received, or the encoding of units.             *)
Texts == {[units |-> <<>>, bytes |-> b] : b \in ByteTexts} \cup {[units |-> u, bytes |-> Encode(u)] : u \in UnitTexts}
CodecInit ==
  /\ \E t \in Texts : units = t.units /\ bytes = t.bytes
  /\ decoder \in Decoders
  /\ fed = 0 /\ pieces = 0 /\ pending = <<>> /\ bomChecked = FALSE /\ output = <<>> /\ ended = "" /\ uses = 1 /\ clean = TRUE

(* The page gives the decoder the next n bytes, and says whether more come. *)
DecodePiece(n, stream) ==
  LET piece == SubSeq(bytes, fed + 1, fed + n)
      result == Decode(decoder, pending, bomChecked, piece, stream)
  IN  /\ ended = "" /\ fed + n <= Len(bytes) /\ (~stream => fed + n = Len(bytes)) /\ (n = 0 => ~stream)
      /\ fed' = fed + n /\ pieces' = pieces + 1
      /\ pending' = result.pending /\ bomChecked' = result.looked
      /\ output' = (IF result.thrown THEN output ELSE output \o result.out)
      /\ ended' = (IF result.thrown THEN "thrown" ELSE IF stream THEN "" ELSE "done")
      /\ clean' = (clean /\ ~(pieces = 0 /\ n < 3 /\ StartsWithBom(bytes)))
      /\ UNCHANGED <<units, bytes, decoder, uses>>
(* A decoder that is done is used for the text again.                      *)
UseAgain ==
  /\ ended # "" /\ uses < MaxUses /\ uses' = uses + 1 /\ fed' = 0 /\ pieces' = 0 /\ output' = <<>> /\ ended' = ""
  /\ clean' = (ended = "done") /\ UNCHANGED <<units, bytes, decoder, pending, bomChecked>>
CodecNext == UseAgain \/ \E n \in 0..MaxPiece, stream \in BOOLEAN : DecodePiece(n, stream)
CodecSpec == CodecInit /\ [][CodecNext]_CodecVars

-----------------------------------------------------------------------------
(* btoa and atob: three bytes as four symbols of six bits each, 64 is "=". *)
Btoa(s) ==
  LET at(i) == IF i \in DOMAIN s THEN s[i] ELSE 0
      Group(i) == << at(i) \div 4, ((at(i) % 4) * 16) + (at(i + 1) \div 16),
                     IF i + 1 \in DOMAIN s THEN ((at(i + 1) % 16) * 4) + (at(i + 2) \div 64) ELSE 64,
                     IF i + 2 \in DOMAIN s THEN at(i + 2) % 64 ELSE 64 >>
  IN  FlattenSeq([k \in 1..((Len(s) + 2) \div 3) |-> Group(3 * k - 2)])
Atob(symbols) ==
  LET from[i \in 1..(Len(symbols) + 1), bits \in 0..7, value \in 0..127] ==
        LET more == value * 64 + symbols[i]
            left == bits - 2
            keep == more % (2 ^ left)
        IN  IF i > Len(symbols) \/ symbols[i] = 64 THEN <<>>
            ELSE IF bits < 2 THEN from[i + 1, bits + 6, more % (2 ^ (bits + 6))]
            ELSE <<(more \div (2 ^ left)) % 256>> \o from[i + 1, left, keep]
  IN  from[1, 0, 0]

(* The pieces do not matter: what a text decodes to, and whether it is     *)
(* refused, is the same in pieces and at once, unless a piece ended inside *)
(* a byte order mark or an earlier text was refused; a decoder keeps at    *)
(* most three bytes, and none when it is done.                             *)
AtOnce == Decode(decoder, <<>>, FALSE, bytes, FALSE)
PiecesDoNotMatter ==
  /\ Len(pending) <= 3 /\ (ended # "" => pending = <<>>)
  /\ clean /\ ended = "done" => ~AtOnce.thrown /\ output = AtOnce.out
  /\ clean /\ ended = "thrown" => AtOnce.thrown
(* What was encoded decodes to itself, but for surrogates that are alone;  *)
(* encodeInto writes whole characters only, and as many as fit; and base64 *)
(* loses nothing.                                                          *)
WellFormed(s) == [i \in DOMAIN s |-> IF PairAt(s, i) \/ (i > 1 /\ PairAt(s, i - 1)) THEN s[i] ELSE CodePointAt(s, i)]
RoundTrips ==
  /\ units # <<>> /\ decoder.encoding = "utf-8" /\ clean /\ ended # "" /\ ~(StartsWithBom(bytes) /\ ~decoder.ignoreBOM) =>
       ended = "done" /\ output = WellFormed(units)
  /\ \A limit \in 0..Len(bytes) :
       LET into == EncodeInto(units, limit)
       IN  /\ into.written = Encode(SubSeq(units, 1, into.read)) /\ Len(into.written) <= limit
           /\ limit = Len(bytes) /\ units # <<>> => into.written = bytes
  /\ pieces = 0 => Atob(Btoa(bytes)) = bytes
(* No text is changed by the way it came or by the way it was written.     *)
TextIsKept == PiecesDoNotMatter /\ RoundTrips
=============================================================================
