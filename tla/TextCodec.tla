----------------------------- MODULE TextCodec ------------------------------
(***************************************************************************)
(* The text functions of src/mumu/util/hash_util.cc, util/json_util.cc and *)
(* util.cc: base64, hexadecimal and URL encoding, JSON escapes, splitting, *)
(* replacing and trimming, and the conversion between JSON and YAML.  They *)
(* are pure: a behaviour is one call.  A byte is two hexadecimal digits    *)
(* and three bytes are four base64 digits, as in the code, but a digit is  *)
(* of 2 bits (4 in the code), a byte of 4 (8), a base64 digit of 3 (6).    *)
(***************************************************************************)
EXTENDS Integers, Sequences, FiniteSets, SequencesExt

CONSTANTS
  CodecChars, MaxText,     \* the characters of texts, and their length
  Base64Texts,             \* texts given to base64decode
  Delimiters,              \* sets of characters to split at or to trim
  Replacements,            \* pairs of texts, what to find and what to put
  JsonNodes                \* JSON values

VARIABLE codec     \* the call: what was asked, of what, and the result
codecVars == <<codec>>

CodecTexts == BoundedSeq(CodecChars, MaxText)

\* characters by their code
Nul == 0
Percent == 1
Plus == 2
Space == 3
Unreserved == 4..10            \* the hexadecimal digits and a letter
Letter == 10
Newline == 11                  \* for the five control characters that are escaped
Quote == 12
Backslash == 13
Lower(digit) == 4 + digit                              \* "0123..abcdef"
Upper(digit) == IF digit < 2 THEN 4 + digit ELSE 6 + digit
IsHexDigit(c) == c \in 4..9
HexValue(c) == IF c < 8 THEN c - 4 ELSE c - 6

(* Numbers in base 2^width: their digits, most significant first. *)
Packed(digits, width) == FoldLeft(LAMBDA n, d : n * 2^width + d, 0, digits)
Digits(n, width, count) == [i \in 1..count |-> (n \div 2^(width * (count - i))) % 2^width]
ChunksOf(s, n) ==
  [i \in 1..((Len(s) + n - 1) \div n) |-> SubSeq(s, n * (i - 1) + 1, IF n * i < Len(s) THEN n * i ELSE Len(s))]

-----------------------------------------------------------------------------
Pad == -1     \* '=' of base64; another negative number is no digit
EncodeGroup(bytes) ==
  LET padding == 3 - Len(bytes)
  IN SubSeq(Digits(Packed(bytes, 4) * 2^(4 * padding), 3, 4), 1, 4 - padding) \o [i \in 1..padding |-> Pad]
Base64Encode(s) == FlattenSeq([i \in DOMAIN ChunksOf(s, 3) |-> EncodeGroup(ChunksOf(s, 3)[i])])

Padding(group) == Cardinality({i \in DOMAIN group : group[i] = Pad})
Refused(group, isLast) ==
  \/ Len(group) # 4 \/ Padding(group) > 2 \/ (Padding(group) > 0 /\ ~isLast)
  \/ \E i \in DOMAIN group : group[i] < Pad
  \/ \E i \in DOMAIN group, j \in DOMAIN group : j < i /\ group[j] = Pad /\ group[i] # Pad
DecodeGroup(group) ==
  LET digits == [i \in DOMAIN group |-> IF group[i] = Pad THEN 0 ELSE group[i]]
  IN SubSeq(Digits(Packed(digits, 3), 4, 3), 1, 3 - Padding(group))
(* A text that is no base64 is answered with the empty string, as the empty text is. *)
Base64Decode(s) ==
  LET groups == ChunksOf(s, 4)
  IN IF \E i \in DOMAIN groups : Refused(groups[i], i = Len(groups)) THEN <<>>
     ELSE FlattenSeq([i \in DOMAIN groups |-> DecodeGroup(groups[i])])

HexstringFromData(s) ==
  FlattenSeq([i \in DOMAIN s |-> <<Lower(s[i] \div 4), Lower(s[i] % 4)>>])
(* Throws when the length is odd or a character is no digit. *)
HexThrows(s) == Len(s) % 2 # 0 \/ \E i \in DOMAIN s : ~IsHexDigit(s[i])
DataFromHexstring(s) ==
  [i \in 1..(Len(s) \div 2) |-> HexValue(s[2 * i - 1]) * 4 + HexValue(s[2 * i])]

-----------------------------------------------------------------------------
UrlEncode(s, space_as_plus) ==
  LET Encoded(c) ==
        IF c \in Unreserved THEN <<c>>
        ELSE IF c = Space /\ space_as_plus THEN <<Plus>>
        ELSE <<Percent, Upper(c \div 4), Upper(c % 4)>>
  IN FlattenSeq([i \in DOMAIN s |-> Encoded(s[i])])

RECURSIVE UrlDecode(_, _)
UrlDecode(s, space_as_plus) ==
  IF s = <<>> THEN <<>>
  ELSE IF s[1] = Plus /\ space_as_plus THEN <<Space>> \o UrlDecode(Tail(s), space_as_plus)
  ELSE IF s[1] = Percent /\ Len(s) > 2 /\ IsHexDigit(s[2]) /\ IsHexDigit(s[3])
       THEN <<HexValue(s[2]) * 4 + HexValue(s[3])>> \o UrlDecode(SubSeq(s, 4, Len(s)), space_as_plus)
  ELSE <<s[1]>> \o UrlDecode(Tail(s), space_as_plus)

(* JsonUtil::Escape: the result is resized to its length before the characters are appended,
   which leaves as many nulls in front. *)
NeedsEscape(c) == c \in {Newline, Quote, Backslash}
Escape(s) ==
  LET escaped == FlattenSeq([i \in DOMAIN s |->
                   IF ~NeedsEscape(s[i]) THEN <<s[i]>>
                   ELSE <<Backslash, IF s[i] = Newline THEN Letter ELSE s[i]>>])
  IN IF Len(escaped) = Len(s) THEN s ELSE [i \in 1..Len(escaped) |-> Nul] \o escaped

-----------------------------------------------------------------------------
(* split: max is counted down behind each cut and then compared with 1, so that 0 and 1 are
   no limit. *)
RECURSIVE Pieced(_, _, _)
Pieced(s, delims, max) ==
  IF Range(s) \cap delims = {} THEN <<s>>
  ELSE LET pos == SelectInSeq(s, LAMBDA c : c \in delims)
           rest == SubSeq(s, pos + 1, Len(s))
       IN <<SubSeq(s, 1, pos - 1)>> \o IF max - 1 = 1 THEN <<rest>> ELSE Pieced(rest, delims, max - 1)
Split(s, delims, max) == IF s = <<>> THEN <<>> ELSE Pieced(s, delims, max)

(* replace of a text that is not empty, each search going on behind what was put. *)
RECURSIVE Replaced(_, _, _)
Replaced(s, find, with) ==
  IF s = <<>> THEN <<>>
  ELSE IF IsPrefix(find, s) THEN with \o Replaced(SubSeq(s, Len(find) + 1, Len(s)), find, with)
  ELSE <<s[1]>> \o Replaced(Tail(s), find, with)

(* Trim; TrimRight takes the place of the last character to keep for a length. *)
KeptAt(s, delims) == {i \in DOMAIN s : s[i] \notin delims}
FirstKept(s, delims) == CHOOSE i \in KeptAt(s, delims) : \A j \in KeptAt(s, delims) : i <= j
LastKept(s, delims) == CHOOSE i \in KeptAt(s, delims) : \A j \in KeptAt(s, delims) : i >= j
Trim(s, delims) ==
  IF KeptAt(s, delims) = {} THEN <<>> ELSE SubSeq(s, FirstKept(s, delims), LastKept(s, delims))
TrimLeft(s, delims) ==
  IF KeptAt(s, delims) = {} THEN <<>> ELSE SubSeq(s, FirstKept(s, delims), Len(s))
TrimRight(s, delims) ==
  IF KeptAt(s, delims) = {} THEN <<>> ELSE SubSeq(s, 1, LastKept(s, delims) - 1)

-----------------------------------------------------------------------------
(* A node is a scalar, a sequence or a map of nodes, or null.  JSON tells strings from
   numbers; in YAML all scalars are text. *)
YamlNull == [is |-> "null"]
TextNode(v) == [is |-> "scalar", v |-> v, number |-> FALSE]
RECURSIVE JsonToYaml(_)
JsonToYaml(j) ==     \* a YAML node nothing is put into stays null
  IF j.is \in {"sequence", "map"}
  THEN IF DOMAIN j.of = {} THEN YamlNull ELSE [j EXCEPT !.of = [i \in DOMAIN j.of |-> JsonToYaml(j.of[i])]]
  ELSE IF j.is = "null" THEN TextNode("") ELSE TextNode(j.v)
RECURSIVE YamlToJson(_)
YamlToJson(y) ==
  IF y.is \in {"sequence", "map"} THEN [y EXCEPT !.of = [i \in DOMAIN y.of |-> YamlToJson(y.of[i])]] ELSE y

-----------------------------------------------------------------------------
NoCodecCall == [op |-> "none", str |-> <<>>, arg |-> <<>>, out |-> <<>>]
CodecInit == codec = NoCodecCall

Called(op, str, arg, out) == codec' = [op |-> op, str |-> str, arg |-> arg, out |-> out]

CallBase64 ==
  \/ \E s \in CodecTexts : Called("base64encode", s, <<>>, Base64Encode(s))
  \/ \E s \in Base64Texts : Called("base64decode", s, <<>>, Base64Decode(s))
CallHex ==
  \/ \E s \in CodecTexts : Called("hexstring_from_data", s, <<>>, HexstringFromData(s))
  \/ \E s \in CodecTexts : HexThrows(s) /\ Called("data_from_hexstring", s, TRUE, <<>>)
  \/ \E s \in CodecTexts : ~HexThrows(s) /\ Called("data_from_hexstring", s, FALSE, DataFromHexstring(s))
CallUrl ==
  \E s \in CodecTexts, plus \in BOOLEAN :
    Called("UrlEncode", s, plus, UrlEncode(s, plus)) \/ Called("UrlDecode", s, plus, UrlDecode(s, plus))
CallEscape == \E s \in CodecTexts : Called("Escape", s, <<>>, Escape(s))
CallSplit == \E s \in CodecTexts, d \in Delimiters, max \in 0..(MaxText + 1) :
               Called("split", s, [delims |-> d, max |-> max], Split(s, d, max))
CallReplace == \E s \in CodecTexts, r \in Replacements : Called("replace", s, r, Replaced(s, r[1], r[2]))
CallTrim == \E s \in CodecTexts, d \in Delimiters :
              Called("Trim", s, d, [both |-> Trim(s, d), left |-> TrimLeft(s, d), right |-> TrimRight(s, d)])
CallYaml == \E j \in JsonNodes : Called("YamlToJson", j, <<>>, YamlToJson(JsonToYaml(j)))

CodecNext ==
  /\ codec = NoCodecCall
  /\ CallBase64 \/ CallHex \/ CallUrl \/ CallEscape \/ CallSplit \/ CallReplace \/ CallTrim \/ CallYaml

-----------------------------------------------------------------------------
CodecTypeOK == DOMAIN codec = DOMAIN NoCodecCall

(* What is encoded is read back, by the function beside it or, of a JSON string, by a JSON reader;
   what base64decode takes is the text of what it returns but for the bits behind its last byte. *)
RECURSIVE Unescaped(_)
Unescaped(s) ==
  IF s = <<>> THEN <<>>
  ELSE IF s[1] = Backslash /\ Len(s) > 1
       THEN <<IF s[2] = Letter THEN Newline ELSE s[2]>> \o Unescaped(SubSeq(s, 3, Len(s)))
  ELSE <<s[1]>> \o Unescaped(Tail(s))
Half(s) == SubSeq(s, Len(s) \div 2 + 1, Len(s))
EncodingsRead ==
  /\ codec.op = "base64encode" => Base64Decode(codec.out) = codec.str
  /\ codec.op = "base64decode" /\ codec.out # <<>> =>
       LET again == Base64Encode(codec.out)
       IN /\ Len(again) = Len(codec.str)
          /\ \A i \in DOMAIN again : again[i] # codec.str[i] =>
               Padding(again) > 0 /\ i = Len(again) - Padding(again)
  /\ codec.op = "hexstring_from_data" => ~HexThrows(codec.out) /\ DataFromHexstring(codec.out) = codec.str
  /\ codec.op = "data_from_hexstring" /\ ~codec.arg =>
       [i \in DOMAIN codec.str |-> Lower(HexValue(codec.str[i]))] = HexstringFromData(codec.out)
  /\ codec.op = "UrlEncode" =>
       /\ UrlDecode(codec.out, codec.arg) = codec.str
       /\ Range(codec.out) \subseteq Unreserved \cup {Percent, Plus}
  /\ codec.op = "UrlDecode" =>     \* a text that escapes nothing is itself
       (Range(codec.str) \cap {Percent, Plus} = {} => codec.out = codec.str)
  /\ codec.op = "Escape" =>       \* behind the nulls in front, when there are any
       Unescaped(codec.out) = codec.str \/ Unescaped(Half(codec.out)) = codec.str

(* The pieces of a text make up the text, and there are at most max of them when max is 2 or
   more; replacing and replacing back gives the text when the two share no character. *)
RECURSIVE PiecesOf(_, _, _)
PiecesOf(s, pieces, delims) ==
  IF Len(pieces) = 1 THEN s = pieces[1]
  ELSE /\ SubSeq(s, 1, Len(pieces[1])) = pieces[1] /\ \A c \in Range(pieces[1]) : c \notin delims
       /\ Len(s) > Len(pieces[1]) /\ s[Len(pieces[1]) + 1] \in delims
       /\ PiecesOf(SubSeq(s, Len(pieces[1]) + 2, Len(s)), Tail(pieces), delims)
PiecesKept ==
  /\ codec.op = "split" /\ codec.str # <<>> =>
       LET pieces == codec.out   limit == codec.arg.max   delims == codec.arg.delims
       IN /\ PiecesOf(codec.str, pieces, delims)
          /\ limit > 1 => Len(pieces) <= limit
          /\ Len(pieces) # limit => \A c \in Range(pieces[Len(pieces)]) : c \notin delims
  /\ codec.op = "replace" /\ Range(codec.arg[1]) \cap Range(codec.arg[2]) = {} =>
       /\ Range(codec.str) \cap Range(codec.arg[2]) = {} /\ codec.arg[2] # <<>> =>
            Replaced(codec.out, codec.arg[2], codec.arg[1]) = codec.str
       /\ Len(codec.arg[1]) = 1 => codec.arg[1][1] \notin Range(codec.out)

(* Trimming takes the delimiters at the ends and nothing else; TrimRight takes the last
   character that it should keep as well. *)
Surrounded(s, part, delims, before, after) ==
  \E i, j \in 1..(Len(s) + 1) :
    /\ i <= j /\ part = SubSeq(s, i, j - 1) /\ \A k \in (1..(i - 1)) \cup (j..Len(s)) : s[k] \in delims
    /\ (before \/ i = 1) /\ (after \/ j = Len(s) + 1)
    /\ before /\ i < j => s[i] \notin delims
    /\ after /\ i < j => s[j - 1] \notin delims
TrimmedEnds ==
  codec.op = "Trim" /\ KeptAt(codec.str, codec.arg) # {} =>
    /\ Surrounded(codec.str, codec.out.both, codec.arg, TRUE, TRUE)
    /\ Surrounded(codec.str, codec.out.left, codec.arg, TRUE, FALSE)
    /\ Surrounded(codec.str, Append(codec.out.right, codec.str[LastKept(codec.str, codec.arg)]), codec.arg, FALSE, TRUE)

(* JSON that has text only, and no empty container, is the same behind YAML. *)
RECURSIVE TextOnly(_)
TextOnly(j) ==
  IF j.is \in {"sequence", "map"} THEN DOMAIN j.of # {} /\ \A i \in DOMAIN j.of : TextOnly(j.of[i])
  ELSE j.is = "scalar" /\ ~j.number
YamlKept == codec.op = "YamlToJson" /\ TextOnly(codec.str) => codec.out = codec.str

CodecsRead == EncodingsRead /\ PiecesKept /\ TrimmedEnds /\ YamlKept
=============================================================================
