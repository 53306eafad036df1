----------------------------- MODULE TypedBytes -----------------------------
(***************************************************************************)
(* The typed reads and writes of src/mumu/bytearray.cc over the sequence   *)
(* of bytes that ByteSequence promises: words of a fixed size in one of    *)
(* two byte orders, varints, zigzag for signed ones, strings behind their  *)
(* length.  A writer puts values in, then the position is set back to 0    *)
(* and a reader asks for the same types in the same order.                 *)
(*                                                                         *)
(* Everything is scaled: a byte has 3 bits, of which a varint uses 2 and   *)
(* the third says that more follow (8, 7 and 1 in the code); the words of  *)
(* 8, 16, 32 and 64 bits have 1, 2, 3 and 5 such bytes.  A signed word, a  *)
(* float and a double are their bit patterns.                              *)
(***************************************************************************)
EXTENDS Integers, Sequences, SequencesExt

CONSTANTS
  MaxValues,     \* bound: how many values are written
  TbValues(_)    \* of each type: the values that may be written

VARIABLES
  m_endian,      \* "big" as constructed, or "little", which is the host's order
  tape,          \* the bytes written
  written,       \* what was written: type, value, byte order at that time
  phase,         \* "writing", "reading", or "thrown" by a read past the end
  nextByte,      \* m_position of the reader
  got            \* the values read so far

tbVars == <<m_endian, tape, written, phase, nextByte, got>>

TbByte == 8
Group == 4       \* 0x80: also the bit that says more bytes follow
FixedBytes == [fint8 |-> 1, fint16 |-> 2, fint32 |-> 3, fint64 |-> 5]
VarintBits == [uint32 |-> 9, uint64 |-> 15, int32 |-> 9, int64 |-> 15]
Signed == {"int32", "int64"}
LengthType == [stringF16 |-> "fint16", stringF32 |-> "fint32", stringF64 |-> "fint64"]
TbTypes == DOMAIN FixedBytes \cup DOMAIN VarintBits \cup DOMAIN LengthType \cup {"stringVint"}

(* The values of a type; the length of a string fits in a word, whatever is written for it. *)
TbInRange(type, v) ==
  IF type \in DOMAIN FixedBytes THEN v \in 0..TbByte^FixedBytes[type] - 1
  ELSE IF type \in Signed THEN v \in -(2^(VarintBits[type] - 1))..2^(VarintBits[type] - 1) - 1
  ELSE IF type \in DOMAIN VarintBits THEN v \in 0..2^VarintBits[type] - 1
  ELSE v \in Seq(0..TbByte - 1) /\ Len(v) < TbByte^FixedBytes["fint64"]

ASSUME TypedBytesAssumption ==
  MaxValues \in Nat /\ \A type \in TbTypes : \A v \in TbValues(type) : TbInRange(type, v)

-----------------------------------------------------------------------------
(* A word in memory is little endian; byteswap reverses it. *)
Ordered(s, endian) == IF endian = "little" THEN s ELSE Reverse(s)
EncodeFixed(v, n, endian) == Ordered([i \in 1..n |-> (v \div TbByte^(i - 1)) % TbByte], endian)
(* What bytes s stand for in base b, the first one counting least. *)
Number(s, b) ==
  LET value[i \in 0..Len(s)] == IF i = 0 THEN 0 ELSE value[i - 1] + (s[i] % b) * b^(i - 1)
  IN value[Len(s)]
DecodeFixed(s, endian) == Number(Ordered(s, endian), TbByte)

EncodeZigzagNoStep(v, bits) ==      \* mutant: -v * 2 for a negative v
  IF v < 0 THEN (-v * 2) % 2^bits ELSE v * 2
EncodeZigzag(v, bits) == IF v < 0 THEN (-v * 2 - 1) % 2^bits ELSE v * 2
(* (v >> 1) ^ -(v & 1), as a signed number *)
DecodeZigzag(v) == IF v % 2 = 1 THEN -(v \div 2) - 1 ELSE v \div 2

GroupsOf(v) == CHOOSE k \in 1..8 : v < Group^k /\ (k = 1 \/ v >= Group^(k - 1))
EncodeVarint(v) ==
  [i \in 1..GroupsOf(v) |-> ((v \div Group^(i - 1)) % Group) + (IF i < GroupsOf(v) THEN Group ELSE 0)]

TbEncode(type, v, endian) ==
  IF type \in DOMAIN FixedBytes THEN EncodeFixed(v, FixedBytes[type], endian)
  ELSE IF type \in Signed THEN EncodeVarint(EncodeZigzag(v, VarintBits[type]))
  ELSE IF type \in DOMAIN VarintBits THEN EncodeVarint(v)
  ELSE IF type = "stringVint" THEN EncodeVarint(Len(v)) \o v
  ELSE EncodeFixed(Len(v), FixedBytes[LengthType[type]], endian) \o v

-----------------------------------------------------------------------------
(* A read of the rest s of the tape: the bytes it takes and the value, or Short. *)
Short == [n |-> 0, v |-> <<-1>>, ok |-> FALSE]
Found(n, v) == [n |-> n, v |-> v, ok |-> TRUE]

ReadFixed(s, n, endian) == IF Len(s) < n THEN Short ELSE Found(n, DecodeFixed(SubSeq(s, 1, n), endian))

(* readUint32, readUint64: at most as many bytes as the shifts below `bits` *)
ReadVarint(s, bits) ==
  LET most == (bits + 1) \div 2
      Ends == {i \in 1..Len(s) : s[i] < Group \/ i = most}
      n == CHOOSE i \in Ends : \A j \in Ends : i <= j
  IN IF Ends = {} THEN Short
     ELSE Found(n, Number(SubSeq(s, 1, n), Group) % 2^bits)

(* readStringVint takes a fixed 64-bit length, as readStringF64 does. *)
ReadString(s, type, endian) ==
  LET length == IF type = "stringVint" THEN "fint64" ELSE LengthType[type]
      head == ReadFixed(s, FixedBytes[length], endian)
  IN IF ~head.ok \/ Len(s) < head.n + head.v THEN Short
     ELSE Found(head.n + head.v, SubSeq(s, head.n + 1, head.n + head.v))

TbDecode(type, s, endian) ==
  IF type \in DOMAIN FixedBytes THEN ReadFixed(s, FixedBytes[type], endian)
  ELSE IF type \notin DOMAIN VarintBits THEN ReadString(s, type, endian)
  ELSE LET r == ReadVarint(s, VarintBits[type])
       IN IF r.ok /\ type \in Signed THEN Found(r.n, DecodeZigzag(r.v)) ELSE r

-----------------------------------------------------------------------------
TbInit ==
  /\ m_endian = "big" /\ tape = <<>> /\ written = <<>>
  /\ phase = "writing" /\ nextByte = 0 /\ got = <<>>

SetIsLittleEndian ==
  /\ phase # "thrown"
  /\ m_endian' \in {"big", "little"} /\ m_endian' # m_endian
  /\ UNCHANGED <<tape, written, phase, nextByte, got>>

TbWrite(type, v) ==
  /\ phase = "writing" /\ Len(written) < MaxValues
  /\ tape' = tape \o TbEncode(type, v, m_endian)
  /\ written' = Append(written, [type |-> type, value |-> v, endian |-> m_endian])
  /\ UNCHANGED <<m_endian, phase, nextByte, got>>

Rewind == /\ phase = "writing" /\ phase' = "reading"
          /\ UNCHANGED <<m_endian, tape, written, nextByte, got>>

TbRead ==
  /\ phase = "reading" /\ Len(got) < Len(written)
  /\ LET r == TbDecode(written[Len(got) + 1].type, SubSeq(tape, nextByte + 1, Len(tape)), m_endian)
     IN IF r.ok THEN nextByte' = nextByte + r.n /\ got' = Append(got, [value |-> r.v, endian |-> m_endian])
                     /\ UNCHANGED phase
        ELSE phase' = "thrown" /\ UNCHANGED <<nextByte, got>>
  /\ UNCHANGED <<m_endian, tape, written>>

TbNext ==
  \/ SetIsLittleEndian
  \/ \E type \in TbTypes : \E v \in TbValues(type) : TbWrite(type, v)
  \/ Rewind
  \/ TbRead

TbSpec == TbInit /\ [][TbNext]_tbVars

-----------------------------------------------------------------------------
(* Types. *)
TbTypeOK ==
  /\ tape \in Seq(0..TbByte - 1) /\ nextByte \in 0..Len(tape)
  /\ Len(written) <= MaxValues /\ Len(got) <= Len(written)
  /\ phase \in {"writing", "reading", "thrown"}

(* The item is one of those that do not come back: a length that its word has no room for is
   cut, to 16 bits of a stringF16 (bytearray.cc:265), readStringVint reads a length that
   writeStringVint did not write (bytearray.cc:502), or the byte order was changed in between. *)
TooLong(w) == w.type \in DOMAIN LengthType /\ Len(w.value) >= TbByte^FixedBytes[LengthType[w.type]]
Reordered(w, endian) == w.type \in DOMAIN FixedBytes \cup DOMAIN LengthType /\ w.endian # endian
ComesBack(i, endian) ==
  \A j \in 1..i : /\ written[j].type # "stringVint" /\ ~TooLong(written[j])
                  /\ ~Reordered(written[j], IF j <= Len(got) THEN got[j].endian ELSE endian)

(* What was written is read back, value by value, in every type at the edges of its
   range and whatever was written before it, as long as no item of the kinds above
   came first. *)
ReadsBack ==
  \A i \in 1..Len(got) : ComesBack(i, m_endian) => got[i].value = written[i].value

(* Such a reader is never thrown out for want of bytes, and takes every byte. *)
TakesAll ==
  /\ phase = "thrown" => ~(Len(got) < Len(written) /\ ComesBack(Len(got) + 1, m_endian))
  /\ phase = "reading" /\ Len(got) = Len(written) /\ ComesBack(Len(got), m_endian) =>
       nextByte = Len(tape)

(* Values of every type survive the round trip, and none disturbs those behind it. *)
RoundTrip == ReadsBack /\ TakesAll
=============================================================================
