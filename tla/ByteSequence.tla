---------------------------- MODULE ByteSequence ----------------------------
(***************************************************************************)
(* What src/mumu/bytearray.h promises of a ByteArray: a sequence of bytes  *)
(* with a position.  Writing puts the bytes it was given at the position   *)
(* and moves it, reading returns the bytes there and moves it, and neither *)
(* knows of blocks.  `call` tells which call was made last, with what and  *)
(* with which result, and what a step may do follows from the call alone.  *)
(* `trusted` tells for how long the promise is kept, and `excused` which   *)
(* answers it does not speak for: an implementation must say when.         *)
(***************************************************************************)
EXTENDS Integers, Sequences

CONSTANTS
  Bytes,
  MaxPut,   \* bound: the longest single write
  Error     \* what a call that throws gives its caller
VARIABLES
  data,     \* the bytes [0, m_size)
  at,       \* m_position
  call,     \* the last call: its name, its number, where, and its bytes (given or returned)
  trusted, excused

seqVars == <<data, at, call, trusted, excused>>

Longer(m, n) == IF m > n THEN m ELSE n
Slice(from, n) == SubSeq(data, from + 1, from + n)
Same == UNCHANGED <<data, at>>

(* The bytes of the call replace what was at the position, or extend the data. *)
Put(s) ==
  /\ at' = at + Len(s)
  /\ data' = [i \in 1..Longer(Len(data), at + Len(s)) |->
                IF i \in at + 1 .. at + Len(s) THEN s[i - at] ELSE data[i]]
Writes ==
  /\ call'.name \in {"write", "fill"} /\ call'.n \in 1..MaxPut
  /\ call'.out \in [1..call'.n -> Bytes] /\ Put(call'.out)

(* A position behind the data extends it with whatever the memory holds. *)
Seeks ==
  /\ call'.name = "setPosition" /\ at' = call'.n
  /\ Len(data') = Longer(Len(data), call'.n)
  /\ SubSeq(data', 1, Len(data)) = data

Clears == call'.name = "clear" /\ data' = <<>> /\ at' = 0

Reads ==
  /\ call'.name = "read" /\ at + call'.n <= Len(data)
  /\ call'.out = Slice(at, call'.n)
  /\ at' = at + call'.n /\ UNCHANGED data

Peeks ==
  /\ call'.name = "readAt" /\ Same
  /\ \/ excused'
     \/ call'.at + call'.n <= Len(data) /\ call'.out = Slice(call'.at, call'.n)

Shows ==
  /\ call'.name \in {"toString", "writeToFile"} /\ Same
  /\ excused' \/ call'.out = Slice(at, Len(data) - at)

(* A message goes out in pieces, each of what comes next.  One that started when
   the promise was not kept may still end when it is. *)
Starts == /\ call'.name = "writeFixSize" /\ call'.at = at /\ call'.out = <<>> /\ Same
Piece(k) ==
  /\ call.name \in {"writeFixSize", "sendAstray"} /\ call'.name \in {call.name, "failed"}
  /\ call'.n = call.n /\ call'.at = call.at
  /\ at + k <= Len(data) /\ call'.out = call.out \o Slice(at, k)
  /\ at' = at + k /\ UNCHANGED data

(* A call throws only for bytes that are not there. *)
Refuses ==
  /\ call'.out = Error /\ Same
  /\ \/ call'.name = "read" /\ at + call'.n > Len(data)
     \/ call'.name = "readAt" /\ call'.at + call'.n > Len(data)
     \/ call'.name = "setPosition" /\ call'.n > Len(data)

Kept ==
  /\ trusted /\ trusted'
  /\ \/ Writes \/ Seeks \/ Clears
     \/ Reads \/ Peeks \/ Shows
     \/ Starts \/ \E k \in 0..Len(data) : Piece(k)
     \/ Refuses

Spec == [][~trusted \/ ~trusted' \/ Kept]_seqVars
=============================================================================
