--------------------------- MODULE StreamTransfer ---------------------------
(***************************************************************************)
(* ReadFixFromStreamWithSpeed, WriteFixToStreamWithSpeed and SpeedLimit of *)
(* src/mumu/util.cc: a transfer in chunks through a stream that may fail   *)
(* or end, with a pause behind each chunk that came too soon.  A second    *)
(* has TicksPerSecond ticks; chunks and speed are counted in bytes.        *)
(***************************************************************************)
EXTENDS Integers, Sequences

CONSTANTS
  TicksPerSecond,
  Speeds,          \* bytes in a tick that SpeedLimit lets through
  Chunk,           \* bytes of a chunk (per)
  Sizes,           \* bytes to transfer
  MaxTicks         \* bound: ticks of a transfer

(* SpeedLimit takes the largest speed for 0, so a tick lets some bytes through. *)
ASSUME TransferAssumption ==
  /\ TicksPerSecond \in Nat \ {0} /\ Chunk \in Nat /\ MaxTicks \in Nat
  /\ Speeds \subseteq Nat \ {0} /\ Sizes \subseteq Nat

VARIABLES
  transfer,   \* the direction, the size, the speed, and whether it runs, or what it returned
  offset,
  moved,      \* bytes that are behind the stream, or in the buffer
  strm,       \* the stream: "good", "failed", and how many bytes one reads before its end
  now,        \* ticks since the transfer began, which is some way into a second
  limit,      \* m_curSec, m_curCount; for the properties, seconds in which a chunk was passed
  pause       \* the tick until which usleep lasts
transferVars == <<transfer, offset, moved, strm, now, limit, pause>>

TransferInit ==
  /\ transfer \in [kind : {"read", "write"}, size : Sizes, speed : Speeds, got : {"running"}]
  /\ offset = 0 /\ moved = 0 /\ pause = 0
  /\ now \in 0..(TicksPerSecond - 1)
  /\ strm \in [good : {TRUE}, left : {0} \cup Sizes]
  /\ limit = [sec |-> -1, count |-> 0, seconds |-> 0]

Minimum(a, b) == IF a < b THEN a ELSE b
Length == Minimum(Chunk, transfer.size - offset)

(* SpeedLimit::add: the first chunk of a second is never made to wait. *)
Add(v) ==
  LET second == now \div TicksPerSecond
      usedms == now % TicksPerSecond
      count == limit.count + v
      limitms == count \div transfer.speed
  IN IF second # limit.sec
     THEN limit' = [sec |-> second, count |-> v, seconds |-> limit.seconds + 1] /\ pause' = now
     ELSE /\ limit' = [limit EXCEPT !.count = count]
          /\ pause' = IF usedms < limitms THEN now + limitms - usedms ELSE now

Runs == transfer.got = "running" /\ now >= pause /\ now < MaxTicks
(* A write takes the whole chunk, or fails behind some of it; the offset moves in any case. *)
WriteChunk ==
  /\ Runs /\ transfer.kind = "write" /\ strm.good /\ offset < transfer.size
  /\ offset' = offset + Length
  /\ \E n \in 0..Length : moved' = moved + n /\ strm' = [strm EXCEPT !.good = n = Length]
  /\ Add(Length) /\ UNCHANGED <<transfer, now>>
(* A read takes what is there; less than was asked for is the end and a failure. *)
ReadChunk ==
  /\ Runs /\ transfer.kind = "read" /\ strm.good /\ offset < transfer.size
  /\ LET n == Minimum(Length, strm.left)
     IN /\ offset' = offset + n /\ moved' = moved + n
        /\ strm' = [good |-> n = Length, left |-> strm.left - n]
        /\ Add(n)
  /\ UNCHANGED <<transfer, now>>
Finish ==
  /\ Runs /\ ~(strm.good /\ offset < transfer.size)
  /\ transfer' = [transfer EXCEPT !.got = IF offset = transfer.size THEN "true" ELSE "false"]
  /\ UNCHANGED <<offset, moved, strm, now, limit, pause>>
Pass == transfer.got = "running" /\ now < MaxTicks /\ now' = now + 1
        /\ UNCHANGED <<transfer, offset, moved, strm, limit, pause>>

TransferNext == WriteChunk \/ ReadChunk \/ Finish \/ Pass

TransferSpec == TransferInit /\ [][TransferNext]_transferVars

-----------------------------------------------------------------------------
TransferTypeOK ==
  /\ offset \in 0..transfer.size /\ moved \in 0..offset /\ transfer.got \in {"running", "true", "false"}
  /\ now \in 0..MaxTicks /\ pause \in Nat /\ limit.seconds \in Nat

(* What a transfer returned is what happened: true when all is read, or written; but a write
   whose last chunk fails says true all the same.  And while it goes on, the bytes that have
   passed are at most those of the ticks so far, but for a chunk in each second, which
   passes freely, and what a tick is rounded by (util.cc:806-824). *)
TransfersHonest ==
  /\ transfer.got = "true" => moved = transfer.size \/ (transfer.kind = "write" /\ ~strm.good)
  /\ transfer.got = "false" => moved < transfer.size /\ ~strm.good
  /\ transfer.got = "running" /\ now >= pause =>
       offset <= now * transfer.speed + limit.seconds * (Chunk + transfer.speed)
=============================================================================
