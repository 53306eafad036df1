----------------------------- MODULE ByteArray ------------------------------
(***************************************************************************)
(* src/mumu/bytearray.cc: a chain of blocks of one size with a cursor, and *)
(* the ways to move bytes in and out of it, those of                       *)
(* streams/socket_stream.cc and stream.cc included.  A block is m_baseSize *)
(* cells of mem in a row; m_cur is the number of a block, and the number   *)
(* of blocks stands for the null pointer behind the last one.  Following   *)
(* that pointer ends the program (`crashed`).  Sizes are unsigned: a       *)
(* difference wraps at Word.                                               *)
(***************************************************************************)
EXTENDS Integers, Sequences, SequencesExt

CONSTANTS
  BaseSizes,   \* block sizes (4096 by default, 1 in the tests)
  ByteValues,
  MaxBytes,    \* bound: no write or position reaches further
  MaxChunk,    \* bound: the longest single write or read
  Word         \* how many values a size_t has

ASSUME ByteArrayAssumption ==
  /\ -1 \notin ByteValues /\ -2 \notin ByteValues
  /\ BaseSizes \subseteq Nat \ {0}
  /\ MaxBytes \in Nat /\ MaxChunk \in Nat /\ Word \in Nat
  /\ \A base \in BaseSizes : MaxBytes + base < Word     \* what is in memory can be counted

VARIABLES
  m_baseSize, m_position, m_size, m_cur, mem,
  op,       \* the last call, with the bytes it was given or returned
  left,     \* bytes that writeFixSize has still to send
  ofs,      \* the stream of writeToFile: if it is open, what it has; and the position, block and read_size
  strayed,  \* history: m_cur and m_position may no longer name the same byte
  crashed

baVars == <<m_baseSize, m_position, m_size, m_cur, mem, op, left, ofs, strayed, crashed>>

Sub(a, b) == (a - b) % Word
Raw == -1         \* a cell of a new block
Cells == ByteValues \cup {Raw}
Thrown == <<-2>>   \* what a call that throws gives its caller
Chunks(n) == UNION {[1..k -> ByteValues] : k \in 1..n}

m_capacity == Len(mem)
Blocks == m_capacity \div m_baseSize
GetReadSize == Sub(m_size, m_position)
GetCapacity == Sub(m_capacity, m_position)
Npos == m_position % m_baseSize
Here == m_cur * m_baseSize + Npos       \* the address the cursor reads and writes
BaOpAt(name, n, p, out) == op' = [name |-> name, n |-> n, at |-> p, out |-> out]
BaOp(name, n, out) == BaOpAt(name, n, m_position, out)

NoOfs == [open |-> FALSE, pos |-> 0, block |-> 0, rest |-> 0, out |-> <<>>]

BaInit ==
  /\ m_baseSize \in BaseSizes
  /\ m_position = 0 /\ m_size = 0 /\ m_cur = 0
  /\ mem = [i \in 1..m_baseSize |-> Raw]
  /\ op = [name |-> "new", n |-> 0, at |-> 0, out |-> <<>>]
  /\ left = 0 /\ ofs = NoOfs /\ strayed = FALSE /\ crashed = FALSE

Crash(name, n, p) ==
  /\ crashed' = TRUE /\ BaOpAt(name, n, p, <<>>)
  /\ UNCHANGED <<m_baseSize, m_position, m_size, m_cur, mem, left, ofs, strayed>>

BaThrow(name, n, p) ==
  /\ BaOpAt(name, n, p, Thrown)
  /\ UNCHANGED <<m_baseSize, m_position, m_size, m_cur, mem, left, ofs, strayed, crashed>>

(* addCapacity: the memory and the cursor once n more bytes fit. *)
NewBlocksFewer(n) ==       \* mutant: rounded down
  IF GetCapacity >= n THEN 0 ELSE (n - GetCapacity) \div m_baseSize
NewBlocks(n) == IF GetCapacity >= n THEN 0
                ELSE (n - GetCapacity + m_baseSize - 1) \div m_baseSize
Grown(n) == mem \o [i \in 1..NewBlocks(n) * m_baseSize |-> Raw]
CurAfterGrowth(n) == IF NewBlocks(n) > 0 /\ GetCapacity = 0 THEN Blocks ELSE m_cur

-----------------------------------------------------------------------------
(* write, and readFromFile, which writes what it reads a block at a time.  The loop of
   write copies the bytes s to the cells behind `from`, block by block. *)
StoredAgain(s, from, cells) ==      \* mutant: without bpos, each block gets the first bytes
  LET room == m_baseSize - (from % m_baseSize)
      Byte(k) == IF k <= room THEN s[k] ELSE s[((k - room - 1) % m_baseSize) + 1]
  IN [i \in 1..Len(cells) |->
        IF i \in from + 1 .. from + Len(s) THEN Byte(i - from) ELSE cells[i]]
Stored(s, from, cells) ==
  [i \in 1..Len(cells) |->
     IF i \in from + 1 .. from + Len(s) THEN s[i - from] ELSE cells[i]]
Write(s) ==
  LET n == Len(s)
      from == CurAfterGrowth(n) * m_baseSize + Npos
  IN /\ m_position + n <= MaxBytes
     /\ IF CurAfterGrowth(n) * m_baseSize >= Len(Grown(n)) \/ from + n > Len(Grown(n))
        THEN Crash("write", n, m_position)
        ELSE /\ mem' = Stored(s, from, Grown(n))
             /\ m_cur' = (from + n) \div m_baseSize
             /\ m_position' = m_position + n
             /\ m_size' = IF m_position' > m_size THEN m_position' ELSE m_size
             /\ BaOp("write", n, s)
             /\ UNCHANGED <<m_baseSize, left, ofs, strayed, crashed>>

(* read: over a block boundary it adds npos to the position once more. *)
Read(n) ==
  LET over == n > m_baseSize - Npos
  IN IF n > GetReadSize THEN BaThrow("read", n, m_position)
     ELSE IF m_cur >= Blocks \/ Here + n > m_capacity THEN Crash("read", n, m_position)
     ELSE /\ BaOp("read", n, SubSeq(mem, Here + 1, Here + n))
          /\ m_position' = m_position + n + (IF over THEN Npos ELSE 0)
          /\ m_cur' = (Here + n) \div m_baseSize
          /\ strayed' = (strayed \/ (over /\ Npos > 0))
          /\ UNCHANGED <<m_baseSize, m_size, mem, left, ofs, crashed>>

(* read(buf, size, position) starts in the block of the cursor, whatever the
   position; it moves nothing.  toString (ToStr) calls it for all there is to read. *)
ReadFrom(name, n, position) ==
  LET from == (m_cur * m_baseSize) + (position % m_baseSize)
  IN IF n > Sub(m_size, position) THEN BaThrow(name, n, position)
     ELSE IF m_cur >= Blocks \/ from + n > m_capacity THEN Crash(name, n, position)
     ELSE /\ BaOpAt(name, n, position, SubSeq(mem, from + 1, from + n))
          /\ UNCHANGED <<m_baseSize, m_position, m_size, m_cur, mem, left, ofs, strayed, crashed>>

ToStr ==
  /\ GetReadSize \in 1..MaxBytes        \* "" at 0; no string is as long as a wrapped size
  /\ ReadFrom("toString", GetReadSize, m_position)

(* setPosition finds the block again. *)
MovedToSameBlock(v) ==     \* mutant: m_cur is left where it is
  /\ m_position' = v /\ m_size' = (IF v > m_size THEN v ELSE m_size)
  /\ UNCHANGED <<m_cur, strayed>>
MovedTo(v) == /\ m_position' = v
              /\ m_size' = (IF v > m_size THEN v ELSE m_size)
              /\ m_cur' = v \div m_baseSize
              /\ strayed' = (strayed /\ m_size > m_capacity)
SetPosition(v) ==
  IF v > m_capacity THEN BaThrow("setPosition", v, m_position)
  ELSE MovedTo(v) /\ BaOp("setPosition", v, <<>>)
       /\ UNCHANGED <<m_baseSize, mem, left, ofs, crashed>>

BaClearTrims ==            \* mutant: the memory is cut to the bytes it had
  /\ m_position' = 0 /\ m_size' = 0 /\ m_cur' = 0 /\ mem' = SubSeq(mem, 1, m_size)
  /\ strayed' = FALSE /\ BaOp("clear", 0, <<>>)
  /\ UNCHANGED <<m_baseSize, left, ofs, crashed>>
BaClear ==
  /\ m_position' = 0 /\ m_size' = 0 /\ m_cur' = 0 /\ mem' = SubSeq(mem, 1, m_baseSize)
  /\ strayed' = FALSE /\ BaOp("clear", 0, <<>>)
  /\ UNCHANGED <<m_baseSize, left, ofs, crashed>>

-----------------------------------------------------------------------------
(* getReadBuffers hands out the first block only, though it answers len. *)
BufferLen(len) == Min({len, GetReadSize, m_baseSize - Npos})

(* getWriteBuffers makes room and hands out one buffer for each block, but each
   of them in the block of the cursor.  s is what the caller puts there, before it
   moves the position over it. *)
FillWriteBuffers(s) ==
  LET n == Len(s)
      room == m_baseSize - Npos
      cur == CurAfterGrowth(n)
      \* of the bytes that fall on offset o of the block, the last one stays
      Offset(i) == IF i <= room THEN Npos + i - 1 ELSE (i - room - 1) % m_baseSize
      Hits(o) == {i \in 1..n : Offset(i) = o}
  IN /\ ~strayed /\ m_position + n <= MaxBytes
     /\ mem' = [c \in 1..Len(Grown(n)) |->
                  LET o == c - 1 - cur * m_baseSize
                  IN IF o \in 0..m_baseSize - 1 /\ Hits(o) # {} THEN s[Max(Hits(o))] ELSE Grown(n)[c]]
     /\ m_position' = m_position + n
     /\ m_size' = (IF m_position + n > m_size THEN m_position + n ELSE m_size)
     /\ m_cur' = (m_position + n) \div m_baseSize
     /\ strayed' = (n > room)
     /\ BaOp("fill", n, s)
     /\ UNCHANGED <<m_baseSize, left, ofs, crashed>>

(* SocketStream::write(ba): the socket takes rt bytes of the buffers, and the
   position follows.  writeFixSize asks until all is sent or rt is 0. *)
WriteFixSize(length) ==
  /\ left = 0 /\ left' = length
  /\ BaOp(IF strayed THEN "sendAstray" ELSE "writeFixSize", length, <<>>)
  /\ UNCHANGED <<m_baseSize, m_position, m_size, m_cur, mem, strayed, ofs, crashed>>

StreamWrite(rt) ==
  /\ left > 0 /\ rt \in 0..BufferLen(left)
  /\ IF BufferLen(left) > 0 /\ m_cur >= Blocks THEN Crash("send", rt, m_position)
     ELSE IF m_position + rt > m_capacity     \* thrown by setPosition
     THEN /\ BaOp("send", rt, Thrown) /\ left' = 0
          /\ UNCHANGED <<m_baseSize, m_position, m_size, m_cur, mem, strayed, ofs, crashed>>
     ELSE /\ op' = [op EXCEPT !.out = @ \o SubSeq(mem, Here + 1, Here + rt),
                              !.name = IF rt = 0 THEN "failed" ELSE @]
          /\ left' = (IF rt = 0 THEN 0 ELSE left - rt)
          /\ IF rt > 0 THEN MovedTo(m_position + rt)
             ELSE UNCHANGED <<m_position, m_size, m_cur, strayed>>
          /\ UNCHANGED <<m_baseSize, mem, ofs, crashed>>

(* writeToFile: each round writes min(read_size, base) - diff bytes of its block,
   none when that is negative, and goes on to the next block. *)
WriteToFile ==
  /\ ~strayed
  /\ ofs' = [open |-> TRUE, pos |-> m_position, block |-> m_cur, rest |-> GetReadSize, out |-> <<>>]
  /\ UNCHANGED <<m_baseSize, m_position, m_size, m_cur, mem, op, left, strayed, crashed>>

FileRound ==
  LET diff == ofs.pos % m_baseSize
      len == (IF ofs.rest > m_baseSize THEN m_baseSize ELSE ofs.rest) - diff
      from == ofs.block * m_baseSize + diff
  IN /\ ofs.open
     /\ IF ofs.rest <= 0
        THEN /\ BaOp("writeToFile", GetReadSize, ofs.out) /\ ofs' = NoOfs
             /\ UNCHANGED <<m_baseSize, m_position, m_size, m_cur, mem, left, strayed, crashed>>
        ELSE IF ofs.block >= Blocks THEN Crash("writeToFile", GetReadSize, m_position)
        ELSE /\ ofs' = [open |-> TRUE, pos |-> ofs.pos + len, block |-> ofs.block + 1, rest |-> ofs.rest - len,
                         out |-> ofs.out \o SubSeq(mem, from + 1, from + len)]
             /\ UNCHANGED <<m_baseSize, m_position, m_size, m_cur, mem, op, left, strayed, crashed>>

BaNext ==
  /\ ~crashed
  /\ \/ \E rt \in 0..MaxChunk : StreamWrite(rt)
     \/ FileRound
     \/ /\ left = 0 /\ ~ofs.open
        /\ \/ \E s \in Chunks(MaxChunk) : Write(s) \/ FillWriteBuffers(s)
           \/ \E n \in 0..MaxChunk : Read(n)
           \/ \E n \in 1..MaxChunk, p \in 0..MaxBytes : ReadFrom("readAt", n, p)
           \/ ToStr
           \/ \E v \in 0..MaxBytes : SetPosition(v)
           \/ BaClear
           \/ \E n \in 1..MaxChunk : WriteFixSize(n)
           \/ WriteToFile

BaSpec == BaInit /\ [][BaNext]_baVars

-----------------------------------------------------------------------------
(* Types. *)
BaTypeOK ==
  /\ m_baseSize \in BaseSizes
  /\ {m_position, m_size, m_cur, left} \subseteq Nat
  /\ mem \in Seq(Cells) /\ m_capacity % m_baseSize = 0
  /\ {strayed, crashed} \subseteq BOOLEAN

(* read(buf, size, position) is asked for bytes outside the cursor's block, or behind
   the end, where m_size - position wraps (bytearray.cc:624-630). *)
FarRead == op.name = "readAt" /\ (op.at \div m_baseSize # m_cur \/ op.at > m_size)
(* writeToFile starts inside the last block it needs: min(read_size, base) - diff
   leaves out diff bytes, and the next round takes them from the next block. *)
FilePart == op.name = "writeToFile" /\ Npos > 0 /\ GetReadSize <= m_baseSize
(* a read of no bytes behind the last block: an empty string at the end of one *)
ReadNothing == op.name = "read" /\ op.n = 0 /\ m_position = m_capacity

(* The three pieces of the cursor agree: as long as no read went over a block boundary
   from inside a block (bytearray.cc:607) and no writer filled several write buffers
   (bytearray.cc:878), m_cur is the block of m_position, and both m_position and
   m_size lie within the blocks.  setPosition and clear repair it. *)
CursorAgrees ==
  ~strayed => /\ m_cur = m_position \div m_baseSize
              /\ m_position <= m_size /\ m_size <= m_capacity

(* The program follows the null pointer behind the last block in three named cases
   only, or once the cursor has strayed. *)
CrashesNamed == crashed => strayed \/ FarRead \/ FilePart \/ ReadNothing

(* writeFixSize sends the bytes it was asked for, once each and in order, however the
   one-block buffers of getReadBuffers and the short sends of the socket cut them. *)
WholeMessageSent ==
  op.name = "writeFixSize" /\ left = 0 /\ ~strayed =>
    /\ op.out = SubSeq(mem, op.at + 1, op.at + op.n)
    /\ m_position = op.at + op.n

(* The chain of blocks implements the plain sequence of bytes that bytearray.h
   promises: what is written is there, byte for byte and whatever blocks it fell into,
   reads and sends return it from the position, and a call throws only for bytes that
   are not there.  The promise ends when the cursor strays or the null pointer is
   followed, and the answers of the two named reads are not spoken for. *)
Contract == INSTANCE ByteSequence WITH
  Bytes <- ByteValues, MaxPut <- MaxChunk, Error <- Thrown,
  data <- SubSeq(mem, 1, Min({m_size, m_capacity})),
  at <- m_position,
  call <- op,
  trusted <- ~strayed /\ ~crashed,
  excused <- FarRead \/ FilePart
BlocksHidden == Contract!Spec

(* The cursor names the byte it should, and never leads behind the last block but in
   the named cases. *)
CursorSound == CursorAgrees /\ CrashesNamed
=============================================================================
