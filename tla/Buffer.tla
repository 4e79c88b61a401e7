------------------------------- MODULE Buffer -------------------------------
(***************************************************************************)
(* net/Buffer: a vector of bytes with a read and a write index, the        *)
(* readable bytes between them, and room for a header before them.  A      *)
(* buffer is a record; data[i + 1] is _data[i].  A position is an index of *)
(* _data, nullptr none.  Integers are those of a little-endian machine.    *)
(***************************************************************************)
EXTENDS Digits, SequencesExt

CONSTANTS
  Base,          \* the number of values of a byte
  Widths,        \* sizes of integers, in bytes
  CR, LF,        \* two bytes
  kInitialSize,
  kPrependSize,
  ExtraSize,     \* size of the array `buf' of readFromFd(): 65536
  MaxChunk,      \* bound on what one call puts or takes
  MaxSize        \* bound on the size of the vector

Byte == 0 .. Base - 1

ASSUME BufferAssumption ==
  /\ Base \in Nat \ {0, 1} /\ Base % 2 = 0
  /\ {CR, LF} \subseteq Byte /\ CR # LF
  /\ Widths \subseteq Nat \ {0}
  /\ {kInitialSize, kPrependSize, ExtraSize, MaxChunk, MaxSize} \subseteq Nat
  /\ kPrependSize + kInitialSize <= MaxSize

Chunk == BoundedSeq(Byte, MaxChunk)

VARIABLES
  data,        \* _data
  readIndex,   \* _readIndex
  writeIndex   \* _writeIndex

vars == <<data, readIndex, writeIndex>>

TypeOK ==
  /\ data \in Seq(Byte) /\ Len(data) <= MaxSize
  /\ readIndex \in 0 .. writeIndex
  /\ writeIndex \in kPrependSize .. Len(data)

\* The constructor ignores its argument.
Init ==
  /\ data = [i \in 1 .. kPrependSize + kInitialSize |-> 0]
  /\ readIndex = kPrependSize
  /\ writeIndex = kPrependSize

-----------------------------------------------------------------------------

prependableBytes(b) == b.r
readableBytes(b) == b.w - b.r
writableBytes(b) == Len(b.data) - b.w

buffer == [data |-> data, r |-> readIndex, w |-> writeIndex]

Becomes(b) == data' = b.data /\ readIndex' = b.r /\ writeIndex' = b.w

\* std::copy of s to position `at', inside the vector.
copy(d, at, s) ==
  [i \in DOMAIN d |-> IF i - at \in DOMAIN s THEN s[i - at] ELSE d[i]]

resize(d, n) == [i \in 1 .. n |-> IF i \in DOMAIN d THEN d[i] ELSE 0]

MustGrow(b, len) ==
  writableBytes(b) + prependableBytes(b) < len + kPrependSize

movedIndexOnly(b) ==                \* mutant: no std::copy
  [data |-> b.data, r |-> kPrependSize, w |-> kPrependSize + readableBytes(b)]

moved(b) ==
  [data |-> copy(b.data, kPrependSize, SubSeq(b.data, b.r + 1, b.w)),
   r    |-> kPrependSize,
   w    |-> kPrependSize + readableBytes(b)]

\* A buffer with room to write len bytes: as it is, larger, or with the
\* readable bytes moved to the front.
makeRoom(b, len) ==
  IF writableBytes(b) >= len THEN b
  ELSE IF MustGrow(b, len) THEN [b EXCEPT !.data = resize(b.data, b.w + len)]
  ELSE moved(b)

appended(b, s) ==
  LET room == makeRoom(b, Len(s))
  IN  [room EXCEPT !.data = copy(room.data, room.w, s), !.w = room.w + Len(s)]

-----------------------------------------------------------------------------

append(s) ==
  /\ Len(appended(buffer, s).data) <= MaxSize
  /\ Becomes(appended(buffer, s))

\* A caller prepends no more than prependableBytes(): nothing checks it.
prepend(s) ==
  /\ Len(s) <= prependableBytes(buffer)
  /\ readIndex' = readIndex - Len(s)
  /\ data' = copy(data, readIndex - Len(s), s)
  /\ UNCHANGED writeIndex

\* The memory of an n-byte integer v, and the integer a memory holds.
Signed(n) == -(Power(Base, n) \div 2) .. Power(Base, n) \div 2 - 1

memory(v, n) == [i \in 1 .. n |-> (v \div Power(Base, i - 1)) % Base]

integer(s) == CHOOSE v \in Signed(Len(s)) : memory(v, Len(s)) = s

htobeNothing(v, n) == v             \* mutant: no conversion

\* The integer with the bytes of v in the other order; be16toh() is the same.
htobe(v, n) == integer(Reverse(memory(v, n)))

appendInt(v, n) == append(memory(htobe(v, n), n))

prependInt(v, n) == prepend(memory(htobe(v, n), n))

\* A caller has tested that n bytes are readable: nothing checks it.
peekInt(n) == htobe(integer(SubSeq(data, readIndex + 1, readIndex + n)), n)

\* findEOL() and findCRLF().
nullptr == -1

find(pattern) ==
  LET hits == {p \in readIndex .. writeIndex - Len(pattern) :
                 SubSeq(data, p + 1, p + Len(pattern)) = pattern}
  IN  IF hits = {} THEN nullptr ELSE CHOOSE p \in hits : \A q \in hits : p <= q

\* retrieve(), also of the readInt, retrieveAsString and retrieveUntil calls.
retrieve(n) ==
  /\ IF n < readableBytes(buffer)
       THEN readIndex' = readIndex + n /\ UNCHANGED writeIndex
       ELSE readIndex' = kPrependSize /\ writeIndex' = kPrependSize
  /\ UNCHANGED data

\* readv() of s: what fits goes behind the readable bytes, the rest to the
\* extra array, which is used only while there is less room than it holds,
\* and from there to the buffer.
Readable ==
  writableBytes(buffer)
    + (IF writableBytes(buffer) < ExtraSize THEN ExtraSize ELSE 0)

readFromFd(s) ==
  LET room  == writableBytes(buffer)
      first == IF Len(s) <= room THEN s ELSE SubSeq(s, 1, room)
      rest  == SubSeq(s, room + 1, Len(s))
      full  == [data |-> copy(data, writeIndex, first), r |-> readIndex,
                w |-> writeIndex + Len(first)]
  IN  /\ Len(s) <= Readable
      /\ IF Len(s) <= room
           THEN Becomes(full)
           ELSE /\ Len(appended(full, rest).data) <= MaxSize
                /\ Becomes(appended(full, rest))

Next ==
  \/ \E s \in Chunk : append(s)
  \/ \E s \in Chunk : prepend(s)
  \/ \E n \in Widths : \E v \in Signed(n) : appendInt(v, n) \/ prependInt(v, n)
  \/ \E n \in 0 .. MaxSize : retrieve(n)
  \/ \E s \in Chunk : readFromFd(s)

Spec == Init /\ [][Next]_vars

-----------------------------------------------------------------------------

Contents == SubSeq(data, readIndex + 1, writeIndex)

Q == INSTANCE ByteQueue WITH queue <- Contents

\* Each operation does to the readable bytes what the queue of bytes does,
\* wherever they lie in the vector and whether it moves them or grows; an
\* integer is put there in network byte order.
ImplementsQueue ==
  [][/\ \A s \in Chunk : append(s) \/ readFromFd(s) => Q!PutLast(s)
     /\ \A s \in Chunk : prepend(s) => Q!PutFirst(s)
     /\ \A n \in Widths : \A v \in Signed(n) :
          /\ appendInt(v, n) => \E s \in Q!Numerals(v, n) : Q!PutLast(s)
          /\ prependInt(v, n) => \E s \in Q!Numerals(v, n) : Q!PutFirst(s)
     /\ \A n \in 0 .. MaxSize : retrieve(n) => Q!Take(n)]_vars

\* What is read in place is what the queue holds at its front: integers of
\* each width and sign, and the end of the first line, never one that stale
\* bytes behind the queue make up.
PeeksAtQueue ==
  /\ \A n \in Widths :
       n <= readableBytes(buffer) =>
         SubSeq(Contents, 1, n) \in Q!Numerals(peekInt(n), n)
  /\ \A pattern \in {<<LF>>, <<CR, LF>>} :
       IF find(pattern) = nullptr
         THEN \A k \in 0 .. Len(Contents) : ~ Q!FirstAt(pattern, k)
         ELSE Q!FirstAt(pattern, find(pattern) - readIndex)

=============================================================================
