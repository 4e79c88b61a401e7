------------------------- MODULE AsyncLoggingProofs -------------------------
(***************************************************************************)
(* Theorems about module AsyncLogging, for every number and size of        *)
(* messages and every capacity of a buffer.                                *)
(***************************************************************************)
EXTENDS AsyncLogging, SharedLemmas

Text == Seq(Byte)
Spare == {null, new}

Shape ==
  /\ front \in Seq(Text) /\ Len(front) = 1
  /\ frontBk \in Spare /\ buffer1 \in Spare /\ buffer2 \in Spare
  /\ buffers \in Seq(Text)
  /\ toWrite \in Seq(Text) /\ written \in 0 .. Len(toWrite)
  /\ file \in Text /\ disk \in Text /\ stored \in Text
  /\ taken \in Nat /\ ioError \in BOOLEAN /\ (~ ioError => taken = 0)
  /\ appended \in 0 .. Messages
  /\ backend \in BeforeSwap \cup {"none", "begin", "test", "write", "flush", "exited"}
  /\ owner \in {"new", "starting", "up", "stopping", "joining", "down"}
  /\ owner = "new" => backend = "none"

\* Where the buffers are: there is one for each pointer of the front end and of
\* the backend, but for those that were filled or are being written.
Spares ==
  /\ ~ undefined
  /\ frontBk = null => buffers # <<>>
  /\ backend \in BeforeSwap \cup {"test", "flush", "exited"} =>
       buffer1 = new /\ buffer2 = new
  /\ backend # "write" => toWrite = <<>> /\ written = 0
  /\ backend = "write" => toWrite # <<>> /\ (buffer2 = null => Len(toWrite) > 1)


\* The disk holds the first part of the file: while stdio does not fail, all of it
\* outside the writing of a round, and during the writing at least what was there
\* before the round.
OnDisk ==
  /\ Len(disk) <= Len(file) /\ disk = SubSeq(file, 1, Len(disk))
  /\ backend \notin {"write", "flush"} /\ ~ ioError => disk = file
  /\ backend = "write" /\ ~ ioError =>
       \E n \in 0 .. Len(disk) :
         file = SubSeq(file, 1, n) \o FlattenSeq(SubSeq(toWrite, 1, written))

\* Once the destructor has begun no message comes: a swap after that leaves
\* nothing behind.
Drains ==
  /\ owner = "down" => backend = "exited"
  /\ owner \in {"stopping", "joining", "down"} /\ ~ overtaken =>
       \/ backend \in BeforeSwap
       \/ /\ backend \in {"write", "flush", "test", "exited"}
          /\ buffers = <<>> /\ front = new

IInv == Shape /\ Spares /\ Conserved /\ OnDisk /\ Drains

-----------------------------------------------------------------------------

LEMMA PointerFacts ==
  /\ new # null
  /\ new \in Seq(Text) /\ Len(new) = 1 /\ new[1] = <<>>
  /\ FlattenSeq(new) = <<>> /\ FlattenSeq(null) = <<>> /\ FlattenSeq(<<>>) = <<>>
<1>1. <<>> \in Seq(Byte) /\ new = <<<<>>>> /\ null = <<>>
  BY DEF new, null
<1>2. FlattenSeq(new) = <<>>
  BY <1>1, FlattenOne
<1> QED
  BY <1>1, <1>2, FlattenEmpty DEF Text

LEMMA InitShape == Init => Shape /\ Spares
<1> SUFFICES ASSUME Init PROVE Shape /\ Spares
  OBVIOUS
<1>1. /\ front \in Seq(Text) /\ Len(front) = 1 /\ frontBk \in Spare
      /\ buffer1 \in Spare /\ buffer2 \in Spare /\ frontBk # null
  BY PointerFacts DEF Init, Spare
<1>2. buffers \in Seq(Text) /\ toWrite \in Seq(Text) /\ written \in 0 .. Len(toWrite)
  BY DEF Init
<1>3. /\ file \in Text /\ disk \in Text /\ stored \in Text
  BY DEF Init, Text
<1>7. taken \in Nat /\ ioError \in BOOLEAN /\ taken = 0
  BY DEF Init
<1>4. appended \in 0 .. Messages
  BY AsyncLoggingAssumption DEF Init
<1>5. Shape
  BY <1>1, <1>2, <1>3, <1>4, <1>7 DEF Init, Shape
<1>6. Spares
  BY <1>1 DEF Init, Spares, BeforeSwap
<1> QED
  BY <1>5, <1>6

\* The bytes of a message, and a buffer after append() has put them into it.
LEMMA LineIsText ==
  ASSUME NEW m \in Msg
  PROVE  line(m) \in Text
<1>1. Size[m] \in Nat
  BY AsyncLoggingAssumption DEF Msg
<1>2. \A i \in 1 .. Size[m] : <<m, i>> \in Byte
  BY <1>1 DEF Byte
<1> QED
  BY <1>1, <1>2 DEF line, Text

LEMMA PutKeeps ==
  ASSUME NEW m \in Msg, NEW b \in Text
  PROVE  b \o line(m) \in Text /\ put(b, m) \in Text
<1>1. line(m) \in Text
  BY LineIsText
<1> QED
  BY <1>1 DEF put, Text

LEMMA PointerTo ==
  ASSUME NEW b \in Text
  PROVE  <<b>> \in Seq(Text) /\ Len(<<b>>) = 1
  OBVIOUS

\* The elements of a first part.
LEMMA RangeOfPart ==
  ASSUME NEW S, NEW s \in Seq(S), NEW k \in 0 .. Len(s)
  PROVE  Range(SubSeq(s, 1, k)) \subseteq Range(s)
<1> DEFINE p == SubSeq(s, 1, k)
<1>1. p \in Seq(S) /\ Len(p) = k /\ \A i \in 1 .. k : p[i] = s[i] /\ i \in 1 .. Len(s)
  OBVIOUS
<1> HIDE DEF p
<1>2. \A i \in DOMAIN p : p[i] = s[i] /\ i \in DOMAIN s
  BY <1>1
<1> QED
  BY <1>2 DEF Range, p

\* The elements of the shortest sequences.
LEMMA RangeOfOne ==
  ASSUME NEW e
  PROVE  Range(<<e>>) = {e} /\ Range(<<>>) = {}
  BY DEF Range

LEMMA TextConcat ==
  ASSUME NEW a \in Text, NEW b \in Text
  PROVE  a \o b \in Text
  BY DEF Text

LEMMA TextAssoc ==
  ASSUME NEW a \in Text, NEW b \in Text, NEW c \in Text
  PROVE  (a \o b) \o c = a \o (b \o c)
  BY ConcatAssoc DEF Text

\* append() with room in the front buffer, or with that one filled.
LEMMA AppendCases ==
  ASSUME Shape, Spares, AppendMsg
  PROVE  LET m == appended + 1
             b == front[1]
             e == IF frontBk # null THEN frontBk[1] ELSE <<>>
         IN  /\ m \in Msg /\ m \in 0 .. Messages /\ appended' = m
             /\ b \in Text /\ front = <<b>> /\ e = <<>>
             /\ \/ /\ rest(b) >= Size[m]
                   /\ front' = <<b \o line(m)>>
                   /\ stored' = stored \o line(m)
                   /\ UNCHANGED <<frontBk, buffers, backend>>
                \/ /\ front' = <<put(<<>>, m)>>
                   /\ stored' = stored \o put(<<>>, m)
                   /\ buffers' = buffers \o front /\ frontBk' = null /\ notify
<1> DEFINE m == appended + 1
           b == front[1]
           e == IF frontBk # null THEN frontBk[1] ELSE <<>>
<1>1. m \in Msg /\ m \in 0 .. Messages
  BY AsyncLoggingAssumption DEF Shape, AppendMsg, Msg
<1>2. b \in Text /\ front = <<b>>
  BY OneElement DEF Shape
<1>3. e = <<>>
  BY PointerFacts DEF Shape, Spare
<1>4. CASE rest(b) >= Size[m] /\ Store(m, b) /\ UNCHANGED <<frontBk, buffers, backend>>
  BY <1>1, <1>2, <1>3, <1>4 DEF Store, put
<1>5. CASE /\ rest(b) < Size[m] /\ buffers' = buffers \o front /\ Store(m, e)
           /\ frontBk' = null /\ notify
  <2>1. stored' = stored \o put(<<>>, m)
    <3>1. CASE rest(<<>>) >= Size[m]
      <4>1. stored' = stored \o line(m) /\ put(<<>>, m) = <<>> \o line(m)
        BY <1>3, <1>5, <3>1 DEF Store, put
      <4>2. line(m) \in Seq(Byte)
        BY <1>1, LineIsText DEF Text
      <4> QED
        BY <4>1, <4>2, ConcatNothing
    <3>2. CASE ~ (rest(<<>>) >= Size[m])
      <4>1. stored' = stored /\ put(<<>>, m) = <<>>
        BY <1>3, <1>5, <3>2 DEF Store, put
      <4>2. stored \in Seq(Byte)
        BY DEF Shape, Text
      <4> QED
        BY <4>1, <4>2, ConcatNothing
    <3> QED
      BY <3>1, <3>2
  <2>2. front' = <<put(<<>>, m)>> /\ appended' = m
    BY <1>3, <1>5 DEF Store
  <2> QED
    BY <1>1, <1>2, <1>3, <1>5, <2>1, <2>2
<1> QED
  BY <1>4, <1>5 DEF AppendMsg

LEMMA AppendShape ==
  ASSUME Shape, Spares, AppendMsg
  PROVE  Shape' /\ Spares'
<1> DEFINE m == appended + 1
           b == front[1]
<1>1. /\ m \in Msg /\ m \in 0 .. Messages /\ appended' = m
      /\ b \in Text /\ front = <<b>>
      /\ \/ /\ front' = <<b \o line(m)>>
            /\ stored' = stored \o line(m)
            /\ UNCHANGED <<frontBk, buffers, backend>>
         \/ /\ front' = <<put(<<>>, m)>>
            /\ stored' = stored \o put(<<>>, m)
            /\ buffers' = buffers \o front /\ frontBk' = null /\ notify
  BY AppendCases
<1>2. UNCHANGED <<buffer1, buffer2, toWrite, written, taken, undefined, file, disk,
                  owner, ioError>>
  BY DEF AppendMsg, locals
<1>3. backend' = backend \/ (backend = "waiting" /\ backend' = "woken")
  BY <1>1 DEF notify
<1>4. b \o line(m) \in Text /\ stored \o line(m) \in Text /\ put(<<>>, m) \in Text
  <2>1. <<>> \in Text /\ stored \in Text
    BY DEF Text, Shape
  <2>2. m \in Msg /\ b \in Text
    BY <1>1
  <2> QED
    BY <2>1, <2>2, PutKeeps
<1>5. front' \in Seq(Text) /\ Len(front') = 1
  BY <1>1, <1>4, PointerTo
<1>6. stored' \in Text
  <2>1. CASE stored' = stored \o line(m)
    BY <1>4, <2>1
  <2>2. CASE stored' = stored \o put(<<>>, m)
    BY <1>4, <2>2, TextConcat DEF Shape
  <2> QED
    BY <1>1, <2>1, <2>2
<1>7. /\ buffers' \in Seq(Text) /\ frontBk' \in Spare
      /\ frontBk' = null => buffers' # <<>>
  <2>1. CASE UNCHANGED <<frontBk, buffers>>
    BY <2>1 DEF Shape, Spares
  <2>2. CASE buffers' = buffers \o front /\ frontBk' = null
    <3>1. buffers \in Seq(Text) /\ front \in Seq(Text) /\ Len(front) = 1
      BY DEF Shape
    <3>2. buffers \o front \in Seq(Text) /\ buffers \o front # <<>>
      BY <3>1
    <3> QED
      BY <2>2, <3>2 DEF Spare
  <2> QED
    BY <1>1, <2>1, <2>2
<1>8. Shape'
  BY <1>1, <1>2, <1>3, <1>5, <1>6, <1>7 DEF Shape, BeforeSwap
<1>9. Spares'
  BY <1>2, <1>3, <1>7 DEF Spares, BeforeSwap
<1> QED
  BY <1>8, <1>9

\* The owner, and the backend but for its work with the buffers.
Aside ==
  \/ Start \/ Started \/ Destroy \/ DestroyNotify \/ Join
  \/ Begin \/ WaitUnlessFilled \/ Timeout

LEMMA AsideShape ==
  ASSUME Shape, Spares, Aside
  PROVE  Shape' /\ Spares'
<1>1. UNCHANGED <<front, frontBk, buffers, toWrite, written, taken, undefined, file, disk,
                  stored, appended, ioError>>
  BY DEF Aside, Start, Started, Destroy, DestroyNotify, Join, Begin,
         WaitUnlessFilled, Timeout, shared, locals, history
<1>3. /\ buffer1' \in Spare /\ buffer2' \in Spare
      /\ \/ buffer1 = new /\ buffer2 = new
         \/ backend = "begin" /\ backend' # "begin"
         => buffer1' = new /\ buffer2' = new
      /\ backend = "write" => UNCHANGED buffer2
  <2>1. CASE Begin
    BY <2>1 DEF Begin, Spare
  <2>2. CASE ~ Begin
    <3>1. UNCHANGED <<buffer1, buffer2>>
      BY <2>2 DEF Aside, Start, Started, Destroy, DestroyNotify, Join,
                  WaitUnlessFilled, Timeout, locals
    <3>2. backend = "begin" => backend' = "begin"
      BY <2>2 DEF Aside, Start, Started, Destroy, DestroyNotify, Join,
                  WaitUnlessFilled, Timeout, TimesOut, notify
    <3> QED
      BY <3>1, <3>2 DEF Shape
  <2> QED
    BY <2>1, <2>2
<1>4. /\ backend' \in BeforeSwap \cup {"none", "begin", "test", "write", "flush", "exited"}
      /\ owner' \in {"new", "starting", "up", "stopping", "joining", "down"}
      /\ owner' = "new" => backend' = "none"
  BY DEF Aside, Start, Started, Destroy, DestroyNotify, Join, Begin,
         WaitUnlessFilled, Timeout, TimesOut, notify, Shape, BeforeSwap
<1>5. Shape'
  BY <1>1, <1>3, <1>4 DEF Shape
<1>6. /\ backend' = "write" <=> backend = "write"
      /\ backend' \in BeforeSwap \cup {"test", "flush", "exited"} =>
           backend \in BeforeSwap \cup {"begin", "test", "flush", "exited"}
  BY DEF Aside, Start, Started, Destroy, DestroyNotify, Join, Begin,
         WaitUnlessFilled, Timeout, TimesOut, notify, Shape, BeforeSwap
<1>7. backend' \in BeforeSwap \cup {"test", "flush", "exited"} =>
        buffer1' = new /\ buffer2' = new
  BY <1>3, <1>6 DEF Spares, BeforeSwap
<1>8. Spares'
  BY <1>1, <1>3, <1>6, <1>7 DEF Spares
<1> QED
  BY <1>5, <1>8

\* stdio passes on some of f, which begins with what is on the disk, and keeps the
\* rest or loses it.
Passes(f) ==
  /\ f \in Text /\ Len(disk) <= Len(f) /\ disk = SubSeq(f, 1, Len(disk))
  /\ \E k \in Len(disk) .. Len(f) : disk' = SubSeq(f, 1, k)
  /\ file' \in {f, disk'}

LEMMA PassesFacts ==
  ASSUME NEW f, disk \in Text, Passes(f)
  PROVE  /\ file' \in Text /\ disk' \in Text
         /\ Len(disk) <= Len(disk') /\ Len(disk') <= Len(file')
         /\ disk' = SubSeq(file', 1, Len(disk'))
         /\ IsPrefix(disk, disk')
         /\ Range(file') \subseteq Range(f)
<1>1. PICK k \in Len(disk) .. Len(f) : disk' = SubSeq(f, 1, k)
  BY DEF Passes
<1> DEFINE n == Len(disk)
<1>2. /\ f \in Seq(Byte) /\ disk \in Seq(Byte) /\ disk = SubSeq(f, 1, n)
      /\ file' \in {f, disk'}
  BY DEF Passes, Text
<1>3. n \in Nat /\ k \in 0 .. Len(f) /\ n \in 0 .. k /\ n <= k
  BY <1>1, <1>2
<1>4. disk' \in Seq(Byte) /\ Len(disk') = k
  BY <1>1, <1>2, <1>3, FirstPart
<1>5. SubSeq(disk', 1, n) = disk
  BY <1>1, <1>2, <1>3, FirstPartOfFirst
<1>6. IsPrefix(SubSeq(disk', 1, n), disk')
  BY <1>3, <1>4, FirstPartIsPrefix
<1>7. SubSeq(disk', 1, k) = disk'
  BY <1>4, WholePart
<1>8. Range(disk') \subseteq Range(f)
  BY <1>1, <1>2, <1>3, RangeOfPart
<1>9. IsPrefix(disk, disk')
  BY <1>5, <1>6
<1> HIDE DEF n
<1>10. CASE file' = f
  BY <1>1, <1>2, <1>3, <1>4, <1>8, <1>9, <1>10 DEF Text, n
<1>11. CASE file' = disk'
  BY <1>3, <1>4, <1>7, <1>8, <1>9, <1>11 DEF Text, n
<1> QED
  BY <1>2, <1>10, <1>11

\* The end of a round and of run(): fflush() works, fails or is not called.
LEMMA FlushFacts ==
  ASSUME Shape, OnDisk, Test \/ Flush
  PROVE  /\ UNCHANGED <<front, frontBk, buffers, toWrite, written, taken, buffer1, buffer2,
                        undefined, stored, appended, owner, overtaken>>
         /\ \/ backend = "test" /\ backend' = "lock"
            \/ backend = "test" /\ backend' = "exited"
            \/ backend = "flush" /\ backend' = "test"
         /\ Passes(file)
         /\ ioError' \in BOOLEAN /\ (ioError => ioError')
         /\ ~ ioError' => file' = file /\ (disk' = disk \/ disk' = file)
         /\ backend' # "lock" /\ ~ ioError' => disk' = file
<1>1. /\ UNCHANGED <<front, frontBk, buffers, toWrite, written, taken, buffer1, buffer2,
                      undefined, stored, appended, owner, overtaken>>
      /\ \/ backend = "test" /\ backend' = "lock" /\ UNCHANGED <<file, disk, ioError>>
         \/ backend = "test" /\ backend' = "exited" /\ Fflush
         \/ backend = "flush" /\ backend' = "test" /\ Fflush
  BY DEF Test, Flush, shared, locals
<1>2. /\ file \in Text /\ disk \in Text /\ ioError \in BOOLEAN
      /\ Len(disk) <= Len(file) /\ disk = SubSeq(file, 1, Len(disk))
      /\ file = SubSeq(file, 1, Len(file))
      /\ Len(file) \in Nat /\ Len(disk) \in Nat
  BY WholePart DEF Shape, OnDisk, Text
<1>3. CASE UNCHANGED <<file, disk, ioError>>
  <2>0. disk' = SubSeq(file, 1, Len(disk)) /\ Len(disk) \in Len(disk) .. Len(file)
    BY <1>2, <1>3
  <2>1. Passes(file) /\ ioError' \in BOOLEAN /\ (ioError => ioError')
    BY <1>2, <1>3, <2>0 DEF Passes
  <2>2. backend' # "lock" /\ ~ ioError' => disk' = file
    BY <1>1, <1>3 DEF Fflush, Fails
  <2> QED
    BY <1>1, <1>3, <2>1, <2>2
<1>4. CASE disk' = file /\ UNCHANGED <<file, ioError>>
  <2>1. disk' = SubSeq(file, 1, Len(file)) /\ Len(file) \in Len(disk) .. Len(file)
    BY <1>2, <1>4
  <2>2. Passes(file)
    BY <1>2, <1>4, <2>1 DEF Passes
  <2> QED
    BY <1>1, <1>2, <1>4, <2>2
<1>5. CASE Fails(file)
  <2>1. Passes(file) /\ ioError' = TRUE
    BY <1>2, <1>5 DEF Passes, Fails
  <2> QED
    BY <1>1, <1>2, <2>1
<1> QED
  BY <1>1, <1>3, <1>4, <1>5 DEF Fflush

LEMMA FlushShape ==
  ASSUME Shape, Spares, OnDisk, Test \/ Flush
  PROVE  Shape' /\ Spares'
<1>1. file' \in Text /\ disk' \in Text
  BY FlushFacts, PassesFacts DEF Shape
<1>2. Shape'
  BY <1>1, FlushFacts DEF Shape, BeforeSwap
<1>3. Spares'
  BY FlushFacts DEF Spares, BeforeSwap
<1> QED
  BY <1>2, <1>3

LEMMA SwapShape ==
  ASSUME Shape, Spares, Swap
  PROVE  Shape' /\ Spares'
<1>1. /\ backend \in BeforeSwap /\ toWrite = <<>> /\ buffer1 = new /\ buffer2 = new
      /\ ~ undefined
  BY DEF Swap, Spares, BeforeSwap
<1>2. /\ toWrite' = buffers \o front /\ front' = new /\ buffers' = <<>>
      /\ buffer1' = null /\ written' = 0 /\ taken' = 0 /\ backend' = "write"
      /\ UNCHANGED <<undefined, file, disk, owner, stored, appended, ioError>>
  BY <1>1 DEF Swap, history
<1>3. /\ buffers \in Seq(Text) /\ front \in Seq(Text) /\ Len(front) = 1
      /\ frontBk \in Spare
  BY DEF Shape
<1>4. /\ buffers \o front \in Seq(Text) /\ buffers \o front # <<>>
      /\ buffers # <<>> => Len(buffers \o front) > 1
  BY <1>3
<1>5. /\ frontBk' \in Spare /\ buffer2' \in Spare /\ frontBk' # null
      /\ buffer2' = null => buffers # <<>>
  <2>1. CASE frontBk = null
    BY <1>1, <1>3, <2>1, PointerFacts DEF Swap, Spare, Spares
  <2>2. CASE frontBk # null
    BY <1>1, <1>3, <2>2, PointerFacts DEF Swap, Spare
  <2> QED
    BY <2>1, <2>2
<1>6. 0 \in 0 .. Len(buffers \o front)
  BY <1>4
<1>7. buffers' \in Seq(Text) /\ front' \in Seq(Text) /\ Len(front') = 1
  BY <1>2, PointerFacts
<1>8. Shape'
  BY <1>1, <1>2, <1>4, <1>5, <1>6, <1>7 DEF Shape, Spare, BeforeSwap
<1>9. Spares'
  BY <1>1, <1>2, <1>4, <1>5 DEF Spares, BeforeSwap
<1> QED
  BY <1>8, <1>9

\* fwrite() takes some of a buffer of the round: all of it, or stdio has failed.
LEMMA WriteFacts ==
  ASSUME Shape, OnDisk, Write
  PROVE  LET b == toWrite[written + 1]
         IN  /\ b \in Text /\ written \in Nat /\ written < Len(toWrite)
             /\ \E x \in Text : Range(x) \subseteq Range(b) /\ Passes(file \o x)
             /\ ioError' \in BOOLEAN /\ (ioError => ioError')
             /\ taken' \in Nat /\ (written' = written \/ written' = written + 1)
             /\ ~ ioError' => /\ ~ ioError /\ file' = file \o b
                             /\ written' = written + 1 /\ taken' = 0
<1> DEFINE b == toWrite[written + 1]
           remain == Len(b) - taken
<1>1. /\ toWrite \in Seq(Text) /\ written \in Nat /\ written < Len(toWrite)
      /\ file \in Text /\ disk \in Text /\ b \in Text /\ Len(b) \in Nat
      /\ taken \in Nat /\ ioError \in BOOLEAN /\ (~ ioError => taken = 0)
      /\ Len(disk) \in Nat /\ Len(file) \in Nat
      /\ Len(disk) <= Len(file) /\ disk = SubSeq(file, 1, Len(disk))
  BY DEF Shape, OnDisk, Write, Text
<1>2. \/ remain = 0 /\ NextBuffer /\ UNCHANGED <<file, disk, ioError>>
      \/ /\ remain > 0
         /\ \E wn \in 0 .. remain :
              /\ Fwrite(SubSeq(b, 1, wn), wn < remain)
              /\ IF wn \in {0, remain} THEN NextBuffer
                   ELSE taken' = taken + wn /\ UNCHANGED written
  BY DEF Write, length
<1> HIDE DEF b
<1>3. ASSUME NEW x \in Text
      PROVE  /\ file \o x \in Text
             /\ Len(disk) <= Len(file \o x) /\ disk = SubSeq(file \o x, 1, Len(disk))
  <2>1. file \o x \in Text /\ Len(file \o x) = Len(file) + Len(x) /\ Len(x) \in Nat
    BY <1>1 DEF Text
  <2>2. Len(disk) \in 0 .. Len(file)
    BY <1>1
  <2>3. SubSeq(file \o x, 1, Len(disk)) = SubSeq(file, 1, Len(disk))
    BY <1>1, <2>2, FirstPartOfConcat DEF Text
  <2> QED
    BY <1>1, <2>1, <2>3
<1>4. CASE remain = 0 /\ NextBuffer /\ UNCHANGED <<file, disk, ioError>>
  <2>0. <<>> \in Text /\ Range(<<>>) = {}
    <3>1. <<>> \in Text
      BY DEF Text
    <3> QED
      BY <3>1, RangeOfOne
  <2>1. file \o <<>> = file
    BY <1>1, ConcatNothing DEF Text
  <2>2. Passes(file \o <<>>)
    <3>1. disk' = SubSeq(file, 1, Len(disk)) /\ Len(disk) \in Len(disk) .. Len(file)
      BY <1>1, <1>4
    <3> QED
      BY <1>1, <1>4, <2>1, <3>1 DEF Passes
  <2>3. ~ ioError => b = <<>>
    BY <1>1, <1>4 DEF Text
  <2> QED
    <3>1. \E x \in Text : Range(x) \subseteq Range(b) /\ Passes(file \o x)
      BY <2>0, <2>2
    <3>2. ~ ioError => file' = file \o b
      BY <1>4, <2>1, <2>3
    <3>3. /\ ioError' \in BOOLEAN /\ ioError' = ioError
          /\ taken' = 0 /\ written' = written + 1
      BY <1>1, <1>4 DEF NextBuffer
    <3> QED
      BY <1>1, <3>1, <3>2, <3>3 DEF b
<1>5. ASSUME NEW wn \in 0 .. remain, remain > 0,
             Fwrite(SubSeq(b, 1, wn), wn < remain),
             IF wn \in {0, remain} THEN NextBuffer
                ELSE taken' = taken + wn /\ UNCHANGED written
      PROVE  /\ \E x \in Text : Range(x) \subseteq Range(b) /\ Passes(file \o x)
             /\ ioError' \in BOOLEAN /\ (ioError => ioError')
             /\ taken' \in Nat /\ (written' = written \/ written' = written + 1)
             /\ ~ ioError' => /\ ~ ioError /\ file' = file \o b
                             /\ written' = written + 1 /\ taken' = 0
  <2> DEFINE x == SubSeq(b, 1, wn)
  <2>1. wn \in 0 .. Len(b) /\ wn \in Nat
    BY <1>1, <1>5
  <2>2. x \in Text /\ Range(x) \subseteq Range(b)
    BY <1>1, <2>1, FirstPart, RangeOfPart DEF Text
  <2>3. CASE wn < remain
    <3>1. Fails(file \o x)
      BY <1>5, <2>3 DEF Fwrite
    <3>2. Passes(file \o x) /\ ioError' = TRUE
      BY <1>3, <2>2, <3>1 DEF Passes, Fails
    <3>3. taken' \in Nat /\ (written' = written \/ written' = written + 1)
      BY <1>1, <1>5, <2>1 DEF NextBuffer
    <3> QED
      BY <2>2, <3>2, <3>3
  <2>4. CASE ~ (wn < remain)
    <3>1. wn = remain
      BY <1>1, <1>5, <2>4
    <3>2. /\ file' = file \o x /\ ioError' = ioError
          /\ \E k \in Len(disk) .. Len(file') : disk' = SubSeq(file', 1, k)
      BY <1>5, <2>4 DEF Fwrite
    <3>3. Passes(file \o x)
      BY <1>3, <2>2, <3>2 DEF Passes
    <3>4. written' = written + 1 /\ taken' = 0
      BY <1>5, <3>1 DEF NextBuffer
    <3>5. ~ ioError => x = b
      BY <1>1, <3>1, WholePart DEF Text
    <3> QED
      BY <1>1, <2>2, <3>2, <3>3, <3>4, <3>5
  <2> QED
    BY <2>3, <2>4
<1> QED
  BY <1>1, <1>2, <1>4, <1>5 DEF b

LEMMA WriteShape ==
  ASSUME Shape, Spares, OnDisk, Write
  PROVE  Shape' /\ Spares'
<1>1. /\ backend = "write"
      /\ UNCHANGED <<front, frontBk, buffers, backend, buffer1, buffer2, toWrite,
                     undefined, owner, appended, stored>>
  BY DEF Write, shared
<1>2. written' \in 0 .. Len(toWrite)
  BY WriteFacts DEF Shape
<1>3. file' \in Text /\ disk' \in Text
  BY WriteFacts, PassesFacts DEF Shape
<1>4. taken' \in Nat /\ ioError' \in BOOLEAN /\ (~ ioError' => taken' = 0)
  BY WriteFacts
<1>5. Shape'
  BY <1>1, <1>2, <1>3, <1>4 DEF Shape
<1>6. Spares'
  BY <1>1 DEF Spares
<1> QED
  BY <1>5, <1>6

\* The round has at least as many buffers as spares are missing, and gives them
\* back empty.
LEMMA RecycleShape ==
  ASSUME Shape, Spares, Recycle
  PROVE  Shape' /\ Spares'
<1> DEFINE n1 == IF buffer1 = null THEN 1 ELSE 0
           n2 == IF buffer2 = null THEN 1 ELSE 0
           rear(n) == <<clear(kept[Len(kept) + 1 - n])>>
<1>1. /\ backend = "write" /\ toWrite' = <<>> /\ written' = 0 /\ taken' = 0
      /\ backend' = "flush"
      /\ UNCHANGED <<front, frontBk, buffers, file, disk, owner, stored, appended,
                     ioError>>
      /\ IF n1 + n2 > Len(kept)
           THEN undefined' = TRUE /\ UNCHANGED <<buffer1, buffer2>>
           ELSE /\ buffer1' = IF n1 = 1 THEN rear(1) ELSE buffer1
                /\ buffer2' = IF n2 = 1 THEN rear(n1 + 1) ELSE buffer2
                /\ UNCHANGED undefined
  BY DEF Recycle, shared, history
<1>2. ~ (n1 + n2 > Len(kept))
  <2>1. /\ toWrite \in Seq(Text) /\ toWrite # <<>>
        /\ buffer2 = null => Len(toWrite) > 1
    BY <1>1 DEF Shape, Spares
  <2>2. Len(kept) >= 1 /\ (buffer2 = null => Len(kept) >= 2) /\ Len(kept) \in Nat
    BY <2>1 DEF kept
  <2> QED
    BY <2>2
<1>3. \A n : rear(n) = new
  BY DEF clear, new
<1>4. buffer1' = new /\ buffer2' = new /\ ~ undefined'
  BY <1>1, <1>2, <1>3 DEF Shape, Spare, Spares
<1>5. toWrite' \in Seq(Text) /\ written' \in 0 .. Len(toWrite')
  BY <1>1
<1>6. Shape'
  BY <1>1, <1>4, <1>5 DEF Shape, Spare
<1>7. Spares'
  BY <1>1, <1>4 DEF Spares
<1> QED
  BY <1>6, <1>7

-----------------------------------------------------------------------------
(* The way of a message.                                                   *)

\* The messages in the round that is being written, those before, the filled
\* buffers and the front one.
Unwritten == FlattenSeq(SubSeq(toWrite, written + 1, Len(toWrite)))
Done      == FlattenSeq(SubSeq(toWrite, 1, written))
Filled    == FlattenSeq(buffers)
Latest    == FlattenSeq(front)

LEMMA PartsAreTexts ==
  ASSUME Shape
  PROVE  Unwritten \in Text /\ Done \in Text /\ Filled \in Text /\ Latest \in Text
<1>1. /\ toWrite \in Seq(Text) /\ written \in 0 .. Len(toWrite)
      /\ buffers \in Seq(Text) /\ front \in Seq(Text)
  BY DEF Shape
<1>2. /\ SubSeq(toWrite, written + 1, Len(toWrite)) \in Seq(Text)
      /\ SubSeq(toWrite, 1, written) \in Seq(Text)
  BY <1>1
<1> QED
  BY <1>1, <1>2, FlattenType DEF Text, Unwritten, Done, Filled, Latest

\* Outside the writing there is no round.
LEMMA NoRound ==
  ASSUME Shape, Spares, backend # "write"
  PROVE  Unwritten = <<>> /\ Done = <<>>
<1>1. toWrite = <<>> /\ written = 0
  BY DEF Spares
<1>2. SubSeq(toWrite, written + 1, Len(toWrite)) = <<>> /\ SubSeq(toWrite, 1, written) = <<>>
  BY <1>1
<1> QED
  BY <1>2, FlattenEmpty DEF Unwritten, Done

LEMMA FrontIs ==
  ASSUME NEW b \in Text, front = <<b>>
  PROVE  Latest = b
  BY FlattenOne DEF Latest, Text

\* A front buffer that is filled goes behind the others.
LEMMA FillFront ==
  ASSUME Shape
  PROVE  FlattenSeq(buffers \o front) = Filled \o Latest
  BY FlattenConcat DEF Shape, Text, Filled, Latest

LEMMA AppendConserves ==
  ASSUME Shape, Spares, Conserved, AppendMsg
  PROVE  Conserved'
<1> DEFINE m == appended + 1
           b == front[1]
<1>1. /\ m \in Msg /\ b \in Text /\ front = <<b>>
      /\ \/ /\ front' = <<b \o line(m)>>
            /\ stored' = stored \o line(m)
            /\ UNCHANGED buffers
         \/ /\ front' = <<put(<<>>, m)>>
            /\ stored' = stored \o put(<<>>, m)
            /\ buffers' = buffers \o front
  BY AppendCases
<1> HIDE DEF m, b
<1>2. UNCHANGED <<toWrite, written, file, ioError>>
  BY DEF AppendMsg, locals
<1>3. SUFFICES ASSUME ~ ioError
               PROVE  stored' = file \o Unwritten \o Filled' \o Latest'
  BY <1>2 DEF Conserved, Unwritten, Filled, Latest
<1>4. stored = file \o Unwritten \o Filled \o Latest
  BY <1>3 DEF Conserved, Unwritten, Filled, Latest
<1>5. /\ file \in Text /\ Unwritten \in Text /\ Filled \in Text /\ Latest = b
      /\ b \o line(m) \in Text /\ put(<<>>, m) \in Text
  <2>1. <<>> \in Text
    BY DEF Text
  <2>2. m \in Msg /\ b \in Text
    BY <1>1
  <2>3. b \o line(m) \in Text /\ put(<<>>, m) \in Text
    BY <2>1, <2>2, PutKeeps
  <2>4. Latest = b
    BY <1>1, FrontIs
  <2> QED
    BY <2>3, <2>4, PartsAreTexts DEF Shape
<1>6. CASE /\ front' = <<b \o line(m)>> /\ stored' = stored \o line(m)
           /\ UNCHANGED buffers
  <2>1. Latest' = b \o line(m)
    BY <1>5, <1>6, FlattenOne DEF Latest, Text
  <2>2. Filled' = Filled
    BY <1>6 DEF Filled
  <2>3. (file \o Unwritten \o Filled \o b) \o line(m) =
          file \o Unwritten \o Filled \o (b \o line(m))
    <3> DEFINE x == file \o Unwritten \o Filled
               l == line(m)
    <3>1. x \in Text
      BY <1>5, TextConcat
    <3>2. b \in Text /\ l \in Text
      BY <1>1, LineIsText
    <3> HIDE DEF x, l
    <3>3. (x \o b) \o l = x \o (b \o l)
      BY <3>1, <3>2, TextAssoc
    <3> QED
      BY <3>3 DEF x, l
  <2> QED
    BY <1>4, <1>5, <1>6, <2>1, <2>2, <2>3
<1>7. CASE /\ front' = <<put(<<>>, m)>> /\ stored' = stored \o put(<<>>, m)
           /\ buffers' = buffers \o front
  <2>1. Latest' = put(<<>>, m)
    BY <1>5, <1>7, FlattenOne DEF Latest, Text
  <2>2. Filled' = Filled \o Latest
    BY <1>7, FillFront DEF Filled
  <2>3. file \o Unwritten \o Filled \o b \o put(<<>>, m) =
          file \o Unwritten \o (Filled \o b) \o put(<<>>, m)
    <3> DEFINE x == file \o Unwritten
    <3>1. x \in Text
      BY <1>5, TextConcat
    <3>2. b \in Text /\ Filled \in Text
      BY <1>1, <1>5
    <3> HIDE DEF x
    <3>3. (x \o Filled) \o b = x \o (Filled \o b)
      BY <3>1, <3>2, TextAssoc
    <3> QED
      BY <3>3 DEF x
  <2> QED
    BY <1>4, <1>5, <1>7, <2>1, <2>2, <2>3
<1> QED
  BY <1>1, <1>6, <1>7

LEMMA AsideConserves ==
  ASSUME Conserved, Aside
  PROVE  Conserved'
<1>1. UNCHANGED <<front, buffers, toWrite, written, file, stored, ioError>>
  BY DEF Aside, Start, Started, Destroy, DestroyNotify, Join, Begin,
         WaitUnlessFilled, Timeout, shared, locals, history
<1> QED
  BY <1>1 DEF Conserved

LEMMA FlushConserves ==
  ASSUME Shape, OnDisk, Conserved, Test \/ Flush
  PROVE  Conserved'
  BY FlushFacts DEF Conserved

\* The swap makes a round of what was filled and the front buffer.
LEMMA SwapConserves ==
  ASSUME Shape, Spares, Conserved, Swap
  PROVE  Conserved' /\ Done' = <<>>
<1>1. /\ backend # "write" /\ toWrite' = buffers \o front /\ front' = new
      /\ buffers' = <<>> /\ written' = 0 /\ UNCHANGED <<file, stored, ioError>>
  BY DEF Swap, Spares, BeforeSwap, history
<1>2. buffers \o front \in Seq(Text)
  BY DEF Shape
<1>3. /\ SubSeq(toWrite', written' + 1, Len(toWrite')) = buffers \o front
      /\ SubSeq(toWrite', 1, written') = <<>>
  BY <1>1, <1>2
<1>4. Unwritten' = Filled \o Latest /\ Done' = <<>>
  BY <1>3, FillFront, FlattenEmpty DEF Unwritten, Done
<1>5. Filled' = <<>> /\ Latest' = <<>>
  BY <1>1, PointerFacts DEF Filled, Latest
<1>6. SUFFICES ASSUME ~ ioError
               PROVE  stored = file \o Unwritten' \o Filled' \o Latest'
  BY <1>1, <1>4 DEF Conserved, Unwritten, Filled, Latest
<1>7. stored = file \o Unwritten \o Filled \o Latest /\ Unwritten = <<>>
  BY <1>1, <1>6, NoRound DEF Conserved, Unwritten, Filled, Latest
<1>8. file \in Text /\ Filled \in Text /\ Latest \in Text
  BY PartsAreTexts DEF Shape
<1>9. file \o <<>> \o Filled \o Latest = file \o (Filled \o Latest) \o <<>> \o <<>>
  <2>1. file \o <<>> = file /\ file \o (Filled \o Latest) \in Text
    BY <1>8, TextConcat, ConcatNothing DEF Text
  <2>2. (file \o Filled) \o Latest = file \o (Filled \o Latest)
    BY <1>8, TextAssoc
  <2>3. file \o (Filled \o Latest) \o <<>> = file \o (Filled \o Latest)
    BY <2>1, ConcatNothing DEF Text
  <2> QED
    BY <2>1, <2>2, <2>3
<1> QED
  BY <1>4, <1>5, <1>7, <1>9

\* The next buffer of a round goes from what is to be written to what is done.
LEMMA NextOfRound ==
  ASSUME Shape, written < Len(toWrite), written' = written + 1, UNCHANGED toWrite
  PROVE  /\ toWrite[written + 1] \in Text
         /\ Unwritten = toWrite[written + 1] \o Unwritten'
         /\ Done' = Done \o toWrite[written + 1]
<1> DEFINE b == toWrite[written + 1]
           r == SubSeq(toWrite, written + 1 + 1, Len(toWrite))
           d == SubSeq(toWrite, 1, written)
<1>1. /\ toWrite \in Seq(Text) /\ written \in Nat /\ written < Len(toWrite)
  BY DEF Shape
<1>2. /\ b \in Text /\ r \in Seq(Text) /\ d \in Seq(Text) /\ <<b>> \in Seq(Text)
      /\ SubSeq(toWrite, written + 1, Len(toWrite)) = <<b>> \o r
      /\ SubSeq(toWrite, 1, written + 1) = Append(d, b)
  BY <1>1
<1>3. Unwritten' = FlattenSeq(r) /\ Done = FlattenSeq(d)
  BY DEF Unwritten, Done
<1> HIDE DEF b, r, d
<1>4. FlattenSeq(<<b>> \o r) = b \o FlattenSeq(r)
  <2>1. b \in Seq(Byte)
    BY <1>2 DEF Text
  <2>2. <<b>> \in Seq(Seq(Byte)) /\ r \in Seq(Seq(Byte))
    BY <1>2 DEF Text
  <2>3. FlattenSeq(<<b>> \o r) = FlattenSeq(<<b>>) \o FlattenSeq(r)
    BY <2>2, FlattenConcat
  <2>4. FlattenSeq(<<b>>) = b
    BY <2>1, FlattenOne
  <2> QED
    BY <2>3, <2>4
<1>5. FlattenSeq(Append(d, b)) = FlattenSeq(d) \o b
  <2>1. d \in Seq(Seq(Byte)) /\ b \in Seq(Byte)
    BY <1>2 DEF Text
  <2>2. FlattenSeq(d) \in Seq(Byte)
    BY <2>1, FlattenType
  <2> QED
    BY <2>1, <2>2, FlattenAppend
<1> QED
  BY <1>2, <1>3, <1>4, <1>5 DEF b, Unwritten, Done

LEMMA WriteConserves ==
  ASSUME Shape, OnDisk, Conserved, Write
  PROVE  Conserved'
<1> DEFINE b == toWrite[written + 1]
<1>0. /\ written < Len(toWrite)
      /\ UNCHANGED <<toWrite, front, buffers, stored>>
  BY DEF Write, shared
<1>3. SUFFICES ASSUME ~ ioError'
               PROVE  stored = file' \o Unwritten' \o Filled \o Latest
  BY <1>0 DEF Conserved, Unwritten, Filled, Latest
<1>4. ~ ioError /\ file' = file \o b /\ written' = written + 1
  BY <1>3, WriteFacts
<1>1. /\ written < Len(toWrite) /\ written' = written + 1
      /\ UNCHANGED <<toWrite, front, buffers, stored>>
  BY <1>0, <1>4
<1>2. b \in Text /\ Unwritten = b \o Unwritten'
  BY <1>1, NextOfRound
<1>5. stored = file \o (b \o Unwritten') \o Filled \o Latest
  BY <1>2, <1>4 DEF Conserved, Unwritten, Filled, Latest
<1>6. Unwritten' \in Text
  <2>1. toWrite \in Seq(Text) /\ written \in Nat /\ written < Len(toWrite)
    BY <1>1 DEF Shape
  <2>2. SubSeq(toWrite, written + 1 + 1, Len(toWrite)) \in Seq(Text)
    BY <2>1
  <2>3. SubSeq(toWrite', written' + 1, Len(toWrite')) \in Seq(Text)
    BY <1>1, <2>2
  <2> QED
    BY <2>3, FlattenType DEF Unwritten, Text
<1>7. file \o (b \o Unwritten') = (file \o b) \o Unwritten'
  <2>1. file \in Text /\ b \in Text
    BY <1>2 DEF Shape
  <2> HIDE DEF b
  <2> QED
    BY <1>6, <2>1, TextAssoc
<1> QED
  BY <1>4, <1>5, <1>7

LEMMA RecycleConserves ==
  ASSUME Shape, Conserved, Recycle
  PROVE  Conserved'
<1>1. /\ written = Len(toWrite) /\ toWrite' = <<>> /\ written' = 0
      /\ UNCHANGED <<front, buffers, file, stored, ioError>>
  BY DEF Recycle, shared, history
<1>2. toWrite \in Seq(Text)
  BY DEF Shape
<1>3. /\ SubSeq(toWrite, written + 1, Len(toWrite)) = <<>>
      /\ SubSeq(toWrite', written' + 1, Len(toWrite')) = <<>>
  BY <1>1, <1>2
<1> QED
  BY <1>1, <1>3 DEF Conserved

-----------------------------------------------------------------------------
(* The file and the disk.                                                  *)

\* stdio holds nothing that is not in the file.
LEMMA AllOnDisk ==
  ASSUME NEW x \in Text, NEW y \in Text, x = y
  PROVE  Len(x) <= Len(y) /\ x = SubSeq(y, 1, Len(x))
<1>1. SubSeq(y, 1, Len(y)) = y
  BY WholePart DEF Text
<1>2. Len(y) \in Nat
  BY DEF Text
<1> QED
  BY <1>1, <1>2

LEMMA AppendOnDisk ==
  ASSUME Shape, Spares, OnDisk, AppendMsg
  PROVE  OnDisk'
<1>1. UNCHANGED <<file, disk, toWrite, written, ioError>>
  BY DEF AppendMsg, locals
<1>2. backend' = backend \/ (backend = "waiting" /\ backend' = "woken")
  BY DEF AppendMsg, notify
<1> QED
  BY <1>1, <1>2 DEF OnDisk

LEMMA AsideOnDisk ==
  ASSUME Shape, OnDisk, Aside
  PROVE  OnDisk'
<1>1. UNCHANGED <<file, disk, toWrite, written, ioError>>
  BY DEF Aside, Start, Started, Destroy, DestroyNotify, Join, Begin,
         WaitUnlessFilled, Timeout, locals, history
<1>2. /\ backend' = "write" <=> backend = "write"
      /\ backend' = "flush" <=> backend = "flush"
  BY DEF Aside, Start, Started, Destroy, DestroyNotify, Join, Begin,
         WaitUnlessFilled, Timeout, TimesOut, notify, Shape, BeforeSwap
<1> QED
  BY <1>1, <1>2 DEF OnDisk

LEMMA FlushOnDisk ==
  ASSUME Shape, OnDisk, Test \/ Flush
  PROVE  OnDisk'
<1>1. Len(disk') <= Len(file') /\ disk' = SubSeq(file', 1, Len(disk'))
  BY FlushFacts, PassesFacts DEF Shape
<1>2. backend' # "write" /\ (~ ioError' => disk' = file')
  BY FlushFacts DEF OnDisk
<1> QED
  BY <1>1, <1>2 DEF OnDisk

LEMMA SwapOnDisk ==
  ASSUME Shape, Spares, Conserved, OnDisk, Swap
  PROVE  OnDisk'
<1>1. /\ UNCHANGED <<file, disk, ioError>> /\ backend' = "write"
      /\ ~ ioError => disk = file
  BY DEF Swap, OnDisk, BeforeSwap, history
<1>2. Done' = <<>>
  BY SwapConserves
<1>3. file \in Text
  BY DEF Shape
<1>4. file = SubSeq(file, 1, Len(file)) \o <<>>
  BY <1>3, WholePart, ConcatNothing DEF Text
<1>5. Len(file) \in 0 .. Len(file)
  BY <1>3 DEF Text
<1> QED
  BY <1>1, <1>2, <1>4, <1>5 DEF OnDisk, Done

LEMMA WriteOnDisk ==
  ASSUME Shape, OnDisk, Write
  PROVE  OnDisk'
<1>1. /\ backend = "write" /\ backend' = "write" /\ written < Len(toWrite)
      /\ UNCHANGED toWrite
  BY DEF Write
<1>2. /\ file \in Text /\ disk \in Text /\ file' \in Text
      /\ Len(disk) \in Nat /\ Len(disk') \in Nat /\ Len(disk) <= Len(disk')
  BY WriteFacts, PassesFacts DEF Shape, Text
<1>6. Len(disk') <= Len(file') /\ disk' = SubSeq(file', 1, Len(disk'))
  BY WriteFacts, PassesFacts DEF Shape
<1>7. ASSUME ~ ioError'
      PROVE  \E n \in 0 .. Len(disk') : file' = SubSeq(file', 1, n) \o Done'
  <2> DEFINE b == toWrite[written + 1]
  <2>1. ~ ioError /\ file' = file \o b /\ b \in Text /\ written' = written + 1
    BY <1>7, WriteFacts
  <2>2. PICK n \in 0 .. Len(disk) : file = SubSeq(file, 1, n) \o Done
    BY <1>1, <2>1 DEF OnDisk, Done
  <2>3. Done' = Done \o b /\ Done \in Text
    BY <1>1, <2>1, NextOfRound, PartsAreTexts
  <2> HIDE DEF b
  <2>4. n \in 0 .. Len(file) /\ n \in 0 .. Len(disk')
    <3>1. Len(file) \in Nat /\ Len(disk) <= Len(file)
      BY <1>2 DEF OnDisk, Text
    <3> QED
      BY <1>2, <3>1
  <2>5. SubSeq(file, 1, n) \in Text
    BY <1>2, <2>4, FirstPart DEF Text
  <2>6. SubSeq(file', 1, n) = SubSeq(file, 1, n)
    <3>1. SubSeq(file \o b, 1, n) = SubSeq(file, 1, n)
      BY <1>2, <2>1, <2>4, FirstPartOfConcat DEF Text
    <3> QED
      BY <2>1, <3>1
  <2>7. (SubSeq(file, 1, n) \o Done) \o b = SubSeq(file, 1, n) \o (Done \o b)
    BY <2>1, <2>3, <2>5, TextAssoc
  <2>8. file' = SubSeq(file', 1, n) \o Done'
    BY <2>1, <2>2, <2>3, <2>6, <2>7
  <2> QED
    BY <2>4, <2>8
<1> QED
  BY <1>1, <1>6, <1>7 DEF OnDisk, Done

LEMMA RecycleOnDisk ==
  ASSUME OnDisk, Recycle
  PROVE  OnDisk'
<1>1. UNCHANGED <<file, disk>> /\ backend' = "flush"
  BY DEF Recycle
<1> QED
  BY <1>1 DEF OnDisk

-----------------------------------------------------------------------------
(* The end.                                                                *)

\* The destructor waits for the backend, and the backend leaves its loop with
\* nothing in its hands.
LEMMA StepDrains ==
  ASSUME Shape, Spares, OnDisk, Drains, Next
  PROVE  Drains'
<1>1. CASE AppendMsg
  <2>1. owner \in {"new", "starting", "up"} /\ UNCHANGED owner
    BY <1>1 DEF AppendMsg
  <2> QED
    BY <2>1 DEF Drains
<1>2. CASE Aside
  <2>1. UNCHANGED <<buffers, front>>
    BY <1>2 DEF Aside, Start, Started, Destroy, DestroyNotify, Join, Begin,
         WaitUnlessFilled, Timeout, shared
  <2>2. owner' = "down" => backend' = "exited"
    BY <1>2 DEF Aside, Start, Started, Destroy, DestroyNotify, Join, Begin,
         WaitUnlessFilled, Timeout, TimesOut, Drains, notify
  <2>3. ASSUME owner' \in {"stopping", "joining", "down"}, ~ overtaken'
        PROVE  \/ backend' \in BeforeSwap
               \/ /\ backend' \in {"write", "flush", "test", "exited"}
                  /\ buffers = <<>> /\ front = new
    BY <1>2, <2>3 DEF Aside, Start, Started, Destroy, DestroyNotify, Join, Begin,
         WaitUnlessFilled, Timeout, TimesOut, Drains, notify, BeforeSwap, history
  <2> QED
    BY <2>1, <2>2, <2>3 DEF Drains
<1>3. CASE Swap
  <2>1. /\ backend \in BeforeSwap /\ backend' = "write" /\ buffers' = <<>>
        /\ front' = new /\ UNCHANGED owner
    BY <1>3 DEF Swap, Spares, BeforeSwap
  <2> QED
    BY <2>1 DEF Drains, BeforeSwap
<1>4. CASE Write \/ Recycle
  <2>1. /\ backend = "write" /\ backend' \in {"write", "flush"}
        /\ UNCHANGED <<buffers, front, owner, overtaken>>
    BY <1>4 DEF Write, Recycle, shared, history
  <2> QED
    BY <2>1 DEF Drains, BeforeSwap
<1>5. CASE Test \/ Flush
  BY <1>5, FlushFacts DEF Drains, BeforeSwap
<1> QED
  BY <1>1, <1>2, <1>3, <1>4, <1>5 DEF Next, OwnerStep, BackendStep, Aside

-----------------------------------------------------------------------------

LEMMA InitInv == Init => IInv
<1> SUFFICES ASSUME Init PROVE IInv
  OBVIOUS
<1>1. Shape /\ Spares
  BY InitShape
<1>2. Conserved
  <2>1. /\ SubSeq(toWrite, written + 1, Len(toWrite)) = <<>> /\ buffers = <<>>
        /\ front = new /\ file = <<>> /\ stored = <<>>
    BY DEF Init
  <2>2. <<>> \o <<>> = <<>>
    BY ConcatNothing
  <2> QED
    BY <2>1, <2>2, PointerFacts DEF Conserved
<1>3. OnDisk
  BY <1>1, AllOnDisk DEF Init, OnDisk, Shape
<1>4. Drains
  BY DEF Init, Drains
<1> QED
  BY <1>1, <1>2, <1>3, <1>4 DEF IInv

LEMMA StepInv == IInv /\ [Next]_vars => IInv'
<1> SUFFICES ASSUME IInv, [Next]_vars PROVE IInv'
  OBVIOUS
<1> USE DEF IInv
<1>1. CASE AppendMsg
  BY <1>1, AppendShape, AppendConserves, AppendOnDisk, StepDrains DEF Next
<1>2. CASE Aside
  BY <1>2, AsideShape, AsideConserves, AsideOnDisk, StepDrains
     DEF Next, OwnerStep, BackendStep, Aside
<1>3. CASE Swap
  BY <1>3, SwapShape, SwapConserves, SwapOnDisk, StepDrains DEF Next, BackendStep
<1>4. CASE Write
  BY <1>4, WriteShape, WriteConserves, WriteOnDisk, StepDrains DEF Next, BackendStep
<1>5. CASE Recycle
  BY <1>5, RecycleShape, RecycleConserves, RecycleOnDisk, StepDrains DEF Next, BackendStep
<1>7. CASE Test \/ Flush
  BY <1>7, FlushShape, FlushConserves, FlushOnDisk, StepDrains DEF Next, BackendStep
<1>6. CASE UNCHANGED vars
  BY <1>6 DEF vars, shared, locals, history, Shape, Spares, Conserved, OnDisk, Drains,
              BeforeSwap
<1> QED
  BY <1>1, <1>2, <1>3, <1>4, <1>5, <1>6, <1>7 DEF Next, OwnerStep, BackendStep, Aside

LEMMA Invariance == Spec => []IInv
  BY InitInv, StepInv, PTL DEF Spec

\* append() loses, doubles and reorders nothing that it put into a buffer: what
\* it stored is in the file, the round being written, the filled buffers and the
\* front one, in this order.
THEOREM ConservedAlways == Spec => []Conserved
<1>1. IInv => Conserved
  BY DEF IInv
<1> QED
  BY <1>1, Invariance, PTL

\* No step of append() or run() dereferences a null _frontBuffer, buffer1 or
\* buffer2, or takes back() of an empty vector.
THEOREM NeverWithoutBufferAlways == Spec => []NeverWithoutBuffer
<1>1. ASSUME Shape, Spares PROVE NeverWithoutBuffer
  <2>1. front # null
    <3>1. front \in Seq(Text) /\ Len(front) = 1
      BY <1>1 DEF Shape
    <3> QED
      BY <3>1 DEF null
  <2> QED
    BY <1>1, <2>1, PointerFacts DEF Spares, NeverWithoutBuffer
<1> QED
  BY <1>1, Invariance, PTL DEF IInv

\* What is left behind k bytes of the history, all of which are in the file
\* and at least n of which were there before the round.
LEMMA TailLost ==
  ASSUME Shape, Conserved, OnDisk, Spares, ~ ioError, backend # "flush"
  PROVE  IsSuffix(SubSeq(stored, Len(disk) + 1, Len(stored)),
                  FlattenSeq(toWrite \o buffers \o front))
<1> DEFINE lost == FlattenSeq(toWrite \o buffers \o front)
<1>1. /\ toWrite \in Seq(Text) /\ buffers \in Seq(Text) /\ front \in Seq(Text)
      /\ toWrite \o buffers \in Seq(Text)
  BY DEF Shape
<1>2. /\ file \in Text /\ disk \in Text /\ Unwritten \in Text /\ Done \in Text
      /\ Filled \in Text /\ Latest \in Text
  BY PartsAreTexts DEF Shape
<1>3. lost = FlattenSeq(toWrite) \o Filled \o Latest
  <2> DEFINE r == toWrite \o buffers
  <2>1. r \in Seq(Seq(Byte)) /\ front \in Seq(Seq(Byte))
    BY <1>1 DEF Text
  <2>2. toWrite \in Seq(Seq(Byte)) /\ buffers \in Seq(Seq(Byte))
    BY <1>1 DEF Text
  <2>3. FlattenSeq(r) = FlattenSeq(toWrite) \o Filled
    BY <2>2, FlattenConcat DEF Filled
  <2> HIDE DEF r
  <2>4. FlattenSeq(r \o front) = FlattenSeq(r) \o Latest
    BY <2>1, FlattenConcat DEF Latest
  <2> QED
    BY <2>3, <2>4 DEF r
<1>4. FlattenSeq(toWrite) = Done \o Unwritten
  <2>1. /\ SubSeq(toWrite, 1, written) \in Seq(Text)
        /\ SubSeq(toWrite, written + 1, Len(toWrite)) \in Seq(Text)
        /\ toWrite = SubSeq(toWrite, 1, written)
                       \o SubSeq(toWrite, written + 1, Len(toWrite))
    <3>1. toWrite \in Seq(Text) /\ written \in 0 .. Len(toWrite)
      BY DEF Shape
    <3> QED
      BY <3>1, SplitAt
  <2> QED
    BY <2>1, FlattenConcat DEF Text, Done, Unwritten
<1>5. PICK n \in 0 .. Len(disk) : file = SubSeq(file, 1, n) \o Done
  <2>1. CASE backend = "write"
    BY <2>1 DEF OnDisk, Done
  <2>2. CASE backend # "write"
    <3>1. Done = <<>> /\ disk = file
      BY <2>2, NoRound DEF OnDisk
    <3>2. file = SubSeq(file, 1, Len(file)) \o <<>> /\ Len(file) \in 0 .. Len(file)
      <4>1. Len(file) \in Nat
        BY <1>2 DEF Text
      <4> QED
        BY <1>2, <4>1, WholePart, ConcatNothing DEF Text
    <3> QED
      BY <3>1, <3>2
  <2> QED
    BY <2>1, <2>2
<1>6. stored = file \o Unwritten \o Filled \o Latest
  BY DEF Conserved, Unwritten, Filled, Latest
<1> DEFINE u == SubSeq(file, 1, n)
<1>7. n \in 0 .. Len(file) /\ u \in Text /\ Len(u) = n
  <2>1. Len(disk) \in Nat /\ Len(file) \in Nat /\ Len(disk) <= Len(file)
    BY <1>2 DEF Text, OnDisk
  <2>2. n \in 0 .. Len(file)
    BY <2>1
  <2> QED
    BY <1>2, <2>2, FirstPart DEF Text
<1> HIDE DEF u
<1>8. stored = u \o lost /\ lost \in Text
  <2> DEFINE w == Done \o Unwritten
             v == w \o Filled
  <2>0. u \in Text /\ w \in Text /\ v \in Text
    BY <1>2, <1>7, TextConcat
  <2>1. (u \o Done) \o Unwritten = u \o w
    <3>1. u \in Text /\ Done \in Text /\ Unwritten \in Text
      BY <1>2, <1>7
    <3> QED
      BY <3>1, TextAssoc
  <2> HIDE DEF w
  <2>3. (u \o w) \o Filled = u \o v
    <3>1. u \in Text /\ w \in Text /\ Filled \in Text
      BY <1>2, <2>0
    <3> QED
      BY <3>1, TextAssoc
  <2> HIDE DEF v
  <2>5. (u \o v) \o Latest = u \o (v \o Latest) /\ v \o Latest \in Text
    <3>1. u \in Text /\ v \in Text /\ Latest \in Text
      BY <1>2, <2>0
    <3> QED
      BY <3>1, TextAssoc, TextConcat
  <2>6. lost = v \o Latest
    BY <1>3, <1>4 DEF v, w
  <2>7. stored = (u \o v) \o Latest
    BY <1>5, <1>6, <2>1, <2>3 DEF u, v, w
  <2> QED
    BY <2>5, <2>6, <2>7
<1> HIDE DEF lost
<1>9. Len(disk) \in Len(u) .. Len(u \o lost)
  <2>1. stored = file \o (Unwritten \o Filled \o Latest)
    <3>1. Unwritten \o Filled \in Text
      BY <1>2, TextConcat
    <3>2. (file \o Unwritten) \o Filled = file \o (Unwritten \o Filled)
      BY <1>2, TextAssoc, SMTT(30)
    <3> DEFINE z == Unwritten \o Filled
    <3>3. file \in Text /\ z \in Text /\ Latest \in Text
      BY <1>2, <3>1
    <3> HIDE DEF z
    <3>4. (file \o z) \o Latest = file \o (z \o Latest)
      BY <3>3, TextAssoc
    <3> QED
      BY <1>6, <3>2, <3>4 DEF z
  <2> DEFINE x == Unwritten \o Filled \o Latest
  <2>2. x \in Text
    BY <1>2, TextConcat
  <2> HIDE DEF x
  <2>3. Len(stored) = Len(file) + Len(x) /\ Len(x) \in Nat /\ Len(file) \in Nat
    BY <1>2, <2>1, <2>2 DEF Text, x
  <2>4. Len(disk) <= Len(file) /\ Len(disk) \in Nat
    BY <1>2 DEF OnDisk, Text
  <2> QED
    BY <1>7, <1>8, <2>3, <2>4
<1> QED
  BY <1>7, <1>8, <1>9, RestOfConcat DEF Text, lost

LEMMA PrefixStored ==
  ASSUME Shape, Conserved, OnDisk, ~ ioError
  PROVE  IsPrefix(disk, stored)
<1>1. /\ file \in Text /\ disk \in Text /\ Unwritten \in Text /\ Filled \in Text
      /\ Latest \in Text
  BY PartsAreTexts DEF Shape
<1>2. stored = file \o Unwritten \o Filled \o Latest
  BY DEF Conserved, Unwritten, Filled, Latest
<1> DEFINE n == Len(disk)
           x == file \o Unwritten
           y == x \o Filled
<1>3. x \in Text /\ y \in Text
  BY <1>1, TextConcat
<1>4. n \in Nat /\ n <= Len(file) /\ Len(file) \in Nat
  BY <1>1 DEF OnDisk, Text
<1>5. Len(x) = Len(file) + Len(Unwritten) /\ Len(Unwritten) \in Nat
  BY <1>1 DEF Text
<1> HIDE DEF x
<1>6. Len(y) = Len(x) + Len(Filled) /\ Len(Filled) \in Nat
  BY <1>1, <1>3 DEF Text
<1> HIDE DEF y
<1>7. Len(y \o Latest) = Len(y) + Len(Latest) /\ Len(Latest) \in Nat
  BY <1>1, <1>3 DEF Text
<1>8. n \in 0 .. Len(file) /\ n \in 0 .. Len(x) /\ n \in 0 .. Len(y) /\ n \in 0 .. Len(y \o Latest)
  BY <1>4, <1>5, <1>6, <1>7
<1> HIDE DEF n
<1>9. SubSeq(file \o Unwritten, 1, n) = SubSeq(file, 1, n)
  BY <1>1, <1>8, FirstPartOfConcat DEF Text
<1>10. SubSeq(x \o Filled, 1, n) = SubSeq(x, 1, n)
  BY <1>1, <1>3, <1>8, FirstPartOfConcat DEF Text
<1>11. SubSeq(y \o Latest, 1, n) = SubSeq(y, 1, n)
  BY <1>1, <1>3, <1>8, FirstPartOfConcat DEF Text
<1>12. disk = SubSeq(stored, 1, n)
  BY <1>2, <1>9, <1>10, <1>11 DEF OnDisk, n, x, y
<1>13. stored \in Text /\ n \in 0 .. Len(stored)
  BY <1>2, <1>8 DEF Shape, x, y
<1> QED
  BY <1>12, <1>13, FirstPartIsPrefix DEF Text

\* Wherever the process dies, the disk holds a first part of the stored bytes,
\* and outside fflush() misses at most what is in the buffers.
THEOREM CrashLosesATailAlways == Spec => []CrashLosesATail
<1>1. IInv => CrashLosesATail
  BY TailLost, PrefixStored DEF IInv, CrashLosesATail
<1> QED
  BY <1>1, Invariance, PTL

\* When the destructor has returned, everything stored is on the disk, unless it
\* found run() past its last swap or stdio failed.
THEOREM StopDrainsAlways == Spec => []StopDrains
<1>1. ASSUME IInv PROVE StopDrains
  <2> USE <1>1 DEF IInv
  <2>1. SUFFICES ASSUME owner = "down", ~ overtaken, ~ ioError PROVE disk = stored
    BY DEF StopDrains
  <2>2. backend = "exited" /\ buffers = <<>> /\ front = new
    BY <2>1 DEF Drains, BeforeSwap
  <2>3. Unwritten = <<>> /\ disk = file
    BY <2>1, <2>2, NoRound DEF OnDisk, BeforeSwap
  <2>4. stored = file \o <<>> \o <<>> \o <<>>
    BY <2>1, <2>2, <2>3, PointerFacts DEF Conserved, Unwritten
  <2>5. file \in Seq(Byte)
    BY DEF Shape, Text
  <2>6. file \o <<>> = file
    BY <2>5, ConcatNothing
  <2> QED
    BY <2>3, <2>4, <2>6
<1> QED
  BY <1>1, Invariance, PTL

-----------------------------------------------------------------------------
(* The durable log.                                                        *)

\* Whatever fails, the file and the buffers hold only bytes that were stored.
Known ==
  /\ Range(file) \subseteq Range(stored)
  /\ \A b \in Range(toWrite) \cup Range(buffers) \cup Range(front) :
       Range(b) \subseteq Range(stored)

LEMMA KnownInit == Init => Known
  BY RangeOfOne DEF Init, Known, new

\* Storing makes more bytes known, and moving buffers none unknown.
LEMMA AppendKnows ==
  ASSUME Shape, Spares, Known, AppendMsg
  PROVE  Known'
<1> DEFINE m == appended + 1
           b == front[1]
           p == put(<<>>, m)
<1>1. /\ m \in Msg /\ b \in Text /\ front = <<b>>
      /\ \/ /\ front' = <<b \o line(m)>>
            /\ stored' = stored \o line(m)
            /\ UNCHANGED buffers
         \/ /\ front' = <<p>>
            /\ stored' = stored \o p
            /\ buffers' = buffers \o front
  BY AppendCases
<1>2. UNCHANGED <<toWrite, file>>
  BY DEF AppendMsg, locals
<1>3. stored \in Seq(Byte) /\ buffers \in Seq(Text) /\ front \in Seq(Text)
  BY DEF Shape, Text
<1> HIDE DEF m, b
<1>4. p \in Seq(Byte)
  <2>1. <<>> \in Text
    BY DEF Text
  <2> QED
    BY <1>1, <2>1, PutKeeps DEF Text
<1>5. Range(b) \subseteq Range(stored)
  BY <1>1, RangeOfOne DEF Known
<1>6. CASE front' = <<b \o line(m)>> /\ stored' = stored \o line(m) /\ UNCHANGED buffers
  <2>1. line(m) \in Seq(Byte)
    BY <1>1, LineIsText DEF Text
  <2>2. /\ Range(stored') = Range(stored) \cup Range(line(m))
        /\ Range(b \o line(m)) = Range(b) \cup Range(line(m))
    <3> DEFINE l == line(m)
    <3>0. l \in Seq(Byte)
      BY <2>1
    <3> HIDE DEF l
    <3>1. Range(stored \o l) = Range(stored) \cup Range(l)
      BY <1>3, <3>0, RangeOfConcat
    <3>2. Range(b \o l) = Range(b) \cup Range(l)
      BY <1>1, <3>0, RangeOfConcat DEF Text
    <3> QED
      BY <1>6, <3>1, <3>2 DEF l
  <2>3. Range(front') = {b \o line(m)}
    BY <1>6, RangeOfOne
  <2> QED
    BY <1>2, <1>5, <1>6, <2>2, <2>3 DEF Known
<1>7. CASE front' = <<p>> /\ stored' = stored \o p /\ buffers' = buffers \o front
  <2>1. Range(stored') = Range(stored) \cup Range(p)
    BY <1>3, <1>4, <1>7, RangeOfConcat
  <2>2. Range(buffers') = Range(buffers) \cup Range(front)
    BY <1>3, <1>7, RangeOfConcat
  <2>3. Range(front') = {p}
    BY <1>7, RangeOfOne
  <2> QED
    BY <1>2, <2>1, <2>2, <2>3 DEF Known
<1> QED
  BY <1>1, <1>6, <1>7

LEMMA SwapKnows ==
  ASSUME Shape, Spares, Known, Swap
  PROVE  Known'
<1>1. /\ toWrite' = buffers \o front /\ front' = buffer1 /\ buffers' = <<>>
      /\ UNCHANGED <<file, stored>>
  BY DEF Swap, history
<1>2. Range(toWrite') = Range(buffers) \cup Range(front)
  BY <1>1, RangeOfConcat DEF Shape
<1>3. Range(front') \subseteq {<<>>} /\ Range(buffers') = {}
  BY <1>1, RangeOfOne DEF Shape, Spare, null, new
<1>4. Range(<<>>) = {}
  BY RangeOfOne
<1> QED
  BY <1>1, <1>2, <1>3, <1>4 DEF Known

LEMMA WriteKnows ==
  ASSUME Shape, OnDisk, Known, Write
  PROVE  Known'
<1> DEFINE b == toWrite[written + 1]
<1>1. /\ toWrite \in Seq(Text) /\ written \in Nat /\ written < Len(toWrite)
      /\ file \in Text /\ disk \in Text /\ b \in Text
  BY WriteFacts DEF Shape
<1>2. UNCHANGED <<front, buffers, toWrite, stored>>
  BY DEF Write, shared
<1>3. Range(b) \subseteq Range(stored)
  <2>1. b \in Range(toWrite)
    BY <1>1 DEF Range
  <2> QED
    BY <2>1 DEF Known
<1>4. PICK x \in Text : Range(x) \subseteq Range(b) /\ Passes(file \o x)
  BY WriteFacts
<1>5. Range(file') \subseteq Range(file \o x)
  BY <1>1, <1>4, PassesFacts
<1>6. Range(file \o x) = Range(file) \cup Range(x)
  BY <1>1, <1>4, RangeOfConcat DEF Text
<1> QED
  BY <1>2, <1>3, <1>4, <1>5, <1>6 DEF Known

LEMMA FlushKnows ==
  ASSUME Shape, OnDisk, Known, Test \/ Flush
  PROVE  Known'
<1>1. UNCHANGED <<front, buffers, toWrite, stored>>
  BY FlushFacts
<1>2. Range(file') \subseteq Range(file)
  BY FlushFacts, PassesFacts DEF Shape
<1> QED
  BY <1>1, <1>2 DEF Known

LEMMA StepKnows == IInv /\ Known /\ [Next]_vars => Known'
<1> SUFFICES ASSUME IInv, Known, [Next]_vars PROVE Known'
  OBVIOUS
<1>1. Shape /\ Spares /\ OnDisk
  BY DEF IInv
<1>2. CASE Aside
  BY <1>2 DEF Aside, Start, Started, Destroy, DestroyNotify, Join, Begin,
     WaitUnlessFilled, Timeout, shared, locals, history, Known
<1>3. CASE Recycle
  <2>1. toWrite' = <<>> /\ UNCHANGED <<front, buffers, file, stored>>
    BY <1>3 DEF Recycle, shared, history
  <2> QED
    BY <2>1, RangeOfOne DEF Known
<1>4. CASE UNCHANGED vars
  BY <1>4 DEF vars, shared, locals, history, Known
<1> QED
  BY <1>1, <1>2, <1>3, <1>4, AppendKnows, SwapKnows, WriteKnows,
     FlushKnows
     DEF Next, OwnerStep, BackendStep, Aside

LEMMA KnownAlways == Spec => []Known
  BY KnownInit, StepKnows, Invariance, PTL DEF Spec

\* The disk holds a first part of the file.
LEMMA DiskKnown ==
  ASSUME Shape, OnDisk, Known
  PROVE  Range(disk) \subseteq Range(stored) /\ IsPrefix(disk, file)
<1>1. /\ disk \in Seq(Byte) /\ file \in Seq(Byte) /\ Len(disk) \in Nat /\ Len(file) \in Nat
      /\ Len(disk) <= Len(file) /\ disk = SubSeq(file, 1, Len(disk))
  BY DEF Shape, OnDisk, Text
<1>2. Len(disk) \in 0 .. Len(file)
  BY <1>1
<1> QED
  BY <1>1, <1>2, RangeOfPart, FirstPartIsPrefix DEF Known

LEMMA DiskGrows ==
  ASSUME Shape, OnDisk, Write \/ Test \/ Flush
  PROVE  IsPrefix(disk, disk') /\ (ioError => ioError')
<1>1. disk \in Text
  BY DEF Shape
<1>2. CASE Write
  BY <1>1, <1>2, WriteFacts, PassesFacts
<1>3. CASE Test \/ Flush
  BY <1>1, <1>3, FlushFacts, PassesFacts
<1> QED
  BY <1>2, <1>3

LEMMA PrefixThere ==
  ASSUME NEW s, NEW t
  PROVE  /\ D!IsPrefix(s, t) <=> IsPrefix(s, t)
         /\ D!Range(s) = Range(s)
  BY DEF D!IsPrefix, IsPrefix, D!Range, Range

\* What is durable in every state.
DiskIsSafe ==
  /\ ~ ioError => IsPrefix(disk, stored)
  /\ Range(disk) \subseteq Range(stored)

LEMMA StepIsDurable ==
  ASSUME IInv, Known, DiskIsSafe', [Next]_vars
  PROVE  [D!Next]_D!vars
<1>1. Shape /\ Spares /\ OnDisk
  BY DEF IInv
<1>2. ASSUME UNCHANGED stored, IsPrefix(disk, disk'), ioError => ioError'
      PROVE  D!Next
  <2>1. D!Persist
    BY <1>2, PrefixThere DEF D!Persist, DiskIsSafe
  <2> QED
    BY <2>1 DEF D!Next
<1>3. CASE AppendMsg
  <2> DEFINE m == appended + 1
  <2>1. UNCHANGED <<disk, ioError>>
    BY <1>3 DEF AppendMsg
  <2>2. /\ m \in Msg
        /\ stored' = stored \o line(m) \/ stored' = stored \o put(<<>>, m)
    BY <1>1, <1>3, AppendCases
  <2>3. stored' = stored \o line(m) \/ UNCHANGED stored
    <3>1. stored \in Seq(Byte) /\ line(m) \in Seq(Byte)
      BY <1>1, <2>2, LineIsText DEF Shape, Text
    <3>2. put(<<>>, m) = <<>> \o line(m) \/ put(<<>>, m) = <<>>
      BY DEF put
    <3>3. <<>> \o line(m) = line(m) /\ stored \o <<>> = stored
      BY <3>1, ConcatNothing
    <3> QED
      BY <2>2, <3>2, <3>3
  <2> QED
    BY <2>1, <2>2, <2>3 DEF D!Next, D!Write, D!vars
<1>4. CASE Write \/ Test \/ Flush
  <2>1. UNCHANGED stored
    BY <1>4 DEF Write, Test, Flush
  <2> QED
    BY <1>1, <1>2, <1>4, <2>1, DiskGrows
<1>6. CASE Start \/ Started \/ Destroy \/ DestroyNotify \/ Join
           \/ Begin \/ WaitUnlessFilled \/ Timeout \/ Swap \/ Recycle
  BY <1>6 DEF Start, Started, Destroy, DestroyNotify, Join, Begin, WaitUnlessFilled,
     Timeout, Swap, Recycle, history, D!vars
<1>7. CASE UNCHANGED vars
  BY <1>7 DEF vars, history, D!vars
<1> QED
  BY <1>3, <1>4, <1>6, <1>7 DEF Next, OwnerStep, BackendStep

\* AsyncLogging implements a log that becomes durable from the front: whatever
\* append(), the backend, stdio and the destructor do, and in any state in which
\* the process may die, no step takes back what the disk holds; it is a first part
\* of what was stored until an fwrite is short or an fflush fails, and then still
\* made of bytes of stored lines, in whatever pieces.
THEOREM AsyncLoggingIsDurableLog == Spec => ImplementsDurableLog
<1>1. Init => D!Init
  BY DEF Init, D!Init
<1>2. IInv /\ Known => DiskIsSafe
  BY PrefixStored, DiskKnown DEF IInv, DiskIsSafe
<1>3. IInv /\ Known /\ DiskIsSafe' /\ [Next]_vars => [D!Next]_D!vars
  BY StepIsDurable
<1> QED
  BY <1>1, <1>2, <1>3, Invariance, KnownAlways, PTL DEF Spec, ImplementsDurableLog, D!Spec

=============================================================================
