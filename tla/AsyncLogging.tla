----------------------------- MODULE AsyncLogging -----------------------------
(***************************************************************************)
(* base/AsyncLogging: threads append messages to a front buffer under the  *)
(* mutex; a backend thread swaps the filled buffers out and writes them to *)
(* a file.  The destructor clears _isRuning, which nothing protects,       *)
(* notifies without the mutex, and joins the backend.                      *)
(*                                                                         *)
(* A buffer is the sequence of the bytes in it, each named by its message  *)
(* and its place there; a unique_ptr is a sequence of at most one buffer.  *)
(* A message of len bytes takes len + 1 of its buffer                      *)
(* (FixedBuffer::addLength puts a blank after it).                         *)
(*                                                                         *)
(* The process may die in any state (LOG_FATAL calls abort() right after   *)
(* append()): what it leaves behind is `disk'.  fwrite() and fflush() may  *)
(* fail at any byte; that fopen() succeeds is assumed.                     *)
(***************************************************************************)
EXTENDS Naturals, Sequences, SequencesExt

CONSTANTS
  Messages,     \* number of calls of append()
  Size,         \* Size[m]: len + 1 of the m-th message
  Capacity      \* bytes of an AsyncLogging::Buffer

ASSUME AsyncLoggingAssumption ==
  /\ Messages \in Nat
  /\ Capacity \in Nat \ {0}
  /\ Size \in [1 .. Messages -> Nat \ {0}]

Msg == 1 .. Messages
Byte == {c \in Msg \X Nat : c[2] \in 1 .. Size[c[1]]}

\* The bytes of a message, the blank at the end among them.
line(m) == [i \in 1 .. Size[m] |-> <<m, i>>]

length(b) == Len(b)

Buffer == {b \in Seq(Byte) : length(b) <= Capacity}
Ptr == {p \in Seq(Buffer) : Len(p) <= 1}
null == <<>>
new == <<<<>>>>              \* a pointer to an empty buffer

VARIABLES
  isRuning,    \* _isRuning (the name in the code)
  count,       \* _countDown's _count
  front,       \* _frontBuffer
  frontBk,     \* _frontBufferBk
  buffers,     \* _buffers
  backend,     \* control state of run()
  buffer1,     \* locals of run()
  buffer2,
  toWrite,
  written,     \* buffers of toWrite the for loop has written
  taken,       \* bytes fwrite() has taken of the next: remain in fwriten()
               \* is what this leaves of it
  undefined,   \* run() took back() of an empty vector
  file,        \* the bytes that stdio took and did not lose, and
  disk,        \* those of them that it has passed on to the system
  owner,       \* control state of the thread that starts and destroys
  appended,    \* history: calls of append()
  stored,      \* history: the bytes append() put into a buffer, in order
  ioError,     \* history: an fwrite was short, or an fflush failed
  overtaken    \* history: the destructor found run() past its last swap

shared  == <<front, frontBk, buffers>>
locals  == <<buffer1, buffer2, toWrite, written, taken>>
history == <<appended, stored, ioError, overtaken>>
vars == <<isRuning, count, shared, backend, locals, undefined, file, disk, owner, history>>

BeforeSwap == {"lock", "waiting", "woken"}

TypeOK ==
  /\ isRuning \in BOOLEAN
  /\ count \in 0 .. 1
  /\ {front, frontBk, buffer1, buffer2} \subseteq Ptr
  /\ buffers \in Seq(Buffer)
  /\ toWrite \in Seq(Buffer)
  /\ backend \in BeforeSwap \cup {"none", "begin", "test", "write", "flush", "exited"}
  /\ written \in 0 .. Len(toWrite)
  /\ taken \in 0 .. Capacity
  /\ undefined \in BOOLEAN
  /\ file \in Seq(Byte) /\ IsPrefix(disk, file)
  /\ owner \in {"new", "starting", "up", "stopping", "joining", "down"}
  /\ appended \in 0 .. Messages
  /\ stored \in Seq(Byte)
  /\ ioError \in BOOLEAN
  /\ overtaken \in BOOLEAN

Init ==
  /\ isRuning = TRUE
  /\ count = 1
  /\ front = new /\ frontBk = new /\ buffers = <<>>
  /\ backend = "none"
  /\ buffer1 = null /\ buffer2 = null /\ toWrite = <<>> /\ written = 0
  /\ taken = 0
  /\ undefined = FALSE
  /\ file = <<>> /\ disk = <<>>
  /\ owner = "new"
  /\ appended = 0 /\ stored = <<>> /\ ioError = FALSE /\ overtaken = FALSE

-----------------------------------------------------------------------------
(* append(), in any thread, until the destructor begins.                   *)

rest(b) == Capacity - length(b)

\* FixedBuffer::append drops what does not fit, without a word.
put(b, m) == IF rest(b) >= Size[m] THEN b \o line(m) ELSE b

\* _cond.notify(): at most the backend waits.
notify == backend' = IF backend = "waiting" THEN "woken" ELSE backend

Store(m, b) ==
  /\ front' = <<put(b, m)>>
  /\ stored' = IF rest(b) >= Size[m] THEN stored \o line(m) ELSE stored
  /\ appended' = m

AppendMsg ==
  /\ ~ undefined
  /\ owner \in {"new", "starting", "up"}
  /\ appended < Messages
  /\ LET m == appended + 1
         b == front[1]
     IN  \/ /\ rest(b) >= Size[m]
            /\ Store(m, b)
            /\ UNCHANGED <<frontBk, buffers, backend>>
         \/ /\ rest(b) < Size[m]
            /\ buffers' = buffers \o front
            /\ Store(m, IF frontBk # null THEN frontBk[1] ELSE <<>>)
            /\ frontBk' = null
            /\ notify
  /\ UNCHANGED <<isRuning, count, locals, undefined, file, disk, owner, ioError,
                 overtaken>>

-----------------------------------------------------------------------------
(* The owner.                                                              *)

Start ==
  /\ ~ undefined
  /\ owner = "new"
  /\ isRuning' = TRUE
  /\ backend' = "begin"
  /\ owner' = "starting"
  /\ UNCHANGED <<count, shared, locals, undefined, file, disk, history>>

\* _countDown.wait() returns, and with it start().
Started ==
  /\ ~ undefined
  /\ owner = "starting" /\ count = 0
  /\ owner' = "up"
  /\ UNCHANGED <<isRuning, count, shared, backend, locals, undefined, file, disk, history>>

\* ~AsyncLogging lowers the flag ...
Destroy ==
  /\ ~ undefined
  /\ owner = "up"
  /\ isRuning' = FALSE
  /\ owner' = "stopping"
  /\ overtaken' = (backend \notin BeforeSwap)
  /\ UNCHANGED <<count, shared, backend, locals, undefined, file, disk, appended, stored,
                 ioError>>

\* ... and notifies, without the mutex, so that run() may just miss it.
DestroyNotify ==
  /\ ~ undefined
  /\ owner = "stopping"
  /\ notify
  /\ owner' = "joining"
  /\ UNCHANGED <<isRuning, count, shared, locals, undefined, file, disk, history>>

Detach ==                                \* mutant: detach() for join()
  /\ ~ undefined
  /\ owner = "joining"
  /\ owner' = "down"
  /\ UNCHANGED <<isRuning, count, shared, backend, locals, undefined, file, disk, history>>

Join ==
  /\ ~ undefined
  /\ owner = "joining" /\ backend = "exited"
  /\ owner' = "down"
  /\ UNCHANGED <<isRuning, count, shared, backend, locals, undefined, file, disk, history>>

-----------------------------------------------------------------------------
(* The backend: run().                                                     *)

Begin ==
  /\ ~ undefined
  /\ backend = "begin"
  /\ buffer1' = new /\ buffer2' = new
  /\ count' = count - 1
  /\ backend' = "test"
  /\ UNCHANGED <<isRuning, shared, toWrite, written, taken, undefined, file, disk,
                 owner, history>>

\* stdio cannot pass on all of f, and drops the rest or keeps it.
Fails(f) ==
  /\ \E k \in Len(disk) .. Len(f) : disk' = SubSeq(f, 1, k)
  /\ file' \in {f, disk'}
  /\ ioError' = TRUE

FlushNothing == UNCHANGED <<file, disk, ioError>>      \* mutant: no fflush()

\* fflush(file), whose result nobody reads.
Fflush ==
  \/ disk' = file /\ UNCHANGED <<file, ioError>>
  \/ disk # file /\ Fails(file)

Test ==
  /\ ~ undefined
  /\ backend = "test"
  /\ IF isRuning THEN backend' = "lock" /\ UNCHANGED <<file, disk, ioError>>
                 ELSE backend' = "exited" /\ Fflush
  /\ UNCHANGED <<isRuning, count, shared, locals, undefined, owner, appended, stored,
                 overtaken>>

WaitUnlessFilled ==
  /\ ~ undefined
  /\ backend = "lock" /\ buffers = <<>>
  /\ backend' = "waiting"
  /\ UNCHANGED <<isRuning, count, shared, locals, undefined, file, disk, owner, history>>

TimesOutNever == FALSE                   \* mutant: _cond.wait()

\* _cond.wait(3) returns by itself after three seconds, or earlier.
TimesOut == backend = "waiting"

Timeout ==
  /\ ~ undefined
  /\ TimesOut
  /\ backend' = "woken"
  /\ UNCHANGED <<isRuning, count, shared, locals, undefined, file, disk, owner, history>>

\* The critical section after the wait, which is not repeated.
Swap ==
  /\ ~ undefined
  /\ backend = "woken" \/ (backend = "lock" /\ buffers # <<>>)
  /\ toWrite' = buffers \o front
  /\ front' = buffer1 /\ buffer1' = null
  /\ buffers' = <<>>
  /\ IF frontBk = null
       THEN frontBk' = buffer2 /\ buffer2' = null
       ELSE UNCHANGED <<frontBk, buffer2>>
  /\ written' = 0 /\ taken' = 0
  /\ backend' = "write"
  /\ UNCHANGED <<isRuning, count, undefined, file, disk, owner, history>>

NextBuffer ==
  /\ written' = written + 1
  /\ taken' = 0

\* One fwrite() of the bytes of part, or of as many of them as it took; stdio
\* passes on any part of what it holds.
Fwrite(part, short) ==
  IF short THEN Fails(file \o part)
           ELSE /\ file' = file \o part
                /\ \E k \in Len(disk) .. Len(file') : disk' = SubSeq(file', 1, k)
                /\ UNCHANGED ioError

\* One round of fwriten(), which begins at the start of the buffer again
\* after a short fwrite(), and gives the buffer up when it takes nothing.
Write ==
  /\ ~ undefined
  /\ backend = "write" /\ written < Len(toWrite)
  /\ LET b == toWrite[written + 1]
         remain == length(b) - taken
     IN  \/ /\ remain = 0
            /\ NextBuffer
            /\ UNCHANGED <<file, disk, ioError>>
         \/ /\ remain > 0
            /\ \E wn \in 0 .. remain :
                 /\ Fwrite(SubSeq(b, 1, wn), wn < remain)
                 /\ IF wn \in {0, remain} THEN NextBuffer
                      ELSE taken' = taken + wn /\ UNCHANGED written
  /\ UNCHANGED <<isRuning, count, shared, backend, buffer1, buffer2, toWrite,
                 undefined, owner, appended, stored, overtaken>>

clearNothing(b) == b                     \* mutant: no clear()

clear(b) == <<>>

keptOne == SubSeq(toWrite, 1, 1)         \* mutant: resize(1)

\* toWrite after resize(2).
kept == IF Len(toWrite) > 2 THEN SubSeq(toWrite, 1, 2) ELSE toWrite

\* The spares are refilled from the back of what was written.
Recycle ==
  /\ ~ undefined
  /\ backend = "write" /\ written = Len(toWrite)
  /\ LET n1 == IF buffer1 = null THEN 1 ELSE 0
         n2 == IF buffer2 = null THEN 1 ELSE 0
         rear(n) == <<clear(kept[Len(kept) + 1 - n])>>
     IN  IF n1 + n2 > Len(kept)
           THEN undefined' = TRUE /\ UNCHANGED <<buffer1, buffer2>>
           ELSE /\ buffer1' = IF n1 = 1 THEN rear(1) ELSE buffer1
                /\ buffer2' = IF n2 = 1 THEN rear(n1 + 1) ELSE buffer2
                /\ UNCHANGED undefined
  /\ toWrite' = <<>>
  /\ written' = 0 /\ taken' = 0
  /\ backend' = "flush"
  /\ UNCHANGED <<isRuning, count, shared, file, disk, owner, history>>

Flush ==
  /\ ~ undefined
  /\ backend = "flush"
  /\ Fflush
  /\ backend' = "test"
  /\ UNCHANGED <<isRuning, count, shared, locals, undefined, owner, appended, stored,
                 overtaken>>

-----------------------------------------------------------------------------

BackendStep ==
  Begin \/ Test \/ WaitUnlessFilled \/ Timeout \/ Swap \/ Write \/ Recycle \/ Flush

OwnerStep == Started \/ DestroyNotify \/ Join

Next == AppendMsg \/ Start \/ Destroy \/ OwnerStep \/ BackendStep

\* The backend runs and its timed wait ends; start() and the destructor run
\* to their end.
Fairness == WF_vars(BackendStep) /\ WF_vars(OwnerStep)

Spec == Init /\ [][Next]_vars

FairSpec == Spec /\ Fairness

-----------------------------------------------------------------------------

\* Nothing is lost, doubled or reordered on its way through the buffers: the
\* file, the buffers being written, the filled ones and the front one hold
\* exactly the bytes append() stored, in order, while stdio does not fail.
Conserved ==
  ~ ioError =>
    stored = file \o FlattenSeq(SubSeq(toWrite, written + 1, Len(toWrite)))
                  \o FlattenSeq(buffers) \o FlattenSeq(front)

\* Wherever the process dies, the disk holds the first of the stored bytes
\* without a gap; and, but for the moment before fflush(), it misses only what
\* came since the last swap or is being written.
CrashLosesATail ==
  ~ ioError =>
    /\ IsPrefix(disk, stored)
    /\ backend # "flush" =>
         IsSuffix(SubSeq(stored, Len(disk) + 1, Len(stored)),
                  FlattenSeq(toWrite \o buffers \o front))

D == INSTANCE DurableLog WITH Line <- {line(m) : m \in Msg},
                              log <- stored, durable <- disk, faulty <- ioError

\* Threads, buffers, the file and stdio implement a log that becomes durable
\* from the front: no step takes back what the disk holds, and every byte of
\* that is one that append() stored.  After a short fwrite or a failed fflush
\* that is all: lines may be torn, run into one another, doubled or missing.
ImplementsDurableLog == D!Spec

\* append() and run() dereference _frontBuffer, buffer1, buffer2 and
\* toWrite.back() without a test: whatever the interleaving, there is a buffer
\* behind each, because a spare is missing only if one more was filled.
NeverWithoutBuffer ==
  /\ front # null
  /\ ~ undefined
  /\ frontBk = null => buffers # <<>>
  /\ backend \in BeforeSwap => buffer1 # null /\ buffer2 # null

\* The destructor drains: what was stored before it is on the disk when it
\* returns, unless run() was past its last swap when the flag was lowered
\* (those messages are lost) or stdio failed.
StopDrains ==
  (owner = "down" /\ ~ overtaken /\ ~ ioError) => disk = stored

\* A stored message reaches the disk, even if no other ever follows, unless the
\* logger is destroyed or stdio fails.
ReachesDisk ==
  \A m \in Msg :
    (<<m, 1>> \in Range(stored) /\ owner = "up")
      ~> (<<m, Size[m]>> \in Range(disk) \/ ioError \/ owner # "up")

\* The destructor returns, although its notify may precede the wait.
DestructorReturns == (owner = "stopping") ~> (owner = "down")

=============================================================================
