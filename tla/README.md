# A verification project for `cpp_practise`

The repository holds two small C++ libraries under `src/`: `base` (threads,
locks, queues, logging) and `net` (an event loop over epoll and a TCP server on
top of it).  This directory models their control: who does what in which
order, under which lock, and what happens when others come in between.  The
data - bytes, tasks, log lines - are numbers that say where they came from.

## Inventory

| part | state | operations | what is hard about it |
|---|---|---|---|
| `base/Mutex.h`, `Condition.h` | who waits | lock, wait, timed wait, notify, notifyAll | a woken thread takes the mutex later, others enter first; spurious wakeups |
| `base/ThreadPool` | deque of tasks, bound, `_isRunning`, threads | start, stop, run, loop | one notify per task and per free place, stop against workers on their way to sleep, a task that throws, the pop of an empty deque at stop |
| `base/Thread` | running flag, pthread id | start, join, run | detach after join, object destroyed before its thread ends |
| `base/BlockingQueue.h` | deque | push, take | one notify per element with several takers |
| `base/CountDown.h` | count | down, wait | one broadcast, at zero exactly |
| `base/AsyncLogging` | front buffer, spare, filled buffers, two more spares in the backend | append, run, start, destructor | buffers change hands between two threads; unprotected flag and notify; timeout; short writes, failed flushes; a crash before the flush |
| `base/LogStream` | bytes of a fixed buffer | `<<` of each type | limits of the buffer, smallest integer, length of an address |
| `base/Logging` | global sinks and level | one object per line | lines of several threads and lines inside lines; flush, then abort on FATAL |
| `net/EventLoop` | queue of functors, `_quit`, eventfd | loop, runInLoop, quit | functors queued at any point of a round; saturation of the eventfd |
| `net/EventLoopThread`, `EventLoopThreadPool` | address of a loop in another thread; index of the next | start, destructor, getNextLoop | hand-over; a loop that ends before its owner asks |
| `net/Epoller`, `Channel` | interest of a descriptor in three places | update, remove, poll, handleEvent | the mask, the channel's state and the kernel disagree after `disableAll`; bare pointers in the list of a round |
| `net/TcpConnection` | state, output buffer, channel | send, established, destory, handlers | partial writes, `send` inside its own callback, resets, death of the object inside its own callback |
| `net/Buffer` | vector with a read and a write index | append, prepend, retrieve, readFromFd, integers, searches | moves and growth, byte order and sign, stale bytes |
| `net/TcpServer`, `Acceptor`, `Sockets` | map of connections, open descriptors | start, newConnection, removeConnection, destructor, listen, accept | the map is used by several threads without a lock; descriptors run out and are used again |
| the rest | - | one system call or one conversion each | - |

Calls go downwards: TcpServer makes TcpConnections, whose Channel registers
with the Epoller of an EventLoop, which calls back up.  Across threads there
are only the mutexes of ThreadPool, BlockingQueue, AsyncLogging, CountDown,
EventLoop's functor queue and EventLoopThread - and TcpServer's map, which has
none.  `PROJECT.json` lists every part with what is left out, and the hazards
with their lines.

## Modules

Plain modules are specifications; `MC*` modules and the `.cfg` of the same name
give the constants of a run (`MCTcpLoss.cfg` is a second one of
`MCTcpConnection`); `SharedLemmas` and `*Proofs` hold theorems.

Abstract specifications, which say what a part promises:

* **BoundedFifo** - items go out in the order they came in, each once, and at
  most `bound` wait.  Implemented by ThreadPool (`bound` is `_maxNum`; a pool of
  no threads passes tasks straight through), BlockingQueue and EventLoop (the
  swapped batch and the queue behind it are one queue to those who call
  `runInLoop`).  The refinement mapping takes the histories of what came in
  and out, so that nothing in the code's deques has to be trusted.
* **ByteQueue** - a queue of bytes with integers in network byte order, and what
  finding the first occurrence of a pattern means.  Implemented by Buffer,
  operation by operation.
* **DurableLog** - a log of bytes of which a first part is durable: that part
  only grows.  Once a write has failed lines may be torn, run together, doubled
  or missing; what is left of the promise is that nothing is taken back and that
  each byte is one of a line that was logged.
  Implemented by AsyncLogging, whose `stored` is the log and whose `disk` is the
  durable part.
* **Digits** - powers, and the number a sequence of digits denotes; used by
  Buffer, ByteQueue and LogStream.

The code:

* **Condition** - what a condition variable does to a function from threads to
  control states: `Notify`, `NotifyAll`, `WakeOne`.  A `MutexLockGuard` block is
  one step of the component; `wait` ends the step, and the woken thread enters
  in a later one.  Used by ThreadPool, BlockingQueue and CountDown.
* **ThreadPool** - `Start`, `CreateThread`, `Stop`, `JoinThread`, `LoopEnds` are
  the owner; `Run`, `RunResume`, `RunInline`, `InlineReturns` a caller of
  `run()`; `TestRunning`, `Wait`, `Take`, `TakeFromEmpty`, `Execute` a worker in
  `loop()`.  `tasks` is written back to front: `tasks[1]` is `back()`.  The pop
  of an empty deque (reached at every stop of an idle pool) is undefined in
  C++: the model lets the process die, lets `if (task)` skip an empty function,
  or runs a task that was already taken, and keeps an `underflow` flag because
  the size has wrapped.  An exception ends the process in every handler.
  `start()` is called once before each `stop()`.
* **BlockingQueue** - `Push`, `Take`, `BQSpuriousWakeup`.
* **CountDown** - `Down`, `Wait`, `CDSpuriousWakeup`; counts may go below zero,
  where `down()` no longer notifies.
* **EventLoop** - `RunInLoop`, `Quit` and `Wakeup` are another thread;
  `RunInOwnLoop` and `QuitOwnLoop` are calls from a callback, a functor, or
  before `loop()`; the others are the lines of `loop()`, `poll()`,
  `handleRead()` and `doLoopTasks()`.  The eventfd counts writes up to
  `EventFdMax`, where `write` fails.
* **EventLoopThread** - the base thread in `EventLoopThreadPool::start` and in
  the destructors of the pool's threads, against `run()` of each thread with
  the round of its loop.  The two lines of `quit()` are two steps (`RaiseQuit`,
  `WakeLoop`), and so are they of another thread (`StrangerQuits`,
  `StrangerWakes`); a callback in the loop (`CallbackQuits`) has only the first.
  In between the loop may end, and its object with it.  Using a loop that is
  gone stops the model, and `dangling` says at which of the steps.
* **AsyncLogging** - `AppendMsg`; `Start`, `Started` (the CountDown), `Destroy`,
  `DestroyNotify`, `Join` of the owner; `Begin`, `Test`, `WaitUnlessFilled`,
  `Timeout`, `Swap`, `Write`, `Recycle`, `Flush` of `run()`.  A `unique_ptr` is a
  sequence of at most one buffer, and a buffer a sequence of bytes.  `Write` is
  one round of `fwriten`: `fwrite` takes any number of bytes, ends inside a line
  or takes nothing, and the next round starts at the beginning of the buffer
  again.  stdio passes on any part of `file` to `disk` by itself, `fflush` all
  of it; where either fails (`Fails`) any part is passed on, and the rest kept
  or dropped.  There is no crash action: what a crash leaves is `disk`, and an
  invariant on it is a statement about a crash in any state.
* **LogStream** - each `<<` as what it puts into the buffer; a character is a
  string of length one.  `%` and `/` round towards zero as in C++; integers are
  signed or unsigned.  `left(i, d)` is the sequence of what the do-while loop of
  `convert` leaves after each round, `backwards` the digits it writes on the way.
  `Cut` divides the buffer at its blanks, as its reader would.  `top` is the
  highest byte any write has reached, NULs included.
* **Logging** - `Begin` is the macro's test and the constructor, `Stream` an
  operator `<<`, `End` the destructor up to `g_output`, `FlushFatal` and `Abort`
  the rest of it: between the two other threads log and set the sinks.  A
  thread has a stack of lines, because what is streamed may log.  A piece is a length and the room its operator asks for (LogStream's matter).
* **TcpConnection** - one connection with its channel in one loop.  `Poll`
  reports a set of calls to make, which `HandleClose`, `HandleRead` and
  `HandleWrite` serve in `handleEvent`'s order; `Send` happens inside the user's
  callbacks, the high-water callback included: `stack` holds the rests whose
  callback has not returned, and `HighWaterReturns` goes on in `send()`.  The
  socket and the peer are external: a write takes any part, nothing, or meets a
  broken connection (ECONNRESET once, then SIGPIPE, which nothing blocks).
  `_highWaterMark`, which nothing initialises, is any number.  `Release` is user
  code that drops the last pointer, between rounds or in another connection's
  callback.  `EndClose` is the end of the close callback: if it drops the last
  pointer the object is gone while `handleEvent` is still to read `_revents` of
  its channel, and the model stops there with `life = "undefined"`.
* **Buffer** - the vector with its two indices.  `htobe` is the conversion of a
  little-endian machine, done on the bytes of the integer.  `prepend` is called
  with at most `prependableBytes()`, and integers are peeked at when they are
  there: nothing in the code checks either.
* **TcpServer** - the base thread in `newConnection` and the destructor, and for
  each connection the thread of its loop from `poll()` to `removeConnection`.
  The process may open `limit` descriptors; a client beyond it waits in the
  backlog, and the worse errors of `listen` and `accept` end the process.  The
  run becomes `undefined` and stops when two threads use the map at once, when a
  handler uses a deleted connection, or when the rest of `handleEvent`
  (`EndEvent`), which reads the channel its close handler has deleted, is led
  astray by what it finds; it may also find nothing, as in a build where freed
  memory stays as it was, and the thread goes on.  `fault` says which of the
  three it was.

## Runs

| run | bounds | what it shows |
|---|---|---|
| `thread_pool` | 3 callers, up to 2 threads, 4 tasks of which the last throws, 2 starts | implements BoundedFifo, no lost wakeup on either condition, stop returns |
| `event_loop` | 2 other threads, 4 functors, an eventfd that is full at 2 | implements BoundedFifo; no sleep on a functor or on quit |
| `event_loop_thread` | up to 2 loops | never hands out a null or dead loop; when the destructor finds one gone; both ends return |
| `count_down` | 3 waiters, counts 3 to -2 | nobody passes early, nobody sleeps at zero |
| `async_logging` | 5 lines of 1 to 4 bytes, buffers of 3 | conservation through the swap, no null buffer, a crash costs a tail, drain at destruction; implements DurableLog |
| `logging` | 2 threads, 2 lines, 2 pieces each, nested once | whole lines, fatal lines flushed whatever happens before `abort` |
| `log_stream` | 10 bytes, of which a conversion asks for 6; 5-bit integers; addresses of 1 to 3 digits | no write passes the array; what was taken can be read back |
| `tcp_connection` | 2 messages of up to 3 bytes | order and wholeness, WRITE interest, one report of the end |
| `tcp_send_loss` | same | **violated**: `send()` loses messages |
| `buffer` | base 2, initial 2 + 2 bytes, chunks up to 3, integers of 1 and 2 bytes | refinement of ByteQueue; integers and searches |
| `tcp_server` | 2 clients, 1 or 2 descriptors, 0 to 2 loops | on one thread each end handled once, nothing deleted used but the rest of `handleEvent`; entries stay their own on several; descriptors go to waiting clients |
| `blocking_queue` | 3 takers, 5 elements | implements BoundedFifo, nobody sleeps before an element for ever |

Why these bounds are enough.  A lost wakeup needs a sleeper, a woken thread and
one that overtakes it: two workers with three callers, three takers, three
waiters, or two threads next to the loop contain all three.  Two starts show a
pool used again.  Five lines in buffers of three bytes, of which two fill one
together, one fills one alone and one fits none, reach `new Buffer`, `resize(2)`
and both spares missing, and a write can stop in each place of a line, twice
over.  Two messages over a socket that takes
any part show every pair of a pending and a new one, and one inside the other's
callback.  Two clients for one descriptor make one wait for the other's end;
for two they let one be closed and given out again.  A vector of four bytes with
chunks of up to three meets each boundary of `append` with one byte to spare,
exactly, and one missing; two-digit integers of base two have every sign and an
order to get wrong, and a pattern of two bytes can lie across the end of what is
readable.  Sixteen bytes for a line let it fit, be cut in the middle, and lose
its line break.  Constants in the `MC` modules and `.cfg` files name every
bound.  Threads of `logging` are symmetric, and no property of it is temporal.
`CHECK_DEADLOCK FALSE` stands where the system may really stop: the process has
aborted, a loop has been quit, a logger is destroyed, a connection is gone, or
`run()` blocks for ever on a pool that was stopped.  `count_down` and
`blocking_queue` are checked for deadlock too.

Every property of a passing run fails for at least one mutant of the code
(operators marked `mutant:` in the modules).  Most modules also have a `TypeOK`,
which serves the proofs and the reader; what LogStream has in its place,
`StaysInArray`, says something about the code and is checked for itself.

### What the runs found

* `TcpConnection::send` (`net/TcpConnection.cpp:38-51`): when the direct write
  would block, and whenever output is already pending, `remain` stays zero and
  the message is dropped, although the comment above promises that the rest
  goes to the output buffer.  Run `tcp_send_loss`.
* Stated by the properties as exceptions, because the code behaves so and
  promises nothing else: an idle pool pops an empty deque at `stop()`
  (`UnderflowOnlyInStop`); a reset with output pending ends in SIGPIPE
  (`PeerCloseIsReported`); a close that drops the last pointer to a connection
  makes `handleEvent` read `_revents` of the deleted channel
  (`net/Channel.cpp:17,22,27`), with one thread too and whether output is pending
  or not (`SoundOnOneThread` admits this and no other use of what is deleted),
  and user code that drops a closed connection in the round that has it listed
  makes `loop()` use it; a connection of which the user keeps a pointer stays in
  epoll after `disableAll` and is reported again and again
  (`EndIsReportedOnce`); after a short write or a failed flush the file holds
  torn and doubled lines (`ImplementsDurableLog`); what is sent in a
  high-water callback goes ahead of the rest it was called for
  (`WholeInOrder`); what is logged after the backend's last swap is lost
  (`StopDrains`); an address is logged without its last two digits
  (`ReadsBack`); a line that fills its buffer runs into the next
  (`LinesAreWhole`); with `setOutput` and no `setFlush` a fatal line stays in
  its sink, and so does what another thread logs between `g_flush` and `abort`
  (`FatalIsFlushed`); a loop that leaves on a flag it sees before
  `quit()` has sent its wakeup is gone when that wakeup uses it, and a loop
  somebody else has quit is gone altogether (`FindsLoopAlive`); a server with
  more than one thread uses its map without protection, and may report a
  connection up after its end (`SoundOnOneThread` is about one thread only); a functor queued by the loop's thread before `loop()`
  waits for the poll timeout (`NoMissedWakeup`).

## Fairness

Weak fairness of a thread's steps says that the operating system schedules it
and that user code returns.  Nobody is made to call `run`, `stop`, `push`,
`send`, `down` or `quit`, and spurious wakeups are never assumed.

* ThreadPool and BlockingQueue: a woken thread eventually gets the mutex; which
  sleeper a notify chooses is left open.
* EventLoop: the poll timeout is *not* assumed, so the properties do not lean on
  it.  `epoll_wait` rotates its ready list, so a ready eventfd is not left out
  for ever: strong fairness of that report.
* EventLoopThread: a readable eventfd ends `epoll_wait`; again no timeout.
* AsyncLogging: the timed wait ends, which is what its timeout is for;
  `DestructorReturns` and `ReachesDisk` need it, as their mutants show.
* TcpConnection: a peer that stays makes the socket writable again and again
  (strong fairness of the report and of a write that succeeds).
* TcpServer: every loop handles what is ready in it, a waiting client included;
  no peer has to close.

CountDown, Logging, LogStream and Buffer have safety properties only.

## Proofs

Checked by TLAPS for every value of the constants; the assumptions are those
named in the modules (`ThreadPoolAssumption` and so on): sets of threads are
finite where they are counted, bounds and lengths are naturals, a message of
TcpConnection has at least one byte, the eventfd takes at least one write.
There is none about descriptors: `Fds` is any set.  TcpServer keeps at least
two reports of a connection.  Buffer's base is even and at
least two, its CR and LF are different bytes, and a vector as big as the one it
begins with is allowed.  A piece of
a log line asks for more room than it takes, which is what `FixedBuffer` sees to
for its blank.  What a conversion of LogStream asks for (32 bytes) is
room for the digits of the largest number, for its sign or `0x`, and for a NUL:
with 64-bit integers and addresses it is.

Each safety property is proved from an inductive invariant, since hardly any is
inductive alone; TLC has checked each invariant on the run's instance or a
smaller one before.

Where the code adds up or goes round a loop, the modules use recursive
*functions*, on the number of elements or rounds; a fold of the community
modules, or `^`, has no step a prover could take.  That such a function exists
and is the only one follows from induction over the naturals, and the induction
theorems of the library take an operator as a parameter.  `NatInd` (SharedLemmas)
states induction with a *set* of naturals instead, which the provers can
instantiate, and follows from a smallest counterexample; on it rest
`RecursionExists` and `RecursionAgrees`, and on these one lemma for each
recursive function here (`PowerIs`, `NumberIs`, `LengthIs`, `FilledIs`, `LeftIs`,
`CutIs`) and for `FlattenSeq`.

* **SharedLemmas** - how `Notify`, `NotifyAll` and a thread's own move change the
  waiting set and the number of woken threads; appending, moving the head over
  and counting in a concatenation of queues; first and last parts of sequences;
  sorted sequences; `Reverse`; `FlattenSeq` of a sequence that grows or shrinks
  at an end; induction and recursion.
* **ThreadPoolProofs** - type correctness, `FifoOrder`, `Bounded`,
  `NoLostWakeup`, `NoStrandedCaller`, `StopWakesWorkers` and
  `UnderflowOnlyInStop`.  The invariant joins four parts: `TypeInv` (what a
  thread is about to store or run is a task); `QueueInv` (order and bound, and
  that an underflown deque is empty); `OwnerInv` (which threads exist, given
  where the owner is in `start()` or `stop()`, and that a lowered flag means no
  `start()` is under way); `WakeInv` (the two counting arguments, and that no
  worker sleeps on a lowered flag).  The counts go: a notify adds one woken
  thread with each element or place it adds, and a thread that leaves the woken
  set takes one element or fills one place, or goes to sleep when there is none
  - so a new caller that overtakes a woken one changes neither side in the wrong
  direction.  `PoolImplementsFifo` is the refinement: `QueueInv` turns a push
  into `Put`, a `Take` into `Get`, an inline run into `Pass`, and all else is a
  stutter, the pop of an empty deque included.
* **EventLoopProofs** - `LoopImplementsFifo` and `SleepIsInterrupted`
  (`NoMissedWakeup`).  The order of functors is inductive once it is known that
  the batch is empty outside `doLoopTasks()`, else the swap would overwrite it.
  The wakeup property is about `epoll_wait` only, and is made inductive by what
  happens before it: from the end of the swap to the next `epoll_wait`, and
  before `loop()`, a functor in the queue that the loop's thread did not leave
  there has a wakeup on its way, because `_isDoingTask` makes the loop's own
  thread wake itself too; and only `handleRead()` takes a wakeup away, which is
  before the swap.
* **HandoverProofs** - what one thread hands to another: a loop's address, a
  count, an element.
  EventLoopThread: `Published` says that an address is there from the loop's
  constructor on and that `start()` has returned no other; `Quitting`, that a
  loop ends on its flag only, and that a raised flag is the destructor's, for
  the loop it is at or is past, or is in `ended`.  `FindsLoopAlive` follows for
  the step that meets a dead loop: before `quit()` the destructor has not raised
  that flag, so somebody else has.  CountDown: both halves of `OpensAtZero` are
  inductive with the types.  BlockingQueue: `FifoOnce` and `NoLostWakeup` from their
  conjunction with the types, by the counting argument of ThreadPool, and
  `QueueImplementsFifo`.
* **AsyncLoggingProofs** - `Conserved`, `NeverWithoutBuffer`, `CrashLosesATail`
  and `StopDrains`.  `Spares` is why no pointer is null: a missing spare of the
  front end means a filled buffer, so the swap that hands over the spares also
  brings buffers to take them back from; of what it brings, `resize(2)` leaves
  as many as are needed.  `OnDisk` relates file and disk by where `run()` is:
  equal outside writing and flushing, and while it writes the disk holds at
  least what was there before the round.  `Drains` carries what the destructor
  waits for over the backend's last round.  `AsyncLoggingIsDurableLog` is the
  refinement: every step of the two threads, the owner and stdio writes one
  line, makes more of the log durable, or is a stutter.  It adds `Known`: when
  order is lost after a write that stopped anywhere, file, disk and all that is
  being written hold bytes of stored lines only, because a round of `fwriten`
  takes its bytes from a buffer of them, from wherever it starts.
* **TcpConnectionProofs** - `EndIsReportedOnce` from `Ended`: once the end of a
  connection that only the server holds was reported, it does not come back to
  the loop.  `WriteInterest` from `Watched`: whatever says that WRITE is wanted or was reported - the mask of
  the channel, epoll's copy of it, the calls still to make in this round -
  implies pending output, and while connected the copies agree.  `WholeInOrder`
  is about three places bytes lie in, the wire, the output buffer and the rests
  whose high-water callback is running; the invariant `KeptFaithful` says that
  they are sorted together up to the exception, that each message is in them
  whole, and that a rest is of one message.
* **TcpServerProofs** - `EntriesAreOwn`, for any number of loops, from `Own`: a
  living connection has an open descriptor of its own, every open descriptor
  has its living connection, and an entry of the map points to one with that
  descriptor.  So when `removeConnection()` looks up its descriptor it cannot
  meet a successor: the connection it holds is alive, and its descriptor not yet
  given out again.  This part of the state is proved only as long as the run is
  not `undefined`.  `SoundOnOneThread` adds `Solo`: with one thread, every
  connection but the one being made or being ended is settled - entered,
  watched and told that it is up, or without pointers, unwatched and told that
  it is down.  This is where single-threadedness enters: nothing begins unless
  all else is settled.  A connection whose `handleEvent` is in its last lines is
  the one that is without pointers while a thread is still at it; that read is
  the only fault the invariant lets in, and it ends the run.

* **StreamProofs** - the modules that put bytes and text together.
  *Buffer*: `BufferImplementsQueue` and `PeeksAtQueueAlways`, from the order of the
  indexes.  `RoomIsMade` says that moving to the front or growing leaves the same
  readable bytes and room for the chunk, `WrittenBehind` that a write then adds
  the chunk and nothing else; `append`, the integers and both halves of
  `readFromFd` come down to these two.  For the integers, `NumberOfMemory` and
  `MemoryOfNumber` show that bytes and numbers determine each other within a
  width, also for negative ones, so that `htobe` is a reversal of bytes.
  *LogStream*: `StreamStaysInArray` and `StreamReadsBack`.  `RoundIs` says that a
  division that rounds towards zero divides the magnitude, so that nothing has
  to be negated, the smallest integer included; `LoopEnds` that the loop ends
  within the digits the reserve has room for; `DigitsDenote` that what k rounds
  leave is denoted by all but the last k digits - which is also why an address
  that lost two digits reads as a 256th of it.  `CutToken` says that a text
  without blanks and the blank behind it are one token more.
  *Logging*: `LinesAreWholeAlways` and `FatalIsFlushedAlways`.  The invariant says
  that a line in the making is what its buffer kept of all that was streamed
  into it, that no two threads hold the same line, and that lines of one thread
  are different; and that a thread which has been through `g_flush` on its way to
  `abort` has flushed its sink as far as its fatal line, which what others write
  later does not take back.  `FilledFits` is that a buffer in which every piece fits has
  dropped none.

Only model-checked: everything temporal but the refinements of abstract
specifications, which are safety - liveness under fairness is beyond the
prover - and, in the nature of the thing, the run that is violated.

## Not modelled

INetAddress, CurrentThread and Exception: one conversion or system call each.
The text of a double, of the time and of a level.  Epoller's growing array of
events and its map of channels, which nothing reads.  `Acceptor`'s constructor
(`bind` may end the process before anything else happens) and destructor.
`send()` and `destory()` from a thread other than the loop's: the classes have
no protection, and no call of the library makes them do it except the one
TcpServer models, `established()` in the base thread.  Exceptions thrown through
`loop()`, which end the process.  A logger destroyed without `start()`, which
joins through a null pointer.  Taken to succeed, since the code goes on as if they
had: `fopen` of the log file (a null `FILE` would be written to) and `epoll_ctl`
(whose failure is only logged).  `~Thread`, which detaches a thread that was
joined: every owner joins before it destroys, in one thread.

## Plan

1. *(done)* Condition, ThreadPool with proofs, EventLoop, AsyncLogging,
   TcpConnection, Buffer, TcpServer, BlockingQueue with proofs, LogStream.
2. *(done)* EventLoopThread with its pool, CountDown, Logging; the high-water
   callback, crashes of the logger, the limit of descriptors, integer codecs and
   searches; BoundedFifo and its three refinements, proved.
3. *(done)* Proofs of every safety property of CountDown, EventLoopThread,
   AsyncLogging, TcpConnection and TcpServer; the common lemmas in one module,
   with induction over sets.
4. *(done)* Recursion in SharedLemmas, and with it the proofs of every safety
   property of Buffer, its refinement included, of LogStream and of Logging;
   DurableLog, implemented by AsyncLogging, also when `fwrite` stops inside a line.
5. Left: the errors of Epoller's map and event array, `TcpConnection` used from
   other threads, and liveness, should the prover learn it.
