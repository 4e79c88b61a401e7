--------------------------- MODULE HandoverProofs ---------------------------
(***************************************************************************)
(* Theorems about what one thread hands over to another: the address of a  *)
(* loop (module EventLoopThread, for every size of the pool), the latch it *)
(* takes down (CountDown, for every set of waiting threads and of counts)  *)
(* and the elements of a queue (BlockingQueue, for every number of takers  *)
(* and of elements).                                                       *)
(***************************************************************************)
EXTENDS EventLoopThread, CountDown, BlockingQueue, SharedLemmas

Starting == {"lock", "waiting", "woken"}
Ending   == {"quitting", "waking", "joining"}

\* Threads start() has created.
Created ==
  IF base = "new" THEN {}
  ELSE IF base = "starting" THEN 1 .. index - 1
  ELSE IF base \in Starting THEN 1 .. index ELSE 1 .. threadNum

\* Loops whose thread the destructor has joined.
Gone == IF base \in Ending THEN 1 .. index - 1
        ELSE IF base = "down" THEN 1 .. threadNum ELSE {}

Shape ==
  /\ MaxThreads \in Nat
  /\ threadNum \in 0 .. MaxThreads
  /\ published \in [Threads -> BOOLEAN]
  /\ thread \in [Threads -> {"none", "begin", "test", "poll", "round", "exited"}]
  /\ quit \in [Threads -> BOOLEAN]
  /\ base \in {"new", "starting", "up", "down", "aborted"} \cup Starting \cup Ending
  /\ index \in 1 .. threadNum + 1
  /\ base \in Starting \cup {"waking", "joining"} => index <= threadNum
  /\ base \in {"new", "up"} => index = 1

\* A loop's address is there from its constructor on; start() returns no other,
\* and a thread it has not created has none.
Published ==
  /\ \A i \in Threads : published[i] <=> thread[i] \notin {"none", "begin"}
  /\ \A i \in HandedOut : published[i]
  /\ base # "aborted" => \A i \in Threads \ Created : thread[i] = "none"

\* A loop ends on its flag only, which the destructor raises for the loop it is
\* at, and others for the loops they end.
Quitting ==
  /\ \A i \in Threads : thread[i] = "exited" => quit[i]
  /\ \A i \in Threads : quit[i] => \/ i \in ended \cup Gone
                                   \/ base \in {"waking", "joining"} /\ i = index
  /\ base \in {"waking", "joining"} => quit[index]
  /\ \A i \in Gone : thread[i] = "exited"

IInv == Shape /\ Published /\ Quitting /\ FindsLoopAlive

LEMMA InitInv == Init => IInv
<1> SUFFICES ASSUME Init PROVE IInv
  OBVIOUS
<1>1. MaxThreads \in Nat /\ threadNum \in 0 .. MaxThreads /\ index = 1 /\ base = "new"
  BY EventLoopThreadAssumption DEF Init
<1>2. index \in 1 .. threadNum + 1
  BY <1>1
<1>3. Shape
  BY <1>1, <1>2 DEF Init, Shape, Starting
<1>4. HandedOut = {} /\ Gone = {}
  BY <1>1 DEF HandedOut, Gone, Ending
<1> QED
  BY <1>1, <1>3, <1>4 DEF Init, IInv, Published, Quitting, FindsLoopAlive

\* The indices of threads that have been handed out, or destroyed, are threads.
LEMMA Indices ==
  ASSUME Shape
  PROVE  /\ threadNum \in Nat /\ index \in Nat
         /\ index <= threadNum => index \in Threads
         /\ HandedOut \subseteq Threads /\ Gone \subseteq Threads
  BY DEF Shape, Threads, HandedOut, Gone, Ending

\* The base thread in start().
LEMMA StartKeeps ==
  ASSUME IInv, Running,
         Start \/ CreateThread \/ TakeLoop \/ SpuriousWakeup \/ StartReturns \/ Destroy
  PROVE  IInv'
<1>1. /\ UNCHANGED <<threadNum, published, quit, ended, dangling>> /\ dangling = "none"
      /\ Gone = {} /\ Gone' = {} 
  <2>1. UNCHANGED <<threadNum, published, quit, ended, dangling>> /\ dangling = "none"
    BY DEF Running, history, Start, CreateThread, TakeLoop, SpuriousWakeup, StartReturns, Destroy
  <2>2. /\ base \notin Ending \cup {"down"}
        /\ base' \notin {"waking", "joining", "down"}
        /\ base' = "quitting" => index' = 1
    BY DEF IInv, Shape, Start, CreateThread, TakeLoop, SpuriousWakeup, StartReturns, Destroy,
           Starting, Ending
  <2> QED
    BY <2>1, <2>2 DEF Gone, Ending
<1>2. Shape'
  BY Indices DEF IInv, Start, CreateThread, TakeLoop, SpuriousWakeup, StartReturns, Destroy,
         Shape, Starting, Ending
<1>3. Published'
  <2>1. CASE Start
    BY <2>1 DEF Start, IInv, Shape, Published, HandedOut, Created, Starting
  <2>2. CASE CreateThread
    BY <2>2, Indices DEF CreateThread, IInv, Shape, Published, HandedOut, Created, Starting
  <2>3. CASE TakeLoop
    BY <2>3, Indices DEF TakeLoop, mustWait, IInv, Shape, Published, HandedOut, Created, Starting
  <2>4. CASE SpuriousWakeup
    BY <2>4 DEF SpuriousWakeup, IInv, Shape, Published, HandedOut, Created, Starting
  <2>5. CASE StartReturns
    BY <2>5, Indices DEF StartReturns, IInv, Shape, Published, HandedOut, Created, Starting
  <2>6. CASE Destroy
    BY <2>6 DEF Destroy, IInv, Shape, Published, HandedOut, Created, Starting
  <2> QED
    BY <2>1, <2>2, <2>3, <2>4, <2>5, <2>6
<1>4. Quitting'
  BY <1>1 DEF IInv, Shape, Quitting, Start, CreateThread, TakeLoop, SpuriousWakeup, StartReturns, Destroy
<1> QED
  BY <1>1, <1>2, <1>3, <1>4 DEF IInv, FindsLoopAlive

\* The base thread in the destructors: the loop it is at has been handed out.
LEMMA DestroyKeeps ==
  ASSUME IInv, Running, RaiseQuit \/ WakeLoop \/ Join \/ Destroyed
  PROVE  IInv'
<1>1. /\ UNCHANGED <<threadNum, published, thread, ended>>
      /\ dangling = "none" /\ base \in Ending
      /\ base' \in Ending \cup {"down"}
  BY DEF Running, history, RaiseQuit, WakeLoop, Join, Destroyed, Ending
<1>2. Shape'
  <2>1. /\ index' \in 1 .. threadNum + 1
        /\ base' \in {"waking", "joining"} => index' <= threadNum
    BY Indices DEF IInv, RaiseQuit, WakeLoop, Join, Destroyed, Shape
  <2>2. quit' \in [Threads -> BOOLEAN]
    BY DEF IInv, Shape, RaiseQuit, WakeLoop, Join, Destroyed
  <2> QED
    BY <1>1, <2>1, <2>2 DEF IInv, Shape, Starting, Ending
<1>3. UNCHANGED <<HandedOut, Created>>
  BY <1>1 DEF HandedOut, Created, Starting, Ending
<1>4. Published'
  BY <1>1, <1>3 DEF IInv, Published, Ending
<1>5. Quitting'
  <2>1. CASE RaiseQuit
    <3>1. base = "quitting" /\ index \in Threads /\ base' \in {"quitting", "waking"}
          /\ UNCHANGED index
      BY <2>1, Indices DEF RaiseQuit, IInv
    <3>2. Gone' = Gone
      BY <1>1, <3>1 DEF Gone, Ending
    <3>3. \/ base' = "quitting" /\ UNCHANGED quit
          \/ base' = "waking" /\ quit' = [quit EXCEPT ![index] = TRUE]
      BY <2>1, <3>1 DEF RaiseQuit
    <3> QED
      BY <1>1, <3>1, <3>2, <3>3 DEF IInv, Shape, Quitting
  <2>2. CASE WakeLoop
    <3>1. Gone' = Gone
      BY <1>1, <2>2 DEF WakeLoop, Gone, Ending
    <3> QED
      BY <1>1, <2>2, <3>1 DEF WakeLoop, IInv, Quitting
  <2>3. CASE Join
    <3>1. base = "joining" /\ thread[index] = "exited" /\ base' = "quitting" /\ UNCHANGED quit
          /\ index \in Nat /\ index' = index + 1
      BY <2>3, Indices DEF Join, IInv
    <3>2. Gone' = Gone \cup {index}
      BY <3>1, Indices DEF Gone, Ending, IInv, Shape
    <3> QED
      BY <1>1, <3>1, <3>2 DEF IInv, Quitting
  <2>4. CASE Destroyed
    <3>1. base = "quitting" /\ index > threadNum /\ base' = "down" /\ UNCHANGED quit
      BY <2>4 DEF Destroyed
    <3>2. index = threadNum + 1
      BY <3>1, Indices DEF IInv, Shape
    <3>3. Gone' = Gone
      BY <1>1, <3>1, <3>2, Indices DEF Gone, Ending, IInv
    <3> QED
      BY <1>1, <3>1, <3>3 DEF IInv, Quitting
  <2> QED
    BY <2>1, <2>2, <2>3, <2>4
<1>6. FindsLoopAlive'
  <2>1. CASE RaiseQuit /\ dangling' # "none"
    <3>1. base = "quitting" /\ index <= threadNum /\ ~ Alive(index) /\ UNCHANGED <<index, quit>>
      BY <1>1, <2>1 DEF RaiseQuit
    <3>2. index \in Threads /\ index \in HandedOut
      BY <3>1, Indices DEF IInv, Shape, HandedOut, Starting
    <3>3. published[index] /\ index \notin Gone
      BY <3>1, <3>2, Indices DEF IInv, Published, Gone, Ending
    <3>4. thread[index] = "exited"
      BY <3>1, <3>2, <3>3 DEF IInv, Shape, Published, Alive
    <3>5. index \in ended
      BY <3>1, <3>2, <3>3, <3>4 DEF IInv, Quitting
    <3> QED
      BY <1>1, <3>1, <3>5 DEF FindsLoopAlive
  <2>2. CASE WakeLoop /\ dangling' # "none"
    <3>1. base = "waking" /\ dangling' = "wakeup" /\ UNCHANGED <<index, quit>>
      BY <1>1, <2>2 DEF WakeLoop
    <3> QED
      BY <3>1 DEF FindsLoopAlive, IInv, Quitting
  <2>3. CASE dangling' = "none"
    BY <2>3 DEF FindsLoopAlive
  <2> QED
    BY <1>1, <2>1, <2>2, <2>3 DEF Join, Destroyed
<1> QED
  BY <1>2, <1>4, <1>5, <1>6 DEF IInv

\* The threads of the pool, and whoever else ends their loops.
LEMMA LoopKeeps ==
  ASSUME IInv, Running, NEW i \in Threads,
         LoopStep(i) \/ PollReturns(i) \/ CallbackQuits(i) \/ StrangerQuits(i) \/ StrangerWakes(i)
  PROVE  IInv'
<1>1. /\ UNCHANGED <<threadNum, index>> /\ ended \subseteq ended'
      /\ dangling = "none" /\ dangling' \in {"none", "stranger"}
      /\ base' = base \/ (base = "waiting" /\ base' = "woken")
  BY DEF Running, history, LoopStep, Publish, TestQuit, PollReturns, EndRound, CallbackQuits,
         StrangerQuits, StrangerWakes
<1>2. /\ thread' \in [Threads -> {"none", "begin", "test", "poll", "round", "exited"}]
      /\ published' \in [Threads -> BOOLEAN] /\ quit' \in [Threads -> BOOLEAN]
  BY DEF LoopStep, Publish, TestQuit, PollReturns, EndRound, CallbackQuits, StrangerQuits,
         StrangerWakes, IInv, Shape
<1>3. Shape'
  BY <1>1, <1>2 DEF IInv, Shape, Starting, Ending
<1>4. UNCHANGED <<HandedOut, Created, Gone>>
  BY <1>1 DEF HandedOut, Created, Gone, Ending, Starting
<1>5. /\ \A j \in Threads : thread[j] = "none" => thread'[j] = "none"
      /\ \A j \in Threads : published[j] => published'[j]
      /\ \A j \in Threads : published'[j] <=> thread'[j] \notin {"none", "begin"}
      /\ \A j \in Threads : quit[j] => quit'[j]
  BY DEF LoopStep, Publish, TestQuit, PollReturns, EndRound, CallbackQuits, StrangerQuits,
         StrangerWakes, Alive, IInv, Shape, Published
<1>6. Published'
  BY <1>1, <1>4, <1>5, Indices DEF IInv, Published
<1>7. \A j \in Threads : /\ thread[j] = "exited" => thread'[j] = "exited"
                         /\ thread'[j] = "exited" => thread[j] = "exited" \/ quit[j]
                         /\ quit'[j] => quit[j] \/ j \in ended'
  BY DEF LoopStep, Publish, TestQuit, leaves, PollReturns, EndRound, CallbackQuits, StrangerQuits,
         StrangerWakes, Alive, IInv, Shape
<1>8. base \in {"waking", "joining"} => index \in Threads
  BY Indices DEF IInv, Shape
<1>9. Quitting'
  BY <1>1, <1>4, <1>5, <1>7, <1>8, Indices DEF IInv, Quitting
<1> QED
  BY <1>1, <1>3, <1>6, <1>9 DEF IInv, FindsLoopAlive

LEMMA StepInv == IInv /\ [Next]_vars => IInv'
<1> SUFFICES ASSUME IInv, [Next]_vars PROVE IInv'
  OBVIOUS
<1>1. CASE UNCHANGED vars
  BY <1>1 DEF vars, history, IInv, Shape, Published, Quitting, FindsLoopAlive, HandedOut, Created, Gone
<1>2. CASE Next
  BY <1>2, StartKeeps, DestroyKeeps, LoopKeeps DEF Next, BaseStep
<1> QED
  BY <1>1, <1>2

\* The inductive invariant of EventLoopThread holds in every reachable state.
THEOREM Invariance == Spec => []IInv
<1> QED
  BY InitInv, StepInv, PTL DEF Spec

\* Every loop start() has returned is published, and runs unless somebody has
\* asked it to quit: for every number of threads, and wherever the condition
\* wakes for nothing (EventLoopThread::start).
THEOREM HandsOutLoopsAlways == Spec => []HandsOutLoops
<1>1. IInv => HandsOutLoops
  BY Indices DEF IInv, Shape, Published, Quitting, HandsOutLoops, Alive
<1> QED
  BY <1>1, Invariance, PTL

\* The destructor raises the flag of a loop that is gone only where another has
\* ended that loop (EventLoopThread::~EventLoopThread).
THEOREM FindsLoopAliveAlways == Spec => []FindsLoopAlive
<1>1. IInv => FindsLoopAlive
  BY DEF IInv
<1> QED
  BY <1>1, Invariance, PTL

-----------------------------------------------------------------------------
(* The latch.                                                              *)

\* Both safety properties are inductive with the types: down() only takes the
\* count further from where a sleeper could be.
CountInv == CDTypeOK /\ NobodyPassesEarly /\ NobodySleepsAtZero

WaiterStates == {"idle", "waiting", "woken"}

LEMMA CountInit == CDInit => CountInv
  BY DEF CDInit, CountInv, CDTypeOK, NobodyPassesEarly, NobodySleepsAtZero, Waiting

LEMMA DownKeeps ==
  ASSUME CountInv, Down
  PROVE  CountInv'
<1>1. /\ count \in Int /\ count' \in Counts
      /\ count' = count - 1 /\ passed' = passed
  BY CountDownAssumption DEF Down, CountInv, CDTypeOK
<1>2. NobodyPassesEarly'
  BY <1>1 DEF CountInv, NobodyPassesEarly
<1>3. CASE count' = 0
  <2>1. waiter' = NotifyAll(waiter)
    BY <1>3 DEF Down, releases
  <2>2. waiter' \in [Waiters -> WaiterStates] /\ Waiting(waiter') = {}
    BY <2>1 DEF NotifyAll, Waiting, CountInv, CDTypeOK, WaiterStates
  <2> QED
    BY <1>1, <1>2, <2>2
    DEF CountInv, CDTypeOK, NobodySleepsAtZero, Waiting, WaiterStates
<1>4. CASE count' # 0
  <2>1. waiter' = waiter
    BY <1>4 DEF Down
  <2>2. NobodySleepsAtZero'
    BY <1>1, <1>4, <2>1 DEF CountInv, NobodySleepsAtZero, Waiting
  <2> QED
    BY <1>1, <1>2, <2>1, <2>2 DEF CountInv, CDTypeOK
<1> QED
  BY <1>3, <1>4

LEMMA WaitKeeps ==
  ASSUME CountInv, NEW w \in Waiters, Wait(w)
  PROVE  CountInv'
<1>1. count' = count /\ count \in Int
  BY CountDownAssumption DEF Wait, CountInv, CDTypeOK
<1>2. CASE count > 0
  <2>1. waiter' = [waiter EXCEPT ![w] = "waiting"] /\ passed' = passed
    BY <1>2 DEF Wait, aboveZero
  <2> QED
    BY <1>1, <1>2, <2>1
    DEF CountInv, CDTypeOK, NobodyPassesEarly, NobodySleepsAtZero
<1>3. CASE ~ (count > 0)
  <2>1. waiter' = [waiter EXCEPT ![w] = "idle"] /\ passed' = passed \cup {w}
    BY <1>3 DEF Wait, aboveZero
  <2>2. Waiting(waiter') = {}
    BY <1>3, <2>1 DEF CountInv, CDTypeOK, NobodySleepsAtZero, Waiting
  <2> QED
    BY <1>1, <1>3, <2>1, <2>2
    DEF CountInv, CDTypeOK, NobodyPassesEarly, NobodySleepsAtZero, Waiting
<1> QED
  BY <1>2, <1>3

LEMMA SpuriousKeeps ==
  ASSUME CountInv, CDSpuriousWakeup
  PROVE  CountInv'
<1>1. PICK x \in Waiting(waiter) : waiter' = [waiter EXCEPT ![x] = "woken"]
  BY DEF CDSpuriousWakeup, WakeOne
<1>2. Waiting(waiter') \subseteq Waiting(waiter)
  BY <1>1 DEF Waiting, CountInv, CDTypeOK
<1>3. waiter' \in [Waiters -> WaiterStates]
  BY <1>1 DEF CountInv, CDTypeOK, WaiterStates
<1> QED
  BY <1>2, <1>3
  DEF CDSpuriousWakeup, CountInv, CDTypeOK, NobodyPassesEarly, NobodySleepsAtZero, Waiting,
      WaiterStates

LEMMA CountStep == CountInv /\ [CDNext]_CDVars => CountInv'
<1>1. CountInv /\ UNCHANGED CDVars => CountInv'
  BY DEF CDVars, CountInv, CDTypeOK, NobodyPassesEarly, NobodySleepsAtZero, Waiting
<1> QED
  BY <1>1, DownKeeps, WaitKeeps, SpuriousKeeps DEF CDNext

LEMMA CountInvariance == CDSpec => []CountInv
  BY CountInit, CountStep, PTL DEF CDSpec

\* wait() returns to nobody while the count is above zero, under any spurious
\* wakeups (CountDown::wait), and at and below zero nobody sleeps in it: the one
\* broadcast is enough (CountDown::down), for any number of threads.
THEOREM OpensAtZeroAlways == CDSpec => []OpensAtZero
<1>1. CountInv => OpensAtZero
  BY DEF CountInv, OpensAtZero
<1> QED
  BY <1>1, CountInvariance, PTL

-----------------------------------------------------------------------------
(* BlockingQueue.                                                          *)

TakerStates == {"idle", "waiting", "woken"}

\* The three named facts are inductive together: what push() does for its
\* element depends on who waits, and the counts need the types.
QueueInv == BQTypeOK /\ FifoOnce /\ NoLostWakeup

-----------------------------------------------------------------------------

LEMMA QueueInit == BQInit => QueueInv
<1> SUFFICES ASSUME BQInit PROVE QueueInv
  OBVIOUS
<1>1. BQTypeOK
  BY BlockingQueueAssumption DEF BQInit, BQTypeOK
<1>2. FifoOnce
  BY DEF BQInit, FifoOnce
<1>3. NoLostWakeup
  BY DEF BQInit, NoLostWakeup, Waiting
<1> QED
  BY <1>1, <1>2, <1>3 DEF QueueInv

\* push() adds one element and wakes one of the sleeping takers.
LEMMA PushKeeps ==
  ASSUME QueueInv, Push
  PROVE  QueueInv'
<1> USE DEF QueueInv
<1>1. /\ taker \in [Takers -> TakerStates] /\ "woken" \in TakerStates
      /\ IsFiniteSet(Takers)
  BY BlockingQueueAssumption DEF BQTypeOK, TakerStates
<1>2. taker' \in Notify(taker)
  BY DEF Push, Signal
<1>3. /\ taker' \in [Takers -> TakerStates]
      /\ Waiting(taker') \subseteq Waiting(taker)
      /\ Waiting(taker) # {} =>
           Cardinality(Woken(taker')) = Cardinality(Woken(taker)) + 1
  BY <1>1, <1>2, NotifyCounts
<1>4. /\ queue \in Seq(Items) /\ taken \in Seq(Items)
      /\ pushed \in Nat /\ pushed + 1 \in Items /\ pushed' \in 0 .. MaxItems
  BY BlockingQueueAssumption DEF Push, BQTypeOK, Items
<1>5. BQTypeOK'
  <2>1. queue' \in Seq(Items)
    BY <1>4 DEF Push
  <2> QED
    BY <1>3, <1>4, <2>1 DEF Push, BQTypeOK, TakerStates
<1>6. FifoOnce'
  <2>1. (taken \o queue)' = Append(taken \o queue, pushed + 1)
    BY <1>4, AppendToSecond DEF Push
  <2>2. (taken \o queue)' = Append([i \in 1 .. pushed |-> i], pushed + 1)
    BY <2>1 DEF FifoOnce
  <2>3. pushed' = pushed + 1
    BY DEF Push
  <2> QED
    BY <1>4, <2>2, <2>3, OneMore DEF FifoOnce
<1>7. NoLostWakeup'
  <2>1. SUFFICES ASSUME Waiting(taker') # {}
                 PROVE  Len(queue') <= Cardinality(Woken(taker'))
    BY DEF NoLostWakeup
  <2>2. Waiting(taker) # {}
    BY <1>3, <2>1
  <2>3. Len(queue') = Len(queue) + 1 /\ Len(queue) \in Nat
    BY <1>4 DEF Push
  <2>4. Cardinality(Woken(taker)) \in Nat
    BY <1>1, WokenIsFinite
  <2>5. Len(queue) <= Cardinality(Woken(taker))
    BY <2>2 DEF NoLostWakeup
  <2>6. Cardinality(Woken(taker')) = Cardinality(Woken(taker)) + 1
    BY <1>3, <2>2
  <2> QED
    BY <2>3, <2>4, <2>5, <2>6
<1> QED
  BY <1>5, <1>6, <1>7

\* A taker goes to sleep only in front of an empty queue, and takes away at
\* most one element together with its own wakeup.
LEMMA TakeKeeps ==
  ASSUME QueueInv, NEW c \in Takers, Take(c)
  PROVE  QueueInv'
<1> USE DEF QueueInv
<1>1. /\ taker \in [Takers -> TakerStates] /\ "woken" \in TakerStates
      /\ IsFiniteSet(Takers)
  BY BlockingQueueAssumption DEF BQTypeOK, TakerStates
<1>2. /\ queue \in Seq(Items) /\ taken \in Seq(Items)
      /\ Cardinality(Woken(taker)) \in Nat
  BY <1>1, WokenIsFinite DEF BQTypeOK
<1>3. CASE /\ isEmpty(c)
           /\ taker' = [taker EXCEPT ![c] = "waiting"]
           /\ UNCHANGED <<queue, taken>>
  <2>1. taker' = Move(taker, c, "waiting")
    BY <1>3 DEF Move
  <2>2. taker' \in [Takers -> TakerStates] /\ Cardinality(Woken(taker')) \in Nat
    <3>1. "waiting" \in TakerStates \ {"woken"}
      BY DEF TakerStates
    <3> QED
      BY <1>1, <2>1, <3>1, MoveCounts
  <2>3. BQTypeOK'
    BY <1>3, <2>2 DEF Take, BQTypeOK, TakerStates
  <2>4. FifoOnce'
    BY <1>3 DEF Take, FifoOnce
  <2>5. Len(queue') = 0
    BY <1>3 DEF isEmpty
  <2>6. NoLostWakeup'
    BY <2>2, <2>5 DEF NoLostWakeup
  <2> QED
    BY <2>3, <2>4, <2>6
<1>4. CASE /\ ~ isEmpty(c)
           /\ taken' = Append(taken, front)
           /\ queue' = IF queue = <<>> THEN <<>> ELSE Tail(queue)
           /\ taker' = [taker EXCEPT ![c] = "idle"]
  <2>1. queue # <<>>
    BY <1>4 DEF isEmpty
  <2>2. taken' = Append(taken, Head(queue)) /\ queue' = Tail(queue)
    BY <1>4, <2>1 DEF front, takeFront
  <2>3. taker' = Move(taker, c, "idle")
    BY <1>4 DEF Move
  <2>4. /\ taker' \in [Takers -> TakerStates]
        /\ Waiting(taker') \subseteq Waiting(taker)
        /\ Cardinality(Woken(taker')) \in Nat
        /\ Cardinality(Woken(taker')) >= Cardinality(Woken(taker)) - 1
    <3>1. "idle" \in TakerStates \ {"woken"} /\ "idle" \notin {"waiting"}
      BY DEF TakerStates
    <3> QED
      BY <1>1, <2>3, <3>1, MoveCounts
  <2>5. /\ queue' \in Seq(Items) /\ taken' \in Seq(Items)
        /\ Len(queue') = Len(queue) - 1 /\ Len(queue) \in Nat
    BY <1>2, <2>1, <2>2
  <2>6. BQTypeOK'
    BY <1>4, <2>4, <2>5 DEF Take, BQTypeOK, TakerStates
  <2>7. FifoOnce'
    <3>1. (taken \o queue)' = taken \o queue
      BY <1>2, <2>1, <2>2, MoveHead
    <3> QED
      BY <3>1 DEF Take, FifoOnce
  <2>8. NoLostWakeup'
    <3>1. SUFFICES ASSUME Waiting(taker') # {}
                   PROVE  Len(queue') <= Cardinality(Woken(taker'))
      BY DEF NoLostWakeup
    <3>2. Len(queue) <= Cardinality(Woken(taker))
      BY <2>4, <3>1 DEF NoLostWakeup
    <3> QED
      BY <1>2, <2>4, <2>5, <3>2
  <2> QED
    BY <2>6, <2>7, <2>8
<1> QED
  BY <1>3, <1>4 DEF Take

\* A taker that wakes by itself only adds to the woken ones.
LEMMA TakerWakesKeeps ==
  ASSUME QueueInv, BQSpuriousWakeup
  PROVE  QueueInv'
<1> USE DEF QueueInv
<1>1. /\ taker \in [Takers -> TakerStates] /\ "woken" \in TakerStates
      /\ IsFiniteSet(Takers)
  BY BlockingQueueAssumption DEF BQTypeOK, TakerStates
<1>2. /\ taker' \in [Takers -> TakerStates]
      /\ Waiting(taker) # {}
      /\ Cardinality(Woken(taker')) = Cardinality(Woken(taker)) + 1
  BY <1>1, WakeOneCounts DEF BQSpuriousWakeup
<1>3. BQTypeOK' /\ FifoOnce'
  BY <1>2 DEF BQSpuriousWakeup, BQTypeOK, FifoOnce, TakerStates
<1>4. Len(queue') = Len(queue) /\ Len(queue) \in Nat
  BY DEF BQSpuriousWakeup, BQTypeOK
<1>5. Cardinality(Woken(taker)) \in Nat
  BY <1>1, WokenIsFinite
<1>6. Len(queue) <= Cardinality(Woken(taker))
  BY <1>2 DEF NoLostWakeup
<1>7. NoLostWakeup'
  BY <1>2, <1>4, <1>5, <1>6 DEF NoLostWakeup
<1> QED
  BY <1>3, <1>7

LEMMA QueueStep == QueueInv /\ [BQNext]_BQVars => QueueInv'
<1> SUFFICES ASSUME QueueInv, [BQNext]_BQVars PROVE QueueInv'
  OBVIOUS
<1>1. CASE Push
  BY <1>1, PushKeeps
<1>2. CASE \E c \in Takers : Take(c)
  BY <1>2, TakeKeeps
<1>3. CASE BQSpuriousWakeup
  BY <1>3, TakerWakesKeeps
<1>4. CASE UNCHANGED BQVars
  BY <1>4 DEF BQVars, QueueInv, BQTypeOK, FifoOnce, NoLostWakeup
<1> QED
  BY <1>1, <1>2, <1>3, <1>4 DEF BQNext

\* The types and both properties of push() and take(), in every reachable state.
THEOREM QueueInvariance == BQSpec => []QueueInv
  BY QueueInit, QueueStep, PTL DEF BQSpec

-----------------------------------------------------------------------------

\* Every element leaves in the order of the calls of push(), once, and none
\* is lost, whatever the number of takers (BlockingQueue::push, take).
THEOREM ElementsLeaveInOrder == BQSpec => []FifoOnce
<1>1. QueueInv => FifoOnce
  BY DEF QueueInv
<1> QED
  BY <1>1, QueueInvariance, PTL

\* One notify() per element is enough: no element lies in the queue with all
\* takers asleep (BlockingQueue::push, take).
THEOREM NotifyPerElement == BQSpec => []NoLostWakeup
<1>1. QueueInv => NoLostWakeup
  BY DEF QueueInv
<1> QED
  BY <1>1, QueueInvariance, PTL

-----------------------------------------------------------------------------
(* The queue implements BoundedFifo.                                       *)

\* A queue of the pushed elements: what was pushed is what was taken followed by
\* what is queued, in numbers too.
LEMMA PushedInOrder ==
  ASSUME BQTypeOK, FifoOnce
  PROVE  /\ [i \in 1 .. pushed |-> i] = taken \o queue
         /\ pushed = Len(taken) + Len(queue)
<1> DEFINE s == [i \in 1 .. pushed |-> i]
<1>1. s = taken \o queue
  BY DEF FifoOnce
<1>2. Len(s) = pushed /\ pushed \in Nat
  BY BlockingQueueAssumption DEF BQTypeOK
<1>3. Len(taken \o queue) = Len(taken) + Len(queue)
  BY DEF BQTypeOK
<1> QED
  BY <1>1, <1>2, <1>3

LEMMA FifoPush ==
  ASSUME QueueInv, Push
  PROVE  Fifo!Put
<1> DEFINE s == [i \in 1 .. pushed |-> i]
           t == [i \in 1 .. pushed' |-> i]
<1>1. pushed \in Nat /\ pushed' = pushed + 1 /\ pushed + 1 \in Items
  BY BlockingQueueAssumption DEF Push, QueueInv, BQTypeOK, Items
<1>2. t = Append(s, pushed + 1)
  BY <1>1, OneMore
<1>3. Len(s) = pushed /\ Len(taken) \in Nat /\ pushed < MaxItems
  BY <1>1 DEF Push, QueueInv, BQTypeOK
<1>4. Len(s) < Len(taken) + MaxItems
  BY <1>1, <1>3, BlockingQueueAssumption
<1>5. UNCHANGED <<MaxItems, taken>>
  BY DEF Push
<1> HIDE DEF s, t
<1>6. \E x \in Items : t = Append(s, x)
  BY <1>1, <1>2
<1> QED
  BY <1>4, <1>5, <1>6 DEF Fifo!Put, s, t

LEMMA FifoTake ==
  ASSUME QueueInv, NEW c \in Takers, Take(c)
  PROVE  Fifo!Get \/ UNCHANGED Fifo!vars
<1>1. CASE isEmpty(c)
  BY <1>1 DEF Take, Fifo!vars
<1>2. CASE ~ isEmpty(c)
  <2>1. /\ queue # <<>> /\ taken' = Append(taken, Head(queue))
        /\ UNCHANGED pushed
    BY <1>2 DEF Take, isEmpty, front, takeFront
  <2>2. taken \in Seq(Items) /\ queue \in Seq(Items)
    BY DEF QueueInv, BQTypeOK
  <2> DEFINE s == [i \in 1 .. pushed |-> i]
  <2>3. s = taken \o queue
    BY PushedInOrder DEF QueueInv
  <2>4. UNCHANGED s
    BY <2>1
  <2> HIDE DEF s
  <2>5. Len(taken) < Len(s) /\ s[Len(taken) + 1] = Head(queue)
    BY <2>1, <2>2, <2>3
  <2> QED
    BY <2>1, <2>4, <2>5 DEF Fifo!Get, s
<1> QED
  BY <1>1, <1>2

\* The queue under its mutex and condition is the queue without them: push()
\* puts an element in, take() takes the oldest out, everything else leaves it
\* alone, for any number of takers (BlockingQueue::push, take).
THEOREM QueueImplementsFifo == BQSpec => ImplementsFifo
<1>1. BQInit => Fifo!Init
  <2>1. [i \in 1 .. 0 |-> i] = <<>>
    OBVIOUS
  <2> QED
    BY <2>1, BlockingQueueAssumption DEF BQInit, Fifo!Init
<1>2. QueueInv /\ [BQNext]_BQVars => [Fifo!Next]_(Fifo!vars)
  <2> SUFFICES ASSUME QueueInv, [BQNext]_BQVars PROVE [Fifo!Next]_(Fifo!vars)
    OBVIOUS
  <2>1. CASE Push
    BY <2>1, FifoPush DEF Fifo!Next
  <2>2. CASE \E c \in Takers : Take(c)
    BY <2>2, FifoTake DEF Fifo!Next
  <2>3. CASE BQSpuriousWakeup \/ UNCHANGED BQVars
    BY <2>3 DEF BQSpuriousWakeup, BQVars, Fifo!vars
  <2> QED
    BY <2>1, <2>2, <2>3 DEF BQNext
<1> QED
  BY <1>1, <1>2, QueueInvariance, PTL DEF BQSpec, ImplementsFifo, Fifo!Spec

=============================================================================
