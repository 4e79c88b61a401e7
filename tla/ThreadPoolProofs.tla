--------------------------- MODULE ThreadPoolProofs ---------------------------
(***************************************************************************)
(* Theorems about module ThreadPool, for every number of callers, threads, *)
(* tasks and starts, and for every set of tasks that throw.                *)
(***************************************************************************)
EXTENDS ThreadPool, SharedLemmas

\* What a thread is about to store or run is a task.
Held ==
  /\ \A c \in Callers : caller[c] # "idle" => arg[c] \in Tasks
  /\ \A w \in Slots : worker[w] = "exec" => hand[w] \in Tasks

TypeInv == TypeOK /\ Held

LEMMA SlotsAreFinite == IsFiniteSet(Slots)
  BY ThreadPoolAssumption, FS_Interval DEF Slots

\* The callers blocked in run() are finitely many, so submitted is a number.
LEMMA SubmittedType ==
  ASSUME TypeOK
  PROVE  submitted \in Nat
<1> DEFINE S == {c \in Callers : caller[c] \in {"waiting", "woken"}}
<1>1. Cardinality(S) \in Nat
  <2>1. S \in SUBSET Callers
    OBVIOUS
  <2> QED
    BY <2>1, ThreadPoolAssumption, FS_Subset, FS_CardinalityType
<1>2. Len(accepted) \in Nat
  BY DEF TypeOK
<1> HIDE DEF S
<1>3. Len(accepted) + Cardinality(S) \in Nat
  BY <1>1, <1>2
<1> QED
  BY <1>3 DEF submitted, S

\* What the conditions do to the control states of the pool's threads.
LEMMA WorkersWake ==
  ASSUME TypeOK, worker' \in Notify(worker) \/ worker' \in WakeOne(worker)
  PROVE  /\ worker' \in [Slots -> WorkerStates]
         /\ Waiting(worker') \subseteq Waiting(worker)
         /\ Waiting(worker) # {} =>
              Cardinality(Woken(worker')) = Cardinality(Woken(worker)) + 1
         /\ \A w \in Slots : \/ worker'[w] = worker[w]
                             \/ worker[w] = "waiting" /\ worker'[w] = "woken"
<1>1. worker \in [Slots -> WorkerStates] /\ "woken" \in WorkerStates
  BY DEF TypeOK, WorkerStates
<1>2. CASE worker' \in Notify(worker)
  BY <1>1, <1>2, SlotsAreFinite, NotifyCounts
<1>3. CASE worker' \in WakeOne(worker)
  BY <1>1, <1>3, SlotsAreFinite, WakeOneCounts
<1> QED
  BY <1>2, <1>3

LEMMA CallersWake ==
  ASSUME TypeOK, caller' \in Notify(caller) \/ caller' \in WakeOne(caller)
  PROVE  /\ caller' \in [Callers -> CallerStates]
         /\ Waiting(caller') \subseteq Waiting(caller)
         /\ Waiting(caller) # {} =>
              Cardinality(Woken(caller')) = Cardinality(Woken(caller)) + 1
         /\ \A c \in Callers : \/ caller'[c] = caller[c]
                               \/ caller[c] = "waiting" /\ caller'[c] = "woken"
<1>1. caller \in [Callers -> CallerStates] /\ "woken" \in CallerStates
  BY DEF TypeOK, CallerStates
<1>2. CASE caller' \in Notify(caller)
  BY <1>1, <1>2, ThreadPoolAssumption, NotifyCounts
<1>3. CASE caller' \in WakeOne(caller)
  BY <1>1, <1>3, ThreadPoolAssumption, WakeOneCounts
<1> QED
  BY <1>2, <1>3

LEMMA WorkersAllWake ==
  ASSUME TypeOK, WakeWorkers
  PROVE  /\ worker' \in [Slots -> WorkerStates]
         /\ Waiting(worker') = {}
         /\ \A w \in Slots : \/ worker'[w] = worker[w]
                             \/ worker[w] = "waiting" /\ worker'[w] = "woken"
<1>1. worker \in [Slots -> WorkerStates] /\ "woken" \in WorkerStates
  BY DEF TypeOK, WorkerStates
<1>2. worker' = NotifyAll(worker)
  BY DEF WakeWorkers
<1> QED
  BY <1>1, <1>2, NotifyAllWakes

LEMMA TypeInit == Init => TypeInv
<1> SUFFICES ASSUME Init PROVE TypeInv
  OBVIOUS
<1>1. index \in 1 .. (MaxThreads + 1) /\ starts \in 0 .. MaxStarts
  BY ThreadPoolAssumption DEF Init
<1>2. /\ worker \in [Slots -> WorkerStates] /\ caller \in [Callers -> CallerStates]
      /\ hand \in [Slots -> Tasks \cup {NoTask}]
      /\ arg \in [Callers -> Tasks \cup {NoTask}]
  BY DEF Init, WorkerStates, CallerStates
<1>3. tasks \in Seq(Tasks) /\ accepted \in Seq(Tasks) /\ started \in Seq(Tasks)
  BY DEF Init
<1>4. Held
  BY DEF Init, Held
<1>5. /\ maxNum \in 0 .. MaxThreads /\ isRunning \in BOOLEAN
      /\ underflow \in BOOLEAN /\ aborted \in BOOLEAN
      /\ owner \in OwnerStates /\ executed \subseteq Tasks
  BY DEF Init, OwnerStates
<1> QED
  BY <1>1, <1>2, <1>3, <1>4, <1>5 DEF TypeInv, TypeOK

\* The steps of the owner keep the types.
LEMMA TypeOwner ==
  ASSUME TypeInv, Start \/ Stop \/ OwnerStep
  PROVE  TypeInv'
<1> USE ThreadPoolAssumption DEF TypeInv
<1>1. CASE Start
  BY <1>1 DEF Start, TypeOK, Held, threads, calls, history, OwnerStates
<1>2. CASE Stop
  <2>1. /\ worker' \in [Slots -> WorkerStates]
        /\ \A w \in Slots : worker'[w] = "exec" => worker[w] = "exec"
    BY <1>2, WorkersAllWake DEF Stop
  <2>2. index' \in 1 .. (MaxThreads + 1)
    BY <1>2 DEF Stop
  <2> QED
    BY <1>2, <2>1, <2>2 DEF Stop, TypeOK, Held, calls, history, OwnerStates
<1>3. CASE CreateThread
  <2>1. index \in Slots
    BY <1>3 DEF CreateThread, NextThread, TypeOK, Slots
  <2>2. index' \in 1 .. (MaxThreads + 1)
    BY <1>3, <2>1 DEF CreateThread, TypeOK, Slots
  <2>3. worker' \in [Slots -> WorkerStates] /\ aborted' \in BOOLEAN
    BY <1>3, <2>1 DEF CreateThread, TypeOK, WorkerStates
  <2>4. Held'
    BY <1>3, <2>1 DEF CreateThread, TypeOK, Held, calls
  <2> QED
    BY <1>3, <2>2, <2>3, <2>4 DEF CreateThread, TypeOK, calls, history
<1>4. CASE JoinThread
  <2>1. index \in Slots
    BY <1>4 DEF JoinThread, NextThread, TypeOK, Slots
  <2>2. index' \in 1 .. (MaxThreads + 1)
    BY <1>4, <2>1 DEF JoinThread, TypeOK, Slots
  <2>3. worker' \in [Slots -> WorkerStates]
    BY <1>4, <2>1 DEF JoinThread, TypeOK, WorkerStates
  <2>4. Held'
    BY <1>4, <2>1 DEF JoinThread, TypeOK, Held, calls
  <2> QED
    BY <1>4, <2>2, <2>3, <2>4 DEF JoinThread, TypeOK, calls, history
<1>5. CASE LoopEnds
  BY <1>5 DEF LoopEnds, TypeOK, Held, threads, calls, history, OwnerStates
<1> QED
  BY <1>1, <1>2, <1>3, <1>4, <1>5 DEF OwnerStep

\* Queueing a task, or waiting for a place, keeps the types.
LEMMA TypeEnterQueue ==
  ASSUME TypeInv, NEW c \in Callers, NEW t \in Tasks, EnterQueue(c, t)
  PROVE  TypeInv'
<1> USE DEF TypeInv
<1>1. CASE PushFront(t) /\ SignalWorker
           /\ caller' = [caller EXCEPT ![c] = "idle"]
           /\ arg' = [arg EXCEPT ![c] = NoTask]
           /\ accepted' = Append(accepted, t)
  <2>1. /\ worker' \in [Slots -> WorkerStates]
        /\ \A w \in Slots : worker'[w] = "exec" => worker[w] = "exec"
    BY <1>1, WorkersWake DEF SignalWorker
  <2>2. tasks' \in Seq(Tasks) /\ accepted' \in Seq(Tasks)
    BY <1>1 DEF PushFront, TypeOK
  <2>3. caller' \in [Callers -> CallerStates]
    BY <1>1 DEF TypeOK, CallerStates
  <2> QED
    BY <1>1, <2>1, <2>2, <2>3 DEF EnterQueue, TypeOK, Held, owners
<1>2. CASE /\ caller' = [caller EXCEPT ![c] = "waiting"]
           /\ arg' = [arg EXCEPT ![c] = t]
           /\ UNCHANGED <<tasks, worker, accepted>>
  BY <1>2 DEF EnterQueue, TypeOK, Held, owners, CallerStates
<1> QED
  BY <1>1, <1>2 DEF EnterQueue

\* The steps of a caller keep the types.
LEMMA TypeCaller ==
  ASSUME TypeInv, NEW c \in Callers, Run(c) \/ RunInline(c) \/ CallerStep(c)
  PROVE  TypeInv'
<1> USE DEF TypeInv
<1>1. CASE Run(c)
  <2>1. submitted + 1 \in Tasks
    BY <1>1, SubmittedType, ThreadPoolAssumption DEF Run, Tasks
  <2> QED
    BY <1>1, <2>1, TypeEnterQueue DEF Run
<1>2. CASE RunInline(c)
  <2> DEFINE t == submitted + 1
  <2>1. t \in Tasks
    BY <1>2, SubmittedType, ThreadPoolAssumption DEF RunInline, Tasks
  <2>2. /\ arg' = [arg EXCEPT ![c] = t]
        /\ accepted' = Append(accepted, t) /\ started' = Append(started, t)
    BY <1>2 DEF RunInline
  <2> HIDE DEF t
  <2>3. /\ arg' \in [Callers -> Tasks \cup {NoTask}]
        /\ accepted' \in Seq(Tasks) /\ started' \in Seq(Tasks)
    BY <2>1, <2>2 DEF TypeOK
  <2> QED
    BY <1>2, <2>1, <2>2, <2>3
    DEF RunInline, TypeOK, Held, owners, threads, CallerStates
<1>3. CASE RunResume(c)
  BY <1>3, TypeEnterQueue DEF RunResume, Held
<1>4. CASE InlineReturns(c)
  BY <1>4
  DEF InlineReturns, TypeOK, Held, owners, threads, CallerStates, Tasks
<1> QED
  BY <1>1, <1>2, <1>3, <1>4 DEF CallerStep

\* What SignalCaller leaves of the type of caller and arg.
LEMMA TypeSignalCaller ==
  ASSUME TypeInv, SignalCaller
  PROVE  /\ caller' \in [Callers -> CallerStates]
         /\ \A c \in Callers : caller'[c] # "idle" => caller[c] # "idle"
  BY CallersWake DEF SignalCaller, TypeInv

\* The steps of a worker keep the types.
LEMMA TypeWorker ==
  ASSUME TypeInv, NEW w \in Slots, WorkerStep(w)
  PROVE  TypeInv'
<1> USE DEF TypeInv
<1>1. CASE TestRunning(w)
  BY <1>1
  DEF TestRunning, TypeOK, Held, owners, calls, history, WorkerStates
<1>2. CASE Wait(w)
  BY <1>2 DEF Wait, TypeOK, Held, owners, calls, history, WorkerStates
<1>3. CASE Take(w)
  <2>1. Head(tasks) \in Tasks /\ Tail(tasks) \in Seq(Tasks)
    BY <1>3 DEF Take, TypeOK
  <2>2. /\ tasks' \in Seq(Tasks) /\ started' \in Seq(Tasks)
        /\ worker' \in [Slots -> WorkerStates]
        /\ hand' \in [Slots -> Tasks \cup {NoTask}]
    BY <1>3, <2>1 DEF Take, PopBack, TypeOK, WorkerStates
  <2>3. /\ caller' \in [Callers -> CallerStates]
        /\ \A c \in Callers : caller'[c] # "idle" => caller[c] # "idle"
    BY <1>3, TypeSignalCaller DEF Take
  <2>4. Held'
    BY <1>3, <2>1, <2>3 DEF Take, Held, TypeOK
  <2> QED
    BY <1>3, <2>2, <2>3, <2>4 DEF Take, TypeOK, owners
<1>4. CASE TakeFromEmpty(w)
  <2>1. CASE UNCHANGED <<worker, hand, caller>> /\ aborted'
    BY <1>4, <2>1 DEF TakeFromEmpty, TypeOK, Held, owners, history
  <2>2. CASE /\ worker' = [worker EXCEPT ![w] = "test"]
             /\ SignalCaller /\ UNCHANGED <<hand, aborted>>
    BY <1>4, <2>2, TypeSignalCaller
    DEF TakeFromEmpty, TypeOK, Held, owners, history, WorkerStates
  <2>3. CASE /\ \E i \in DOMAIN started : hand' = [hand EXCEPT ![w] = started[i]]
             /\ worker' = [worker EXCEPT ![w] = "exec"]
             /\ SignalCaller /\ UNCHANGED aborted
    <3>1. PICK i \in DOMAIN started : hand' = [hand EXCEPT ![w] = started[i]]
      BY <2>3
    <3>2. started[i] \in Tasks
      BY <3>1 DEF TypeOK
    <3> QED
      BY <1>4, <2>3, <3>1, <3>2, TypeSignalCaller
      DEF TakeFromEmpty, TypeOK, Held, owners, history, WorkerStates
  <2> QED
    BY <1>4, <2>1, <2>2, <2>3 DEF TakeFromEmpty
<1>5. CASE Execute(w)
  BY <1>5
  DEF Execute, AfterTask, TypeOK, Held, owners, calls, WorkerStates
<1> QED
  BY <1>1, <1>2, <1>3, <1>4, <1>5 DEF WorkerStep

LEMMA TypeSpurious ==
  ASSUME TypeInv, SpuriousWakeup
  PROVE  TypeInv'
<1> USE DEF TypeInv
<1>1. CASE worker' \in WakeOne(worker) /\ UNCHANGED caller
  <2>1. /\ worker' \in [Slots -> WorkerStates]
        /\ \A w \in Slots : worker'[w] = "exec" => worker[w] = "exec"
    BY <1>1, WorkersWake
  <2> QED
    BY <1>1, <2>1 DEF SpuriousWakeup, TypeOK, Held, owners, history
<1>2. CASE caller' \in WakeOne(caller) /\ UNCHANGED worker
  <2>1. /\ caller' \in [Callers -> CallerStates]
        /\ \A c \in Callers : caller'[c] # "idle" => caller[c] # "idle"
    BY <1>2, CallersWake
  <2> QED
    BY <1>2, <2>1 DEF SpuriousWakeup, TypeOK, Held, owners, history
<1> QED
  BY <1>1, <1>2 DEF SpuriousWakeup

LEMMA TypeStep == TypeInv /\ [Next]_vars => TypeInv'
<1> SUFFICES ASSUME TypeInv, [Next]_vars PROVE TypeInv'
  OBVIOUS
<1>1. CASE UNCHANGED vars
  BY <1>1
  DEF TypeInv, TypeOK, Held, vars, owners, threads, calls, history
<1>2. CASE Next
  BY <1>2, TypeOwner, TypeCaller, TypeWorker, TypeSpurious DEF Next
<1> QED
  BY <1>1, <1>2

\* The variables keep their types, the queue holds tasks only, and every
\* number of a task that a thread is about to queue or run is the number of a
\* call of run() (ThreadPool.cpp, run() and loop()).
THEOREM TypeCorrect == Spec => []TypeOK
<1>1. Spec => []TypeInv
  BY TypeInit, TypeStep, PTL DEF Spec
<1>2. TypeInv => TypeOK
  BY DEF TypeInv
<1> QED
  BY <1>1, <1>2, PTL

-----------------------------------------------------------------------------
(* The deque.                                                              *)

\* A popped empty deque stays empty: run() takes it for full.
UnderflowEmpties == underflow => tasks = <<>>

QueueInv == FifoOrder /\ Bounded /\ UnderflowEmpties

\* A step that leaves the deque and its histories alone.
LEMMA QueueUnchanged ==
  ASSUME QueueInv, UNCHANGED <<maxNum, tasks, underflow, accepted, started>>
  PROVE  QueueInv'
  BY DEF QueueInv, FifoOrder, Bounded, UnderflowEmpties

LEMMA QueueInit == Init => QueueInv
  BY DEF Init, QueueInv, FifoOrder, Bounded, UnderflowEmpties

\* A task is pushed only when there is a place, at the end of what was accepted.
LEMMA QueueEnter ==
  ASSUME TypeInv, QueueInv, NEW c \in Callers, NEW t \in Tasks, EnterQueue(c, t)
  PROVE  QueueInv'
<1>1. CASE isFull
  BY <1>1, QueueUnchanged DEF EnterQueue, owners
<1>2. CASE ~ isFull
  <2>1. /\ tasks' = Append(tasks, t) /\ accepted' = Append(accepted, t)
        /\ ~ underflow /\ Len(tasks) < maxNum
        /\ UNCHANGED <<maxNum, underflow, started>>
    BY <1>2 DEF EnterQueue, PushFront, isFull, owners, TypeInv, TypeOK
  <2>2. FifoOrder'
    <3>1. started \in Seq(Tasks) /\ tasks \in Seq(Tasks)
      BY DEF TypeInv, TypeOK
    <3>2. Append(started \o tasks, t) = started \o Append(tasks, t)
      BY <3>1
    <3> QED
      BY <2>1, <3>2 DEF FifoOrder, QueueInv
  <2>3. Bounded'
    BY <2>1 DEF Bounded, TypeInv, TypeOK
  <2> QED
    BY <2>1, <2>2, <2>3 DEF QueueInv, UnderflowEmpties
<1> QED
  BY <1>1, <1>2

LEMMA QueueCaller ==
  ASSUME TypeInv, QueueInv, NEW c \in Callers,
         Run(c) \/ RunInline(c) \/ CallerStep(c)
  PROVE  QueueInv'
<1>1. CASE Run(c)
  <2>1. submitted + 1 \in Tasks
    BY <1>1, SubmittedType, ThreadPoolAssumption DEF Run, Tasks, TypeInv
  <2> QED
    BY <1>1, <2>1, QueueEnter DEF Run
<1>2. CASE RunInline(c)
  <2> DEFINE t == submitted + 1
  <2>1. t \in Tasks
    BY <1>2, SubmittedType, ThreadPoolAssumption DEF RunInline, Tasks, TypeInv
  <2>2. tasks = <<>>
    BY <1>2 DEF RunInline, QueueInv, Bounded, TypeInv, TypeOK
  <2>3. /\ accepted' = Append(accepted, t) /\ started' = Append(started, t)
        /\ UNCHANGED <<maxNum, tasks, underflow>>
    BY <1>2 DEF RunInline, owners
  <2> HIDE DEF t
  <2>4. accepted = started
    BY <2>2 DEF QueueInv, FifoOrder, TypeInv, TypeOK
  <2>5. started' \in Seq(Tasks)
    BY <2>1, <2>3 DEF TypeInv, TypeOK
  <2> QED
    BY <2>2, <2>3, <2>4, <2>5 DEF QueueInv, FifoOrder, Bounded, UnderflowEmpties
<1>3. CASE RunResume(c)
  BY <1>3, QueueEnter DEF RunResume, TypeInv, Held
<1>4. CASE InlineReturns(c)
  BY <1>4, QueueUnchanged DEF InlineReturns, owners
<1> QED
  BY <1>1, <1>2, <1>3, <1>4 DEF CallerStep

LEMMA QueueWorker ==
  ASSUME TypeInv, QueueInv, NEW w \in Slots, WorkerStep(w)
  PROVE  QueueInv'
<1>1. CASE Take(w)
  <2>1. /\ started' = Append(started, Head(tasks)) /\ tasks' = Tail(tasks)
        /\ tasks # <<>> /\ ~ underflow
        /\ UNCHANGED <<maxNum, underflow, accepted>>
    BY <1>1 DEF Take, PopBack, owners
  <2>2. FifoOrder'
    <3>1. started \in Seq(Tasks) /\ tasks \in Seq(Tasks)
      BY DEF TypeInv, TypeOK
    <3>2. started \o tasks = Append(started, Head(tasks)) \o Tail(tasks)
      BY <2>1, <3>1, MoveHead
    <3> QED
      BY <2>1, <3>2 DEF FifoOrder, QueueInv
  <2>3. Bounded'
    BY <2>1 DEF Bounded, QueueInv, TypeInv, TypeOK
  <2> QED
    BY <2>1, <2>2, <2>3 DEF QueueInv, UnderflowEmpties
<1>2. CASE TakeFromEmpty(w)
  <2>1. tasks = <<>>
    BY <1>2 DEF TakeFromEmpty, PopsNothing, isEmpty, QueueInv, UnderflowEmpties
  <2> QED
    BY <1>2, <2>1
    DEF TakeFromEmpty, QueueInv, FifoOrder, Bounded, UnderflowEmpties, owners,
        history
<1>3. CASE TestRunning(w) \/ Wait(w) \/ Execute(w)
  BY <1>3, QueueUnchanged DEF TestRunning, Wait, Execute, owners, history
<1> QED
  BY <1>1, <1>2, <1>3 DEF WorkerStep

LEMMA QueueStep == TypeInv /\ QueueInv /\ [Next]_vars => QueueInv'
<1> SUFFICES ASSUME TypeInv, QueueInv, [Next]_vars PROVE QueueInv'
  OBVIOUS
<1>1. CASE Start \/ Stop \/ OwnerStep
  BY <1>1, QueueUnchanged
  DEF Start, Stop, OwnerStep, CreateThread, JoinThread, LoopEnds, history
<1>2. CASE SpuriousWakeup
  BY <1>2, QueueUnchanged DEF SpuriousWakeup, owners, history
<1>3. CASE UNCHANGED vars
  BY <1>3, QueueUnchanged DEF vars, owners, history
<1> QED
  BY <1>1, <1>2, <1>3, QueueCaller, QueueWorker DEF Next

LEMMA QueueAlways == Spec => [](TypeInv /\ QueueInv)
<1>1. Init => TypeInv /\ QueueInv
  BY TypeInit, QueueInit
<1>2. TypeInv /\ QueueInv /\ [Next]_vars => (TypeInv /\ QueueInv)'
  BY TypeStep, QueueStep
<1> QED
  BY <1>1, <1>2, PTL DEF Spec

\* The deque is a first-in first-out queue of what run() accepted: push_front
\* and back()/pop_back() start the tasks in the order they were accepted and
\* skip none, under every interleaving of callers, workers and the owner.
THEOREM TasksStartInOrder == Spec => []FifoOrder
<1>1. TypeInv /\ QueueInv => FifoOrder
  BY DEF QueueInv
<1> QED
  BY <1>1, QueueAlways, PTL

\* The while around _notFull.wait() holds the deque within _maxNum, however
\* many callers push between a caller's wakeup and its return from wait().
THEOREM DequeIsBounded == Spec => []Bounded
<1>1. TypeInv /\ QueueInv => Bounded
  BY DEF QueueInv
<1> QED
  BY <1>1, QueueAlways, PTL

\* A step of the pool that leaves the histories alone is a stutter of the queue.
LEMMA FifoStutters ==
  ASSUME UNCHANGED <<maxNum, accepted, started>>
  PROVE  UNCHANGED Fifo!vars
  BY DEF Fifo!vars

\* A task that is accepted is put into the queue, which has a place for it.
LEMMA FifoEnter ==
  ASSUME TypeInv, QueueInv, NEW c \in Callers, NEW t \in Tasks, EnterQueue(c, t)
  PROVE  [Fifo!Next]_(Fifo!vars)
<1>1. CASE isFull
  BY <1>1, FifoStutters DEF EnterQueue, owners
<1>2. CASE ~ isFull
  <2>1. /\ accepted' = Append(accepted, t)
        /\ Len(tasks) < maxNum
        /\ UNCHANGED <<maxNum, started>>
    BY <1>2 DEF EnterQueue, isFull, owners, TypeInv, TypeOK
  <2>2. Len(accepted) = Len(started) + Len(tasks)
    BY DEF QueueInv, FifoOrder, TypeInv, TypeOK
  <2>3. Len(accepted) < Len(started) + maxNum
    BY <2>1, <2>2 DEF TypeInv, TypeOK
  <2> QED
    BY <2>1, <2>3 DEF Fifo!Next, Fifo!Put
<1> QED
  BY <1>1, <1>2

LEMMA FifoCaller ==
  ASSUME TypeInv, QueueInv, NEW c \in Callers,
         Run(c) \/ RunInline(c) \/ CallerStep(c)
  PROVE  [Fifo!Next]_(Fifo!vars)
<1>1. CASE Run(c)
  <2>1. submitted + 1 \in Tasks
    BY <1>1, SubmittedType, ThreadPoolAssumption DEF Run, Tasks, TypeInv
  <2> QED
    BY <1>1, <2>1, FifoEnter DEF Run
<1>2. CASE RunInline(c)
  <2> DEFINE t == submitted + 1
  <2>1. t \in Tasks
    BY <1>2, SubmittedType, ThreadPoolAssumption DEF RunInline, Tasks, TypeInv
  <2>2. tasks = <<>>
    BY <1>2 DEF RunInline, QueueInv, Bounded, TypeInv, TypeOK
  <2>3. /\ accepted' = Append(accepted, t) /\ started' = Append(started, t)
        /\ UNCHANGED maxNum
    BY <1>2 DEF RunInline, owners
  <2> HIDE DEF t
  <2>4. accepted = started
    BY <2>2 DEF QueueInv, FifoOrder, TypeInv, TypeOK
  <2> QED
    BY <2>1, <2>3, <2>4 DEF Fifo!Next, Fifo!Pass
<1>3. CASE RunResume(c)
  BY <1>3, FifoEnter DEF RunResume, TypeInv, Held
<1>4. CASE InlineReturns(c)
  BY <1>4, FifoStutters DEF InlineReturns, owners
<1> QED
  BY <1>1, <1>2, <1>3, <1>4 DEF CallerStep

\* back() of the deque is the oldest task that was accepted and not started.
LEMMA FifoWorker ==
  ASSUME TypeInv, QueueInv, NEW w \in Slots, WorkerStep(w)
  PROVE  [Fifo!Next]_(Fifo!vars)
<1>1. CASE Take(w)
  <2>1. /\ started' = Append(started, Head(tasks)) /\ tasks # <<>>
        /\ UNCHANGED <<maxNum, accepted>>
    BY <1>1 DEF Take, owners
  <2>2. started \in Seq(Tasks) /\ tasks \in Seq(Tasks) /\ accepted = started \o tasks
    BY DEF QueueInv, FifoOrder, TypeInv, TypeOK
  <2>3. Len(started) < Len(accepted) /\ Head(tasks) = accepted[Len(started) + 1]
    BY <2>1, <2>2
  <2> QED
    BY <2>1, <2>3 DEF Fifo!Next, Fifo!Get
<1>2. CASE TestRunning(w) \/ Wait(w) \/ TakeFromEmpty(w) \/ Execute(w)
  BY <1>2, FifoStutters
  DEF TestRunning, Wait, TakeFromEmpty, Execute, owners, history
<1> QED
  BY <1>1, <1>2 DEF WorkerStep

\* The pool implements the bounded queue: each step of a caller, a worker or the
\* owner puts one task in, takes the oldest out, passes one through (a pool of no
\* threads), or does nothing to it (ThreadPool::run, loop).
THEOREM PoolImplementsFifo == Spec => ImplementsFifo
<1>1. Init => Fifo!Init
  BY ThreadPoolAssumption DEF Init, Fifo!Init
<1>2. TypeInv /\ QueueInv /\ [Next]_vars => [Fifo!Next]_(Fifo!vars)
  <2> SUFFICES ASSUME TypeInv, QueueInv, [Next]_vars
               PROVE  [Fifo!Next]_(Fifo!vars)
    OBVIOUS
  <2>1. CASE Start \/ Stop \/ OwnerStep
    BY <2>1, FifoStutters
    DEF Start, Stop, OwnerStep, CreateThread, JoinThread, LoopEnds, history
  <2>2. CASE SpuriousWakeup \/ UNCHANGED vars
    BY <2>2, FifoStutters DEF SpuriousWakeup, vars, owners, history
  <2> QED
    BY <2>1, <2>2, FifoCaller, FifoWorker DEF Next
<1> QED
  BY <1>1, <1>2, QueueAlways, PTL DEF Spec, ImplementsFifo, Fifo!Spec

-----------------------------------------------------------------------------
(* The owner and the threads it created.                                   *)

\* Which threads exist while start() and stop() go through _threads, and that
\* _isRunning is lowered from stop() on.
OwnerInv ==
  /\ \A w \in Slots : w > maxNum => worker[w] = "none"
  /\ owner \in {"new", "down"} => \A w \in Slots : worker[w] = "none"
  /\ owner = "starting" => \A w \in Slots : w >= index => worker[w] = "none"
  /\ owner = "joining" =>
       ~ isRunning /\ \A w \in Slots : w < index => worker[w] = "none"
  /\ ~ isRunning => owner \notin {"starting", "up"}

LEMMA OwnerInit == Init => OwnerInv
  BY DEF Init, OwnerInv

\* No step but the owner's own creates or ends a thread.
LEMMA OwnerUnmoved ==
  ASSUME OwnerInv, UNCHANGED <<maxNum, isRunning, owner, index>>,
         \A w \in Slots : worker[w] = "none" => worker'[w] = "none"
  PROVE  OwnerInv'
  BY DEF OwnerInv

LEMMA OwnerInvOwner ==
  ASSUME TypeInv, OwnerInv, Start \/ Stop \/ OwnerStep
  PROVE  OwnerInv'
<1> USE DEF TypeInv, OwnerInv
<1>1. CASE Start
  BY <1>1 DEF Start, threads, Slots
<1>2. CASE Stop
  <2>1. \A w \in Slots : worker[w] = "none" => worker'[w] = "none"
    BY <1>2, WorkersAllWake DEF Stop
  <2> QED
    BY <1>2, <2>1 DEF Stop, Slots
<1>3. CASE CreateThread
  <2>1. /\ worker \in [Slots -> WorkerStates] /\ Slots \subseteq Nat
        /\ maxNum \in Nat /\ index \in Nat /\ index <= maxNum
    BY <1>3 DEF TypeOK, Slots, CreateThread, NextThread
  <2>2. /\ owner = "starting" /\ isRunning
        /\ UNCHANGED <<maxNum, isRunning, owner>>
    BY <1>3 DEF CreateThread
  <2>3. CASE index' = index + 1 /\ worker' = [worker EXCEPT ![index] = "test"]
    BY <2>1, <2>2, <2>3
  <2>4. CASE UNCHANGED <<worker, index>>
    BY <2>2, <2>4
  <2> QED
    BY <1>3, <2>3, <2>4 DEF CreateThread
<1>5. CASE JoinThread
  <2>1. /\ worker \in [Slots -> WorkerStates] /\ Slots \subseteq Nat
        /\ maxNum \in Nat /\ index \in Nat /\ index <= maxNum
    BY <1>5 DEF TypeOK, Slots, JoinThread, NextThread
  <2>2. /\ owner = "joining" /\ ~ isRunning
        /\ UNCHANGED <<maxNum, isRunning, owner>>
        /\ index' = index + 1 /\ worker' = [worker EXCEPT ![index] = "none"]
    BY <1>5 DEF JoinThread
  <2> QED
    BY <2>1, <2>2
<1>4. CASE LoopEnds
  <2>1. maxNum \in Nat /\ index \in Nat
    BY DEF TypeOK
  <2> QED
    BY <1>4, <2>1 DEF LoopEnds, NextThread, threads, Slots
<1> QED
  BY <1>1, <1>2, <1>3, <1>4, <1>5 DEF OwnerStep

LEMMA OwnerInvStep == TypeInv /\ OwnerInv /\ [Next]_vars => OwnerInv'
<1> SUFFICES ASSUME TypeInv, OwnerInv, [Next]_vars PROVE OwnerInv'
  OBVIOUS
<1>1. ASSUME NEW c \in Callers, Run(c) \/ RunInline(c) \/ CallerStep(c)
      PROVE  OwnerInv'
  <2>1. UNCHANGED <<maxNum, isRunning, owner, index>>
    BY <1>1
    DEF Run, RunInline, CallerStep, RunResume, InlineReturns, EnterQueue, owners
  <2>2. worker' \in Notify(worker) \/ worker' = worker
    BY <1>1
    DEF Run, RunInline, CallerStep, RunResume, InlineReturns, EnterQueue,
        SignalWorker, threads
  <2> QED
    BY <2>1, <2>2, WorkersWake, OwnerUnmoved DEF TypeInv
<1>2. ASSUME NEW w \in Slots, WorkerStep(w)
      PROVE  OwnerInv'
  <2>1. UNCHANGED <<maxNum, isRunning, owner, index>>
    BY <1>2
    DEF WorkerStep, TestRunning, Wait, Take, TakeFromEmpty, Execute, owners
  <2>2. \A v \in Slots : worker[v] = "none" => worker'[v] = "none"
    BY <1>2
    DEF WorkerStep, TestRunning, Wait, Take, TakeFromEmpty, Execute, TypeInv,
        TypeOK
  <2> QED
    BY <2>1, <2>2, OwnerUnmoved
<1>3. CASE SpuriousWakeup
  BY <1>3, WorkersWake, OwnerUnmoved DEF SpuriousWakeup, owners, TypeInv
<1>4. CASE UNCHANGED vars
  BY <1>4, OwnerUnmoved DEF vars, owners, threads
<1> QED
  BY <1>1, <1>2, <1>3, <1>4, OwnerInvOwner DEF Next

-----------------------------------------------------------------------------
(* The conditions.                                                         *)

WakeInv == NoLostWakeup /\ NoStrandedCaller /\ StopWakesWorkers

LEMMA WokenWorkers == TypeOK => Cardinality(Woken(worker)) \in Nat
  BY SlotsAreFinite, WokenIsFinite DEF TypeOK

LEMMA WokenCallers == TypeOK => Cardinality(Woken(caller)) \in Nat
  BY ThreadPoolAssumption, WokenIsFinite DEF TypeOK

LEMMA MaxNumType == TypeOK => maxNum \in Nat
  BY DEF TypeOK

LEMMA WorkerMoves ==
  ASSUME TypeOK, NEW w \in Slots, NEW v \in WorkerStates \ {"woken"},
         worker' = Move(worker, w, v)
  PROVE  /\ v \notin {"waiting"} => Waiting(worker') \subseteq Waiting(worker)
         /\ Cardinality(Woken(worker')) \in Nat
         /\ Cardinality(Woken(worker')) >= Cardinality(Woken(worker)) - 1
         /\ \/ w \in Woken(worker)
            \/ Cardinality(Woken(worker')) >= Cardinality(Woken(worker))
<1>1. worker \in [Slots -> WorkerStates]
  BY DEF TypeOK
<1>3. /\ Cardinality(Woken(Move(worker, w, v))) \in Nat
      /\ Cardinality(Woken(Move(worker, w, v))) >= Cardinality(Woken(worker)) - 1
  BY <1>1, SlotsAreFinite, MoveCounts
<1>4. \/ w \in Woken(worker)
      \/ Cardinality(Woken(Move(worker, w, v))) >= Cardinality(Woken(worker))
  BY <1>1, SlotsAreFinite, MoveCounts
<1>5. v \notin {"waiting"} => Waiting(Move(worker, w, v)) \subseteq Waiting(worker)
  BY <1>1, SlotsAreFinite, MoveCounts
<1> QED
  BY <1>3, <1>4, <1>5

LEMMA CallerMoves ==
  ASSUME TypeOK, NEW c \in Callers, NEW v \in CallerStates \ {"woken"},
         caller' = Move(caller, c, v)
  PROVE  /\ v \notin {"waiting"} => Waiting(caller') \subseteq Waiting(caller)
         /\ Cardinality(Woken(caller')) \in Nat
         /\ Cardinality(Woken(caller')) >= Cardinality(Woken(caller)) - 1
         /\ \/ c \in Woken(caller)
            \/ Cardinality(Woken(caller')) >= Cardinality(Woken(caller))
<1>1. caller \in [Callers -> CallerStates]
  BY DEF TypeOK
<1>3. /\ Cardinality(Woken(Move(caller, c, v))) \in Nat
      /\ Cardinality(Woken(Move(caller, c, v))) >= Cardinality(Woken(caller)) - 1
  BY <1>1, ThreadPoolAssumption, MoveCounts
<1>4. \/ c \in Woken(caller)
      \/ Cardinality(Woken(Move(caller, c, v))) >= Cardinality(Woken(caller))
  BY <1>1, ThreadPoolAssumption, MoveCounts
<1>5. v \notin {"waiting"} => Waiting(Move(caller, c, v)) \subseteq Waiting(caller)
  BY <1>1, ThreadPoolAssumption, MoveCounts
<1> QED
  BY <1>3, <1>4, <1>5

LEMMA WakeInit == Init => WakeInv
  BY DEF Init, WakeInv, NoLostWakeup, NoStrandedCaller, StopWakesWorkers, Waiting

\* A caller that finds a place pushes and wakes a worker; one that finds none
\* waits, and then the deque is full.
LEMMA WakeEnter ==
  ASSUME TypeInv, QueueInv, WakeInv, TypeInv',
         NEW c \in Callers, NEW t \in Tasks, EnterQueue(c, t)
  PROVE  WakeInv'
<1> USE DEF WakeInv, TypeInv
<1>1. CASE ~ isFull
  <2>1. /\ Len(tasks') = Len(tasks) + 1 /\ Len(tasks) \in Nat
        /\ SignalWorker /\ caller' = [caller EXCEPT ![c] = "idle"]
        /\ UNCHANGED <<maxNum, isRunning, underflow>>
    BY <1>1 DEF EnterQueue, PushFront, owners, TypeOK
  <2>2. NoLostWakeup' /\ StopWakesWorkers'
    BY <2>1, WorkersWake, WokenWorkers
    DEF SignalWorker, NoLostWakeup, StopWakesWorkers
  <2>3. /\ Waiting(caller') \subseteq Waiting(caller)
        /\ Cardinality(Woken(caller')) >= Cardinality(Woken(caller)) - 1
        /\ Cardinality(Woken(caller')) \in Nat
    <3>1. caller' = Move(caller, c, "idle")
      BY <2>1 DEF Move
    <3> QED
      BY <3>1, CallerMoves DEF CallerStates
  <2>4. NoStrandedCaller'
    <3>1. Waiting(caller') # {} => Waiting(caller) # {}
      BY <2>3
    <3>2. Cardinality(Woken(caller)) \in Nat /\ maxNum \in Nat
      BY WokenCallers, MaxNumType
    <3> SUFFICES ASSUME Waiting(caller') # {}, ~ underflow'
                 PROVE  Len(tasks') + Cardinality(Woken(caller')) >= maxNum'
      BY DEF NoStrandedCaller
    <3>3. Len(tasks) + Cardinality(Woken(caller)) >= maxNum
      BY <2>1, <3>1 DEF NoStrandedCaller
    <3> QED
      BY <2>1, <2>3, <3>2, <3>3
  <2> QED
    BY <2>2, <2>4
<1>2. CASE isFull
  <2>1. UNCHANGED <<maxNum, isRunning, underflow, tasks, worker>>
    BY <1>2 DEF EnterQueue, owners
  <2>2. NoLostWakeup' /\ StopWakesWorkers'
    BY <2>1 DEF NoLostWakeup, StopWakesWorkers
  <2>3. NoStrandedCaller'
    <3>1. Cardinality(Woken(caller')) \in Nat
      BY TypeOK', ThreadPoolAssumption, WokenIsFinite DEF TypeOK
    <3>2. Len(tasks) \in Nat
      BY DEF TypeOK
    <3> QED
      BY <1>2, <2>1, <3>1, <3>2, MaxNumType DEF isFull, NoStrandedCaller
  <2> QED
    BY <2>2, <2>3
<1> QED
  BY <1>1, <1>2

LEMMA WakeCaller ==
  ASSUME TypeInv, QueueInv, WakeInv, TypeInv',
         NEW c \in Callers, Run(c) \/ RunInline(c) \/ CallerStep(c)
  PROVE  WakeInv'
<1>1. CASE Run(c)
  <2>1. submitted + 1 \in Tasks
    BY <1>1, SubmittedType, ThreadPoolAssumption DEF Run, Tasks, TypeInv
  <2> QED
    BY <1>1, <2>1, WakeEnter DEF Run
<1>2. CASE RunResume(c)
  BY <1>2, WakeEnter DEF RunResume, TypeInv, Held
<1>3. ASSUME NEW s \in {"inline", "idle"}, caller[c] \in {"inline", "idle"},
             caller' = [caller EXCEPT ![c] = s],
             UNCHANGED <<maxNum, isRunning, tasks, underflow, worker>>
      PROVE  WakeInv'
  <2>1. /\ Waiting(caller') \subseteq Waiting(caller)
        /\ Cardinality(Woken(caller')) >= Cardinality(Woken(caller))
        /\ Cardinality(Woken(caller')) \in Nat
    <3>1. caller' = Move(caller, c, s) /\ c \notin Woken(caller)
      BY <1>3 DEF Move, Woken
    <3> QED
      BY <3>1, CallerMoves DEF TypeInv, CallerStates
  <2>2. NoLostWakeup' /\ StopWakesWorkers'
    BY <1>3 DEF WakeInv, NoLostWakeup, StopWakesWorkers
  <2>3. NoStrandedCaller'
    <3>1. Waiting(caller') # {} => Waiting(caller) # {}
      BY <2>1
    <3>2. /\ Cardinality(Woken(caller)) \in Nat /\ maxNum \in Nat
          /\ Len(tasks) \in Nat
      BY WokenCallers, MaxNumType DEF TypeInv, TypeOK
    <3> SUFFICES ASSUME Waiting(caller') # {}, ~ underflow'
                 PROVE  Len(tasks') + Cardinality(Woken(caller')) >= maxNum'
      BY DEF NoStrandedCaller
    <3>3. Len(tasks) + Cardinality(Woken(caller)) >= maxNum
      BY <1>3, <3>1 DEF WakeInv, NoStrandedCaller
    <3> QED
      BY <1>3, <2>1, <3>2, <3>3
  <2> QED
    BY <2>2, <2>3 DEF WakeInv
<1>4. CASE RunInline(c) \/ InlineReturns(c)
  BY <1>3, <1>4 DEF RunInline, InlineReturns, owners, threads
<1> QED
  BY <1>1, <1>2, <1>4 DEF CallerStep

LEMMA WakeWorker ==
  ASSUME TypeInv, QueueInv, WakeInv, NEW w \in Slots, WorkerStep(w)
  PROVE  WakeInv'
<1> USE DEF WakeInv, TypeInv
<1>1. CASE Take(w)
  <2>1. /\ Len(tasks') = Len(tasks) - 1 /\ Len(tasks) \in Nat
        /\ SignalCaller /\ worker' = [worker EXCEPT ![w] = "exec"]
        /\ UNCHANGED <<maxNum, isRunning, underflow>>
    BY <1>1 DEF Take, PopBack, owners, TypeOK
  <2>2. /\ Waiting(worker') \subseteq Waiting(worker)
        /\ Cardinality(Woken(worker')) >= Cardinality(Woken(worker)) - 1
        /\ Cardinality(Woken(worker')) \in Nat
    <3>1. worker' = Move(worker, w, "exec")
      BY <2>1 DEF Move
    <3> QED
      BY <3>1, WorkerMoves DEF WorkerStates
  <2>3. NoLostWakeup' /\ StopWakesWorkers'
    <3>1. Waiting(worker') # {} => Waiting(worker) # {}
      BY <2>2
    <3>2. Cardinality(Woken(worker)) \in Nat
      BY WokenWorkers
    <3>3. StopWakesWorkers'
      BY <2>1, <3>1 DEF StopWakesWorkers
    <3>4. ASSUME Waiting(worker') # {}
          PROVE  Len(tasks') <= Cardinality(Woken(worker'))
      <4>1. Len(tasks) <= Cardinality(Woken(worker))
        BY <3>1, <3>4 DEF NoLostWakeup
      <4> QED
        BY <2>1, <2>2, <3>2, <4>1
    <3> QED
      BY <3>3, <3>4 DEF NoLostWakeup
  <2>4. NoStrandedCaller'
    BY <2>1, CallersWake, WokenCallers, MaxNumType
    DEF SignalCaller, NoStrandedCaller
  <2> QED
    BY <2>3, <2>4
<1>2. CASE TakeFromEmpty(w)
  <2>1. tasks = <<>> /\ underflow' /\ UNCHANGED <<isRunning, tasks>>
    BY <1>2
    DEF TakeFromEmpty, PopsNothing, isEmpty, QueueInv, UnderflowEmpties, owners
  <2>2. /\ Waiting(worker') \subseteq Waiting(worker)
        /\ Cardinality(Woken(worker')) \in Nat
    <3>1. CASE worker' = worker
      BY <3>1, WokenWorkers
    <3>2. CASE worker' = Move(worker, w, "test")
      BY <3>2, WorkerMoves DEF WorkerStates
    <3>3. CASE worker' = Move(worker, w, "exec")
      BY <3>3, WorkerMoves DEF WorkerStates
    <3> QED
      BY <1>2, <3>1, <3>2, <3>3 DEF TakeFromEmpty, Move
  <2> QED
    BY <2>1, <2>2 DEF NoLostWakeup, NoStrandedCaller, StopWakesWorkers
<1>3. CASE Wait(w)
  <2>1. /\ tasks = <<>> /\ isRunning
        /\ worker' = [worker EXCEPT ![w] = "waiting"]
        /\ UNCHANGED <<maxNum, isRunning, tasks, underflow, caller>>
    BY <1>3 DEF Wait, isEmpty, owners, calls
  <2>2. Cardinality(Woken(worker')) \in Nat
    <3>1. worker' = Move(worker, w, "waiting")
      BY <2>1 DEF Move
    <3> QED
      BY <3>1, WorkerMoves DEF WorkerStates
  <2> QED
    BY <2>1, <2>2 DEF NoLostWakeup, NoStrandedCaller, StopWakesWorkers
<1>4. ASSUME NEW v \in {"lock", "exited", "test"}, worker[w] # "woken",
             worker' = [worker EXCEPT ![w] = v] \/ worker' = worker,
             UNCHANGED <<maxNum, isRunning, tasks, underflow, caller>>
      PROVE  WakeInv'
  <2>1. /\ Waiting(worker') \subseteq Waiting(worker)
        /\ Cardinality(Woken(worker')) >= Cardinality(Woken(worker))
        /\ Cardinality(Woken(worker')) \in Nat
    <3>1. w \notin Woken(worker)
      BY <1>4 DEF Woken
    <3>2. CASE worker' = Move(worker, w, v)
      BY <1>4, <3>1, <3>2, WorkerMoves DEF WorkerStates
    <3> QED
      BY <1>4, <3>2, WokenWorkers DEF Move
  <2> QED
    BY <1>4, <2>1, WokenWorkers DEF NoLostWakeup, NoStrandedCaller, StopWakesWorkers
<1>5. CASE TestRunning(w) \/ Execute(w)
  BY <1>4, <1>5 DEF TestRunning, Execute, AfterTask, owners, calls
<1> QED
  BY <1>1, <1>2, <1>3, <1>5 DEF WorkerStep

LEMMA WakeStep ==
  TypeInv /\ QueueInv /\ OwnerInv /\ WakeInv /\ [Next]_vars => WakeInv'
<1> SUFFICES ASSUME TypeInv, QueueInv, OwnerInv, WakeInv, [Next]_vars
             PROVE  WakeInv'
  OBVIOUS
<1> USE DEF WakeInv
<1>1. CASE Stop
  <2>1. Waiting(worker') = {} /\ UNCHANGED <<maxNum, tasks, underflow, caller>>
    BY <1>1, WorkersAllWake DEF Stop, TypeInv, calls
  <2> QED
    BY <2>1 DEF NoLostWakeup, NoStrandedCaller, StopWakesWorkers
<1>2. CASE Start \/ LoopEnds \/ UNCHANGED vars
  BY <1>2
  DEF Start, LoopEnds, vars, owners, threads, calls, NoLostWakeup,
      NoStrandedCaller, StopWakesWorkers
<1>3. CASE CreateThread \/ JoinThread
  <2>1. UNCHANGED <<maxNum, isRunning, tasks, underflow, caller>>
    BY <1>3 DEF CreateThread, JoinThread, calls
  <2>2. index \in Slots /\ index \notin Woken(worker)
    <3>1. index \in Slots
      <4>1. index <= maxNum
        BY <1>3 DEF CreateThread, JoinThread, NextThread
      <4> QED
        BY <4>1, ThreadPoolAssumption DEF TypeInv, TypeOK, Slots
    <3>2. index <= index
      BY <3>1 DEF Slots
    <3>3. worker[index] \in {"none", "exited"}
      BY <1>3, <3>1, <3>2 DEF CreateThread, JoinThread, OwnerInv
    <3> QED
      BY <3>1, <3>3 DEF Woken
  <2>3. /\ Waiting(worker') \subseteq Waiting(worker)
        /\ Cardinality(Woken(worker')) \in Nat
        /\ Cardinality(Woken(worker')) >= Cardinality(Woken(worker))
    <3>1. CASE worker' = Move(worker, index, "test")
      BY <2>2, <3>1, WorkerMoves DEF WorkerStates, TypeInv
    <3>2. CASE worker' = Move(worker, index, "none")
      BY <2>2, <3>2, WorkerMoves DEF WorkerStates, TypeInv
    <3>3. CASE worker' = worker
      BY <3>3, WokenWorkers DEF TypeInv
    <3> QED
      BY <1>3, <3>1, <3>2, <3>3 DEF CreateThread, JoinThread, Move
  <2>4. /\ Waiting(worker') # {} => Waiting(worker) # {}
        /\ Cardinality(Woken(worker)) \in Nat /\ Len(tasks) \in Nat
    BY <2>3, WokenWorkers DEF TypeInv, TypeOK
  <2> QED
    BY <2>1, <2>3, <2>4 DEF NoLostWakeup, NoStrandedCaller, StopWakesWorkers
<1>4. CASE SpuriousWakeup
  <2>1. UNCHANGED <<maxNum, isRunning, tasks, underflow>> /\ Len(tasks) \in Nat
    BY <1>4 DEF SpuriousWakeup, owners, TypeInv, TypeOK
  <2>2. CASE worker' \in WakeOne(worker) /\ UNCHANGED caller
    <3>1. /\ Waiting(worker') \subseteq Waiting(worker) /\ Waiting(worker) # {}
          /\ Cardinality(Woken(worker')) = Cardinality(Woken(worker)) + 1
      BY <2>2, WorkersWake DEF TypeInv, WakeOne
    <3>2. Cardinality(Woken(worker)) \in Nat
      BY WokenWorkers DEF TypeInv
    <3> QED
      BY <2>1, <2>2, <3>1, <3>2
      DEF NoLostWakeup, NoStrandedCaller, StopWakesWorkers
  <2>3. CASE caller' \in WakeOne(caller) /\ UNCHANGED worker
    <3>1. /\ Waiting(caller') \subseteq Waiting(caller) /\ Waiting(caller) # {}
          /\ Cardinality(Woken(caller')) = Cardinality(Woken(caller)) + 1
      BY <2>3, CallersWake DEF TypeInv, WakeOne
    <3>2. Cardinality(Woken(caller)) \in Nat /\ maxNum \in Nat
      BY WokenCallers, MaxNumType DEF TypeInv
    <3> QED
      BY <2>1, <2>3, <3>1, <3>2
      DEF NoLostWakeup, NoStrandedCaller, StopWakesWorkers
  <2> QED
    BY <1>4, <2>2, <2>3 DEF SpuriousWakeup
<1>5. TypeInv'
  BY TypeStep
<1> QED
  BY <1>1, <1>2, <1>3, <1>4, <1>5, WakeCaller, WakeWorker DEF Next, OwnerStep

IInv == TypeInv /\ QueueInv /\ OwnerInv /\ WakeInv

LEMMA Inductive == Spec => []IInv
<1>1. Init => IInv
  BY TypeInit, QueueInit, OwnerInit, WakeInit DEF IInv
<1>2. IInv /\ [Next]_vars => IInv'
  BY TypeStep, QueueStep, OwnerInvStep, WakeStep DEF IInv
<1> QED
  BY <1>1, <1>2, PTL DEF Spec

\* run()'s single notify() is enough ("waking one thread is enough",
\* ThreadPool.cpp:61): while a worker sleeps on _notEmpty, a woken one is on its
\* way for every task in the deque, under every interleaving.
THEOREM NotifyIsEnough == Spec => []NoLostWakeup
<1>1. IInv => NoLostWakeup
  BY DEF IInv, WakeInv
<1> QED
  BY <1>1, Inductive, PTL

\* loop()'s single notify() of _notFull is enough: while a caller sleeps, every
\* free place of the deque has a woken caller on its way to it.
THEOREM FreePlacesAreFilled == Spec => []NoStrandedCaller
<1>1. IInv => NoStrandedCaller
  BY DEF IInv, WakeInv
<1> QED
  BY <1>1, Inductive, PTL

\* After stop() cleared _isRunning no worker sleeps or goes to sleep.
THEOREM StopReachesSleepers == Spec => []StopWakesWorkers
<1>1. IInv => StopWakesWorkers
  BY DEF IInv, WakeInv
<1> QED
  BY <1>1, Inductive, PTL

\* back()/pop_back() meet an empty deque only while stop() joins: in a worker it
\* woke, or overtook on its way from the unlocked test of _isRunning to the
\* deque (ThreadPool.cpp:74-84).
THEOREM UnderflowNeedsStop == Spec => UnderflowOnlyInStop
<1>1. IInv /\ [Next]_vars => [underflow' # underflow => owner = "joining"]_vars
  <2> SUFFICES ASSUME IInv, [Next]_vars, underflow' # underflow
               PROVE  owner = "joining"
    OBVIOUS
  <2>1. PICK w \in Slots : TakeFromEmpty(w)
    <3>1. ~ UNCHANGED vars
      BY DEF vars
    <3> QED
      BY <3>1
      DEF Next, Start, Stop, OwnerStep, CreateThread, JoinThread, LoopEnds, Run,
          RunInline, CallerStep, RunResume, EnterQueue, InlineReturns, WorkerStep,
          TestRunning, Wait, Take, Execute, SpuriousWakeup
  <2>2. ~ underflow /\ ~ isRunning /\ worker[w] # "none"
    BY <2>1
    DEF TakeFromEmpty, PopsNothing, isEmpty, IInv, TypeInv, TypeOK
  <2> QED
    BY <2>2 DEF IInv, OwnerInv, TypeInv, TypeOK, OwnerStates
<1> QED
  BY <1>1, Inductive, PTL DEF Spec, UnderflowOnlyInStop

=============================================================================
