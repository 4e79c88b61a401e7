----------------------------- MODULE ThreadPool -----------------------------
(***************************************************************************)
(* base/ThreadPool: a fixed number of worker threads that take tasks from  *)
(* a bounded deque.  The owner thread calls start() and stop(); any number *)
(* of caller threads call run().  The mutex and the two conditions are     *)
(* those of module Condition; _isRunning is written by start() without the *)
(* mutex and by stop() with it, and read by loop() both ways.              *)
(***************************************************************************)
EXTENDS Naturals, Sequences, FiniteSets, Condition

CONSTANTS
  Callers,      \* threads that call run()
  MaxThreads,   \* bound on the constructor's argument num
  MaxTasks,     \* bound on the calls of run()
  MaxStarts,    \* bound on the calls of start()
  Throwing      \* tasks that leave by an exception

ASSUME ThreadPoolAssumption ==
  /\ IsFiniteSet(Callers)
  /\ MaxThreads \in Nat /\ MaxTasks \in Nat /\ MaxStarts \in Nat
  /\ Throwing \subseteq 1 .. MaxTasks

Slots == 1 .. MaxThreads     \* indices of _threads
Tasks == 1 .. MaxTasks       \* the n-th call of run() passes task n
NoTask == 0

VARIABLES
  maxNum,      \* _maxNum, fixed by the constructor
  isRunning,   \* _isRunning
  tasks,       \* _tasks: tasks[1] is back(), the last element is front()
  underflow,   \* the empty deque was popped: what it holds is undefined
  worker,      \* control state of loop() in each thread
  hand,        \* the local `task' of loop()
  caller,      \* control state of run() in each caller
  arg,         \* the argument of run()
  owner,       \* control state of start() and stop()
  index,       \* the loop index of start() and stop()
  starts,      \* calls of start() so far
  aborted,     \* the process has terminated
  accepted,    \* history: tasks in the order run() took them
  started,     \* history: tasks in the order loop() took them
  executed     \* history: tasks that have returned

owners  == <<maxNum, isRunning, owner, index, starts>>
threads == <<worker, hand>>
calls   == <<caller, arg>>
history == <<accepted, started, executed>>
vars    == <<owners, tasks, underflow, threads, calls, aborted, history>>

WorkerStates == {"none", "test", "lock", "waiting", "woken", "exec", "exited"}
CallerStates == {"idle", "waiting", "woken", "inline"}
OwnerStates  == {"new", "starting", "up", "joining", "down"}

TypeOK ==
  /\ maxNum \in 0 .. MaxThreads
  /\ isRunning \in BOOLEAN
  /\ tasks \in Seq(Tasks)
  /\ underflow \in BOOLEAN
  /\ worker \in [Slots -> WorkerStates]
  /\ hand \in [Slots -> Tasks \cup {NoTask}]
  /\ caller \in [Callers -> CallerStates]
  /\ arg \in [Callers -> Tasks \cup {NoTask}]
  /\ owner \in OwnerStates
  /\ index \in 1 .. (MaxThreads + 1)
  /\ starts \in 0 .. MaxStarts
  /\ aborted \in BOOLEAN
  /\ accepted \in Seq(Tasks)
  /\ started \in Seq(Tasks)
  /\ executed \subseteq Tasks

Init ==
  /\ maxNum \in 0 .. MaxThreads
  /\ isRunning = FALSE
  /\ tasks = <<>>
  /\ underflow = FALSE
  /\ worker = [w \in Slots |-> "none"]
  /\ hand = [w \in Slots |-> NoTask]
  /\ caller = [c \in Callers |-> "idle"]
  /\ arg = [c \in Callers |-> NoTask]
  /\ owner = "new"
  /\ index = 1
  /\ starts = 0
  /\ aborted = FALSE
  /\ accepted = <<>>
  /\ started = <<>>
  /\ executed = {}

-----------------------------------------------------------------------------
(* The owner: start(), stop() and the destructor, which is stop().         *)

Start ==
  /\ ~ aborted
  /\ owner \in {"new", "down"}
  /\ starts < MaxStarts
  /\ isRunning' = TRUE
  /\ owner' = "starting"
  /\ index' = 1
  /\ starts' = starts + 1
  /\ UNCHANGED <<maxNum, tasks, underflow, threads, calls, aborted, history>>

\* i < _maxNum, in the loops of start() and stop().
NextThread == index <= maxNum

\* Thread::start creates a thread that runs loop(), or LOG_FATAL aborts.
CreateThread ==
  /\ ~ aborted
  /\ owner = "starting" /\ NextThread
  /\ \/ /\ worker' = [worker EXCEPT ![index] = "test"]
        /\ index' = index + 1
        /\ UNCHANGED aborted
     \/ /\ aborted' = TRUE
        /\ UNCHANGED <<worker, index>>
  /\ UNCHANGED <<maxNum, isRunning, owner, starts, tasks, underflow, hand,
                 calls, history>>

WakeOneWorker == worker' \in Notify(worker)   \* mutant: notify()

\* _notEmpty.notifyAll(), in stop().
WakeWorkers == worker' = NotifyAll(worker)

Stop ==
  /\ ~ aborted
  /\ owner = "up"
  /\ isRunning' = FALSE
  /\ WakeWorkers
  /\ owner' = "joining"
  /\ index' = 1
  /\ UNCHANGED <<maxNum, starts, tasks, underflow, hand, calls, aborted, history>>

JoinThread ==
  /\ ~ aborted
  /\ owner = "joining" /\ NextThread
  /\ worker[index] = "exited"
  /\ worker' = [worker EXCEPT ![index] = "none"]
  /\ index' = index + 1
  /\ UNCHANGED <<maxNum, isRunning, owner, starts, tasks, underflow, hand,
                 calls, aborted, history>>

\* start() and stop() return.
LoopEnds ==
  /\ ~ aborted
  /\ owner \in {"starting", "joining"} /\ ~ NextThread
  /\ owner' = IF owner = "starting" THEN "up" ELSE "down"
  /\ UNCHANGED <<maxNum, isRunning, index, starts, tasks, underflow, threads,
                 calls, aborted, history>>

-----------------------------------------------------------------------------
(* A caller of run().                                                      *)

submitted == Len(accepted)
  + Cardinality({c \in Callers : caller[c] \in {"waiting", "woken"}})

\* An underflown deque reports a size that wraps below zero.
isFull == underflow \/ Len(tasks) >= maxNum

SignalNobody == UNCHANGED worker              \* mutant: no notify()

\* _notEmpty.notify(), in run().
SignalWorker == worker' \in Notify(worker)

PushFront(t) == tasks' = Append(tasks, t)

\* run() with the mutex: wait while full, else push and wake one worker.
EnterQueue(c, t) ==
  /\ \/ /\ ~ isFull
        /\ PushFront(t)
        /\ SignalWorker
        /\ caller' = [caller EXCEPT ![c] = "idle"]
        /\ arg' = [arg EXCEPT ![c] = NoTask]
        /\ accepted' = Append(accepted, t)
     \/ /\ isFull
        /\ caller' = [caller EXCEPT ![c] = "waiting"]
        /\ arg' = [arg EXCEPT ![c] = t]
        /\ UNCHANGED <<tasks, worker, accepted>>
  /\ UNCHANGED <<owners, underflow, hand, aborted, started, executed>>

Run(c) ==
  /\ ~ aborted
  /\ caller[c] = "idle"
  /\ submitted < MaxTasks
  /\ maxNum # 0
  /\ EnterQueue(c, submitted + 1)

RunResumeAfterIf(c) ==      \* mutant: if (isFull()) wait() for while
  /\ ~ aborted
  /\ caller[c] = "woken"
  /\ PushFront(arg[c])
  /\ SignalWorker
  /\ caller' = [caller EXCEPT ![c] = "idle"]
  /\ arg' = [arg EXCEPT ![c] = NoTask]
  /\ accepted' = Append(accepted, arg[c])
  /\ UNCHANGED <<owners, underflow, hand, aborted, started, executed>>

\* Back from _notFull.wait(), with the mutex.
RunResume(c) ==
  /\ ~ aborted
  /\ caller[c] = "woken"
  /\ EnterQueue(c, arg[c])

\* A pool of no threads runs the task in the caller.
RunInline(c) ==
  /\ ~ aborted
  /\ caller[c] = "idle"
  /\ submitted < MaxTasks
  /\ maxNum = 0
  /\ caller' = [caller EXCEPT ![c] = "inline"]
  /\ arg' = [arg EXCEPT ![c] = submitted + 1]
  /\ accepted' = Append(accepted, submitted + 1)
  /\ started' = Append(started, submitted + 1)
  /\ UNCHANGED <<owners, tasks, underflow, threads, aborted, executed>>

InlineReturns(c) ==
  /\ ~ aborted
  /\ caller[c] = "inline"
  /\ executed' = executed \cup {arg[c]}
  /\ caller' = [caller EXCEPT ![c] = "idle"]
  /\ arg' = [arg EXCEPT ![c] = NoTask]
  /\ UNCHANGED <<owners, tasks, underflow, threads, aborted, accepted, started>>

-----------------------------------------------------------------------------
(* A worker in loop().                                                     *)

\* while (_isRunning), outside the mutex.
TestRunning(w) ==
  /\ ~ aborted
  /\ worker[w] = "test"
  /\ worker' = [worker EXCEPT ![w] = IF isRunning THEN "lock" ELSE "exited"]
  /\ UNCHANGED <<owners, tasks, underflow, hand, calls, aborted, history>>

isEmpty == ~ underflow /\ tasks = <<>>

Wait(w) ==
  /\ ~ aborted
  /\ worker[w] \in {"lock", "woken"}
  /\ isEmpty /\ isRunning
  /\ worker' = [worker EXCEPT ![w] = "waiting"]
  /\ UNCHANGED <<owners, tasks, underflow, hand, calls, aborted, history>>

PopBack == tasks' = Tail(tasks)

SignalNoCaller == UNCHANGED caller            \* mutant: no notify()

\* _notFull.notify(), in loop().
SignalCaller == caller' \in Notify(caller)

Take(w) ==
  /\ ~ aborted
  /\ worker[w] \in {"lock", "woken"}
  /\ ~ underflow /\ tasks # <<>>
  /\ hand' = [hand EXCEPT ![w] = Head(tasks)]
  /\ started' = Append(started, Head(tasks))
  /\ PopBack
  /\ SignalCaller
  /\ worker' = [worker EXCEPT ![w] = "exec"]
  /\ UNCHANGED <<owners, underflow, arg, aborted, accepted, executed>>

PopsNothingAfterIf(w) ==    \* mutant: if (...) wait() for while (...) wait()
  underflow \/ (isEmpty /\ (~ isRunning \/ worker[w] = "woken"))

\* The wait loop ends on ~ _isRunning too, and then the deque may be empty.
PopsNothing(w) == underflow \/ (isEmpty /\ ~ isRunning)

\* back() and pop_back() of an empty std::deque are undefined.  The memory
\* before its first element is unmapped or garbage (the process dies), zero
\* (a Task that is not callable, skipped by `if (task)'), or a block reused
\* from an earlier node, with the bytes of a task that was already taken.
TakeFromEmpty(w) ==
  /\ ~ aborted
  /\ worker[w] \in {"lock", "woken"}
  /\ PopsNothing(w)
  /\ underflow' = TRUE
  /\ \/ /\ aborted' = TRUE
        /\ UNCHANGED <<worker, hand, caller>>
     \/ /\ worker' = [worker EXCEPT ![w] = "test"]
        /\ SignalCaller
        /\ UNCHANGED <<hand, aborted>>
     \/ /\ \E i \in DOMAIN started : hand' = [hand EXCEPT ![w] = started[i]]
        /\ worker' = [worker EXCEPT ![w] = "exec"]
        /\ SignalCaller
        /\ UNCHANGED aborted
  /\ UNCHANGED <<owners, tasks, arg, history>>

AfterTaskLeave == "exited"    \* mutant: if (_isRunning) for while

\* Where loop() goes when a task has returned: back to its test.
AfterTask == "test"

\* task() returns, or an exception reaches a handler of loop() or of
\* Thread::run, each of which ends the process.
Execute(w) ==
  /\ ~ aborted
  /\ worker[w] = "exec"
  /\ \/ /\ hand[w] \notin Throwing
        /\ worker' = [worker EXCEPT ![w] = AfterTask]
        /\ hand' = [hand EXCEPT ![w] = NoTask]
        /\ executed' = executed \cup {hand[w]}
        /\ UNCHANGED aborted
     \/ /\ hand[w] \in Throwing
        /\ aborted' = TRUE
        /\ UNCHANGED <<worker, hand, executed>>
  /\ UNCHANGED <<owners, tasks, underflow, calls, accepted, started>>

-----------------------------------------------------------------------------
\* pthread_cond_wait may return without a notification.
SpuriousWakeup ==
  /\ ~ aborted
  /\ \/ worker' \in WakeOne(worker) /\ UNCHANGED caller
     \/ caller' \in WakeOne(caller) /\ UNCHANGED worker
  /\ UNCHANGED <<owners, tasks, underflow, hand, arg, aborted, history>>

OwnerStep == CreateThread \/ JoinThread \/ LoopEnds

CallerStep(c) == RunResume(c) \/ InlineReturns(c)

WorkerStep(w) ==
  TestRunning(w) \/ Wait(w) \/ Take(w) \/ TakeFromEmpty(w) \/ Execute(w)

Next ==
  \/ Start
  \/ Stop
  \/ OwnerStep
  \/ \E c \in Callers : Run(c) \/ RunInline(c) \/ CallerStep(c)
  \/ \E w \in Slots : WorkerStep(w)
  \/ SpuriousWakeup

\* Every thread that can run does.  Nobody has to call start, stop or run,
\* and no spurious wakeup has to happen.
Fairness ==
  /\ WF_vars(OwnerStep)
  /\ \A c \in Callers : WF_vars(CallerStep(c))
  /\ \A w \in Slots : WF_vars(WorkerStep(w))

Spec == Init /\ [][Next]_vars

FairSpec == Spec /\ Fairness

-----------------------------------------------------------------------------
(* Safety.                                                                 *)

\* The tasks run() accepted are started in that order, none skipped: what
\* was accepted is what was started followed by what is queued.
FifoOrder == accepted = started \o tasks

\* The pool is a queue of tasks of the size the constructor was given: they are
\* started in the order run() accepted them, each once, and a caller that has
\* waited for a place takes it only if it is still free.
Fifo == INSTANCE BoundedFifo WITH
  Item <- Tasks, bound <- maxNum, in <- accepted, out <- started

ImplementsFifo == Fifo!Spec

\* run() wakes one worker per task ("waking one thread is enough"): while a
\* worker sleeps there is a woken one for every queued task.
NoLostWakeup ==
  Waiting(worker) # {} => Len(tasks) <= Cardinality(Woken(worker))

\* loop() wakes one caller per task it takes: while a caller sleeps, every
\* free place in the deque has a caller on its way to it.
NoStrandedCaller ==
  (Waiting(caller) # {} /\ ~ underflow) =>
    Len(tasks) + Cardinality(Woken(caller)) >= maxNum

\* stop() reaches every sleeper: no worker sleeps once _isRunning is false.
StopWakesWorkers == ~ isRunning => Waiting(worker) = {}

\* The deque stays within the bound the constructor was given.
Bounded == Len(tasks) <= maxNum

\* While the pool runs no worker pops an empty deque, whoever entered between
\* its wakeup and its return from wait(); it can happen only to workers that
\* stop() wakes, or overtakes on their way to the deque.
UnderflowOnlyInStop ==
  [][underflow' # underflow => owner = "joining"]_vars

(* Liveness.                                                               *)

\* A task that run() accepted is executed, if the pool is not stopped.
AcceptedTaskRuns ==
  \A t \in Tasks :
    (\E i \in DOMAIN accepted : accepted[i] = t)
      ~> (t \in executed \/ ~ isRunning \/ underflow \/ aborted)

\* A blocked run() returns, if the pool is running and is not stopped.
RunReturns ==
  \A c \in Callers :
    (caller[c] = "waiting" /\ isRunning)
      ~> (caller[c] = "idle" \/ ~ isRunning \/ underflow \/ aborted)

\* stop() returns: every worker it joins leaves its loop.
StopTerminates == owner = "joining" ~> (owner = "down" \/ aborted)

=============================================================================
