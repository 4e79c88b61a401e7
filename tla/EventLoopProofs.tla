--------------------------- MODULE EventLoopProofs ---------------------------
(***************************************************************************)
(* Theorems about module EventLoop, for any number of other threads, any   *)
(* number of functors and any capacity of the eventfd.                     *)
(***************************************************************************)
EXTENDS EventLoop, SharedLemmas

History == [i \in 1 .. pushed |-> i]

\* What was queued is what ran, what is left of the batch and what waits.
InOrder == History = executed \o (batch \o functors)

\* The local of doLoopTasks() and its flag live as long as the call does.
TasksOnly ==
  /\ loop # "tasks" => batch = <<>>
  /\ loop = "tasks" => doingTask

\* A functor that was queued while loop() was already to be called.
Pending == \E i \in DOMAIN functors : functors[i] \notin early

\* The wakeup is on its way before the loop is in epoll_wait: from the moment
\* the batch was swapped, and until the eventfd is read.
Answered == loop \in {"before", "test", "poll", "tasks"} /\ Pending => Interrupted

QuitAnswered == loop = "poll" /\ quit => Interrupted

IInv == TypeOK /\ InOrder /\ TasksOnly /\ Answered /\ QuitAnswered

-----------------------------------------------------------------------------

LEMMA WakeupInterrupts ==
  ASSUME TypeOK, wakeup
  PROVE  wakeups' \in 0 .. EventFdMax /\ wakeups' > 0
  BY EventLoopAssumption DEF TypeOK, wakeup

\* The critical section of runInLoop() puts the functor behind all others.
LEMMA PushKeepsOrder ==
  ASSUME TypeOK, InOrder, Push, UNCHANGED <<batch, executed>>
  PROVE  /\ InOrder'
         /\ functors' \in Seq(Tasks)
         /\ pushed \in Nat /\ pushed' = pushed + 1 /\ pushed' \in 0 .. MaxTasks
         /\ pushed + 1 \in Tasks
<1>1. /\ pushed \in Nat /\ pushed' = pushed + 1 /\ pushed' \in 0 .. MaxTasks
      /\ pushed + 1 \in Tasks
  BY EventLoopAssumption DEF TypeOK, Push, Tasks
<1>2. /\ executed \in Seq(Tasks) /\ batch \in Seq(Tasks) /\ functors \in Seq(Tasks)
      /\ functors' = Append(functors, pushed + 1)
  BY DEF TypeOK, Push
<1>3. functors' \in Seq(Tasks)
  BY <1>1, <1>2
<1>4. History' = Append(History, pushed + 1)
  BY <1>1, OneMore DEF History
<1>5. executed \o (batch \o Append(functors, pushed + 1)) =
        Append(executed \o (batch \o functors), pushed + 1)
  <2> DEFINE e == pushed + 1
  <2>1. /\ e \in Tasks
        /\ executed \in Seq(Tasks) /\ batch \in Seq(Tasks) /\ functors \in Seq(Tasks)
    BY <1>1, <1>2
  <2> HIDE DEF e
  <2>2. executed \o (batch \o Append(functors, e)) =
          Append(executed \o (batch \o functors), e)
    BY <2>1, AppendToThird, SMTT(30)
  <2> QED
    BY <2>2 DEF e
<1>6. InOrder'
  BY <1>2, <1>4, <1>5 DEF InOrder
<1> QED
  BY <1>1, <1>3, <1>6

\* A functor is pending after a push only if it is the new one or was before.
LEMMA PushedPending ==
  ASSUME TypeOK, Push, early \subseteq early', Pending'
  PROVE  Pending \/ pushed + 1 \notin early'
<1>1. functors \in Seq(Tasks) /\ functors' = Append(functors, pushed + 1)
  BY DEF TypeOK, Push
<1>2. PICK i \in DOMAIN functors' : functors'[i] \notin early'
  BY DEF Pending
<1>3. CASE i \in DOMAIN functors
  <2>1. functors'[i] = functors[i]
    BY <1>1, <1>3
  <2> QED
    BY <1>2, <1>3, <2>1 DEF Pending
<1>4. CASE i \notin DOMAIN functors
  <2>1. functors'[i] = pushed + 1
    BY <1>1, <1>2, <1>4
  <2> QED
    BY <1>2, <2>1
<1> QED
  BY <1>3, <1>4

\* An interrupt stays on its way unless the eventfd is read.
LEMMA InterruptStays ==
  ASSUME Interrupted, UNCHANGED <<wakeups, caller>>
  PROVE  Interrupted'
  BY DEF Interrupted

-----------------------------------------------------------------------------
(* The other threads.                                                      *)

LEMMA RunInLoopKeeps ==
  ASSUME IInv, NEW c \in Callers, RunInLoop(c)
  PROVE  IInv'
<1> USE DEF IInv
<1>1. Push /\ UNCHANGED <<batch, executed>>
  BY DEF RunInLoop, local
<1>2. InOrder' /\ functors' \in Seq(Tasks) /\ pushed' \in 0 .. MaxTasks
  BY <1>1, PushKeepsOrder
<1>3. caller' \in [Callers -> {"idle", "waking"}] /\ caller'[c] = "waking"
  BY DEF RunInLoop, TypeOK
<1>4. TypeOK'
  BY <1>2, <1>3 DEF RunInLoop, local, TypeOK
<1>5. TasksOnly'
  BY DEF RunInLoop, local, TasksOnly
<1>6. Interrupted'
  BY <1>3 DEF Interrupted
<1> QED
  BY <1>2, <1>4, <1>5, <1>6 DEF Answered, QuitAnswered

LEMMA QuitKeeps ==
  ASSUME IInv, NEW c \in Callers, Quit(c)
  PROVE  IInv'
<1> USE DEF IInv
<1>1. caller' \in [Callers -> {"idle", "waking"}] /\ caller'[c] = "waking"
  BY DEF Quit, TypeOK
<1>2. TypeOK'
  BY <1>1 DEF Quit, local, TypeOK
<1>3. InOrder' /\ TasksOnly'
  BY DEF Quit, local, InOrder, History, TasksOnly
<1>4. Interrupted'
  BY <1>1 DEF Interrupted
<1> QED
  BY <1>2, <1>3, <1>4 DEF Answered, QuitAnswered

LEMMA WakeupKeeps ==
  ASSUME IInv, NEW c \in Callers, Wakeup(c)
  PROVE  IInv'
<1> USE DEF IInv
<1>1. wakeups' \in 0 .. EventFdMax /\ wakeups' > 0
  BY WakeupInterrupts DEF Wakeup
<1>2. caller' \in [Callers -> {"idle", "waking"}]
  BY DEF Wakeup, TypeOK
<1>3. TypeOK'
  BY <1>1, <1>2 DEF Wakeup, local, TypeOK
<1>4. InOrder' /\ TasksOnly'
  BY DEF Wakeup, local, InOrder, History, TasksOnly
<1>5. Interrupted'
  BY <1>1 DEF Interrupted
<1> QED
  BY <1>3, <1>4, <1>5 DEF Answered, QuitAnswered

-----------------------------------------------------------------------------
(* The loop's thread.                                                      *)

\* In a functor it wakes itself; before loop() the functor counts as early;
\* in a callback the functors are still to be swapped in this round.
LEMMA RunInOwnLoopKeeps ==
  ASSUME IInv, RunInOwnLoop
  PROVE  IInv'
<1> USE DEF IInv
<1>1. /\ Push /\ UserCode /\ early \subseteq early'
      /\ UNCHANGED <<quit, batch, doingTask, active, loop, caller, executed>>
  BY DEF RunInOwnLoop, local
<1>2. /\ InOrder' /\ functors' \in Seq(Tasks) /\ pushed' \in 0 .. MaxTasks
      /\ pushed + 1 \in Tasks
  BY <1>1, PushKeepsOrder
<1>3. wakeups' \in 0 .. EventFdMax /\ (wakeups' > 0 \/ UNCHANGED wakeups)
  BY WakeupInterrupts DEF RunInOwnLoop, TypeOK
<1>4. early' \subseteq Tasks
  BY <1>2 DEF RunInOwnLoop, TypeOK
<1>5. TypeOK'
  BY <1>1, <1>2, <1>3, <1>4 DEF TypeOK
<1>6. TasksOnly'
  BY <1>1 DEF TasksOnly
<1>7. Interrupted => Interrupted'
  BY <1>1, <1>3 DEF Interrupted
<1>8. Answered'
  <2> SUFFICES ASSUME loop \in {"before", "tasks"}, Pending'
               PROVE  Interrupted'
    BY <1>1 DEF Answered, UserCode
  <2>1. CASE loop = "before"
    <3>1. pushed + 1 \in early'
      BY <2>1 DEF RunInOwnLoop
    <3>2. Pending
      BY <1>1, <3>1, PushedPending
    <3> QED
      BY <1>7, <2>1, <3>2 DEF Answered
  <2>2. CASE loop = "tasks"
    <3>1. wakeup
      BY <2>2 DEF RunInOwnLoop, TasksOnly, WakesItself
    <3>2. wakeups' > 0
      BY <3>1, WakeupInterrupts
    <3> QED
      BY <3>2 DEF Interrupted
  <2> QED
    BY <2>1, <2>2
<1>9. QuitAnswered'
  BY <1>1, <1>7 DEF QuitAnswered
<1> QED
  BY <1>2, <1>5, <1>6, <1>8, <1>9

\* What neither queues, runs nor swaps functors, nor touches the eventfd.
Elsewhere ==
  UNCHANGED <<functors, batch, doingTask, wakeups, caller, pushed, early, executed>>

LEMMA ElsewhereKeeps ==
  ASSUME IInv, Elsewhere
  PROVE  InOrder' /\ (Pending' => Pending) /\ (Interrupted => Interrupted')
<1> USE DEF IInv
<1>1. InOrder'
  BY DEF Elsewhere, InOrder, History
<1>2. Pending' => Pending
  BY DEF Elsewhere, Pending
<1>3. Interrupted => Interrupted'
  BY InterruptStays DEF Elsewhere
<1> QED
  BY <1>1, <1>2, <1>3

\* The steps of the loop around its handlers and its functors.
LEMMA ControlKeeps ==
  ASSUME IInv, QuitOwnLoop \/ EnterLoop \/ TestQuit \/ PollReady \/ PollEmpty
                 \/ BeginHandler \/ EndHandler
  PROVE  IInv'
<1> USE DEF IInv
<1>1. Elsewhere
  BY DEF Elsewhere, local, QuitOwnLoop, EnterLoop, TestQuit, PollReady, PollEmpty,
         BeginHandler, EndHandler
<1>2. InOrder' /\ (Pending' => Pending) /\ (Interrupted => Interrupted')
  BY <1>1, ElsewhereKeeps
<1>3. TypeOK'
  BY DEF TypeOK, local, QuitOwnLoop, EnterLoop, TestQuit, PollReady, PollEmpty,
         BeginHandler, EndHandler
<1>4. /\ loop' = "tasks" => loop = "tasks"
      /\ loop = "tasks" => loop' = "tasks"
  BY DEF QuitOwnLoop, EnterLoop, TestQuit, PollReady, PollEmpty, BeginHandler,
         EndHandler
<1>5. TasksOnly'
  BY <1>1, <1>4 DEF Elsewhere, TasksOnly
<1>6. loop' \in {"before", "test", "poll", "tasks"} =>
        loop \in {"before", "test", "poll", "tasks"}
  BY DEF QuitOwnLoop, EnterLoop, TestQuit, PollReady, PollEmpty, BeginHandler,
         EndHandler
<1>7. Answered'
  BY <1>2, <1>6 DEF Answered
<1>8. loop' = "poll" => ~ quit'
  BY DEF QuitOwnLoop, UserCode, EnterLoop, TestQuit, PollReady, PollEmpty,
         BeginHandler, EndHandler
<1> QED
  BY <1>2, <1>3, <1>5, <1>7, <1>8 DEF QuitAnswered

\* The eventfd is read before the functors of the round are swapped.
LEMMA HandleReadKeeps ==
  ASSUME IInv, HandleRead
  PROVE  IInv'
<1> USE DEF IInv
<1>1. TypeOK'
  BY EventLoopAssumption DEF HandleRead, TypeOK
<1>2. InOrder' /\ TasksOnly'
  BY DEF HandleRead, InOrder, History, TasksOnly
<1>3. loop' = "events"
  BY DEF HandleRead
<1> QED
  BY <1>1, <1>2, <1>3 DEF Answered, QuitAnswered

LEMMA BeginTasksKeeps ==
  ASSUME IInv, BeginTasks
  PROVE  IInv'
<1> USE DEF IInv
<1>1. /\ batch = <<>> /\ batch' = functors /\ functors' = <<>>
      /\ doingTask' /\ loop' = "tasks" /\ UNCHANGED <<pushed, executed>>
  BY DEF BeginTasks, TasksOnly
<1>2. TypeOK'
  BY DEF BeginTasks, TypeOK
<1>3. InOrder'
  <2>1. batch \o functors = batch' \o functors'
    BY <1>1 DEF TypeOK
  <2> QED
    BY <1>1, <2>1 DEF InOrder, History
<1>4. TasksOnly'
  BY <1>1 DEF TasksOnly
<1>5. ~ Pending'
  BY <1>1 DEF Pending
<1> QED
  BY <1>1, <1>2, <1>3, <1>4, <1>5 DEF Answered, QuitAnswered

LEMMA RunTaskKeeps ==
  ASSUME IInv, RunTask
  PROVE  IInv'
<1> USE DEF IInv
<1>1. /\ executed \in Seq(Tasks) /\ batch \in Seq(Tasks) /\ functors \in Seq(Tasks)
      /\ batch # <<>>
      /\ executed' = Append(executed, Head(batch)) /\ batch' = Tail(batch)
      /\ UNCHANGED <<quit, functors, doingTask, wakeups, loop, caller, pushed, early>>
      /\ loop = "tasks"
  BY DEF RunTask, TypeOK
<1>2. executed' \in Seq(Tasks) /\ batch' \in Seq(Tasks)
  BY <1>1
<1>3. TypeOK'
  BY <1>1, <1>2 DEF RunTask, TypeOK
<1>4. InOrder'
  <2>1. Append(executed, Head(batch)) \o (Tail(batch) \o functors) =
          executed \o (batch \o functors)
    BY <1>1, MoveHeadBefore
  <2> QED
    BY <1>1, <2>1 DEF InOrder, History
<1>5. TasksOnly'
  BY <1>1 DEF TasksOnly
<1>6. Pending' => Pending
  BY <1>1 DEF Pending
<1>7. Interrupted => Interrupted'
  BY <1>1, InterruptStays
<1> QED
  BY <1>1, <1>3, <1>4, <1>5, <1>6, <1>7 DEF Answered, QuitAnswered

LEMMA EndTasksKeeps ==
  ASSUME IInv, EndTasks
  PROVE  IInv'
<1> USE DEF IInv
<1>1. TypeOK'
  BY DEF EndTasks, TypeOK
<1>2. InOrder' /\ TasksOnly'
  BY DEF EndTasks, InOrder, History, TasksOnly
<1>3. Pending' => Pending
  BY DEF EndTasks, Pending
<1>4. Interrupted => Interrupted'
  BY InterruptStays DEF EndTasks
<1>5. loop = "tasks" /\ loop' = "test"
  BY DEF EndTasks
<1> QED
  BY <1>1, <1>2, <1>3, <1>4, <1>5 DEF Answered, QuitAnswered

-----------------------------------------------------------------------------

LEMMA InitInv == Init => IInv
<1> SUFFICES ASSUME Init PROVE IInv
  OBVIOUS
<1>1. TypeOK
  <2>1. 0 \in 0 .. EventFdMax /\ 0 \in 0 .. MaxTasks
    BY EventLoopAssumption
  <2>2. caller \in [Callers -> {"idle", "waking"}]
    BY DEF Init
  <2>3. functors \in Seq(Tasks) /\ batch \in Seq(Tasks) /\ executed \in Seq(Tasks)
    BY DEF Init
  <2>4. quit \in BOOLEAN /\ doingTask \in BOOLEAN
    BY DEF Init
  <2>5. /\ wakeups \in 0 .. EventFdMax /\ pushed \in 0 .. MaxTasks
        /\ active \subseteq {"wakeup", "io"} /\ early \subseteq Tasks
    BY <2>1 DEF Init
  <2>6. loop \in {"before", "test", "poll", "events", "handler", "tasks", "exited"}
    BY DEF Init
  <2> QED
    BY <2>2, <2>3, <2>4, <2>5, <2>6 DEF TypeOK
<1>2. History = <<>>
  BY DEF Init, History
<1>3. InOrder
  BY <1>2 DEF Init, InOrder
<1>4. ~ Pending
  BY DEF Init, Pending
<1> QED
  BY <1>1, <1>3, <1>4 DEF Init, IInv, TasksOnly, Answered, QuitAnswered

LEMMA StepInv == IInv /\ [Next]_vars => IInv'
<1> SUFFICES ASSUME IInv, [Next]_vars PROVE IInv'
  OBVIOUS
<1>1. CASE \E c \in Callers : RunInLoop(c) \/ Quit(c) \/ Wakeup(c)
  BY <1>1, RunInLoopKeeps, QuitKeeps, WakeupKeeps
<1>2. CASE RunInOwnLoop
  BY <1>2, RunInOwnLoopKeeps
<1>3. CASE \/ QuitOwnLoop \/ EnterLoop \/ TestQuit \/ PollReady \/ PollEmpty
           \/ BeginHandler \/ EndHandler
  BY <1>3, ControlKeeps
<1>4. CASE HandleRead \/ BeginTasks \/ RunTask \/ EndTasks
  BY <1>4, HandleReadKeeps, BeginTasksKeeps, RunTaskKeeps, EndTasksKeeps
<1>5. CASE UNCHANGED vars
  BY <1>5 DEF vars, local, IInv, TypeOK, InOrder, History, TasksOnly, Answered,
              QuitAnswered, Pending, Interrupted
<1> QED
  BY <1>1, <1>2, <1>3, <1>4, <1>5 DEF Next, LoopStep

\* The types, the order of the functors and the wakeups on their way, in every
\* reachable state.
THEOREM Invariance == Spec => []IInv
  BY InitInv, StepInv, PTL DEF Spec

\* The loop never sleeps in epoll_wait on a raised _quit or on a functor queued
\* since loop() was called unless a wakeup is on its way, with any number of
\* threads and any capacity of the eventfd (EventLoop::runInLoop, quit, loop).
THEOREM SleepIsInterrupted == Spec => []NoMissedWakeup
<1>1. IInv => NoMissedWakeup
  BY DEF IInv, NoMissedWakeup, Answered, QuitAnswered, Pending
<1> QED
  BY <1>1, Invariance, PTL

-----------------------------------------------------------------------------
(* The functors of a loop implement BoundedFifo.                           *)

LEMMA FifoPut ==
  ASSUME IInv, Push, UNCHANGED <<batch, executed>>
  PROVE  Fifo!Put
<1> DEFINE s == History
           t == History'
<1>1. /\ pushed \in Nat /\ pushed' = pushed + 1 /\ pushed + 1 \in Tasks
      /\ pushed < MaxTasks
  BY PushKeepsOrder DEF IInv, Push
<1>2. t = Append(s, pushed + 1)
  BY <1>1, OneMore DEF History
<1>3. Len(s) = pushed /\ Len(executed) \in Nat
  BY <1>1 DEF IInv, TypeOK, History
<1>4. Len(s) < Len(executed) + MaxTasks
  BY <1>1, <1>3, EventLoopAssumption
<1> HIDE DEF s, t
<1>5. \E x \in Tasks : t = Append(s, x)
  BY <1>1, <1>2
<1> QED
  BY <1>4, <1>5 DEF Fifo!Put, s, t, History

LEMMA FifoGet ==
  ASSUME IInv, RunTask
  PROVE  Fifo!Get
<1> DEFINE s == History
           q == batch \o functors
<1>1. /\ executed \in Seq(Tasks) /\ batch \in Seq(Tasks) /\ functors \in Seq(Tasks)
      /\ batch # <<>> /\ executed' = Append(executed, Head(batch))
      /\ UNCHANGED pushed
  BY DEF IInv, TypeOK, RunTask
<1>2. q \in Seq(Tasks) /\ q # <<>> /\ q[1] = Head(batch)
  BY <1>1
<1>3. s = executed \o q /\ UNCHANGED s
  BY <1>1 DEF IInv, InOrder, History
<1> HIDE DEF s, q
<1>4. Len(executed) < Len(s) /\ s[Len(executed) + 1] = q[1]
  BY <1>1, <1>2, <1>3
<1> QED
  BY <1>1, <1>2, <1>3, <1>4 DEF Fifo!Get, s, History

\* Swapping the functors out and running them from a local batch, while every
\* thread goes on queueing, looks to the callers of runInLoop() like one queue
\* from which the loop takes the oldest functor, each once
\* (EventLoop::runInLoop, doLoopTasks).
THEOREM LoopImplementsFifo == Spec => ImplementsFifo
<1>1. Init => Fifo!Init
  <2>1. [i \in 1 .. 0 |-> i] = <<>>
    OBVIOUS
  <2> QED
    BY <2>1, EventLoopAssumption DEF Init, Fifo!Init
<1>2. IInv /\ [Next]_vars => [Fifo!Next]_(Fifo!vars)
  <2> SUFFICES ASSUME IInv, [Next]_vars PROVE [Fifo!Next]_(Fifo!vars)
    OBVIOUS
  <2>1. CASE RunInOwnLoop \/ \E c \in Callers : RunInLoop(c)
    <3>1. Push /\ UNCHANGED <<batch, executed>>
      BY <2>1 DEF RunInOwnLoop, RunInLoop, local
    <3> QED
      BY <3>1, FifoPut DEF Fifo!Next
  <2>2. CASE RunTask
    BY <2>2, FifoGet DEF Fifo!Next
  <2>3. CASE UNCHANGED <<pushed, executed>>
    BY <2>3 DEF Fifo!vars
  <2>4. \/ RunInOwnLoop \/ \E c \in Callers : RunInLoop(c)
        \/ RunTask
        \/ UNCHANGED <<pushed, executed>>
    BY DEF Next, LoopStep, vars, Quit, Wakeup, QuitOwnLoop, EnterLoop, TestQuit,
           PollReady, PollEmpty, HandleRead, BeginHandler, EndHandler, BeginTasks,
           EndTasks
  <2> QED
    BY <2>1, <2>2, <2>3, <2>4
<1> QED
  BY <1>1, <1>2, Invariance, PTL DEF Spec, ImplementsFifo, Fifo!Spec

=============================================================================
