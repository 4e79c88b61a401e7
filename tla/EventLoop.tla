------------------------------ MODULE EventLoop ------------------------------
(***************************************************************************)
(* net/EventLoop: the loop of one thread over epoll, with the queue of     *)
(* functors other threads fill through runInLoop() and the eventfd that    *)
(* interrupts epoll_wait.  What the poller reports for other descriptors   *)
(* is "io"; what a callback or a functor does that matters here is to call *)
(* runInLoop() and quit() of its own loop.                                 *)
(***************************************************************************)
EXTENDS Naturals, Sequences

CONSTANTS
  Callers,      \* threads other than the loop's
  MaxTasks,     \* bound on the calls of runInLoop()
  EventFdMax    \* writes of 9527 the 64-bit counter of the eventfd can hold

ASSUME EventLoopAssumption ==
  /\ MaxTasks \in Nat
  /\ EventFdMax \in Nat \ {0}

Tasks == 1 .. MaxTasks    \* functors, numbered in the order they are queued

VARIABLES
  quit,        \* _quit
  functors,    \* _functors
  batch,       \* the local `fs' of doLoopTasks(), what is left of it
  doingTask,   \* _isDoingTask
  wakeups,     \* counter of _wakeupFd, in writes
  active,      \* activeChannels not yet handled, a subset of {"wakeup", "io"}
  loop,        \* control state of the loop's thread
  caller,      \* control state of each other thread
  pushed,      \* history: calls of runInLoop()
  early,       \* history: functors queued by the loop's thread before loop()
  executed     \* history: functors in the order they ran

local == <<batch, doingTask, active>>
vars  == <<quit, functors, local, wakeups, loop, caller, pushed, early, executed>>

TypeOK ==
  /\ quit \in BOOLEAN
  /\ functors \in Seq(Tasks)
  /\ batch \in Seq(Tasks)
  /\ doingTask \in BOOLEAN
  /\ wakeups \in 0 .. EventFdMax
  /\ active \subseteq {"wakeup", "io"}
  /\ loop \in {"before", "test", "poll", "events", "handler", "tasks", "exited"}
  /\ caller \in [Callers -> {"idle", "waking"}]
  /\ pushed \in 0 .. MaxTasks
  /\ early \subseteq Tasks
  /\ executed \in Seq(Tasks)

Init ==
  /\ quit = FALSE
  /\ functors = <<>>
  /\ batch = <<>>
  /\ doingTask = FALSE
  /\ wakeups = 0
  /\ active = {}
  /\ loop = "before"
  /\ caller = [c \in Callers |-> "idle"]
  /\ pushed = 0
  /\ early = {}
  /\ executed = <<>>

-----------------------------------------------------------------------------

\* wakeup(): write() adds to the counter, or fails with EAGAIN (logged) when
\* the counter would pass its maximum.
wakeup == wakeups' = IF wakeups < EventFdMax THEN wakeups + 1 ELSE wakeups

\* The critical section of runInLoop().
Push ==
  /\ pushed < MaxTasks
  /\ functors' = Append(functors, pushed + 1)
  /\ pushed' = pushed + 1

\* runInLoop() in another thread: queue, then (a second step) wake the loop.
RunInLoop(c) ==
  /\ caller[c] = "idle"
  /\ Push
  /\ caller' = [caller EXCEPT ![c] = "waking"]
  /\ UNCHANGED <<quit, local, wakeups, loop, early, executed>>

\* mutant: quit() of another thread does not wake the loop
QuitQuietly(c) ==
  /\ caller[c] = "idle"
  /\ quit' = TRUE
  /\ UNCHANGED <<functors, local, wakeups, loop, caller, pushed, early, executed>>

\* quit() in another thread: raise the flag, then wake the loop.
Quit(c) ==
  /\ caller[c] = "idle"
  /\ quit' = TRUE
  /\ caller' = [caller EXCEPT ![c] = "waking"]
  /\ UNCHANGED <<functors, local, wakeups, loop, pushed, early, executed>>

Wakeup(c) ==
  /\ caller[c] = "waking"
  /\ wakeup
  /\ caller' = [caller EXCEPT ![c] = "idle"]
  /\ UNCHANGED <<quit, functors, local, loop, pushed, early, executed>>

-----------------------------------------------------------------------------
(* The thread of the loop.                                                 *)

\* Code of the user runs in the loop's thread: before loop() is called, in a
\* channel's callback, or in a functor.
UserCode == loop \in {"before", "handler"} \/ (loop = "tasks" /\ batch # <<>>)

WakesNever == FALSE           \* mutant: if (!isInLoopThread()) wakeup()

\* The loop's own thread wakes the loop only while it runs functors.
WakesItself == doingTask

RunInOwnLoop ==
  /\ UserCode
  /\ Push
  /\ IF WakesItself THEN wakeup ELSE UNCHANGED wakeups
  /\ early' = IF loop = "before" THEN early \cup {pushed + 1} ELSE early
  /\ UNCHANGED <<quit, local, loop, caller, executed>>

QuitOwnLoop ==
  /\ UserCode
  /\ quit' = TRUE
  /\ UNCHANGED <<functors, local, wakeups, loop, caller, pushed, early, executed>>

EnterLoop ==
  /\ loop = "before"
  /\ loop' = "test"
  /\ UNCHANGED <<quit, functors, local, wakeups, caller, pushed, early, executed>>

\* while (!_quit)
TestQuit ==
  /\ loop = "test"
  /\ loop' = IF quit THEN "exited" ELSE "poll"
  /\ UNCHANGED <<quit, functors, local, wakeups, caller, pushed, early, executed>>

\* epoll_wait returns ready channels: the eventfd only while its counter is
\* not zero, and whatever else is ready.  The array it fills is bounded, so
\* the eventfd may be left for a later call.
PollReady ==
  /\ loop = "poll"
  /\ active' \in SUBSET {"wakeup", "io"} \ {{}}
  /\ "wakeup" \in active' => wakeups > 0
  /\ loop' = "events"
  /\ UNCHANGED <<quit, functors, batch, doingTask, wakeups, caller, pushed,
                 early, executed>>

\* epoll_wait times out after a second or is interrupted: poll() returns {}.
PollEmpty ==
  /\ loop = "poll"
  /\ wakeups = 0
  /\ loop' = "events"
  /\ UNCHANGED <<quit, functors, local, wakeups, caller, pushed, early, executed>>

\* handleRead(): one read returns the whole counter and resets it.
HandleRead ==
  /\ loop = "events" /\ "wakeup" \in active
  /\ active' = active \ {"wakeup"}
  /\ wakeups' = 0
  /\ UNCHANGED <<quit, functors, batch, doingTask, loop, caller, pushed, early,
                 executed>>

BeginHandler ==
  /\ loop = "events" /\ "io" \in active
  /\ active' = active \ {"io"}
  /\ loop' = "handler"
  /\ UNCHANGED <<quit, functors, batch, doingTask, wakeups, caller, pushed, early,
                 executed>>

EndHandler ==
  /\ loop = "handler"
  /\ loop' = "events"
  /\ UNCHANGED <<quit, functors, local, wakeups, caller, pushed, early, executed>>

\* mutant: doLoopTasks() copies the queue instead of swapping it
BeginTasksCopying ==
  /\ loop = "events" /\ active = {}
  /\ doingTask' = TRUE
  /\ batch' = functors
  /\ loop' = "tasks"
  /\ UNCHANGED <<quit, functors, wakeups, active, caller, pushed, early, executed>>

\* doLoopTasks() up to the end of its critical section.
BeginTasks ==
  /\ loop = "events" /\ active = {}
  /\ doingTask' = TRUE
  /\ batch' = functors
  /\ functors' = <<>>
  /\ loop' = "tasks"
  /\ UNCHANGED <<quit, wakeups, active, caller, pushed, early, executed>>

RunTask ==
  /\ loop = "tasks" /\ batch # <<>>
  /\ executed' = Append(executed, Head(batch))
  /\ batch' = Tail(batch)
  /\ UNCHANGED <<quit, functors, doingTask, wakeups, active, loop, caller, pushed,
                 early>>

EndTasks ==
  /\ loop = "tasks" /\ batch = <<>>
  /\ doingTask' = FALSE
  /\ loop' = "test"
  /\ UNCHANGED <<quit, functors, batch, wakeups, active, caller, pushed, early,
                 executed>>

-----------------------------------------------------------------------------

LoopStep ==
  TestQuit \/ HandleRead \/ BeginHandler \/ EndHandler \/ BeginTasks \/ RunTask
    \/ EndTasks

Next ==
  \/ \E c \in Callers : RunInLoop(c) \/ Quit(c) \/ Wakeup(c)
  \/ RunInOwnLoop
  \/ QuitOwnLoop
  \/ EnterLoop
  \/ PollReady
  \/ PollEmpty
  \/ LoopStep

\* The loop's thread runs, callbacks and functors return, and epoll_wait, which
\* serves its ready list in turn, does not leave a ready eventfd out for ever
\* (strong fairness: other channels may fill the array meanwhile); a thread
\* inside runInLoop() or quit() completes its wakeup.  The timeout of
\* epoll_wait is not assumed to fire.
Fairness ==
  /\ WF_vars(LoopStep)
  /\ SF_vars(PollReady /\ "wakeup" \in active')
  /\ \A c \in Callers : WF_vars(Wakeup(c))

Spec == Init /\ [][Next]_vars

FairSpec == Spec /\ Fairness

-----------------------------------------------------------------------------

\* A loop blocked in epoll_wait is about to be interrupted.
Interrupted == wakeups > 0 \/ \E c \in Callers : caller[c] = "waking"

\* To those who call runInLoop() the swapped batch and the queue behind it are
\* one queue, whichever thread calls and at what point of the loop's round:
\* functors run in the order they were queued, each once.
Fifo == INSTANCE BoundedFifo WITH
  Item <- Tasks, bound <- MaxTasks, in <- [i \in 1 .. pushed |-> i], out <- executed

ImplementsFifo == Fifo!Spec

\* The loop never sleeps on a raised _quit or on a queued functor without a
\* wakeup on its way, whichever thread raised or queued it and whenever, except
\* on functors its own thread queued before it called loop(), which wait for
\* the timeout.
NoMissedWakeup ==
  (loop = "poll" /\ (quit \/ \E i \in DOMAIN functors : functors[i] \notin early))
    => Interrupted

\* A functor queued on a loop that nobody asks to quit runs, without the help
\* of the poll timeout.
TaskRuns ==
  \A t \in Tasks :
    (t <= pushed /\ t \notin early /\ loop # "before")
      ~> (quit \/ \E i \in DOMAIN executed : executed[i] = t)

\* quit() ends a loop that is running or will be.
QuitEndsLoop == (quit /\ loop # "before") ~> loop = "exited"

=============================================================================
