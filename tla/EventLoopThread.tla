--------------------------- MODULE EventLoopThread ---------------------------
(***************************************************************************)
(* net/EventLoopThread as EventLoopThreadPool uses it: the base thread     *)
(* starts one thread after the other and waits until each has handed over  *)
(* the address of a loop that lives in the frame of its run(); the         *)
(* destructors end them one after the other.  Of the loop itself (see      *)
(* module EventLoop) there is the flag, the wakeup and the round.          *)
(***************************************************************************)
EXTENDS Naturals

CONSTANT MaxThreads    \* bound on _threadNum

ASSUME EventLoopThreadAssumption == MaxThreads \in Nat

Threads == 1 .. MaxThreads

VARIABLES
  threadNum,   \* _threadNum of the pool
  published,   \* _loop is not null
  thread,      \* control state of run() in each thread, and of its loop
  quit,        \* _quit of each loop
  wakeups,     \* the eventfd of each loop is readable
  base,        \* where the base thread is in start() or the destructor
  index,       \* the EventLoopThread start() or the destructor is at
  late,        \* loops in whose quit() another thread is, between its lines
  ended,       \* history: loops that somebody else asked to quit
  dangling     \* what was done to a loop that was gone: the destructor's flag
               \* or wakeup, or the wakeup of a "stranger"; no meaning after it

history == <<late, ended>>
vars == <<threadNum, published, thread, quit, wakeups, base, index, history, dangling>>

\* run()'s local is there from its constructor until loop() returns.
Alive(i) == thread[i] \in {"test", "poll", "round"}

Running == dangling = "none" /\ base # "aborted"

TypeOK ==
  /\ threadNum \in 0 .. MaxThreads
  /\ published \in [Threads -> BOOLEAN]
  /\ thread \in [Threads -> {"none", "begin", "test", "poll", "round", "exited"}]
  /\ quit \in [Threads -> BOOLEAN]
  /\ wakeups \in [Threads -> BOOLEAN]
  /\ base \in {"new", "starting", "lock", "waiting", "woken", "up", "quitting",
               "waking", "joining", "down", "aborted"}
  /\ index \in 1 .. MaxThreads + 1
  /\ ended \subseteq Threads /\ late \subseteq Threads
  /\ dangling \in {"none", "flag", "wakeup", "stranger"}

Init ==
  /\ threadNum \in 0 .. MaxThreads
  /\ published = [i \in Threads |-> FALSE]
  /\ thread = [i \in Threads |-> "none"]
  /\ quit = [i \in Threads |-> FALSE]
  /\ wakeups = [i \in Threads |-> FALSE]
  /\ base = "new" /\ index = 1
  /\ late = {} /\ ended = {} /\ dangling = "none"

-----------------------------------------------------------------------------
(* The base thread in EventLoopThreadPool::start.                          *)

Start ==
  /\ base = "new"
  /\ base' = "starting"
  /\ UNCHANGED <<threadNum, published, thread, quit, wakeups, index, history, dangling>>

\* Thread::start, or LOG_FATAL aborts the process.
CreateThread ==
  /\ base = "starting" /\ index <= threadNum
  /\ \/ thread' = [thread EXCEPT ![index] = "begin"] /\ base' = "lock"
     \/ base' = "aborted" /\ UNCHANGED thread
  /\ UNCHANGED <<threadNum, published, quit, wakeups, index, history, dangling>>

mustWaitOnce == ~ published[index] /\ base = "lock"   \* mutant: if for while

\* while (_loop == nullptr)
mustWait == ~ published[index]

\* start() with the mutex, on entry or back from wait().
TakeLoop ==
  /\ base \in {"lock", "woken"}
  /\ IF mustWait THEN base' = "waiting" /\ UNCHANGED index
                 ELSE base' = "starting" /\ index' = index + 1
  /\ UNCHANGED <<threadNum, published, thread, quit, wakeups, history, dangling>>

SpuriousWakeup ==
  /\ base = "waiting"
  /\ base' = "woken"
  /\ UNCHANGED <<threadNum, published, thread, quit, wakeups, index, history, dangling>>

StartReturns ==
  /\ base = "starting" /\ index > threadNum
  /\ base' = "up" /\ index' = 1
  /\ UNCHANGED <<threadNum, published, thread, quit, wakeups, history, dangling>>

\* The loops start() has returned.
HandedOut == IF base \in {"starting", "lock", "waiting", "woken"}
               THEN 1 .. index - 1
               ELSE IF base \in {"new", "aborted"} THEN {} ELSE 1 .. threadNum

-----------------------------------------------------------------------------
(* The base thread in the destructors of the pool's threads.               *)

Destroy ==
  /\ base = "up"
  /\ base' = "quitting"
  /\ UNCHANGED <<threadNum, published, thread, quit, wakeups, index, history, dangling>>

\* _loop->quit() raises the flag ...
RaiseQuit ==
  /\ base = "quitting" /\ index <= threadNum
  /\ IF Alive(index)
       THEN /\ quit' = [quit EXCEPT ![index] = TRUE]
            /\ base' = "waking"
            /\ UNCHANGED dangling
       ELSE dangling' = "flag" /\ UNCHANGED <<quit, base>>
  /\ UNCHANGED <<threadNum, published, thread, wakeups, index, history>>

WakesNever == FALSE                         \* mutant: quit() does not wake

\* if (!isInLoopThread())
WakesLoop == TRUE

\* ... and wakes the loop, which may have ended meanwhile.
WakeLoop ==
  /\ base = "waking"
  /\ IF Alive(index)
       THEN /\ wakeups' = IF WakesLoop THEN [wakeups EXCEPT ![index] = TRUE]
                                       ELSE wakeups
            /\ base' = "joining"
            /\ UNCHANGED dangling
       ELSE dangling' = "wakeup" /\ UNCHANGED <<wakeups, base>>
  /\ UNCHANGED <<threadNum, published, thread, quit, index, history>>

\* Thread::join; then ~Thread detaches the id, and the object is gone.
Join ==
  /\ base = "joining" /\ thread[index] = "exited"
  /\ base' = "quitting" /\ index' = index + 1
  /\ UNCHANGED <<threadNum, published, thread, quit, wakeups, history, dangling>>

Destroyed ==
  /\ base = "quitting" /\ index > threadNum
  /\ base' = "down"
  /\ UNCHANGED <<threadNum, published, thread, quit, wakeups, index, history, dangling>>

-----------------------------------------------------------------------------
(* run() in the i-th thread, and loop() below it.                          *)

\* The loop is made, and its address published under the mutex.
Publish(i) ==
  /\ thread[i] = "begin"
  /\ thread' = [thread EXCEPT ![i] = "test"]
  /\ published' = [published EXCEPT ![i] = TRUE]
  /\ base' = IF base = "waiting" /\ index = i THEN "woken" ELSE base
  /\ UNCHANGED <<threadNum, quit, wakeups, index, history, dangling>>

leavesWhenIdle(i) == quit[i] \/ ~ wakeups[i]  \* mutant: leaves on an empty poll

\* while (!_quit)
leaves(i) == quit[i]

\* With loop() run() returns, and with it the thread: ~EventLoop.
TestQuit(i) ==
  /\ thread[i] = "test"
  /\ thread' = [thread EXCEPT ![i] = IF leaves(i) THEN "exited" ELSE "poll"]
  /\ UNCHANGED <<threadNum, published, quit, wakeups, base, index, history, dangling>>

\* poll() returns: a wakeup, another event, or the timeout.
PollReturns(i) ==
  /\ thread[i] = "poll"
  /\ thread' = [thread EXCEPT ![i] = "round"]
  /\ UNCHANGED <<threadNum, published, quit, wakeups, base, index, history, dangling>>

\* The handlers and functors of a round; handleRead() empties the eventfd.
EndRound(i) ==
  /\ thread[i] = "round"
  /\ thread' = [thread EXCEPT ![i] = "test"]
  /\ wakeups' = [wakeups EXCEPT ![i] = FALSE]
  /\ UNCHANGED <<threadNum, published, quit, base, index, history, dangling>>

\* A callback in the loop calls quit() too ...
CallbackQuits(i) ==
  /\ thread[i] = "round"
  /\ quit' = [quit EXCEPT ![i] = TRUE]
  /\ ended' = ended \cup {i}
  /\ UNCHANGED <<threadNum, published, thread, wakeups, base, index, late, dangling>>

\* ... or a thread that was given the loop's address, which raises the flag ...
StrangerQuits(i) ==
  /\ Alive(i) /\ i \in HandedOut
  /\ quit' = [quit EXCEPT ![i] = TRUE]
  /\ late' = late \cup {i}
  /\ ended' = ended \cup {i}
  /\ UNCHANGED <<threadNum, published, thread, wakeups, base, index, dangling>>

\* ... and wakes the loop, which may have ended meanwhile.
StrangerWakes(i) ==
  /\ i \in late
  /\ late' = late \ {i}
  /\ IF Alive(i)
       THEN wakeups' = [wakeups EXCEPT ![i] = TRUE] /\ UNCHANGED dangling
       ELSE dangling' = "stranger" /\ UNCHANGED wakeups
  /\ UNCHANGED <<threadNum, published, thread, quit, base, index, ended>>

-----------------------------------------------------------------------------

BaseStep ==
  CreateThread \/ TakeLoop \/ StartReturns \/ RaiseQuit \/ WakeLoop \/ Join \/ Destroyed

LoopStep(i) ==
  Publish(i) \/ TestQuit(i) \/ EndRound(i) \/ (wakeups[i] /\ PollReturns(i))

Next ==
  /\ Running
  /\ \/ Start \/ SpuriousWakeup \/ Destroy \/ BaseStep
     \/ \E i \in Threads :
          \/ LoopStep(i) \/ PollReturns(i)
          \/ CallbackQuits(i) \/ StrangerQuits(i) \/ StrangerWakes(i)

\* Every thread runs; a readable eventfd ends epoll_wait, whose timeout is not
\* assumed to fire.
Fairness ==
  /\ WF_vars(Running /\ BaseStep)
  /\ \A i \in Threads : WF_vars(Running /\ LoopStep(i))

Spec == Init /\ [][Next]_vars

FairSpec == Spec /\ Fairness

-----------------------------------------------------------------------------

\* start() returns the address of a loop that runs, whatever woke it and
\* whether run() published before or after it began to wait, and the loop stays
\* until somebody asks it to quit.
HandsOutLoops ==
  \A i \in HandedOut : published[i] /\ (Alive(i) \/ quit[i])

\* The destructor raises the flag of a loop that is gone only if somebody else
\* has ended that loop (nothing clears _loop when run() returns).  The wakeup
\* after a flag, the destructor's or another's, may come too late in any case.
FindsLoopAlive == dangling = "flag" => index \in ended

\* start() returns, and so does the destructor, without the help of the poll
\* timeout, unless a loop that was gone has been used.
StartAndDestructorReturn ==
  /\ (base = "starting") ~> (base = "up" \/ ~ Running)
  /\ (base = "quitting") ~> (base = "down" \/ ~ Running)

=============================================================================
