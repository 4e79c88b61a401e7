---------------------------- MODULE BlockingQueue ----------------------------
(***************************************************************************)
(* base/BlockingQueue.h: an unbounded queue under a mutex; take() blocks   *)
(* on _notEmpty while it is empty, push() wakes one taker.  An element is  *)
(* the number of the call of push() that brought it.                       *)
(***************************************************************************)
EXTENDS Naturals, Sequences, FiniteSets, Condition

CONSTANTS
  Takers,     \* threads that call take()
  MaxItems    \* bound on the calls of push()

ASSUME BlockingQueueAssumption == IsFiniteSet(Takers) /\ MaxItems \in Nat

Items == 1 .. MaxItems

VARIABLES
  queue,     \* _queue
  taker,     \* control state of take() in each taker
  pushed,    \* history: calls of push()
  taken      \* history: what take() returned, in order

BQVars == <<queue, taker, pushed, taken>>

BQTypeOK ==
  /\ queue \in Seq(Items)
  /\ taker \in [Takers -> {"idle", "waiting", "woken"}]
  /\ pushed \in 0 .. MaxItems
  /\ taken \in Seq(Items)

BQInit ==
  /\ queue = <<>>
  /\ taker = [c \in Takers |-> "idle"]
  /\ pushed = 0
  /\ taken = <<>>

-----------------------------------------------------------------------------

SignalNobody == UNCHANGED taker          \* mutant: no notify()

\* _notEmpty.notify()
Signal == taker' \in Notify(taker)

Push ==
  /\ pushed < MaxItems
  /\ pushed' = pushed + 1
  /\ queue' = Append(queue, pushed + 1)
  /\ Signal
  /\ UNCHANGED taken

isEmptyOnce(c) ==                       \* mutant: if (...) wait() for while
  queue = <<>> /\ taker[c] = "idle"

isEmpty(c) == queue = <<>>

takeFront == Head(queue)

\* front() of an empty deque, which the loop excludes, would be anything: 0.
front == IF queue = <<>> THEN 0 ELSE takeFront

\* take() with the mutex, on entry or back from wait().
Take(c) ==
  /\ taker[c] \in {"idle", "woken"}
  /\ \/ /\ isEmpty(c)
        /\ taker' = [taker EXCEPT ![c] = "waiting"]
        /\ UNCHANGED <<queue, taken>>
     \/ /\ ~ isEmpty(c)
        /\ taken' = Append(taken, front)
        /\ queue' = IF queue = <<>> THEN <<>> ELSE Tail(queue)
        /\ taker' = [taker EXCEPT ![c] = "idle"]
  /\ UNCHANGED pushed

\* pthread_cond_wait may return without a notification.
BQSpuriousWakeup ==
  /\ taker' \in WakeOne(taker)
  /\ UNCHANGED <<queue, pushed, taken>>

BQNext ==
  \/ Push
  \/ \E c \in Takers : Take(c)
  \/ BQSpuriousWakeup

\* A woken taker gets the mutex; nobody has to call push() or take().
BQFairness == \A c \in Takers : WF_BQVars(taker[c] = "woken" /\ Take(c))

BQSpec == BQInit /\ [][BQNext]_BQVars

BQFairSpec == BQSpec /\ BQFairness

-----------------------------------------------------------------------------

\* push() wakes one taker per element: while one sleeps, every element has a
\* woken taker on its way to it, whoever comes in between.
NoLostWakeup == Waiting(taker) # {} => Len(queue) <= Cardinality(Woken(taker))

\* Elements leave in the order they came, each once, none is lost.
FifoOnce == taken \o queue = [i \in 1 .. pushed |-> i]

\* The queue without its mutex and condition: what push() puts in comes out of
\* take() in that order, each element once, whoever wakes up and why.
Fifo == INSTANCE BoundedFifo WITH
  Item <- Items, bound <- MaxItems, in <- [i \in 1 .. pushed |-> i], out <- taken

ImplementsFifo == Fifo!Spec

\* The queue does not stay filled in front of a sleeping taker.
SleepersAreServed ==
  (queue # <<>> /\ Waiting(taker) # {}) ~> (queue = <<>> \/ Waiting(taker) = {})

=============================================================================
