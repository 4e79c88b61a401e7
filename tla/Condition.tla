----------------------------- MODULE Condition -----------------------------
(***************************************************************************)
(* base/Condition.h over base/Mutex.h: what a condition variable does to   *)
(* the threads that use it.  A component keeps a function `st' from its    *)
(* threads to their control states; a thread blocked in Condition::wait is *)
(* at "waiting", and one that was woken but has not yet taken the mutex    *)
(* again is at "woken".                                                    *)
(*                                                                         *)
(* A critical section (MutexLockGuard) is one step of its component: the   *)
(* data it touches is only touched under the same mutex, so the moments    *)
(* inside it cannot be told apart from outside.  wait() gives the mutex up *)
(* and so ends the step; the woken thread takes the mutex again in a later *)
(* step, and other threads may have entered in between.                    *)
(***************************************************************************)

Waiting(st) == {x \in DOMAIN st : st[x] = "waiting"}

Woken(st) == {x \in DOMAIN st : st[x] = "woken"}

\* The states one blocked thread's return from wait() can lead to.
WakeOne(st) == {[st EXCEPT ![x] = "woken"] : x \in Waiting(st)}

\* Condition::notify: some blocked thread wakes if there is one; a signal
\* with nobody waiting is lost.
Notify(st) == IF Waiting(st) = {} THEN {st} ELSE WakeOne(st)

\* Condition::notifyAll.
NotifyAll(st) ==
  [x \in DOMAIN st |-> IF st[x] = "waiting" THEN "woken" ELSE st[x]]

=============================================================================
