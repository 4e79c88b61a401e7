------------------------------ MODULE CountDown ------------------------------
(***************************************************************************)
(* base/CountDown.h: threads wait until a counter has been taken down to   *)
(* zero.  Nothing stops down() there, nor a count that begins below it.    *)
(*                                                                         *)
(* The names begin with CD where a module that extends another             *)
(* specification too would have them twice.                                *)
(***************************************************************************)
EXTENDS Integers, Condition

CONSTANTS
  Waiters,    \* threads that call wait()
  Counts      \* arguments of the constructor, and what down() makes of them

ASSUME CountDownAssumption == Counts \subseteq Int

VARIABLES
  count,      \* _count
  waiter,     \* control state of wait() in each thread
  passed      \* history: threads wait() has returned to

CDVars == <<count, waiter, passed>>

CDTypeOK ==
  /\ count \in Counts
  /\ waiter \in [Waiters -> {"idle", "waiting", "woken"}]
  /\ passed \subseteq Waiters

CDInit ==
  /\ count \in Counts
  /\ waiter = [w \in Waiters |-> "idle"]
  /\ passed = {}

-----------------------------------------------------------------------------

releasesOne == waiter' \in Notify(waiter)        \* mutant: notify()

\* _cond.notifyAll()
releases == waiter' = NotifyAll(waiter)

\* down(): only the call that reaches zero releases the waiting threads.
Down ==
  /\ count - 1 \in Counts
  /\ count' = count - 1
  /\ IF count' = 0 THEN releases ELSE UNCHANGED waiter
  /\ UNCHANGED passed

\* while (_count > 0)
aboveZero == count > 0

\* wait() with the mutex, on entry or back from _cond.wait().
Wait(w) ==
  /\ waiter[w] \in {"idle", "woken"}
  /\ \/ /\ aboveZero
        /\ waiter' = [waiter EXCEPT ![w] = "waiting"]
        /\ UNCHANGED passed
     \/ /\ ~ aboveZero
        /\ waiter' = [waiter EXCEPT ![w] = "idle"]
        /\ passed' = passed \cup {w}
  /\ UNCHANGED count

\* pthread_cond_wait may return without a notification.
CDSpuriousWakeup == waiter' \in WakeOne(waiter) /\ UNCHANGED <<count, passed>>

CDNext ==
  \/ Down
  \/ \E w \in Waiters : Wait(w)
  \/ CDSpuriousWakeup

CDSpec == CDInit /\ [][CDNext]_CDVars

-----------------------------------------------------------------------------

\* Nobody gets past wait() before the count is down, however often the condition
\* wakes for nothing.
NobodyPassesEarly == passed # {} => count <= 0

\* Nobody sleeps once it is: the one broadcast, at zero and at no other value,
\* has reached whoever slept, and whoever comes later does not sleep.
NobodySleepsAtZero == Waiting(waiter) # {} => count > 0

\* What the latch is for: everybody who waits stays until zero is reached, and
\* nobody from then on.
OpensAtZero == NobodyPassesEarly /\ NobodySleepsAtZero

=============================================================================
