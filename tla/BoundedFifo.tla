----------------------------- MODULE BoundedFifo -----------------------------
(***************************************************************************)
(* What the queues between threads promise, whatever deque, mutex and      *)
(* condition they are made of: items go out in the order they came in,     *)
(* each once, none is skipped, and no more than `bound' of them wait.      *)
(* Implemented by ThreadPool, BlockingQueue and EventLoop.                 *)
(***************************************************************************)
EXTENDS Naturals, Sequences

CONSTANT Item

VARIABLES
  bound,   \* fixed for the life of the queue
  in,      \* what has been put in so far, in order
  out      \* what has been taken out so far, in order

vars == <<bound, in, out>>

Init ==
  /\ bound \in Nat
  /\ in = <<>>
  /\ out = <<>>

Put ==
  /\ Len(in) < Len(out) + bound
  /\ \E x \in Item : in' = Append(in, x)
  /\ UNCHANGED <<bound, out>>

Get ==
  /\ Len(out) < Len(in)
  /\ out' = Append(out, in[Len(out) + 1])
  /\ UNCHANGED <<bound, in>>

\* With nothing waiting an item may go straight through.
Pass ==
  /\ in = out
  /\ \E x \in Item : in' = Append(in, x)
  /\ out' = in'
  /\ UNCHANGED bound

Next == Put \/ Get \/ Pass

Spec == Init /\ [][Next]_vars

=============================================================================
