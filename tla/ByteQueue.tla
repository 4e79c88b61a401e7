------------------------------ MODULE ByteQueue ------------------------------
(***************************************************************************)
(* What net/Buffer promises its users: a queue of bytes, filled at the end *)
(* and drained at the front, where a header can also be put, with integers *)
(* in network byte order.                                                  *)
(***************************************************************************)
EXTENDS Digits

CONSTANT Base
VARIABLE queue

Empty == queue = <<>>

PutLast(s)  == queue' = queue \o s
PutFirst(s) == queue' = s \o queue

\* Taking more than there is takes all.
Take(n) == queue' = SubSeq(queue, n + 1, Len(queue))

\* The numerals of n digits, the most significant first, that denote v, a negative
\* v in two's complement.
Numerals(v, n) ==
  {s \in [1 .. n -> 0 .. Base - 1] :
     Number(s, Base) = IF v >= 0 THEN v ELSE v + Power(Base, n)}

\* The first occurrence of the pattern comes after k bytes.
Occurs(pattern, k) ==
  /\ k + Len(pattern) <= Len(queue)
  /\ SubSeq(queue, k + 1, k + Len(pattern)) = pattern

FirstAt(pattern, k) ==
  Occurs(pattern, k) /\ \A j \in 0 .. k - 1 : ~ Occurs(pattern, j)

=============================================================================
