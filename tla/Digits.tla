------------------------------- MODULE Digits -------------------------------
(* Numbers in base b, by recursion on the number of digits.                *)
EXTENDS Integers, Sequences

Power(b, n) ==
  LET p[k \in 0 .. n] == IF k = 0 THEN 1 ELSE b * p[k - 1]
  IN  p[n]

\* What the digits of s denote, the most significant first.
Number(s, b) ==
  LET u[k \in 0 .. Len(s)] == IF k = 0 THEN 0 ELSE b * u[k - 1] + s[k]
  IN  u[Len(s)]

=============================================================================
