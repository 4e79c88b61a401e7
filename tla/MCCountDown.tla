----------------------------- MODULE MCCountDown -----------------------------
(* Three waiting threads; counts from three down to two below zero.        *)
EXTENDS CountDown

MCCounts == -2 .. 3
=============================================================================
