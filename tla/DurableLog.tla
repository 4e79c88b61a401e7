----------------------------- MODULE DurableLog -----------------------------
(***************************************************************************)
(* What the asynchronous logger promises whoever reads the file after the  *)
(* process is gone: the durable part of the log only grows, and is a first *)
(* part of what was logged, byte by byte.  Once a write has failed lines   *)
(* may be torn, run into one another, doubled or missing: all that is left *)
(* is that nothing is taken back, and that each byte is one of a line that *)
(* was logged.  Implemented by AsyncLogging.                               *)
(***************************************************************************)
EXTENDS SequencesExt

CONSTANT Line      \* the lines, each a sequence of bytes

VARIABLES
  log,       \* the bytes that were logged, in order
  durable,   \* what would be found after a crash
  faulty     \* a write has failed

vars == <<log, durable, faulty>>

Init == log = <<>> /\ durable = <<>> /\ faulty = FALSE

Write ==
  /\ \E l \in Line : log' = log \o l
  /\ UNCHANGED <<durable, faulty>>

Persist ==
  /\ IsPrefix(durable, durable')
  /\ Range(durable') \subseteq Range(log)
  /\ faulty => faulty'
  /\ ~ faulty' => IsPrefix(durable', log)
  /\ UNCHANGED log

Next == Write \/ Persist

Spec == Init /\ [][Next]_vars

=============================================================================
