---------------------------- MODULE MCAsyncLogging ----------------------------
(* Buffers of three bytes: two messages that fill one together, one that   *)
(* fits none, one that fills one alone, and one more.                      *)
EXTENDS AsyncLogging

MCSize == <<1, 2, 4, 3, 1>>
=============================================================================
