------------------------------ MODULE MCBuffer ------------------------------
(* Two bytes of header and two of data, which may grow to five.           *)
EXTENDS Buffer
=============================================================================
