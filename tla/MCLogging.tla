------------------------------ MODULE MCLogging ------------------------------
(* Two threads and two lines in buffers of sixteen bytes, of which the     *)
(* header takes five; a long text, a short one and a number, which asks    *)
(* for more than it takes.                                                 *)
EXTENDS Logging, TLC

MCHeader == << [len |-> 1, asks |-> 2], [len |-> 2, asks |-> 6] >>
MCPieces == {[len |-> 7, asks |-> 8], [len |-> 1, asks |-> 2], [len |-> 2, asks |-> 6]}
Symmetry == Permutations(Thread)
=============================================================================
