--------------------------- MODULE MCBlockingQueue ---------------------------
(* Three takers, five elements.                                            *)
EXTENDS BlockingQueue
=============================================================================
