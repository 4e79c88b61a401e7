----------------------------- MODULE MCTcpServer -----------------------------
(* Two connections on two descriptors, one of which may serve both; no     *)
(* other thread, one or two.                                               *)
EXTENDS TcpServer
=============================================================================
