--------------------------- MODULE MCTcpConnection ---------------------------
(* Two messages of up to three bytes.                                      *)
EXTENDS TcpConnection
=============================================================================
