-------------------------- MODULE MCEventLoopThread --------------------------
(* Pools of no thread, one and two.                                        *)
EXTENDS EventLoopThread
=============================================================================
