----------------------------- MODULE MCEventLoop -----------------------------
(* Two other threads, four functors, an eventfd that saturates at two.     *)
EXTENDS EventLoop
=============================================================================
