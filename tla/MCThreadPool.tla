---------------------------- MODULE MCThreadPool ----------------------------
(* Three callers, pools of zero to two threads, two starts, one task throws. *)
EXTENDS ThreadPool

MCThrowing == {MaxTasks}
=============================================================================
