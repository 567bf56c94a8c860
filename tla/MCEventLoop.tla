---------------------------- MODULE MCEventLoop -----------------------------
(* Two threads that post to one loop, which also posts to itself.            *)
EXTENDS EventLoop, TLC

ThreadSymmetry == Permutations(Threads)
=============================================================================
