---------------------------- MODULE MC_EventLoop ----------------------------
(* One loop thread, two other threads, at most three queued functors. *)
EXTENDS EventLoop

CONSTANTS t1, t2

MCThreads == {t1, t2}
=============================================================================
