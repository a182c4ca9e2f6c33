---------------------------- MODULE MCEventLoop ----------------------------
(* EventLoop with model values for threads, functors and channels, given   *)
(* in the configurations.                                                  *)
EXTENDS EventLoop, TLC
=============================================================================
