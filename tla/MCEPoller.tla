----------------------------- MODULE MCEPoller -----------------------------
(* Three channels on two descriptors: a and b have the same number, so one *)
(* of them can only live after the other is gone.                          *)
EXTENDS EPoller, TLC

CONSTANTS a, b, c, fd1, fd2

MCFdOf == (a :> fd1) @@ (b :> fd1) @@ (c :> fd2)
=============================================================================
