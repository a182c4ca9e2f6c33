--------------------------- MODULE MCThreadPool ---------------------------
(* A pool of three threads dealt more than two rounds. *)
EXTENDS ThreadPool
=============================================================================
