------------------------------ MODULE MCPoller ------------------------------
(* Four channels; c and d have the same descriptor number, one after the   *)
(* other.  Descriptor 0 is stored as -1 when ignored.                      *)
EXTENDS Poller

CONSTANTS a, b, c, d

MCFd == [ch \in PollChannels |-> CASE ch = a -> 0 [] ch = b -> 3 [] OTHER -> 5]
=============================================================================
