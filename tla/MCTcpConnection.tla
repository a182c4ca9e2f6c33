-------------------------- MODULE MCTcpConnection --------------------------
(* Two messages of one byte and one of two, which fills the send buffer or *)
(* does not fit.  The poller has no other channel.                         *)
EXTENDS TcpConnection, TLC

CONSTANTS m1, m2, m3, fd4

MCLength == [m \in Messages |-> IF m = m2 THEN 2 ELSE 1]

MCFdOf == [ch \in Channels |-> fd4]
=============================================================================
