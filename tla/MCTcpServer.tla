---------------------------- MODULE MCTcpServer ----------------------------
(* Three connections on two descriptor numbers: c1 and c2 get the same     *)
(* one, one after the other.                                               *)
EXTENDS TcpServer, TLC

CONSTANTS c1, c2, c3, fd4, fd5

MCFdOf == [ch \in Channels |-> CASE ch = acceptChannel_ -> ListenFd
                                 [] ch \in {c1, c2} -> fd4
                                 [] ch = c3 -> fd5]
=============================================================================
