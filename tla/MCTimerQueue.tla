---------------------------- MODULE MCTimerQueue ----------------------------
(* Timer 2 repeats; its interval is one unit of time. *)
EXTENDS TimerQueue

MCInterval == [t \in Repeating |-> 1]
=============================================================================
