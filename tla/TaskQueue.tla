----------------------------- MODULE TaskQueue -----------------------------
(***************************************************************************)
(* What EventLoop promises to the callers of queueInLoop: a task handed to *)
(* the loop is run exactly once, and tasks are run in the order in which   *)
(* they were handed over.  Nothing is said about when.                     *)
(***************************************************************************)
EXTENDS Sequences

CONSTANT Tasks

VARIABLES
  waiting,   \* tasks handed over and not yet run, oldest first
  done       \* tasks run so far, oldest first

taskVars == <<waiting, done>>

Init ==
  /\ waiting = << >>
  /\ done = << >>

Post(task) ==
  /\ waiting' = Append(waiting, task)
  /\ UNCHANGED done

Run ==
  /\ waiting # << >>
  /\ done' = Append(done, Head(waiting))
  /\ waiting' = Tail(waiting)

Next ==
  \/ \E task \in Tasks : Post(task)
  \/ Run

Spec == Init /\ [][Next]_taskVars
=============================================================================
