----------------------------- MODULE ByteQueue -----------------------------
(***************************************************************************)
(* What Buffer promises: a queue of bytes, written at its end, read from   *)
(* its front, with a few bytes of room to write at the front.  call is the *)
(* interface: the last call and its argument, which the content must       *)
(* follow.  A shrink may lose the content; then nothing is promised        *)
(* until the queue is cleared.                                             *)
(***************************************************************************)
EXTENDS Naturals, Sequences

CONSTANTS
  Chunks,      \* the byte strings that may be written
  Counts       \* the arguments of reads and shrinks

VARIABLES
  content,
  intact,      \* no shrink has lost the content; it is empty otherwise
  call

vars == <<content, intact, call>>

Init ==
  /\ content = << >> /\ intact = TRUE
  /\ call = [none |-> TRUE]

Write(chunk) ==
  /\ call' = [write |-> chunk]
  /\ content' = IF intact THEN content \o chunk ELSE content
  /\ UNCHANGED intact

Prepend(chunk) ==
  /\ call' = [prepend |-> chunk]
  /\ content' = IF intact THEN chunk \o content ELSE content
  /\ UNCHANGED intact

Read(n) ==
  /\ intact => n <= Len(content)
  /\ call' = [read |-> n]
  /\ content' = IF intact THEN SubSeq(content, n + 1, Len(content)) ELSE content
  /\ UNCHANGED intact

Clear ==
  /\ call' = [clear |-> TRUE]
  /\ content' = << >> /\ intact' = TRUE

Shrink(reserve) ==
  /\ call' = [shrink |-> reserve]
  /\ \/ UNCHANGED <<content, intact>>
     \/ content' = << >> /\ intact' = FALSE

Next ==
  \/ \E chunk \in Chunks : Write(chunk) \/ Prepend(chunk)
  \/ \E n \in Counts : Read(n)
  \/ Clear
  \/ \E reserve \in Counts : Shrink(reserve)

Spec == Init /\ [][Next]_vars
=============================================================================
