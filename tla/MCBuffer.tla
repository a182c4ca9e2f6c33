------------------------------ MODULE MCBuffer ------------------------------
(* A buffer small enough to fill, move and grow within a few calls.        *)
EXTENDS Buffer
=============================================================================
