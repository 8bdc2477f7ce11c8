----------------------------- MODULE MCThreads -----------------------------
(* Small instances of Threads for TLC. *)
EXTENDS Threads

CONSTANTS c1, c2, i1, i2

MCIdleThreads == [c \in Core |-> IF c = c1 THEN i1 ELSE i2]
=============================================================================
