------------------------- MODULE MCReusableBarrier -------------------------
(* Small instances of ReusableBarrier for TLC. *)
EXTENDS ReusableBarrier

CONSTANTS c1, c2, i1, i2

MCIdleThreads == [c \in Core |-> IF c = c1 THEN i1 ELSE i2]
=============================================================================
