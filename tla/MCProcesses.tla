---------------------------- MODULE MCProcesses ----------------------------
(* Small instances of Processes for TLC. *)
EXTENDS Processes

(* Which of the objects it is makes no difference to the others. *)
AnyOne(S) == IF S = {} THEN {} ELSE {CHOOSE o \in S : TRUE}
=============================================================================
