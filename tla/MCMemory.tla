------------------------------ MODULE MCMemory ------------------------------
(* Small instances of Memory for TLC. *)
EXTENDS Memory

(* Which free frame it is makes no difference to the others. *)
Lowest(S) == {f \in S : \A g \in S : f <= g}

(* Which frame it is tells no two states apart, only how many are free and *)
(* what those in use are and hold: each state stands for all that differ   *)
(* from it in the names of frames.  Where tables hold something else, or a *)
(* frame has two uses, they would not be told apart, so both are in the    *)
(* view themselves.                                                        *)
Tables ==
    /\ pde \in [Process -> [Dir -> Frame \cup {None}]]
    /\ pte \in [Process -> [Address -> Frame \cup {Device, None}]]

Seen(f) == CASE f = None -> None [] f = Device -> Device [] OTHER -> content[f]

View ==
    <<pc, at, child, panic, Cardinality(free), Tables, UsedOnce,
      [u \in Use |-> Seen(FrameOf(u))]>>
=============================================================================
