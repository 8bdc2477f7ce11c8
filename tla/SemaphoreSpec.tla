--------------------------- MODULE SemaphoreSpec ---------------------------
(***************************************************************************)
(* What a semaphore promises, with no lock and no scheduler in sight: a    *)
(* down takes one from the value or blocks its thread, an up lets the      *)
(* thread go on that blocked first, or adds one to the value.              *)
(***************************************************************************)
EXTENDS Naturals, Sequences

CONSTANTS Thread, Initial

VARIABLES value,    \* Nat
          blocked   \* Seq(Thread)

vars == <<value, blocked>>

Init == value = Initial /\ blocked = <<>>

Down ==
    \/ /\ value > 0
       /\ value' = value - 1
       /\ UNCHANGED blocked
    \/ /\ value = 0
       /\ \E t \in Thread :
             /\ \A i \in 1 .. Len(blocked) : blocked[i] # t
             /\ blocked' = Append(blocked, t)
       /\ UNCHANGED value

Up ==
    \/ /\ blocked = <<>>
       /\ value' = value + 1
       /\ UNCHANGED blocked
    \/ /\ blocked # <<>>
       /\ blocked' = Tail(blocked)
       /\ UNCHANGED value

Next == Down \/ Up

Spec == Init /\ [][Next]_vars
=============================================================================
