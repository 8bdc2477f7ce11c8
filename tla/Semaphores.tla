----------------------------- MODULE Semaphores -----------------------------
(***************************************************************************)
(* Semaphores for the modules that use several: the value and the threads  *)
(* that are blocked, first come first served.  Module Semaphore shows that *)
(* the code keeps to this (SemaphoreSpec).                                 *)
(***************************************************************************)
EXTENDS Naturals, Sequences

Sem(n) == [value |-> n, blocked |-> <<>>]

(* t calls down(): it goes on, or blocks until it is passed. *)
Downed(s, t) ==
    IF s.value > 0
    THEN [s EXCEPT !.value = @ - 1]
    ELSE [s EXCEPT !.blocked = Append(@, t)]

(* MUTATION of Upped: the last to block is the first to be passed. *)
Upped_Last(s) ==
    IF s.blocked = <<>>
    THEN [s EXCEPT !.value = @ + 1]
    ELSE [s EXCEPT !.blocked = SubSeq(@, 1, Len(@) - 1)]

Upped(s) ==
    IF s.blocked = <<>>
    THEN [s EXCEPT !.value = @ + 1]
    ELSE [s EXCEPT !.blocked = Tail(@)]

BlockedOn(s, t) == \E i \in 1 .. Len(s.blocked) : s.blocked[i] = t
=============================================================================
