--------------------------- MODULE AddressSpaces ---------------------------
(***************************************************************************)
(* What virtual memory promises to programs: every process has pages of    *)
(* its own, that read as zero until it writes them; a visit to the kernel  *)
(* leaves them alone, fork() copies them, and exec() begins with none of   *)
(* the old program's.                                                      *)
(***************************************************************************)
CONSTANTS Process, Initial, Page, Value, Zero

VARIABLES
    mode,   \* [Process -> {"none", "user", "kernel", "exec"}]
    view    \* [Process -> [Page -> Value] \cup {NoView}]

NoView == <<>>
Blank == [a \in Page |-> Zero]

Init ==
    /\ mode = [p \in Process |-> IF p = Initial THEN "user" ELSE "none"]
    /\ view = [p \in Process |-> IF p = Initial THEN Blank ELSE NoView]

Becomes(p, from, to) ==
    /\ mode[p] = from
    /\ mode' = [mode EXCEPT ![p] = to]

Write(p, a, v) ==
    /\ mode[p] = "user"
    /\ view' = [view EXCEPT ![p][a] = v]
    /\ UNCHANGED mode

Enter(p) == Becomes(p, "user", "kernel") /\ UNCHANGED view

Leave(p) == Becomes(p, "kernel", "user") /\ UNCHANGED view

Fork(p, q) ==
    /\ mode[p] = "kernel" /\ mode[q] = "none"
    /\ mode' = [mode EXCEPT ![p] = "user", ![q] = "user"]
    /\ view' = [view EXCEPT ![q] = view[p]]

Exec(p) == Becomes(p, "user", "exec") /\ UNCHANGED view

Forget(p, a) ==
    /\ mode[p] = "exec"
    /\ view' = [view EXCEPT ![p][a] = Zero]
    /\ UNCHANGED mode

Execed(p) ==
    /\ view[p] = Blank
    /\ Becomes(p, "exec", "user")
    /\ UNCHANGED view

Exit(p) ==
    /\ Becomes(p, "user", "none")
    /\ view' = [view EXCEPT ![p] = NoView]

Next ==
    \E p \in Process :
        \/ \E a \in Page : Forget(p, a) \/ \E v \in Value : Write(p, a, v)
        \/ \E q \in Process : Fork(p, q)
        \/ Enter(p) \/ Leave(p)
        \/ Exec(p) \/ Execed(p) \/ Exit(p)

Spec == Init /\ [][Next]_<<mode, view>>
=============================================================================
