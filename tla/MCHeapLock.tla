---------------------------- MODULE MCHeapLock -----------------------------
(* Small instances of Semaphore and of HeapLock for TLC, in one run: the   *)
(* semaphore is one that threads call at will, or the heap's, where the    *)
(* reaper calls it too and the instance has one other thread less.         *)
EXTENDS HeapLock, TLC

CONSTANTS c1, c2, i1, i2

VARIABLE use

MCIdleThreads == [c \in Core |-> IF c = c1 THEN i1 ELSE i2]

(* All threads but the reaper are alike. *)
Symmetry == Permutations(Thread \ {Reaper})

MCInit == SemInit /\ use \in {"at will", "heap"}

MCNext ==
    /\ \/ use = "at will" /\ SemNext
       \/ use = "heap" /\ HeapNext /\ Free' # {}
    /\ UNCHANGED use

MCSpec == MCInit /\ [][MCNext]_<<semVars, use>>
=============================================================================
