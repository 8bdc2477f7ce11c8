----------------------------- MODULE Allocator -----------------------------
(***************************************************************************)
(* What malloc(), free() and realloc() promise: blocks of memory that do   *)
(* not overlap, of at least the words asked for, which keep what their     *)
(* owner wrote.                                                            *)
(***************************************************************************)
EXTENDS Naturals, Sequences

CONSTANT Memory     \* the addresses of the words

VARIABLE blocks     \* a function from addresses to the words of the block there

Words(b, a) == a .. a + Len(b[a]) - 1

Disjoint(b) ==
    \A a, c \in DOMAIN b : a # c => Words(b, a) \cap Words(b, c) = {}

Without(b, a) == [c \in DOMAIN b \ {a} |-> b[c]]

Init == blocks = <<>>

Malloc ==
    \E a \in DOMAIN blocks' \ DOMAIN blocks :
        /\ Without(blocks', a) = blocks
        /\ Words(blocks', a) \subseteq Memory
        /\ Disjoint(blocks')

Free == \E a \in DOMAIN blocks : blocks' = Without(blocks, a)

Store ==
    /\ DOMAIN blocks' = DOMAIN blocks
    /\ \E a \in DOMAIN blocks :
          /\ Without(blocks', a) = Without(blocks, a)
          /\ Len(blocks'[a]) = Len(blocks[a])

(* The words both have in common are copied. *)
Realloc ==
    \E a \in DOMAIN blocks, c \in DOMAIN blocks' \ DOMAIN blocks :
        /\ Without(blocks', c) = Without(blocks, a)
        /\ Words(blocks', c) \subseteq Memory
        /\ Disjoint(blocks')
        /\ \A i \in DOMAIN blocks[a] \cap DOMAIN blocks'[c] : blocks'[c][i] = blocks[a][i]

Next == Malloc \/ Free \/ Store \/ Realloc

Spec == Init /\ [][Next]_blocks
=============================================================================
