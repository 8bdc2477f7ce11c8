------------------------------ MODULE FileSpec ------------------------------
(***************************************************************************)
(* What an open file promises the one process that uses it: its bytes in   *)
(* order, from where the last call or seek() left off.                     *)
(***************************************************************************)
EXTENDS Naturals, Sequences

CONSTANTS
    File,
    Content,   \* Content[node]: the bytes of a node
    Closed,
    Sizes, Seeks   \* bounds: what is asked for

VARIABLES
    node,     \* [File -> DOMAIN Content or Closed]
    offset,   \* [File -> Nat]: where the next read() starts
    last      \* [File -> Seq]: what the last read() has returned

FileVars == <<node, offset, last>>

Least(a, b) == IF a < b THEN a ELSE b

Init ==
    /\ node = [f \in File |-> Closed]
    /\ offset = [f \in File |-> 0]
    /\ last = [f \in File |-> <<>>]

Open(f) ==
    /\ node[f] = Closed
    /\ \E k \in DOMAIN Content : node' = [node EXCEPT ![f] = k]
    /\ offset' = [offset EXCEPT ![f] = 0]
    /\ last' = [last EXCEPT ![f] = <<>>]

Close(f) ==
    /\ node' = [node EXCEPT ![f] = Closed]
    /\ UNCHANGED <<offset, last>>

Seek(f) ==
    /\ node[f] # Closed
    /\ \E n \in Seeks : offset' = [offset EXCEPT ![f] = n]
    /\ UNCHANGED <<node, last>>

(* A read() of up to n bytes. *)
Read(f, n) ==
    LET bytes == SubSeq(Content[node[f]], offset[f] + 1,
                        Least(offset[f] + n, Len(Content[node[f]])))
    IN  /\ node[f] # Closed
        /\ last' = [last EXCEPT ![f] = bytes]
        /\ offset' = [offset EXCEPT ![f] = @ + Len(bytes)]
        /\ UNCHANGED node

Next == \E f \in File : Open(f) \/ Close(f) \/ Seek(f) \/ \E n \in Sizes : Read(f, n)

Spec == Init /\ [][Next]_FileVars
=============================================================================
