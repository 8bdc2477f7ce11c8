------------------------------ MODULE PipeSpec ------------------------------
(***************************************************************************)
(* What a pipe promises: a call of write() or read() happens at one        *)
(* instant between its call and its return.  It moves as many bytes as it  *)
(* can without waiting, and returns how many.                              *)
(***************************************************************************)
EXTENDS Naturals, Sequences

CONSTANTS Writer, Reader, Byte,
          Capacity,   \* the bytes a pipe holds
          Text, MaxSize   \* bounds: what is written, the bytes that are read

VARIABLES
    items,  \* Seq(Byte): the bytes in the pipe
    call    \* [Thread -> Call]: where each thread's call stands

Thread == Writer \cup Reader

None == [state |-> "none"]
Writing(s) == [state |-> "writing", bytes |-> s]
Reading(k) == [state |-> "reading", size |-> k]
Wrote(k) == [state |-> "wrote", result |-> k]
Got(s) == [state |-> "got", bytes |-> s]

Prefix(s, k) == SubSeq(s, 1, k)
Least(a, b) == IF a < b THEN a ELSE b

Init == items = <<>> /\ call = [t \in Thread |-> None]

Invoke(t) ==
    /\ call[t] = None
    /\ \/ t \in Writer /\ \E s \in Text : call' = [call EXCEPT ![t] = Writing(s)]
       \/ t \in Reader /\ \E k \in 0 .. MaxSize : call' = [call EXCEPT ![t] = Reading(k)]
    /\ UNCHANGED items

Write(t) ==
    /\ call[t].state = "writing"
    /\ LET k == Least(Len(call[t].bytes), Capacity - Len(items))
       IN  /\ items' = items \o Prefix(call[t].bytes, k)
           /\ call' = [call EXCEPT ![t] = Wrote(k)]

Read(t) ==
    /\ call[t].state = "reading"
    /\ LET k == Least(call[t].size, Len(items))
       IN  /\ items' = SubSeq(items, k + 1, Len(items))
           /\ call' = [call EXCEPT ![t] = Got(Prefix(items, k))]

Return(t) ==
    /\ call[t].state \in {"wrote", "got"}
    /\ call' = [call EXCEPT ![t] = None]
    /\ UNCHANGED items

Next == \E t \in Thread : Invoke(t) \/ Write(t) \/ Read(t) \/ Return(t)

Spec == Init /\ [][Next]_<<items, call>>
=============================================================================
