-------------------------------- MODULE Pipe --------------------------------
(***************************************************************************)
(* Pipe of kernel/Pipe.h: a ring of MAX_BUFFER_SIZE bytes with three       *)
(* semaphores, under the system calls write and read of several threads.   *)
(***************************************************************************)
EXTENDS Semaphores

CONSTANTS Writer, Reader,   \* the threads that hold the file of each end
          Byte,
          MAX_BUFFER_SIZE,
          Text, MaxSize     \* bounds: what is written, the bytes that are read

ASSUME PipeAssumption ==
    MAX_BUFFER_SIZE \in Nat \ {0} /\ MaxSize \in Nat /\ Text \subseteq Seq(Byte)

Thread == Writer \cup Reader

VARIABLES
    buffer, read_index, write_index, count,     \* the ring
    read_sem, write_sem, lock,                  \* semaphores
    pc,     \* [Thread -> Label]
    data,   \* [Thread -> Seq(Byte)]: what write() is to write
    size,   \* [Thread -> Nat]: the bytes to move
    moved   \* [Thread -> Seq(Byte)]: what the call has written or read

ring == <<buffer, read_index, write_index, count>>
semaphores == <<read_sem, write_sem, lock>>
asked == <<data, size>>
vars == <<ring, semaphores, pc, asked, moved>>

Blocked(t) == BlockedOn(read_sem, t) \/ BlockedOn(write_sem, t) \/ BlockedOn(lock, t)

(* A line of thread t, which is not blocked, from label l to label m. *)
Line(t, l, m) ==
    /\ pc[t] = l
    /\ ~Blocked(t)
    /\ pc' = [pc EXCEPT ![t] = m]

(* The buffer is not initialised. *)
Init ==
    /\ buffer \in [0 .. MAX_BUFFER_SIZE - 1 -> Byte]
    /\ read_index = 0 /\ write_index = 0 /\ count = 0
    /\ read_sem = Sem(0)
    /\ write_sem = Sem(MAX_BUFFER_SIZE)
    /\ lock = Sem(1)
    /\ pc = [t \in Thread |-> "out"]
    /\ data = [t \in Thread |-> <<>>]
    /\ size = [t \in Thread |-> 0]
    /\ moved = [t \in Thread |-> <<>>]

-----------------------------------------------------------------------------
(* write(data, size) *)

WriteCall(t) ==
    /\ Line(t, "out", "writeLock")
    /\ t \in Writer
    /\ \E s \in Text :
          /\ data' = [data EXCEPT ![t] = s]
          /\ size' = [size EXCEPT ![t] = Len(s)]
    /\ moved' = [moved EXCEPT ![t] = <<>>]
    /\ UNCHANGED <<ring, semaphores>>

(* MUTATION of WriteLock: two writers work on the ring at once. *)
WriteLock_Not(t) ==
    /\ Line(t, "writeLock", "writeTest")
    /\ UNCHANGED <<ring, semaphores, asked, moved>>

WriteLock(t) ==
    /\ Line(t, "writeLock", "writeTest")
    /\ lock' = Downed(lock, t)
    /\ UNCHANGED <<ring, read_sem, write_sem, asked, moved>>

(* MUTATION of WriteMore: the whole of `data' is written, full or not. *)
WriteMore_Full(t) == Len(moved[t]) < size[t]

WriteMore(t) == Len(moved[t]) < size[t] /\ count < MAX_BUFFER_SIZE

(* The test of the loop, and write_sem->down(). *)
WriteTest(t) ==
    /\ Line(t, "writeTest", "writeByte")
    /\ WriteMore(t)
    /\ write_sem' = Downed(write_sem, t)
    /\ UNCHANGED <<ring, read_sem, lock, asked, moved>>

WriteByte(t) ==
    /\ Line(t, "writeByte", "writeSignal")
    /\ buffer' = [buffer EXCEPT ![write_index] = data[t][Len(moved[t]) + 1]]
    /\ count' = count + 1
    /\ write_index' = (write_index + 1) % MAX_BUFFER_SIZE
    /\ moved' = [moved EXCEPT ![t] = Append(@, data[t][Len(@) + 1])]
    /\ UNCHANGED <<read_index, semaphores, asked>>

WriteSignal(t) ==
    /\ Line(t, "writeSignal", "writeTest")
    /\ read_sem' = Upped(read_sem)
    /\ UNCHANGED <<ring, write_sem, lock, asked, moved>>

WriteDone(t) ==
    /\ Line(t, "writeTest", "wrote")
    /\ ~WriteMore(t)
    /\ lock' = Upped(lock)
    /\ UNCHANGED <<ring, read_sem, write_sem, asked, moved>>

(* read(data, size) *)

ReadCall(t) ==
    /\ Line(t, "out", "readLock")
    /\ t \in Reader
    /\ \E k \in 0 .. MaxSize : size' = [size EXCEPT ![t] = k]
    /\ data' = [data EXCEPT ![t] = <<>>]
    /\ moved' = [moved EXCEPT ![t] = <<>>]
    /\ UNCHANGED <<ring, semaphores>>

ReadLock(t) ==
    /\ Line(t, "readLock", "readTest")
    /\ lock' = Downed(lock, t)
    /\ UNCHANGED <<ring, read_sem, write_sem, asked, moved>>

ReadMore(t) == Len(moved[t]) < size[t] /\ count > 0

ReadTest(t) ==
    /\ Line(t, "readTest", "readByte")
    /\ ReadMore(t)
    /\ read_sem' = Downed(read_sem, t)
    /\ UNCHANGED <<ring, write_sem, lock, asked, moved>>

ReadByte(t) ==
    /\ Line(t, "readByte", "readSignal")
    /\ moved' = [moved EXCEPT ![t] = Append(@, buffer[read_index])]
    /\ count' = count - 1
    /\ read_index' = (read_index + 1) % MAX_BUFFER_SIZE
    /\ UNCHANGED <<buffer, write_index, semaphores, asked>>

ReadSignal(t) ==
    /\ Line(t, "readSignal", "readTest")
    /\ write_sem' = Upped(write_sem)
    /\ UNCHANGED <<ring, read_sem, lock, asked, moved>>

ReadDone(t) ==
    /\ Line(t, "readTest", "got")
    /\ ~ReadMore(t)
    /\ lock' = Upped(lock)
    /\ UNCHANGED <<ring, read_sem, write_sem, asked, moved>>

(* The number of bytes goes back to the program. *)
Return(t) ==
    /\ \E l \in {"wrote", "got"} : Line(t, l, "out")
    /\ data' = [data EXCEPT ![t] = <<>>]
    /\ size' = [size EXCEPT ![t] = 0]
    /\ moved' = [moved EXCEPT ![t] = <<>>]
    /\ UNCHANGED <<ring, semaphores>>

-----------------------------------------------------------------------------
Inside(t) ==
    \/ WriteLock(t) \/ WriteTest(t) \/ WriteByte(t) \/ WriteSignal(t) \/ WriteDone(t)
    \/ ReadLock(t) \/ ReadTest(t) \/ ReadByte(t) \/ ReadSignal(t) \/ ReadDone(t)
    \/ Return(t)

Next == \E t \in Thread : Inside(t) \/ WriteCall(t) \/ ReadCall(t)

(* The scheduler keeps every thread going (ReadyRuns of Threads), as long  *)
(* as the reaper does not wait for the heap's lock (module HeapLock).      *)
Fairness == \A t \in Thread : WF_vars(Inside(t))

Spec == Init /\ [][Next]_vars
FairSpec == Spec /\ Fairness

-----------------------------------------------------------------------------
(* Properties *)

InWrite(t) == pc[t] \in {"writeTest", "writeByte", "writeSignal"}
InRead(t) == pc[t] \in {"readTest", "readByte", "readSignal"}
Holds(t) == (InWrite(t) \/ InRead(t)) /\ ~BlockedOn(lock, t)

Contents == [i \in 1 .. count |-> buffer[(read_index + i - 1) % MAX_BUFFER_SIZE]]

(* The bytes before the call that is under way touched them. *)
Settled ==
    IF \E t \in Thread : Holds(t)
    THEN LET t == CHOOSE h \in Thread : Holds(h)
         IN  IF InWrite(t)
             THEN SubSeq(Contents, 1, count - Len(moved[t]))
             ELSE moved[t] \o Contents
    ELSE Contents

Call(t) ==
    CASE pc[t] = "out" -> [state |-> "none"]
      [] pc[t] = "writeLock" \/ InWrite(t) -> [state |-> "writing", bytes |-> data[t]]
      [] pc[t] = "readLock" \/ InRead(t) -> [state |-> "reading", size |-> size[t]]
      [] pc[t] = "wrote" -> [state |-> "wrote", result |-> Len(moved[t])]
      [] pc[t] = "got" -> [state |-> "got", bytes |-> moved[t]]

Calls == [t \in Thread |-> Call(t)]

Spec0 == INSTANCE PipeSpec WITH
    Capacity <- MAX_BUFFER_SIZE,
    items <- Settled,
    call <- Calls

(* However the lines of several calls interleave, each call happens at     *)
(* once: what one write() returns for stays together, in order, and every  *)
(* byte is read once.                                                      *)
ImplementsPipe == Spec0!Spec

(* write() and read() call down() on the second semaphore with the pipe    *)
(* locked: were one of them to block there, nobody could ever wake it.     *)
NeverBlocksLocked ==
    \A t \in Thread : ~BlockedOn(read_sem, t) /\ ~BlockedOn(write_sem, t)

(* Every call returns. *)
EveryCallReturns == \A t \in Thread : pc[t] # "out" ~> pc[t] = "out"
=============================================================================
