--------------------------- MODULE BoundedBuffer ---------------------------
(***************************************************************************)
(* BoundedBuffer<T> of kernel/bb.h: a ring of N slots between threads that *)
(* put and threads that get, with three semaphores.                        *)
(***************************************************************************)
EXTENDS Semaphores, FiniteSets

CONSTANTS Thread, Item,
          N         \* the slots

ASSUME BufferAssumption == N \in Nat \ {0} /\ IsFiniteSet(Thread)

VARIABLES
    head, n, data,          \* the ring
    nEmpty, nFull, lock,    \* semaphores
    pc,                     \* [Thread -> Label]
    item                    \* [Thread -> Item]: `t' of put(), `out' of get()

ring == <<head, n, data>>
semaphores == <<nEmpty, nFull, lock>>
vars == <<ring, semaphores, pc, item>>

Blocked(t) == BlockedOn(nEmpty, t) \/ BlockedOn(nFull, t) \/ BlockedOn(lock, t)

(* A line of thread t, which is not blocked, from label l to label m. *)
Line(t, l, m) ==
    /\ pc[t] = l
    /\ ~Blocked(t)
    /\ pc' = [pc EXCEPT ![t] = m]

Init ==
    /\ head = 0
    /\ n = 0
    /\ data \in {[i \in 0 .. N - 1 |-> x] : x \in Item}
    /\ nEmpty = Sem(N)
    /\ nFull = Sem(0)
    /\ lock = Sem(1)
    /\ pc = [t \in Thread |-> "out"]
    /\ item \in {[t \in Thread |-> x] : x \in Item}

-----------------------------------------------------------------------------
(* put(t) *)

PutCall(t) ==
    /\ Line(t, "out", "putLock")
    /\ \E x \in Item : item' = [item EXCEPT ![t] = x]
    /\ nEmpty' = Downed(nEmpty, t)
    /\ UNCHANGED <<ring, nFull, lock>>

(* MUTATION of PutLock: the ring is not locked. *)
PutLock_Not(t) ==
    /\ Line(t, "putLock", "putData")
    /\ UNCHANGED <<ring, semaphores, item>>

PutLock(t) ==
    /\ Line(t, "putLock", "putData")
    /\ lock' = Downed(lock, t)
    /\ UNCHANGED <<ring, nEmpty, nFull, item>>

PutData(t) ==
    /\ Line(t, "putData", "putCount")
    /\ data' = [data EXCEPT ![(head + n) % N] = item[t]]
    /\ UNCHANGED <<head, n, semaphores, item>>

PutCount(t) ==
    /\ Line(t, "putCount", "putUnlock")
    /\ n' = n + 1
    /\ UNCHANGED <<head, data, semaphores, item>>

PutUnlock(t) ==
    /\ Line(t, "putUnlock", "putFull")
    /\ lock' = Upped(lock)
    /\ UNCHANGED <<ring, nEmpty, nFull, item>>

PutFull(t) ==
    /\ Line(t, "putFull", "out")
    /\ nFull' = Upped(nFull)
    /\ UNCHANGED <<ring, nEmpty, lock, item>>

(* get() *)

GetCall(t) ==
    /\ Line(t, "out", "getLock")
    /\ nFull' = Downed(nFull, t)
    /\ UNCHANGED <<ring, nEmpty, lock, item>>

GetLock(t) ==
    /\ Line(t, "getLock", "getData")
    /\ lock' = Downed(lock, t)
    /\ UNCHANGED <<ring, nEmpty, nFull, item>>

GetData(t) ==
    /\ Line(t, "getData", "getCount")
    /\ item' = [item EXCEPT ![t] = data[head]]
    /\ head' = (head + 1) % N
    /\ UNCHANGED <<n, data, semaphores>>

GetCount(t) ==
    /\ Line(t, "getCount", "getUnlock")
    /\ n' = n - 1
    /\ UNCHANGED <<head, data, semaphores, item>>

GetUnlock(t) ==
    /\ Line(t, "getUnlock", "getEmpty")
    /\ lock' = Upped(lock)
    /\ UNCHANGED <<ring, nEmpty, nFull, item>>

(* MUTATION of GetEmpty: the slot is not given back. *)
GetEmpty_Not(t) ==
    /\ Line(t, "getEmpty", "out")
    /\ UNCHANGED <<ring, semaphores, item>>

GetEmpty(t) ==
    /\ Line(t, "getEmpty", "out")
    /\ nEmpty' = Upped(nEmpty)
    /\ UNCHANGED <<ring, nFull, lock, item>>

-----------------------------------------------------------------------------
Inside(t) ==
    \/ PutLock(t) \/ PutData(t) \/ PutCount(t) \/ PutUnlock(t) \/ PutFull(t)
    \/ GetLock(t) \/ GetData(t) \/ GetCount(t) \/ GetUnlock(t) \/ GetEmpty(t)

Next == \E t \in Thread : Inside(t) \/ PutCall(t) \/ GetCall(t)

Spec == Init /\ [][Next]_vars

-----------------------------------------------------------------------------
(* Properties *)

(* The ring's items, oldest first.  Between the two assignments of get()   *)
(* one more is counted than there is.                                      *)
Contents ==
    LET len == IF \E t \in Thread : pc[t] = "getCount" THEN n - 1 ELSE n
    IN  [i \in 1 .. len |-> data[(head + i - 1) % N]]

Abstract == INSTANCE Fifo WITH items <- Contents, Capacity <- N

(* Whatever the threads do, items leave in the order they came, and none   *)
(* is overwritten or read twice.                                           *)
ImplementsFifo == Abstract!Spec

(* Nobody waits for a slot while one is free, or for an item while one is  *)
(* there: what the two semaphores count is what the ring has.              *)
WaitsWithReason ==
    (\A t \in Thread : pc[t] = "out" \/ BlockedOn(nEmpty, t) \/ BlockedOn(nFull, t)) =>
        /\ nEmpty.blocked # <<>> => n = N
        /\ nFull.blocked # <<>> => n = 0
=============================================================================
