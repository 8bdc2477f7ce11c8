----------------------------- MODULE Condition -----------------------------
(***************************************************************************)
(* Condition of kernel/condition.h, a condition variable of a monitor whose*)
(* lock is an InterruptSafeLock, on the scheduler of module Threads.       *)
(*                                                                         *)
(* wait() lets go of the lock before it blocks.  An epoch number tells the *)
(* lambda, which takes the lock again, whether a notify() came in between. *)
(***************************************************************************)
EXTENDS Threads

VARIABLES
    held,           \* the_lock
    epoch, queue,   \* the condition's fields
    old_epoch       \* [TCB -> Nat]: local of wait()

condition == <<held, epoch, queue, old_epoch>>
condVars == <<vars, condition>>

ConditionInit ==
    /\ held = FALSE
    /\ epoch = 0
    /\ queue = <<>>
    /\ old_epoch = [t \in TCB |-> 0]

-----------------------------------------------------------------------------
(* the_lock->lock() at label l: the holder has interrupts off. *)
Acquire(c, l) ==
    /\ At(c, l)
    /\ ~held
    /\ held' = TRUE
    /\ interrupts' = [interrupts EXCEPT ![c] = FALSE]

(* the_lock->unlock(): interrupts are on again.  (Nobody calls lock() with *)
(* interrupts off but the lambda of wait().)                               *)
Release(c) ==
    /\ held' = FALSE
    /\ interrupts' = [interrupts EXCEPT ![c] = TRUE]

(* wait(), called at label l by the holder: it remembers the epoch. *)
WaitRelease(c, l, m) ==
    /\ At(c, l)
    /\ old_epoch' = [old_epoch EXCEPT ![Me(c)] = epoch]
    /\ Release(c)
    /\ Goto(Me(c), m)
    /\ UNCHANGED <<onCore, activeThreads, tss, no_preempt, frame, corpse, handler, queues, epoch, queue>>

WaitBlock(c, l, m) ==
    /\ At(c, l)
    /\ Block(c, "MustBlock", "wait", m, interrupts[c])
    /\ UNCHANGED <<cpu, corpse, handler, queues, condition>>

(* MUTATION of WaitHandler: the thread waits whatever the epoch is. *)
WaitHandler_NoEpoch(c) ==
    LET me == handler[c].prev IN
    /\ handler[c].act = "wait"
    /\ ~held
    /\ queue' = Append(queue, me)
    /\ Resume(c)
    /\ UNCHANGED <<onCore, activeThreads, tss, no_preempt, frame, corpse, queues, held, epoch, old_epoch>>

(* The lambda: it has the lock for as long as it takes to queue the thread,*)
(* and queues it for a core if a notify() came in the meantime.            *)
WaitHandler(c) ==
    LET me == handler[c].prev IN
    /\ handler[c].act = "wait"
    /\ ~held
    /\ IF epoch = old_epoch[me]
       THEN queue' = Append(queue, me) /\ UNCHANGED readyQ
       ELSE Schedule(me) /\ UNCHANGED queue
    /\ Resume(c)
    /\ UNCHANGED <<onCore, activeThreads, tss, no_preempt, frame, corpse, zombies, held, epoch, old_epoch>>

(* MUTATION of NotifyNext: the thread stays in the queue. *)
NotifyNext_Peeks(c, l, m) ==
    /\ At(c, l)
    /\ queue # <<>>
    /\ Schedule(Head(queue))
    /\ Goto(Me(c), m)
    /\ UNCHANGED <<cpu, no_preempt, frame, corpse, handler, zombies, condition>>

(* The loop of notifyAll(), at label l until the queue is empty. *)
NotifyNext(c, l, m) ==
    /\ At(c, l)
    /\ queue # <<>>
    /\ Schedule(Head(queue))
    /\ queue' = Tail(queue)
    /\ UNCHANGED <<cpu, no_preempt, pc, frame, corpse, handler, zombies, held, epoch, old_epoch>>

NotifyDone(c, l, m) ==
    /\ At(c, l)
    /\ queue = <<>>
    /\ Goto(Me(c), m)
    /\ UNCHANGED <<cpu, no_preempt, frame, corpse, handler, queues, condition>>

-----------------------------------------------------------------------------
(* Properties *)

(* The places of Threads, with the queue of the condition. *)
CondPlaces(x) ==
    Places(x) \cup {<<"condition", i>> : i \in {j \in 1 .. Len(queue) : queue[j] = x}}

(* "Guarantee: no missed signals" (condition.h:34): a thread waits in the  *)
(* queue only for the notify() that comes after its wait(), and there it   *)
(* is in no other place, nor lost on its way in or out.                    *)
NoMissedSignal ==
    /\ \A i \in 1 .. Len(queue) : ~held => old_epoch[queue[i]] = epoch
    /\ \A x \in TCB : \A p, q \in CondPlaces(x) : p = q
    /\ \A x \in Thread : pc[x] = "free" <=> CondPlaces(x) = {}
=============================================================================
