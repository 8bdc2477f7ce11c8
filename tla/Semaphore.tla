----------------------------- MODULE Semaphore -----------------------------
(***************************************************************************)
(* Semaphore of kernel/semaphore.h on the scheduler of module Threads.     *)
(*                                                                         *)
(* down() and up() change count and waiting under an ISL, with interrupts  *)
(* off: one step each, except for a down() that blocks.  It takes the lock *)
(* into block() and its lambda, which runs on the next thread's stack,     *)
(* releases it.                                                            *)
(***************************************************************************)
EXTENDS Threads

CONSTANTS Initial,  \* the argument of the constructor
          MaxCount  \* bound: nobody calls up() at this count

VARIABLES
    count, waiting, \* the semaphore's fields
    taken,          \* its ISL
    woken           \* [TCB -> SUBSET TCB]: `next' of its up()

semaphore == <<count, waiting, taken, woken>>
semVars == <<vars, semaphore>>

SemInit ==
    /\ Init
    /\ count = Initial
    /\ waiting = <<>>
    /\ taken = FALSE
    /\ woken = [t \in TCB |-> {}]

-----------------------------------------------------------------------------
(* A call of down() at label l, on to label m. *)

DownTake(c, l, m) ==
    /\ At(c, l)
    /\ ~taken
    /\ count > 0
    /\ count' = count - 1
    /\ Goto(Me(c), m)
    /\ UNCHANGED <<cpu, no_preempt, frame, corpse, handler, queues, waiting, taken, woken>>

(* MUTATION of DownBlock: the lock is released before block(). *)
DownBlock_Unlocks(c, l, m) ==
    /\ At(c, l)
    /\ ~taken
    /\ count = 0
    /\ Block(c, "MustBlock", "down", m, interrupts[c])
    /\ UNCHANGED <<cpu, corpse, handler, queues, semaphore>>

(* MUTATION of DownBlock: the lock is held with interrupts on. *)
DownBlock_NoCli(c, l, m) ==
    /\ At(c, l)
    /\ ~taken
    /\ count = 0
    /\ taken' = TRUE
    /\ Block(c, "MustBlock", "down", m, interrupts[c])
    /\ UNCHANGED <<cpu, corpse, handler, queues, count, waiting, woken>>

(* With the lock into block(); after it, sti or cli as before lock(). *)
DownBlock(c, l, m) ==
    /\ At(c, l)
    /\ ~taken
    /\ count = 0
    /\ taken' = TRUE
    /\ interrupts' = [interrupts EXCEPT ![c] = FALSE]
    /\ Block(c, "MustBlock", "down", m, interrupts[c])
    /\ UNCHANGED <<onCore, activeThreads, tss, corpse, handler, queues, count, waiting, woken>>

Down(c, l, m) == DownTake(c, l, m) \/ DownBlock(c, l, m)

(* The lambda of down(). *)
DownHandler(c) ==
    /\ handler[c].act = "down"
    /\ waiting' = Append(waiting, handler[c].prev)
    /\ taken' = FALSE
    /\ Resume(c)
    /\ UNCHANGED <<onCore, activeThreads, tss, no_preempt, frame, corpse, queues, count, woken>>

(* A call of up() at label l, on to label m, past w if it wakes a thread. *)

UpCount(c, l, m) ==
    /\ At(c, l)
    /\ ~taken
    /\ waiting = <<>>
    /\ count < MaxCount
    /\ count' = count + 1
    /\ Goto(Me(c), m)
    /\ UNCHANGED <<cpu, no_preempt, frame, corpse, handler, queues, waiting, taken, woken>>

(* MUTATION of UpRemove: it counts as well. *)
UpRemove_Counts(c, l, w) ==
    /\ At(c, l)
    /\ ~taken
    /\ waiting # <<>>
    /\ woken' = [woken EXCEPT ![Me(c)] = {Head(waiting)}]
    /\ waiting' = Tail(waiting)
    /\ count' = count + 1
    /\ Goto(Me(c), w)
    /\ UNCHANGED <<cpu, no_preempt, frame, corpse, handler, queues, taken>>

UpRemove(c, l, w) ==
    /\ At(c, l)
    /\ ~taken
    /\ waiting # <<>>
    /\ woken' = [woken EXCEPT ![Me(c)] = {Head(waiting)}]
    /\ waiting' = Tail(waiting)
    /\ Goto(Me(c), w)
    /\ UNCHANGED <<cpu, no_preempt, frame, corpse, handler, queues, count, taken>>

(* MUTATION of Wake: the thread removed is forgotten. *)
Wake_Drops(c, w, m) ==
    /\ At(c, w)
    /\ woken' = [woken EXCEPT ![Me(c)] = {}]
    /\ Goto(Me(c), m)
    /\ UNCHANGED <<cpu, no_preempt, frame, corpse, handler, queues, count, waiting, taken>>

(* schedule(next), after the lock is released. *)
Wake(c, w, m) ==
    /\ At(c, w)
    /\ \E t \in woken[Me(c)] : Schedule(t)
    /\ woken' = [woken EXCEPT ![Me(c)] = {}]
    /\ Goto(Me(c), m)
    /\ UNCHANGED <<cpu, no_preempt, frame, corpse, handler, zombies, count, waiting, taken>>

Up(c, l, w, m) == UpCount(c, l, m) \/ UpRemove(c, l, w) \/ Wake(c, w, m)

-----------------------------------------------------------------------------
(* Threads that call down() and up() whenever they like. *)
SemNext ==
    \E c \in Core :
        \/ (KernelStep(c) \/ Tick(c) \/ CallThread(c) \/ Finish(c)) /\ UNCHANGED semaphore
        \/ Down(c, "work", "work") \/ DownHandler(c) \/ Up(c, "work", "wake", "work")

SemSpec == SemInit /\ [][SemNext]_semVars

-----------------------------------------------------------------------------
(* Properties *)

(* While the lock is held, one thread is on its way to the lambda that     *)
(* releases it, with interrupts off on its core all the time: no other     *)
(* core spins for the lock longer than a context switch takes.             *)
InDown(c) ==
    \/ handler[c].act = "down"
    \/ handler[c] = NoCall /\ pc[Me(c)] \in InBlock /\ frame[Me(c)].act = "down"

LockHeldBriefly ==
    /\ taken <=> \E c \in Core : InDown(c)
    /\ \A c, d \in Core : InDown(c) /\ InDown(d) => c = d
    /\ \A c \in Core : InDown(c) => ~interrupts[c]

(* OnePlace of Threads, with the places a semaphore adds: a thread that    *)
(* waits is in no other queue and on no core, and one that up() has        *)
(* removed is not lost before it is scheduled.                             *)
SemPlaces(x) ==
    Places(x)
    \cup {<<"waiting", i>> : i \in {j \in 1 .. Len(waiting) : waiting[j] = x}}
    \cup {<<"woken", t>> : t \in {u \in TCB : x \in woken[u]}}

SemOnePlace ==
    /\ \A x \in TCB : \A p, q \in SemPlaces(x) : p = q
    /\ \A x \in Thread : pc[x] = "free" <=> SemPlaces(x) = {}

(* down() and up() implement a semaphore: none is lost between the test of *)
(* count and the wait, and threads go on in the order they blocked.        *)
AbstractSemaphore == INSTANCE SemaphoreSpec WITH value <- count, blocked <- waiting
ImplementsSemaphore == AbstractSemaphore!Spec
=============================================================================
