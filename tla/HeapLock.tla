----------------------------- MODULE HeapLock ------------------------------
(***************************************************************************)
(* theLock of kernel/heap.cc, a BlockingLock, and everybody who takes it:  *)
(* the threads' own malloc() and free(), the delete of a zombie, by the    *)
(* reaper too, and the new of thread(), by an idle thread too.             *)
(*                                                                         *)
(* The TCB is in use until the last free() of its destructor has returned, *)
(* and thread() has it once malloc() has.                                  *)
(***************************************************************************)
EXTENDS Semaphore

Within == {"heap", "freeing", "alloc"}

ASSUME HeapLockAssumption == Initial = 1

(* Bound: like CallThread's, with the labels a thread may be at now. *)
Making == {t \in TCB \ {Reaper} :
             Where(t) \in {"boot", "reap", "delete", "freeing", "freewake", "freed",
                           "spawn", "alloc", "allocwake", "new"}}

HeapCallThread(c) ==
    /\ Cardinality(Free) > Cardinality(Making)
    /\ CallThread(c)
    /\ UNCHANGED semaphore

(* malloc() or free() of a thread's own work *)
HeapCall(c) == Down(c, "work", "heap")
HeapDone(c) == Up(c, "heap", "heapwake", "work")

(* delete it *)
FreeCall(c) == Down(c, "delete", "freeing")
FreeDone(c) == Up(c, "freeing", "freewake", "freed")
Freed(c) == DeleteZombieAt(c, "freed") /\ UNCHANGED semaphore

(* new TCBImpl *)
AllocCall(c) == Down(c, "spawn", "alloc")
AllocDone(c) == Up(c, "alloc", "allocwake", "new")
Made(c) == SpawnAt(c, "new") /\ UNCHANGED semaphore

HeapStep(c) ==
    \/ HeapDone(c)
    \/ FreeCall(c) \/ FreeDone(c) \/ Freed(c)
    \/ AllocCall(c) \/ AllocDone(c) \/ Made(c)

OtherStep(c) ==
    /\ \/ InBlockStep(c) \/ ReaperYield(c) \/ Stop(c) \/ Boot(c)
       \/ RemoveZombie(c) \/ NoZombie(c)
    /\ UNCHANGED semaphore

HeapNext ==
    \E c \in Core :
        \/ HeapStep(c) \/ OtherStep(c) \/ DownHandler(c)
        \/ HeapCall(c) \/ HeapCallThread(c)
        \/ (Tick(c) \/ Finish(c)) /\ UNCHANGED semaphore

HeapSpec == SemInit /\ [][HeapNext]_semVars

-----------------------------------------------------------------------------
(* Properties *)

(* t is past its down(), on a core or off it, or up() has let it pass. *)
Waits(t) ==
    /\ frame[t].act = "down"
    /\ \/ pc[t] \in InBlock
       \/ \E c \in Core : handler[c] # NoCall /\ handler[c].prev = t
       \/ \E i \in 1 .. Len(waiting) : waiting[i] = t

Has(t) == Where(t) \in Within /\ ~Waits(t)

(* The heap's data is never entered by two threads, with preemption at any *)
(* instruction and the lock handed over by up(); and count says so.  And   *)
(* no idle thread blocks, as semaphore.h:33 asserts, though the idle       *)
(* thread of the last core to start calls thread(), which takes the lock.  *)
HeapExclusive ==
    /\ \A t, u \in TCB : Has(t) /\ Has(u) => t = u
    /\ count = 1 => \A t \in TCB : ~Has(t) /\ ~Waits(t)
    /\ \A t \in Idle : ~Waits(t) /\ t \notin UNION {woken[u] : u \in TCB}

(* SomeCorePreemptible of Threads, as far as it goes with the heap's lock: *)
(* only while the reaper waits for the lock, or for a core after that, can *)
(* all cores be held by threads that block() left with no_preempt set.     *)
HeldWithoutReaper ==
    SomeCorePreemptible \/ (frame[Reaper].act = "down" /\ pc[Reaper] \in InBlock \cup {"away"})
=============================================================================
