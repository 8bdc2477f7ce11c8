-------------------------- MODULE ReusableBarrier --------------------------
(***************************************************************************)
(* ReusableBarrier of kernel/barrier.h: a monitor around a Condition.      *)
(*                                                                         *)
(* Every thread but the reaper makes round after round.  began and done    *)
(* count what each did, for the properties: the code does not have them.   *)
(***************************************************************************)
EXTENDS Condition

CONSTANT MaxRound   \* bound: the rounds a thread makes

ASSUME PartyAssumption == IsFiniteSet(Thread)   \* initial_count is a number

VARIABLES
    count,          \* the barrier's fields count
    round,          \* and epoch
    t_,             \* [TCB -> Nat]: `t' of sync()
    began, done     \* [TCB -> Nat]

barrier == <<count, round, t_, began, done>>
barrierVars == <<condVars, barrier>>

Party == Thread \ {Reaper}
initial_count == Cardinality(Party)

BarrierInit ==
    /\ Init
    /\ ConditionInit
    /\ count = initial_count
    /\ round = 0
    /\ t_ = [t \in TCB |-> 0]
    /\ began = [t \in TCB |-> 0]
    /\ done = [t \in TCB |-> 0]

-----------------------------------------------------------------------------
(* sync(), by threads that are all made. *)
Enter(c) ==
    LET t == Me(c) IN
    /\ Acquire(c, "work")
    /\ began[t] < MaxRound
    /\ \A u \in Party : pc[u] # "free"
    /\ t_' = [t_ EXCEPT ![t] = round]
    /\ count' = count - 1
    /\ Goto(t, IF count = 1 THEN "last" ELSE "check")
    /\ began' = [began EXCEPT ![t] = @ + 1]
    /\ UNCHANGED <<onCore, activeThreads, tss, no_preempt, frame, corpse, handler, queues>>
    /\ UNCHANGED <<epoch, queue, old_epoch, round, done>>

(* The last to come: a new epoch, and the notifyAll() begins. *)
Last(c) ==
    /\ At(c, "last")
    /\ round' = round + 1
    /\ count' = initial_count
    /\ epoch' = epoch + 1
    /\ Goto(Me(c), "notify")
    /\ UNCHANGED <<cpu, no_preempt, frame, corpse, handler, queues>>
    /\ UNCHANGED <<held, queue, old_epoch, t_, began, done>>

Notify(c) ==
    /\ NotifyNext(c, "notify", "leave") \/ NotifyDone(c, "notify", "leave")
    /\ UNCHANGED barrier

(* MUTATION of Pass: while (epoch < t). *)
Pass_OffByOne(c) ==
    /\ At(c, "check")
    /\ round >= t_[Me(c)]
    /\ Goto(Me(c), "leave")
    /\ UNCHANGED <<cpu, no_preempt, frame, corpse, handler, queues, condition, barrier>>

(* while (epoch <= t) newEpoch.wait() *)
Pass(c) ==
    /\ At(c, "check")
    /\ round > t_[Me(c)]
    /\ Goto(Me(c), "leave")
    /\ UNCHANGED <<cpu, no_preempt, frame, corpse, handler, queues, condition, barrier>>

Wait(c) ==
    /\ \/ round <= t_[Me(c)] /\ WaitRelease(c, "check", "released")
       \/ WaitBlock(c, "released", "relock")
       \/ /\ Acquire(c, "relock")
          /\ Goto(Me(c), "check")
          /\ UNCHANGED <<onCore, activeThreads, tss, no_preempt, frame, corpse, handler, queues,
                         epoch, queue, old_epoch>>
    /\ UNCHANGED barrier

Leave(c) ==
    /\ At(c, "leave")
    /\ Release(c)
    /\ Goto(Me(c), "work")
    /\ done' = [done EXCEPT ![Me(c)] = @ + 1]
    /\ UNCHANGED <<onCore, activeThreads, tss, no_preempt, frame, corpse, handler, queues>>
    /\ UNCHANGED <<epoch, queue, old_epoch, count, round, t_, began>>

Sync(c) == Enter(c) \/ Last(c) \/ Notify(c) \/ Pass(c) \/ Wait(c) \/ Leave(c)

-----------------------------------------------------------------------------
CoreStep(c) ==
    \/ KernelStep(c) /\ UNCHANGED <<condition, barrier>>
    \/ WaitHandler(c) /\ UNCHANGED barrier
    \/ Last(c) \/ Notify(c) \/ Pass(c) \/ Wait(c) \/ Leave(c)

BarrierNext ==
    \E c \in Core :
        \/ CoreStep(c) \/ Enter(c)
        \/ (Tick(c) \/ CallThread(c)) /\ UNCHANGED <<condition, barrier>>

BarrierSpec == BarrierInit /\ [][BarrierNext]_barrierVars

(* As in Threads, and every thread calls thread() until all are made, and  *)
(* sync() until it has made its rounds.  Making a thread goes on here too: *)
(* no thread ends, so the reaper never waits for the heap's lock.          *)
BarrierOwnStep(t) ==
    \E c \in Core :
        /\ Me(c) = t
        /\ \/ (OwnStep(t) \/ CallThread(c)) /\ UNCHANGED <<condition, barrier>>
           \/ Sync(c)

BarrierFairness ==
    /\ \A c \in Core :
          WF_barrierVars(CoreStep(c)) /\ WF_barrierVars(Tick(c) /\ UNCHANGED <<condition, barrier>>)
    /\ \A t \in Thread : SF_barrierVars(BarrierOwnStep(t))

BarrierFairSpec == BarrierSpec /\ BarrierFairness

-----------------------------------------------------------------------------
(* Properties *)

(* Nobody leaves a round before everybody has entered it, however late the *)
(* others leave the round before.                                          *)
InStep == \A t, u \in Party : done[t] <= began[u]

(* Everybody who enters leaves. *)
EnteredLeaves == \A t \in Party : began[t] > done[t] ~> began[t] = done[t]
=============================================================================
