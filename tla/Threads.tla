------------------------------ MODULE Threads ------------------------------
(***************************************************************************)
(* The preemptive SMP thread scheduler: kernel/threads.h, threads.cc,      *)
(* context.s and the timer handler of pit.cc.                              *)
(*                                                                         *)
(* A thread is its TCB.  Every core runs one thread's stack (onCore); the  *)
(* kernel's own idea of that is activeThreads.  The two agree except inside*)
(* block(), which walks a core from one thread to the next in steps that   *)
(* other cores and the timer interleave with:                              *)
(*                                                                         *)
(*   "pick" -> "mark" -> "activate" -> "switch" -> handler -> ret          *)
(*                                                                         *)
(* Operations on readyQ and zombies are atomic: Queue holds an             *)
(* InterruptSafeLock around each (module InterruptSafeLock).  A TCB whose  *)
(* pc is "free" has been deleted, or was never made; TCBs are reused the   *)
(* way the heap reuses their memory.                                       *)
(***************************************************************************)
EXTENDS Naturals, Sequences, FiniteSets

CONSTANTS Core,         \* the processors, kConfig.totalProcs of them
          Thread,       \* the TCBs that are not idle, the reaper's among them
          Reaper,       \* the TCB made by threadsInit
          idleThreads   \* [Core -> idle TCB], threads.cc:90

Idle == {idleThreads[c] : c \in Core}
TCB == Thread \cup Idle

ASSUME CoreAssumption == IsFiniteSet(Core) /\ Core # {}
ASSUME ThreadAssumption == Reaper \in Thread
ASSUME IdleAssumption ==
    /\ idleThreads \in [Core -> Idle]
    /\ Idle \cap Thread = {}
    /\ \A c, d \in Core : idleThreads[c] = idleThreads[d] => c = d

VARIABLES
    onCore,         \* [Core -> TCB]: whose stack the core executes on
    activeThreads,  \* [Core -> TCB]: threads.cc:89
    tss,            \* [Core -> TCB]: whose stack esp0 is in; an idle TCB for 0
    interrupts,     \* [Core -> BOOLEAN]: the IF flag
    no_preempt,     \* [TCB -> BOOLEAN]: SaveArea::no_preempt
    pc,             \* [TCB -> Label]: where the thread's stack is
    frame,          \* [TCB -> Frame]: the locals of its innermost block()
    corpse,         \* [TCB -> SUBSET TCB]: `it' of its delete_zombies()
    handler,        \* [Core -> call of block's lambda that is yet to run]
    readyQ, zombies \* Seq(TCB)

cpu == <<onCore, activeThreads, tss, interrupts>>
queues == <<readyQ, zombies>>
vars == <<cpu, no_preempt, pc, frame, corpse, handler, queues>>

(***************************************************************************)
(* A frame of block(): core_id, me and next_tcb; the option and the lambda *)
(* it was called with; where it returns to, and the IF flag that the       *)
(* instructions after it (popf, then the iret of an interrupt or the       *)
(* sti/cli of Semaphore::down) leave there.                                *)
(***************************************************************************)
NewFrame(c, me, opt, act, ret, iff) ==
    [core_id |-> c, me |-> me, next |-> me, opt |-> opt, act |-> act,
     ret |-> ret, iff |-> iff]

(* Nothing reads core_id and next_tcb after the switch: forget them. *)
AnyCore == CHOOSE c \in Core : TRUE
Spent(f) == [f EXCEPT !.core_id = AnyCore, !.next = f.me]

(* A new TCB's stack holds an IF flag and the address of entry(), as if it *)
(* had called gheith_contextSwitch from there.                             *)
FirstFrame(t, ret) == NewFrame(AnyCore, t, "CanReturn", "yield", ret, TRUE)

NoCall == [act |-> "none", prev |-> Reaper]

InBlock == {"pick", "mark", "activate", "switch"}
Outside == {"boot", "work", "stop", "reap", "delete", "spawn", "yield"}

(* The thread whose instructions core c executes. *)
Me(c) == onCore[c]

(* Core c executes at label l, outside the lambda of a context switch. *)
At(c, l) == handler[c] = NoCall /\ pc[Me(c)] = l

Goto(t, l) == pc' = [pc EXCEPT ![t] = l]

-----------------------------------------------------------------------------
(* threadsInit and the BSP's part of kernelInit: the cores run on their    *)
(* idle threads with interrupts on, and the reaper waits in readyQ.  No    *)
(* constructor sets the no_preempt of an idle thread.                      *)
Init ==
    /\ onCore = idleThreads
    /\ activeThreads = idleThreads
    /\ tss = idleThreads
    /\ interrupts = [c \in Core |-> TRUE]
    /\ \E b \in BOOLEAN : no_preempt = [t \in TCB |-> t \in Idle /\ b]
    /\ pc = [t \in TCB |-> IF t = Reaper THEN "away"
                           ELSE IF t \in Idle THEN "boot" ELSE "free"]
    /\ frame = [t \in TCB |-> FirstFrame(t, "reap")]
    /\ corpse = [t \in TCB |-> {}]
    /\ handler = [c \in Core |-> NoCall]
    /\ readyQ = <<Reaper>>
    /\ zombies = <<>>

-----------------------------------------------------------------------------
(* block() *)

(* Entry: Interrupts::protect reads core_id and me and sets no_preempt. *)
Block(c, opt, act, ret, iff) ==
    LET me == activeThreads[c] IN
    /\ Goto(Me(c), "pick")
    /\ frame' = [frame EXCEPT ![Me(c)] = NewFrame(c, me, opt, act, ret, iff)]
    /\ no_preempt' = [no_preempt EXCEPT ![me] = TRUE]

(* MUTATION of PickReady: the thread stays in the queue. *)
PickReady_Peeks(c) ==
    /\ At(c, "pick")
    /\ readyQ # <<>>
    /\ frame' = [frame EXCEPT ![Me(c)].next = Head(readyQ)]
    /\ Goto(Me(c), "mark")
    /\ UNCHANGED <<cpu, no_preempt, corpse, handler, queues>>

(* readyQ.remove() found a thread. *)
PickReady(c) ==
    /\ At(c, "pick")
    /\ readyQ # <<>>
    /\ frame' = [frame EXCEPT ![Me(c)].next = Head(readyQ)]
    /\ readyQ' = Tail(readyQ)
    /\ Goto(Me(c), "mark")
    /\ UNCHANGED <<cpu, no_preempt, corpse, handler, zombies>>

(* It found none and the caller can go on: no_preempt stays set. *)
PickReturn(c) ==
    /\ At(c, "pick")
    /\ readyQ = <<>>
    /\ frame[Me(c)].opt = "CanReturn"
    /\ Goto(Me(c), frame[Me(c)].ret)
    /\ interrupts' = [interrupts EXCEPT ![c] = frame[Me(c)].iff]
    /\ UNCHANGED <<onCore, activeThreads, tss, no_preempt, frame, corpse, handler, queues>>

(* It found none and the caller must block: on to the core's idle thread.  *)
(* An idle thread tries again instead, which is no step.                   *)
PickIdle(c) ==
    LET f == frame[Me(c)] IN
    /\ At(c, "pick")
    /\ readyQ = <<>>
    /\ f.opt = "MustBlock"
    /\ f.me \notin Idle
    /\ frame' = [frame EXCEPT ![Me(c)].next = idleThreads[f.core_id]]
    /\ Goto(Me(c), "mark")
    /\ UNCHANGED <<cpu, no_preempt, corpse, handler, queues>>

(* MUTATION of Mark: the next thread is not marked. *)
Mark_Nothing(c) ==
    /\ At(c, "mark")
    /\ Goto(Me(c), "activate")
    /\ UNCHANGED <<cpu, no_preempt, frame, corpse, handler, queues>>

Mark(c) ==
    /\ At(c, "mark")
    /\ no_preempt' = [no_preempt EXCEPT ![frame[Me(c)].next] = TRUE]
    /\ Goto(Me(c), "activate")
    /\ UNCHANGED <<cpu, frame, corpse, handler, queues>>

(* MUTATION of Activate: the lambda of yield() runs before the switch. *)
Activate_Early(c) ==
    LET f == frame[Me(c)] IN
    /\ At(c, "activate")
    /\ activeThreads' = [activeThreads EXCEPT ![f.core_id] = f.next]
    /\ tss' = [tss EXCEPT ![f.core_id] = f.next]
    /\ readyQ' = IF f.act = "yield" THEN Append(readyQ, f.me) ELSE readyQ
    /\ Goto(Me(c), "switch")
    /\ UNCHANGED <<onCore, interrupts, no_preempt, frame, corpse, handler, zombies>>

Activate(c) ==
    LET f == frame[Me(c)] IN
    /\ At(c, "activate")
    /\ activeThreads' = [activeThreads EXCEPT ![f.core_id] = f.next]
    /\ tss' = [tss EXCEPT ![f.core_id] = f.next]
    /\ Goto(Me(c), "switch")
    /\ UNCHANGED <<onCore, interrupts, no_preempt, frame, corpse, handler, queues>>

(* MUTATION of Unmarked: the target's flag stays set. *)
Unmarked_MeOnly(f) == [no_preempt EXCEPT ![f.me] = FALSE]

Unmarked(f) == [no_preempt EXCEPT ![f.me] = FALSE, ![f.next] = FALSE]

(* gheith_contextSwitch from its cli to the call of the handler, all with  *)
(* interrupts off: both no_preempt flags clear, the stacks change.         *)
ContextSwitch(c) ==
    LET f == frame[Me(c)] IN
    /\ At(c, "switch")
    /\ interrupts' = [interrupts EXCEPT ![c] = FALSE]
    /\ no_preempt' = Unmarked(f)
    /\ onCore' = [onCore EXCEPT ![c] = f.next]
    /\ Goto(Me(c), "away")
    /\ frame' = [frame EXCEPT ![Me(c)] = Spent(f)]
    /\ handler' = [handler EXCEPT ![c] = [act |-> f.act, prev |-> f.me]]
    /\ UNCHANGED <<activeThreads, tss, corpse, queues>>

(* popf and ret on the target stack, once the lambda has returned. *)
Resume(c) ==
    /\ handler' = [handler EXCEPT ![c] = NoCall]
    /\ Goto(Me(c), frame[Me(c)].ret)
    /\ interrupts' = [interrupts EXCEPT ![c] = frame[Me(c)].iff]

Schedule(t) == readyQ' = IF t \in Idle THEN readyQ ELSE Append(readyQ, t)

(* The lambda of yield() is schedule(). *)
YieldHandler(c) ==
    /\ handler[c].act = "yield"
    /\ Schedule(handler[c].prev)
    /\ Resume(c)
    /\ UNCHANGED <<onCore, activeThreads, tss, no_preempt, frame, corpse, zombies>>

(* MUTATIONS of Bury: idle threads are zombies too; the thread is lost. *)
Bury_IdleToo(t) == zombies' = Append(zombies, t)
Bury_Nobody(t) == UNCHANGED zombies

(* The lambda of stop(). *)
Bury(t) == zombies' = IF t \in Idle THEN zombies ELSE Append(zombies, t)

StopHandler(c) ==
    /\ handler[c].act = "stop"
    /\ Bury(handler[c].prev)
    /\ Resume(c)
    /\ UNCHANGED <<onCore, activeThreads, tss, no_preempt, frame, corpse, readyQ>>

-----------------------------------------------------------------------------
(* The callers of block() *)

(* apitHandler: the timer fires, and preempts unless told not to.  The     *)
(* handler runs with interrupts off; its iret turns them on again.         *)
Tick(c) ==
    /\ interrupts[c]
    /\ activeThreads[c] \notin Idle
    /\ ~no_preempt[activeThreads[c]]
    /\ interrupts' = [interrupts EXCEPT ![c] = FALSE]
    /\ Block(c, "CanReturn", "yield", pc[Me(c)], TRUE)
    /\ UNCHANGED <<onCore, activeThreads, tss, corpse, handler, queues>>

(* The yield() at the end of the reaper's loop. *)
ReaperYield(c) ==
    /\ At(c, "yield")
    /\ Block(c, "CanReturn", "yield", "reap", interrupts[c])
    /\ UNCHANGED <<cpu, corpse, handler, queues>>

(* MUTATION of Stop: the lambda schedules the thread. *)
Stop_Schedules(c) ==
    /\ At(c, "stop")
    /\ Block(c, "MustBlock", "yield", "stop", interrupts[c])
    /\ UNCHANGED <<cpu, corpse, handler, queues>>

(* stop(), called by an idle thread for good and by the others to end. *)
Stop(c) ==
    /\ At(c, "stop")
    /\ Block(c, "MustBlock", "stop", "stop", interrupts[c])
    /\ UNCHANGED <<cpu, corpse, handler, queues>>

-----------------------------------------------------------------------------
(* Threads come and go *)

(* delete_zombies(): next zombie, or back to the caller. *)
RemoveZombie(c) ==
    /\ At(c, "reap")
    /\ zombies # <<>>
    /\ corpse' = [corpse EXCEPT ![Me(c)] = {Head(zombies)}]
    /\ zombies' = Tail(zombies)
    /\ Goto(Me(c), "delete")
    /\ UNCHANGED <<cpu, no_preempt, frame, handler, readyQ>>

NoZombie(c) ==
    /\ At(c, "reap")
    /\ zombies = <<>>
    /\ Goto(Me(c), IF Me(c) = Reaper THEN "yield" ELSE "spawn")
    /\ UNCHANGED <<cpu, no_preempt, frame, corpse, handler, queues>>

(* delete it: here one step.  It takes the heap's lock, for which HeapLock *)
(* makes the thread wait before this step.                                 *)
DeleteZombieAt(c, l) ==
    LET t == Me(c) IN
    /\ At(c, l)
    /\ pc' = [x \in TCB |-> IF x = t THEN "reap"
                            ELSE IF x \in corpse[t] THEN "free" ELSE pc[x]]
    /\ corpse' = [corpse EXCEPT ![t] = {}]
    /\ UNCHANGED <<cpu, no_preempt, frame, handler, queues>>

DeleteZombie(c) == DeleteZombieAt(c, "delete")

(* The rest of thread(): the new TCB is scheduled. *)
SpawnAt(c, l) ==
    /\ At(c, l)
    /\ \E x \in Thread :
          /\ pc[x] = "free"
          /\ pc' = [pc EXCEPT ![x] = "away",
                              ![Me(c)] = IF Me(c) \in Idle THEN "stop" ELSE "work"]
          /\ frame' = [frame EXCEPT ![x] = FirstFrame(x, "work")]
          /\ no_preempt' = [no_preempt EXCEPT ![x] = FALSE]
          /\ Schedule(x)
    /\ UNCHANGED <<cpu, corpse, handler, zombies>>

Spawn(c) == SpawnAt(c, "spawn")

(* MUTATION of Boot: every core makes a first thread. *)
Boot_All(c) ==
    /\ At(c, "boot")
    /\ Goto(Me(c), "reap")
    /\ UNCHANGED <<cpu, no_preempt, frame, corpse, handler, queues>>

(* The end of kernelInit: the last core to arrive makes the first thread. *)
Boot(c) ==
    /\ At(c, "boot")
    /\ Goto(Me(c), IF \A i \in Idle \ {Me(c)} : pc[i] # "boot"
                   THEN "reap" ELSE "stop")
    /\ UNCHANGED <<cpu, no_preempt, frame, corpse, handler, queues>>

(* A running thread's work calls thread() (the fork system call).  Bound:  *)
(* it does so only while a free TCB is left for it.                        *)
Where(t) == IF pc[t] \in InBlock \cup {"away"} THEN frame[t].ret ELSE pc[t]
Spawning == {t \in TCB \ {Reaper} : Where(t) \in {"boot", "reap", "delete", "spawn"}}
Free == {t \in Thread : pc[t] = "free"}

CallThread(c) ==
    /\ At(c, "work")
    /\ Cardinality(Free) > Cardinality(Spawning)
    /\ Goto(Me(c), "reap")
    /\ UNCHANGED <<cpu, no_preempt, frame, corpse, handler, queues>>

(* A running thread's work returns to entry(), or exits its process. *)
Finish(c) ==
    /\ At(c, "work")
    /\ Goto(Me(c), "stop")
    /\ UNCHANGED <<cpu, no_preempt, frame, corpse, handler, queues>>

-----------------------------------------------------------------------------
InBlockStep(c) ==
    \/ PickReady(c) \/ PickReturn(c) \/ PickIdle(c)
    \/ Mark(c) \/ Activate(c) \/ ContextSwitch(c)
    \/ YieldHandler(c) \/ StopHandler(c)

(* The steps a core takes by itself, whatever the threads' work does. *)
KernelStep(c) ==
    \/ InBlockStep(c)
    \/ ReaperYield(c) \/ Stop(c) \/ Boot(c)
    \/ RemoveZombie(c) \/ NoZombie(c) \/ DeleteZombie(c) \/ Spawn(c)

Next == \E c \in Core : KernelStep(c) \/ Tick(c) \/ CallThread(c) \/ Finish(c)

Spec == Init /\ [][Next]_vars

(* The `delete' of a zombie and the `new' of thread() take the heap's lock *)
(* and may wait for it, for ever too (module HeapLock): nothing is assumed *)
(* of these two steps.                                                     *)
Unlocked(c) ==
    \/ ReaperYield(c) \/ Stop(c)
    \/ RemoveZombie(c) \/ NoZombie(c)

(* Every core keeps executing instructions and its timer keeps firing.     *)
CoreFairness ==
    \A c \in Core : WF_vars(InBlockStep(c) \/ Boot(c) \/ Unlocked(c)) /\ WF_vars(Tick(c))

(* A thread that is given a core again and again gets on with its own      *)
(* code: the timer does not fire before its first instruction every time.  *)
OwnStep(t) == \E c \in Core : Me(c) = t /\ Unlocked(c)

Fairness == CoreFairness /\ \A t \in Thread : SF_vars(OwnStep(t))

FairSpec == Spec /\ Fairness

-----------------------------------------------------------------------------
(* Properties *)

Frame == [core_id : Core, me : TCB, next : TCB,
          opt : {"CanReturn", "MustBlock"}, act : {"yield", "stop"},
          ret : Outside, iff : BOOLEAN]

Call == [act : {"none", "yield", "stop"}, prev : TCB]

(* The types of the scheduler's state; idle threads are never queued. *)
TypeOK ==
    /\ onCore \in [Core -> TCB]
    /\ activeThreads \in [Core -> TCB]
    /\ tss \in [Core -> TCB]
    /\ interrupts \in [Core -> BOOLEAN]
    /\ no_preempt \in [TCB -> BOOLEAN]
    /\ pc \in [TCB -> Outside \cup InBlock \cup {"away", "free"}]
    /\ frame \in [TCB -> Frame]
    /\ corpse \in [TCB -> SUBSET TCB]
    /\ handler \in [Core -> Call]
    /\ readyQ \in Seq(Thread)
    /\ zombies \in Seq(Thread)

(* Every place that has a pointer to x it will one day follow: a core that *)
(* runs x, the thread that removed x from readyQ or from zombies, a lambda *)
(* of block() about to queue x, the two queues.                            *)
Chosen == {"mark", "activate", "switch"}

Places(x) ==
    {<<"core", c>> : c \in {d \in Core : onCore[d] = x}}
    \cup {<<"next", t>> : t \in {u \in TCB : pc[u] \in Chosen /\ frame[u].next = x}}
    \cup {<<"call", c>> : c \in {d \in Core : handler[d].act # "none"
                                               /\ handler[d].prev = x}}
    \cup {<<"corpse", t>> : t \in {u \in TCB : x \in corpse[u]}}
    \cup {<<"ready", i>> : i \in {j \in 1 .. Len(readyQ) : readyQ[j] = x}}
    \cup {<<"zombie", i>> : i \in {j \in 1 .. Len(zombies) : zombies[j] = x}}

(* A TCB is never in two places: no two cores run it, it is not queued     *)
(* while it runs or while its context is yet to be saved (the queues link  *)
(* TCBs by their only `next' field), and it is deleted once.  A live one   *)
(* is never lost, and nothing points to a deleted one.                     *)
OnePlace ==
    /\ \A x \in TCB : \A p, q \in Places(x) : p = q
    /\ \A x \in Thread : pc[x] = "free" <=> Places(x) = {}

(* "Why is this safe?" (threads.h:116): from the read of core_id to the    *)
(* context switch the thread stays on that core, so activeThreads and tss  *)
(* of the core that executes are the ones block() changes; and outside     *)
(* those steps both name the thread the core really runs.                  *)
BlockStaysOnItsCore ==
    \A c \in Core :
        LET t == Me(c) IN
        IF At(c, "switch")
        THEN /\ frame[t].core_id = c /\ frame[t].me = t
             /\ activeThreads[c] = frame[t].next
             /\ tss[c] = frame[t].next
        ELSE /\ activeThreads[c] = t
             /\ tss[c] = t
             /\ handler[c] = NoCall /\ pc[t] \in InBlock
                   => frame[t].core_id = c /\ frame[t].me = t

(* The assertions of threads.h:104-107: an idle thread looking for work is *)
(* on its own core, with interrupts on, and is that core's active thread.  *)
IdleAsserts ==
    \A c \in Core :
        LET f == frame[Me(c)] IN
        At(c, "pick") /\ f.me \in Idle =>
            /\ f.core_id = c
            /\ interrupts[c]
            /\ f.me = idleThreads[f.core_id]
            /\ f.me = activeThreads[f.core_id]

(* The lambda of block() runs with interrupts off, on a core that left the *)
(* thread it is about; and a switch away and back, or a preemption, leaves *)
(* every thread with interrupts on, as the reaper asserts (threads.cc:104).*)
InterruptDiscipline ==
    \A c \in Core :
        IF handler[c] = NoCall
        THEN pc[Me(c)] \notin InBlock => interrupts[c]
        ELSE /\ ~interrupts[c]
             /\ pc[Me(c)] = "away"
             /\ handler[c].prev # Me(c)

(* threads.cc:128 asserts it: only an idle thread comes back from block()  *)
(* in stop(); a thread that has ended is deleted, never resumed.           *)
StopIsFinal ==
    [][\A t \in Thread : pc[t] = "away" /\ frame[t].opt = "MustBlock"
                            => pc'[t] \in {"away", "free"}]_vars

(* block() may return with no_preempt set, and the timer then leaves the   *)
(* thread alone until it blocks.  That never happens to every core at      *)
(* once, because the reaper is always queued, running or on its way: some  *)
(* core can still be taken from its thread.  (The reaper never waits here; *)
(* the heap's lock makes it: module HeapLock.)                             *)
Unpreemptible(c) ==
    handler[c] = NoCall /\ pc[Me(c)] = "work" /\ no_preempt[Me(c)]

SomeCorePreemptible == \E c \in Core : ~Unpreemptible(c)

(* The scheduler implements its abstract specification: a thread is ready  *)
(* from the switch away from it on, while it waits in readyQ, and until    *)
(* the switch to it.                                                       *)
Runs(t) == \E c \in Core : onCore[c] = t
Off(act) == {t \in Thread : pc[t] = "away" /\ frame[t].act = act /\ ~Runs(t)}

Abstract == INSTANCE Scheduler
              WITH running <- onCore, ready <- Off("yield"), ended <- Off("stop")

ImplementsScheduler == Abstract!Spec

(* A thread in readyQ runs in the end, even if no thread's work ever       *)
(* blocks, yields or ends, as long as the reaper waits for nobody.         *)
Queued(t) == \E i \in 1 .. Len(readyQ) : readyQ[i] = t
ReadyRuns == \A t \in Thread : Queued(t) ~> Runs(t)

(* A thread that calls stop() is deleted in the end, by the reaper or by a *)
(* thread that makes another, provided that everybody who calls the heap   *)
(* for a TCB, to give one back or for a new one, gets the lock and returns *)
(* (HeapLock shows when that is in doubt).                                 *)
HeapAnswers == \A t \in TCB : []<>(Where(t) \notin {"delete", "spawn"})
EndedIsDeleted == HeapAnswers => \A t \in Thread : pc[t] = "stop" ~> pc[t] = "free"
=============================================================================
