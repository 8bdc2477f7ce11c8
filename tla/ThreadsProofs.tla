--------------------------- MODULE ThreadsProofs ---------------------------
(***************************************************************************)
(* What TLAPS proves of Threads, Semaphore and HeapLock for any number of  *)
(* cores and threads: that no thread is in two places or lost, not even    *)
(* while it waits for a semaphore, that block() stays on its core and      *)
(* leaves interrupts as it found them, that a semaphore's lock is held for *)
(* no longer than a context switch, that the heap is entered by one thread *)
(* at a time; and that Scheduler and SemaphoreSpec are implemented.        *)
(*                                                                         *)
(* The inductive invariant says where a thread whose pc is "away" can be.  *)
(* Seven places hold one: the core it has just been switched to, readyQ,   *)
(* next_tcb of a thread in block(), the lambda about to queue it, zombies, *)
(* `it' of a delete_zombies(), and the set P of the threads parked outside *)
(* the scheduler: none in Threads, those in waiting and woken with a       *)
(* semaphore.  act tells these places apart in part; what remains is that  *)
(* each place holds a thread once, and that no two places share one.       *)
(***************************************************************************)
EXTENDS HeapLock, SequenceTheorems, TLAPS

(* The labels of a thread's own code, and the calls of block()'s lambda.   *)
Labels == {"boot", "work", "stop", "reap", "delete", "spawn", "yield",
           "wake", "heap", "heapwake", "freeing", "freewake", "freed",
           "alloc", "allocwake", "new"}
Extra == Labels \ Outside

AnyFrame == [core_id : Core, me : TCB, next : TCB,
             opt : {"CanReturn", "MustBlock"}, act : {"yield", "stop", "down"},
             ret : Labels, iff : BOOLEAN]

AnyCall == [act : {"none", "yield", "stop", "down"}, prev : TCB]

Types ==
    /\ onCore \in [Core -> TCB]
    /\ activeThreads \in [Core -> TCB]
    /\ tss \in [Core -> TCB]
    /\ interrupts \in [Core -> BOOLEAN]
    /\ no_preempt \in [TCB -> BOOLEAN]
    /\ pc \in [TCB -> Labels \cup InBlock \cup {"away", "free"}]
    /\ frame \in [TCB -> AnyFrame]
    /\ corpse \in [TCB -> SUBSET TCB]
    /\ handler \in [Core -> AnyCall]
    /\ readyQ \in Seq(Thread)
    /\ zombies \in Seq(Thread)

Running == Labels \cup InBlock
Blocked == InBlock \cup {"away"}

OffCore(t) == \A c \in Core : onCore[c] # t
Away(t) == pc[t] = "away" /\ OffCore(t)
Pending(c) == handler[c] # NoCall

(* A core runs its own idle thread or a Thread, nobody else does, and it   *)
(* executes there unless it has just been switched to.                     *)
CoresOK ==
    /\ \A c \in Core : onCore[c] \in Idle => onCore[c] = idleThreads[c]
    /\ \A c, d \in Core : onCore[c] = onCore[d] => c = d
    /\ \A c \in Core : IF Pending(c) THEN pc[onCore[c]] = "away"
                                     ELSE pc[onCore[c]] \in Running
    /\ \A t \in TCB : pc[t] \in Running => \E c \in Core : onCore[c] = t
    /\ \A t \in Idle : pc[t] \notin {"free", "yield"}

(* The frame of block() speaks of the core and the thread that run it, and *)
(* of the way back.                                                        *)
FramesOK ==
    /\ \A c \in Core : pc[onCore[c]] \in InBlock =>
          frame[onCore[c]].core_id = c /\ frame[onCore[c]].me = onCore[c]
    /\ \A t \in TCB : pc[t] \in Blocked =>
          /\ frame[t].iff
          /\ frame[t].act = "stop" => frame[t].ret = "stop"
          /\ frame[t].act = "yield" <=> frame[t].opt = "CanReturn"
          /\ t \in Idle => frame[t].act = "stop"

(* The kernel's record of what a core runs, and the flag that keeps the    *)
(* timer from changing it inside block().                                  *)
ActiveOK ==
    /\ \A c \in Core :
          LET t == IF pc[onCore[c]] = "switch" THEN frame[onCore[c]].next ELSE onCore[c]
          IN  activeThreads[c] = t /\ tss[c] = t
    /\ \A c \in Core : pc[onCore[c]] \in InBlock => no_preempt[onCore[c]]
    /\ \A c \in Core : pc[onCore[c]] \in {"activate", "switch"} =>
          no_preempt[frame[onCore[c]].next]

(* Interrupts are off while a lambda runs and on outside block(). *)
InterruptsOK ==
    \A c \in Core : IF Pending(c) THEN ~interrupts[c]
                    ELSE pc[onCore[c]] \in Labels => interrupts[c]

(* A pending lambda is about a thread that is nowhere else. *)
CallsOK ==
    /\ \A c \in Core : handler[c].act = "none" => handler[c] = NoCall
    /\ \A c \in Core : Pending(c) =>
          /\ Away(handler[c].prev)
          /\ frame[handler[c].prev].act = handler[c].act
          /\ handler[c].prev \in Idle => handler[c].prev = idleThreads[c]
    /\ \A c, d \in Core : Pending(c) /\ Pending(d)
                          /\ handler[c].prev = handler[d].prev => c = d

ReadyOK ==
    /\ \A i \in 1 .. Len(readyQ) : Away(readyQ[i]) /\ frame[readyQ[i]].act # "stop"
    /\ \A i, j \in 1 .. Len(readyQ) : readyQ[i] = readyQ[j] => i = j
    /\ \A i \in 1 .. Len(readyQ), c \in Core : Pending(c) => handler[c].prev # readyQ[i]
    /\ \A i \in 1 .. Len(readyQ), t \in TCB : pc[t] \in Chosen => frame[t].next # readyQ[i]

NextOK ==
    /\ \A t \in TCB : pc[t] \in Chosen =>
          /\ Away(frame[t].next)
          /\ frame[t].next \in Thread => frame[frame[t].next].act # "stop"
          /\ frame[t].next \in Idle => frame[t].next = idleThreads[frame[t].core_id]
    /\ \A t, u \in TCB : pc[t] \in Chosen /\ pc[u] \in Chosen
                         /\ frame[t].next = frame[u].next => t = u
    /\ \A t \in TCB, c \in Core : pc[t] \in Chosen /\ Pending(c) =>
          handler[c].prev # frame[t].next

ZombiesOK ==
    /\ \A i \in 1 .. Len(zombies) : Away(zombies[i]) /\ frame[zombies[i]].act = "stop"
    /\ \A i, j \in 1 .. Len(zombies) : zombies[i] = zombies[j] => i = j
    /\ \A i \in 1 .. Len(zombies), c \in Core : Pending(c) => handler[c].prev # zombies[i]

Deleting == {"delete", "freeing", "freewake", "freed"}

CorpsesOK ==
    /\ \A t \in TCB, x \in TCB : x \in corpse[t] =>
          x \in Thread /\ Away(x) /\ frame[x].act = "stop"
    /\ \A t, u \in TCB, x \in TCB : x \in corpse[t] /\ x \in corpse[u] => t = u
    /\ \A t \in TCB : corpse[t] # {} => pc[t] # "free" /\ Where(t) \in Deleting
    /\ \A t \in TCB, c \in Core : Pending(c) => handler[c].prev \notin corpse[t]
    /\ \A t \in TCB, i \in 1 .. Len(zombies) : zombies[i] \notin corpse[t]

(* P holds threads that wait for something other than a core: nobody is    *)
(* about to run one.                                                       *)
ParkedOK(P) ==
    \A x \in P :
        /\ x \in Thread /\ Away(x) /\ frame[x].act = "down"
        /\ \A i \in 1 .. Len(readyQ) : readyQ[i] # x
        /\ \A t \in TCB : pc[t] \in Chosen => frame[t].next # x
        /\ \A c \in Core : Pending(c) => handler[c].prev # x

(* A thread that is away from a core is in one of the places. *)
NoneLost(P) ==
    \A x \in Thread : Away(x) =>
        \/ \E i \in 1 .. Len(readyQ) : readyQ[i] = x
        \/ \E i \in 1 .. Len(zombies) : zombies[i] = x
        \/ \E t \in TCB : pc[t] \in Chosen /\ frame[t].next = x
        \/ \E c \in Core : Pending(c) /\ handler[c].prev = x
        \/ \E t \in TCB : x \in corpse[t]
        \/ x \in P

IInv(P) ==
    /\ Types /\ CoresOK /\ FramesOK /\ ActiveOK /\ InterruptsOK /\ CallsOK
    /\ ReadyOK /\ NextOK /\ ZombiesOK /\ CorpsesOK /\ ParkedOK(P) /\ NoneLost(P)

(* What follows from IInv about the steps that lead back to a thread.      *)

(* A thread that is switched to may be preempted and has not ended. *)
ResumedOK ==
    \A c \in Core : Pending(c) =>
        /\ ~no_preempt[onCore[c]]
        /\ onCore[c] \in Thread => frame[onCore[c]].act # "stop"

OneCorpse == \A t, x, y \in TCB : x \in corpse[t] /\ y \in corpse[t] => x = y

(* Nothing but its context switch takes the interrupts from an idle thread. *)
IdleOK ==
    /\ \A c \in Core : ~Pending(c) /\ onCore[c] \in Idle /\ pc[onCore[c]] \in InBlock
                          => interrupts[c]
    /\ \A t \in Idle : pc[t] \notin {"work", "wake", "heap", "heapwake"}

(* The reaper goes round its loop for good. *)
Loop == {"reap", "delete", "freeing", "freewake", "freed", "yield"}

ReaperOK ==
    /\ pc[Reaper] \in Loop \cup Blocked
    /\ pc[Reaper] \in Blocked => frame[Reaper].ret \in Loop

(* The timer cannot take core c from its thread. *)
Held(c) ==
    /\ ~Pending(c)
    /\ onCore[c] \in Thread \ {Reaper}
    /\ pc[onCore[c]] \in Labels
    /\ no_preempt[onCore[c]]

(* The reaper waits for the heap's lock, or for a core after that. *)
ReaperWaits == frame[Reaper].act = "down" /\ pc[Reaper] \in Blocked

CoreFree == ReaperWaits \/ \E c \in Core : ~Held(c)

JInv(P) == IInv(P) /\ ResumedOK /\ OneCorpse /\ IdleOK /\ ReaperOK /\ CoreFree
-----------------------------------------------------------------------------
(* Records of the right type *)

(* Choosing next_tcb changes no other local of block(). *)
LEMMA FrameNext ==
    ASSUME NEW f \in AnyFrame, NEW x \in TCB, NEW g, g = [f EXCEPT !.next = x]
    PROVE /\ g \in AnyFrame
          /\ g.next = x /\ g.core_id = f.core_id /\ g.me = f.me
          /\ g.act = f.act /\ g.opt = f.opt /\ g.ret = f.ret /\ g.iff = f.iff
  BY DEF AnyFrame

(* What block() puts in its frame has the frame's type. *)
LEMMA NewFrameType ==
    ASSUME NEW c \in Core, NEW me \in TCB, NEW opt \in {"CanReturn", "MustBlock"},
           NEW act \in {"yield", "stop", "down"}, NEW ret \in Labels, NEW iff \in BOOLEAN
    PROVE NewFrame(c, me, opt, act, ret, iff) \in AnyFrame
  BY DEF NewFrame, AnyFrame

(* There is a core. *)
LEMMA AnyCoreType == AnyCore \in Core
  BY CoreAssumption DEF AnyCore

(* Forgetting core_id and next_tcb keeps a frame's type. *)
LEMMA SpentType == ASSUME NEW f \in AnyFrame PROVE Spent(f) \in AnyFrame
  BY AnyCoreType DEF Spent, AnyFrame

(* The stack threads.h:63 prepares for a new TCB has a frame's type. *)
LEMMA FirstFrameType == ASSUME NEW t \in TCB, NEW ret \in Labels
                        PROVE FirstFrame(t, ret) \in AnyFrame
  BY AnyCoreType, NewFrameType DEF FirstFrame

(* An idle thread is not a Thread, and idleThreads names one. *)
LEMMA IdleFacts ==
    /\ \A c \in Core : idleThreads[c] \in Idle
    /\ \A x \in TCB : x \in Idle <=> x \notin Thread
    /\ \A c, d \in Core : idleThreads[c] = idleThreads[d] => c = d
    /\ Reaper \in Thread
  BY IdleAssumption, ThreadAssumption DEF Idle, TCB

-----------------------------------------------------------------------------
(* A step that moves no thread between the places loses none. *)
LEMMA NoneLostKept ==
    ASSUME NEW P, NoneLost(P),
           \A x \in Thread : Away(x)' => Away(x),
           UNCHANGED <<readyQ, zombies>>,
           \A t \in TCB : corpse'[t] = corpse[t],
           \A c \in Core : Pending(c) => handler'[c] = handler[c],
           \A t \in TCB : pc[t] \in Chosen =>
               pc'[t] \in Chosen /\ frame'[t].next = frame[t].next
    PROVE NoneLost(P)'
  BY DEF NoneLost, Pending

(* A step that chooses, calls or queues no parked thread leaves all parked. *)
LEMMA ParkedKept ==
    ASSUME NEW P, ParkedOK(P),
           \A x \in P : Away(x)' /\ frame'[x].act = frame[x].act,
           UNCHANGED readyQ,
           \A c \in Core : Pending(c)' => handler'[c] = handler[c],
           \A t \in TCB : pc'[t] \in Chosen =>
               pc[t] \in Chosen /\ frame'[t].next = frame[t].next
    PROVE ParkedOK(P)'
  BY DEF ParkedOK, Pending

(* A step of a thread's own code, from one label outside block() to        *)
(* another.                                                                *)
LEMMA GotoInv ==
    ASSUME NEW P, IInv(P), NEW c \in Core, NEW l \in Labels,
           handler[c] = NoCall, pc[Me(c)] \in Labels,
           pc[Me(c)] \in Deleting => l \in Deleting,
           Me(c) \in Idle => l # "yield",
           Goto(Me(c), l),
           UNCHANGED <<cpu, no_preempt, frame, corpse, handler, queues>>
    PROVE IInv(P)'
<1> USE DEF Me, Goto, cpu, queues, IInv
<1>1. onCore[c] \in TCB /\ pc[onCore[c]] \in Labels /\ ~Pending(c)
  BY DEF Types, Pending
<1>2. Types'
  BY <1>1 DEF Types
<1>3. \A x \in TCB : x # onCore[c] => pc'[x] = pc[x]
  BY DEF Types
<1>4. pc'[onCore[c]] = l
  BY <1>1 DEF Types
<1>5. l \notin {"away", "free", "pick", "mark", "activate", "switch"}
      /\ pc[onCore[c]] \notin {"away", "free", "pick", "mark", "activate", "switch"}
  BY <1>1 DEF Labels
<1>6. \A x \in TCB : (x \in TCB /\ pc'[x] = pc[x]) \/ (x = onCore[c] /\ pc'[x] = l)
  BY <1>3, <1>4
<1>7. CoresOK'
  BY <1>1, <1>5, <1>6 DEF CoresOK, Pending, Running, Types
<1>8. FramesOK' /\ ActiveOK'
  BY <1>1, <1>5, <1>6 DEF FramesOK, ActiveOK, Blocked, InBlock, Types
<1>9. InterruptsOK'
  BY <1>1, <1>5, <1>6 DEF InterruptsOK, Pending, Types
<1>10. \A x \in TCB : Away(x)' <=> Away(x)
  BY <1>1, <1>5, <1>6 DEF Away, OffCore, Types
<1>11. \A x \in TCB : pc'[x] \in Chosen <=> pc[x] \in Chosen
  BY <1>1, <1>5, <1>6 DEF Chosen
<1>12. CallsOK'
  BY <1>10 DEF CallsOK, Pending, Types, AnyCall
<1>13. ReadyOK' /\ ZombiesOK'
  BY <1>10, <1>11 DEF ReadyOK, ZombiesOK, Pending, Types, TCB
<1>14. NextOK'
  BY <1>10, <1>11 DEF NextOK, Pending, Types, AnyFrame
<1>15. CorpsesOK'
  BY <1>1, <1>5, <1>6, <1>10 DEF CorpsesOK, Pending, Where, InBlock, Deleting
<1>16. NoneLost(P)'
  BY <1>10, <1>11, NoneLostKept DEF TCB
<1>40. ParkedOK(P)'
  BY <1>10, <1>11, ParkedKept DEF ParkedOK, TCB
<1> QED
  BY <1>40, <1>2, <1>7, <1>8, <1>9, <1>12, <1>13, <1>14, <1>15, <1>16
(* Entering block(). *)
LEMMA BlockInv ==
    ASSUME NEW P, IInv(P), NEW c \in Core,
           NEW opt \in {"CanReturn", "MustBlock"}, NEW act \in {"yield", "stop", "down"},
           NEW ret \in Labels,
           handler[c] = NoCall, pc[Me(c)] \in Labels,
           act = "yield" <=> opt = "CanReturn",
           act = "stop" => ret = "stop",
           Me(c) \in Idle => act = "stop",
           pc[Me(c)] \in Deleting => ret \in Deleting,
           Block(c, opt, act, ret, TRUE),
           interrupts' \in {interrupts, [interrupts EXCEPT ![c] = FALSE]},
           UNCHANGED <<onCore, activeThreads, tss, corpse, handler, queues>>
    PROVE IInv(P)'
<1> DEFINE t == onCore[c]
           fr == NewFrame(c, t, opt, act, ret, TRUE)
<1> USE DEF IInv
<1>1. t \in TCB /\ pc[t] \in Labels /\ ~Pending(c)
  BY DEF Types, Pending, Me
<1>2. pc[t] \notin {"away", "free", "pick", "mark", "activate", "switch"}
  BY <1>1 DEF Labels
<1>3. activeThreads[c] = t
  BY <1>2 DEF ActiveOK
<1>4. /\ pc' = [pc EXCEPT ![t] = "pick"]
      /\ frame' = [frame EXCEPT ![t] = fr]
      /\ no_preempt' = [no_preempt EXCEPT ![t] = TRUE]
      /\ UNCHANGED <<onCore, activeThreads, tss, corpse, handler, readyQ, zombies>>
  BY <1>3 DEF Block, Goto, Me, queues
<1> HIDE DEF t, fr
<1>5. fr \in AnyFrame
  BY <1>1, NewFrameType DEF fr
<1>6. Types'
  BY <1>1, <1>4, <1>5 DEF Types, InBlock
<1>7. /\ fr.core_id = c /\ fr.me = t /\ fr.iff /\ fr.act = act /\ fr.opt = opt /\ fr.ret = ret
  BY DEF fr, NewFrame
<1>8. /\ pc'[t] = "pick" /\ frame'[t] = fr /\ no_preempt'[t]
      /\ \A x \in TCB : x # t => pc'[x] = pc[x] /\ frame'[x] = frame[x]
                                 /\ no_preempt'[x] = no_preempt[x]
  BY <1>1, <1>4 DEF Types
<1>9. onCore[c] = t /\ \A d \in Core : onCore[d] \in TCB /\ (d # c => onCore[d] # t)
  BY DEF t, CoresOK, Types
<1>10. CoresOK'
  BY <1>1, <1>2, <1>4, <1>8, <1>9 DEF CoresOK, Pending, Running, InBlock
<1>11. FramesOK'
  BY <1>1, <1>2, <1>4, <1>7, <1>8, <1>9, Me(c) = t DEF FramesOK, Blocked, InBlock, Me
<1>12. ActiveOK'
  <2>1. \A d \in Core : (pc[onCore[d]] \in {"activate", "switch"}) => frame[onCore[d]].next \in TCB
    BY <1>9 DEF Types, AnyFrame
  <2> QED BY <2>1, <1>1, <1>2, <1>4, <1>8, <1>9 DEF ActiveOK, InBlock
<1>13. InterruptsOK'
  BY <1>1, <1>4, <1>8, <1>9 DEF InterruptsOK, Pending, Labels, Types
<1>14. \A x \in TCB : /\ Away(x)' <=> Away(x)
                      /\ Away(x) => frame'[x] = frame[x]
  BY <1>1, <1>2, <1>4, <1>8, <1>9 DEF Away, OffCore
<1>15. \A x \in TCB : /\ pc'[x] \in Chosen <=> pc[x] \in Chosen
                      /\ pc[x] \in Chosen => frame'[x] = frame[x]
  BY <1>1, <1>2, <1>8 DEF Chosen
<1>16. CallsOK'
  BY <1>4, <1>14 DEF CallsOK, Pending, Types, AnyCall
<1>17. ReadyOK' /\ ZombiesOK'
  BY <1>4, <1>14, <1>15 DEF ReadyOK, ZombiesOK, Pending, Types, TCB
<1>18. NextOK'
  BY <1>4, <1>14, <1>15 DEF NextOK, Pending, Types, AnyFrame
<1>19. CorpsesOK'
  <2>1. \A x \in TCB : x = t => Where(x)' = ret
    BY <1>7, <1>8 DEF Where, InBlock
  <2>2. \A x \in TCB : x # t => Where(x)' = Where(x)
    BY <1>8 DEF Where
  <2>3. Where(t) = pc[t]
    BY <1>2 DEF Where, InBlock
  <2>4. \A x \in TCB : pc[x] # "free" /\ Where(x) \in Deleting
                         => pc'[x] # "free" /\ Where(x)' \in Deleting
    <3>1. Me(c) = t
      BY DEF Me, t
    <3> QED BY <2>1, <2>2, <2>3, <3>1, <1>8
  <2> QED BY <2>4, <1>4, <1>14 DEF CorpsesOK, Pending
<1>20. NoneLost(P)'
  BY <1>4, <1>14, <1>15, NoneLostKept DEF TCB
<1>40. ParkedOK(P)'
  BY <1>4, <1>14, <1>15, ParkedKept DEF ParkedOK, TCB
<1> QED
  BY <1>40, <1>6, <1>10, <1>11, <1>12, <1>13, <1>16, <1>17, <1>18, <1>19, <1>20

(* The timer handler enters block() from any code of a thread. *)
LEMMA TickInv == ASSUME NEW P, IInv(P), NEW c \in Core, Tick(c) PROVE IInv(P)'
<1> USE DEF IInv
<1>1. handler[c] = NoCall
  BY DEF Tick, InterruptsOK, Pending
<1>2. pc[onCore[c]] \notin InBlock
  BY DEF Tick, ActiveOK, InBlock
<1>3. pc[onCore[c]] \in Labels
  BY <1>1, <1>2 DEF CoresOK, Pending, Running
<1>4. Me(c) \notin Idle
  BY <1>2 DEF Tick, ActiveOK, Me, InBlock
<1> QED
  BY <1>1, <1>3, <1>4, BlockInv DEF Tick, Me

(* yield() at the end of the reaper's loop enters block(). *)
LEMMA ReaperYieldInv == ASSUME NEW P, IInv(P), NEW c \in Core, ReaperYield(c) PROVE IInv(P)'
<1>1. handler[c] = NoCall /\ pc[Me(c)] = "yield"
  BY DEF ReaperYield, At
<1>2. interrupts[c] /\ pc[Me(c)] \in Labels /\ Me(c) \notin Idle
  BY <1>1 DEF IInv, InterruptsOK, Pending, Labels, Me, CoresOK
<1> QED
  BY <1>1, <1>2, BlockInv DEF ReaperYield, cpu, Labels, Deleting

(* stop() enters block(). *)
LEMMA StopInv == ASSUME NEW P, IInv(P), NEW c \in Core, Stop(c) PROVE IInv(P)'
<1>1. handler[c] = NoCall /\ pc[Me(c)] = "stop"
  BY DEF Stop, At
<1>2. interrupts[c] /\ pc[Me(c)] \in Labels
  BY <1>1 DEF IInv, InterruptsOK, Pending, Labels, Me
<1> QED
  BY <1>1, <1>2, BlockInv DEF Stop, cpu, Labels, Deleting

(* A thread in block() chooses the next one, n, to switch to. *)
LEMMA ChooseInv ==
    ASSUME NEW P, IInv(P), NEW c \in Core, NEW n \in TCB,
           handler[c] = NoCall, pc[Me(c)] = "pick",
           Away(n),
           n \in Thread => frame[n].act # "stop",
           n \in Idle => n = idleThreads[c],
           \A x \in TCB : pc[x] \in Chosen => frame[x].next # n,
           \A d \in Core : Pending(d) => handler[d].prev # n,
           n \notin P,
           frame' = [frame EXCEPT ![Me(c)].next = n],
           Goto(Me(c), "mark"),
           readyQ' \in Seq(Thread),
           UNCHANGED <<cpu, no_preempt, corpse, handler, zombies>>
    PROVE /\ Types' /\ CoresOK' /\ FramesOK' /\ ActiveOK' /\ InterruptsOK' /\ CallsOK'
          /\ NextOK' /\ ZombiesOK' /\ CorpsesOK'
          /\ \A x \in TCB : /\ Away(x)' <=> Away(x)
                            /\ frame'[x].act = frame[x].act
                            /\ pc'[x] \in Chosen <=> pc[x] \in Chosen \/ x = Me(c)
                            /\ x # Me(c) => frame'[x].next = frame[x].next
          /\ frame'[Me(c)].next = n
          /\ Me(c) \in TCB /\ pc[Me(c)] \notin Chosen
<1> DEFINE t == Me(c)
<1> USE DEF IInv
<1>1. t \in TCB /\ pc[t] = "pick" /\ ~Pending(c)
  BY DEF Types, Me, Pending
<1>2. t = onCore[c]
  BY DEF Me
<1>3. /\ pc' = [pc EXCEPT ![t] = "mark"]
      /\ frame' = [frame EXCEPT ![t].next = n]
      /\ UNCHANGED <<onCore, activeThreads, tss, interrupts, no_preempt, corpse, handler, zombies>>
  BY DEF Goto, cpu
<1> HIDE DEF t
<1>4. frame[t] \in AnyFrame /\ frame' = [frame EXCEPT ![t] = [frame[t] EXCEPT !.next = n]]
  BY <1>1, <1>3 DEF Types
<1>5. Types'
  BY <1>1, <1>3, <1>4, FrameNext, ZenonT(60) DEF Types, InBlock
<1>6. /\ pc'[t] = "mark" /\ frame'[t] = [frame[t] EXCEPT !.next = n]
      /\ \A x \in TCB : x # t => pc'[x] = pc[x] /\ frame'[x] = frame[x]
  BY <1>1, <1>3, <1>4 DEF Types
<1>7. \A x \in TCB :
        /\ frame'[x].core_id = frame[x].core_id /\ frame'[x].me = frame[x].me
        /\ frame'[x].act = frame[x].act /\ frame'[x].opt = frame[x].opt
        /\ frame'[x].ret = frame[x].ret /\ frame'[x].iff = frame[x].iff
        /\ frame'[x].next = IF x = t THEN n ELSE frame[x].next
  <2>1. /\ frame'[t].next = n /\ frame'[t].core_id = frame[t].core_id
        /\ frame'[t].me = frame[t].me /\ frame'[t].act = frame[t].act
        /\ frame'[t].opt = frame[t].opt /\ frame'[t].ret = frame[t].ret
        /\ frame'[t].iff = frame[t].iff
    BY <1>4, <1>6 DEF AnyFrame
  <2>2. \A x \in TCB : x # t => frame'[x] = frame[x]
    BY <1>6
  <2> SUFFICES ASSUME NEW x \in TCB
               PROVE  /\ frame'[x].core_id = frame[x].core_id /\ frame'[x].me = frame[x].me
                      /\ frame'[x].act = frame[x].act /\ frame'[x].opt = frame[x].opt
                      /\ frame'[x].ret = frame[x].ret /\ frame'[x].iff = frame[x].iff
                      /\ frame'[x].next = IF x = t THEN n ELSE frame[x].next
    OBVIOUS
  <2>3. CASE x = t
    BY <2>1, <2>3
  <2>4. CASE x # t
    <3>1. frame'[x] = frame[x]
      BY <2>2, <2>4
    <3>2. n = n /\ (IF x = t THEN n ELSE frame[x].next) = frame[x].next
      BY <2>4
    <3> QED BY ONLY <3>1, <3>2, Zenon
  <2> QED BY <2>3, <2>4
<1>8. \A d \in Core : onCore[d] \in TCB /\ (d # c => onCore[d] # t)
  BY <1>2 DEF CoresOK, Types
<1>9. CoresOK'
  BY <1>1, <1>2, <1>3, <1>6, <1>8 DEF CoresOK, Pending, Running, InBlock
<1>10. FramesOK'
  BY <1>1, <1>2, <1>3, <1>6, <1>7, <1>8 DEF FramesOK, Blocked, InBlock
<1>11. ActiveOK'
  BY <1>1, <1>2, <1>3, <1>6, <1>8 DEF ActiveOK, InBlock
<1>12. InterruptsOK'
  BY <1>1, <1>2, <1>3, <1>6, <1>8 DEF InterruptsOK, Pending, Labels
<1>13. \A x \in TCB : Away(x)' <=> Away(x)
  BY <1>1, <1>3, <1>6 DEF Away, OffCore
<1>14. \A x \in TCB : (pc'[x] \in Chosen <=> pc[x] \in Chosen \/ x = t) /\ (pc[x] \in Chosen => x # t)
  BY <1>1, <1>6 DEF Chosen
<1>15. CallsOK'
  BY <1>3, <1>7, <1>13 DEF CallsOK, Pending, Types, AnyCall
<1>16. NextOK'
  <2>1. \A x, y \in TCB : pc'[x] \in Chosen /\ frame'[x].next = y =>
          /\ Away(y)'
          /\ y \in Thread => frame'[y].act # "stop"
          /\ y \in Idle => y = idleThreads[frame'[x].core_id]
    <3>1. frame[t].core_id = c
      BY <1>1, <1>2 DEF FramesOK, InBlock
    <3> QED BY <3>1, <1>7, <1>13, <1>14 DEF NextOK
  <2>2. \A x, y \in TCB : pc'[x] \in Chosen /\ pc'[y] \in Chosen
                          /\ frame'[x].next = frame'[y].next => x = y
    BY <1>7, <1>14 DEF NextOK
  <2>3. \A x \in TCB, d \in Core : pc'[x] \in Chosen /\ Pending(d) => handler[d].prev # frame'[x].next
    BY <1>7, <1>14 DEF NextOK
  <2>4. \A x \in TCB : frame'[x].next \in TCB
    BY <1>5 DEF Types, AnyFrame
  <2> QED BY <2>1, <2>2, <2>3, <2>4, <1>3 DEF NextOK, Pending
<1>17. ZombiesOK'
  BY <1>3, <1>7, <1>13 DEF ZombiesOK, Pending, Types, TCB
<1>18. CorpsesOK'
  BY <1>1, <1>3, <1>6, <1>7, <1>13 DEF CorpsesOK, Pending, Where, InBlock
<1> QED
  BY <1>1, <1>5, <1>7, <1>9, <1>10, <1>11, <1>12, <1>13, <1>14, <1>15, <1>16, <1>17, <1>18 DEF t, Chosen

(* readyQ.remove() hands its head to the thread in block(). *)
LEMMA PickReadyInv == ASSUME NEW P, IInv(P), NEW c \in Core, PickReady(c) PROVE IInv(P)'
<1> DEFINE t == Me(c)
           n == Head(readyQ)
           q == Tail(readyQ)
<1> USE DEF IInv
<1>1. /\ n \in Thread /\ n \in TCB /\ n = readyQ[1] /\ 1 \in 1 .. Len(readyQ)
      /\ q \in Seq(Thread) /\ Len(q) = Len(readyQ) - 1 /\ Len(readyQ) \in Nat
      /\ \A i \in 1 .. Len(q) : /\ i + 1 \in 1 .. Len(readyQ)
                                /\ q[i] = readyQ[i + 1] /\ q[i] \in TCB
  BY DEF Types, PickReady, TCB
<1>2. readyQ' = q /\ handler' = handler /\ zombies' = zombies /\ corpse' = corpse
  BY DEF PickReady
<1>3. n \notin Idle
  BY <1>1, IdleFacts
<1>4. \A i \in 1 .. Len(readyQ) : readyQ[i] = n => i = 1
  BY <1>1 DEF ReadyOK
<1>5. /\ Away(n) /\ frame[n].act # "stop" /\ n \notin P
      /\ \A x \in TCB : pc[x] \in Chosen => frame[x].next # n
      /\ \A d \in Core : Pending(d) => handler[d].prev # n
  BY <1>1 DEF ReadyOK, ParkedOK
<1>6. /\ Types' /\ CoresOK' /\ FramesOK' /\ ActiveOK' /\ InterruptsOK' /\ CallsOK'
      /\ NextOK' /\ ZombiesOK' /\ CorpsesOK'
      /\ \A x \in TCB : /\ Away(x)' <=> Away(x)
                        /\ frame'[x].act = frame[x].act
                        /\ pc'[x] \in Chosen <=> pc[x] \in Chosen \/ x = t
                        /\ x # t => frame'[x].next = frame[x].next
      /\ frame'[t].next = n
      /\ t \in TCB /\ pc[t] \notin Chosen
  BY <1>1, <1>2, <1>3, <1>5, ChooseInv DEF PickReady, At
<1> HIDE DEF t, n, q
<1>7. ReadyOK'
  <2>1. \A i \in 1 .. Len(q), x \in TCB : q[i] = x => Away(x)' /\ frame'[x].act # "stop"
    BY <1>1, <1>6 DEF ReadyOK
  <2>2. \A i, j \in 1 .. Len(q) : q[i] = q[j] => i = j
    BY <1>1 DEF ReadyOK
  <2>3. \A i \in 1 .. Len(q), d \in Core : Pending(d) => handler[d].prev # q[i]
    BY <1>1 DEF ReadyOK
  <2>4. \A i \in 1 .. Len(q), x \in TCB : pc'[x] \in Chosen => frame'[x].next # q[i]
    BY <1>1, <1>4, <1>6 DEF ReadyOK
  <2> QED BY <2>1, <2>2, <2>3, <2>4, <1>1, <1>2 DEF ReadyOK, Pending
<1>8. NoneLost(P)'
  <2> SUFFICES ASSUME NEW x \in Thread, Away(x)
               PROVE \/ \E i \in 1 .. Len(q) : q[i] = x
                     \/ \E i \in 1 .. Len(zombies) : zombies[i] = x
                     \/ \E u \in TCB : pc'[u] \in Chosen /\ frame'[u].next = x
                     \/ \E d \in Core : Pending(d) /\ handler[d].prev = x
                     \/ \E u \in TCB : x \in corpse[u]
                     \/ x \in P
    BY <1>2, <1>6 DEF NoneLost, Pending, TCB
  <2>1. CASE \E i \in 1 .. Len(readyQ) : readyQ[i] = x
    <3>1. PICK i \in 1 .. Len(readyQ) : readyQ[i] = x
      BY <2>1
    <3>2. CASE i = 1
      BY <3>1, <3>2, <1>1, <1>6
    <3>3. CASE i # 1
      <4>1. i - 1 \in 1 .. Len(q) /\ q[i - 1] = x
        BY <3>1, <3>3, <1>1
      <4> QED BY <4>1
    <3> QED BY <3>2, <3>3
  <2>2. CASE \E u \in TCB : pc[u] \in Chosen /\ frame[u].next = x
    BY <2>2, <1>6
  <2> QED BY <2>1, <2>2 DEF NoneLost
<1>40. ParkedOK(P)'
  BY <1>1, <1>2, <1>4, <1>5, <1>6 DEF ParkedOK, Pending, TCB
<1> QED
  BY <1>40, <1>6, <1>7, <1>8

(* No thread is ready: the core's idle thread, which is nowhere else. *)
LEMMA PickIdleInv == ASSUME NEW P, IInv(P), NEW c \in Core, PickIdle(c) PROVE IInv(P)'
<1> DEFINE t == Me(c)
           n == idleThreads[c]
<1> USE DEF IInv
<1>1. handler[c] = NoCall /\ pc[t] = "pick" /\ t = onCore[c] /\ ~Pending(c)
  BY DEF PickIdle, At, Me, Pending
<1>2. frame[t].core_id = c /\ frame[t].me = t
  BY <1>1 DEF FramesOK, InBlock
<1>3. t \notin Idle /\ n \in Idle /\ n \in TCB /\ n \notin Thread
  BY <1>2, IdleFacts DEF PickIdle, TCB
<1>4. \A d \in Core : onCore[d] # n
  BY <1>1, <1>3, IdleFacts DEF CoresOK
<1>5. Away(n)
  BY <1>3, <1>4 DEF CoresOK, Away, OffCore, Types, Running
<1>6. \A x \in TCB : pc[x] \in Chosen => frame[x].next # n
  <2> SUFFICES ASSUME NEW x \in TCB, pc[x] \in Chosen, frame[x].next = n PROVE FALSE
    OBVIOUS
  <2>1. PICK d \in Core : onCore[d] = x
    BY DEF CoresOK, Running, InBlock, Chosen
  <2>2. frame[x].core_id = d
    BY <2>1 DEF FramesOK, InBlock, Chosen
  <2>3. n = idleThreads[d]
    BY <2>2, <1>3 DEF NextOK
  <2>4. d = c
    BY <2>3, IdleFacts
  <2> QED BY <2>1, <2>4, <1>1 DEF Chosen
<1>7. \A d \in Core : Pending(d) => handler[d].prev # n
  BY <1>1, <1>3, IdleFacts DEF CallsOK
<1>8. readyQ' = readyQ /\ readyQ \in Seq(Thread) /\ zombies' = zombies /\ corpse' = corpse /\ handler' = handler
  BY DEF PickIdle, Types, queues
<1>20. n \notin P
  BY <1>3 DEF ParkedOK
<1>9. /\ Types' /\ CoresOK' /\ FramesOK' /\ ActiveOK' /\ InterruptsOK' /\ CallsOK'
      /\ NextOK' /\ ZombiesOK' /\ CorpsesOK'
      /\ \A x \in TCB : /\ Away(x)' <=> Away(x)
                        /\ frame'[x].act = frame[x].act
                        /\ pc'[x] \in Chosen <=> pc[x] \in Chosen \/ x = t
                        /\ x # t => frame'[x].next = frame[x].next
      /\ frame'[t].next = n
      /\ t \in TCB /\ pc[t] \notin Chosen
  BY <1>1, <1>2, <1>3, <1>5, <1>6, <1>7, <1>8, <1>20, ChooseInv DEF PickIdle, queues
<1> HIDE DEF t, n
<1>10. \A i \in 1 .. Len(readyQ) : readyQ[i] \in Thread /\ readyQ[i] \in TCB
  BY DEF Types, TCB
<1>11. ReadyOK'
  BY <1>3, <1>8, <1>9, <1>10 DEF ReadyOK, Pending
<1>12. NoneLost(P)'
  BY <1>8, <1>9, NoneLostKept DEF TCB
<1>40. ParkedOK(P)'
  BY <1>3, <1>8, <1>9 DEF ParkedOK, Pending, TCB
<1> QED
  BY <1>40, <1>9, <1>11, <1>12

(* block() returns to its caller without a switch. *)
LEMMA PickReturnInv == ASSUME NEW P, IInv(P), NEW c \in Core, PickReturn(c) PROVE IInv(P)'
<1> DEFINE t == Me(c)
           l == frame[t].ret
<1> USE DEF IInv
<1>1. t \in TCB /\ t = onCore[c] /\ pc[t] = "pick" /\ ~Pending(c)
  BY DEF PickReturn, At, Me, Pending, Types
<1>2. l \in Labels /\ frame[t].iff = TRUE /\ t \notin Idle
  BY <1>1 DEF FramesOK, Types, AnyFrame, PickReturn, Blocked, InBlock
<1>3. /\ pc' = [pc EXCEPT ![t] = l]
      /\ interrupts' = [interrupts EXCEPT ![c] = TRUE]
      /\ UNCHANGED <<onCore, activeThreads, tss, no_preempt, frame, corpse, handler, readyQ, zombies>>
  BY <1>2 DEF PickReturn, Goto, queues
<1>4. l \notin {"away", "free", "pick", "mark", "activate", "switch"}
  BY <1>2 DEF Labels
<1> HIDE DEF t, l
<1>5. Types'
  BY <1>1, <1>2, <1>3 DEF Types
<1>6. pc'[t] = l /\ \A x \in TCB : x # t => pc'[x] = pc[x]
  BY <1>1, <1>3 DEF Types
<1>7. \A d \in Core : onCore[d] \in TCB /\ (d # c => onCore[d] # t)
  BY <1>1 DEF CoresOK, Types
<1>8. CoresOK'
  BY <1>1, <1>2, <1>3, <1>4, <1>6, <1>7 DEF CoresOK, Pending, Running, InBlock
<1>9. FramesOK'
  BY <1>1, <1>3, <1>4, <1>6, <1>7 DEF FramesOK, Blocked, InBlock
<1>10. ActiveOK'
  BY <1>1, <1>3, <1>4, <1>6, <1>7 DEF ActiveOK, InBlock
<1>11. InterruptsOK'
  BY <1>1, <1>2, <1>3, <1>6, <1>7 DEF InterruptsOK, Pending, Types
<1>12. \A x \in TCB : Away(x)' <=> Away(x)
  BY <1>1, <1>3, <1>4, <1>6 DEF Away, OffCore
<1>13. \A x \in TCB : pc'[x] \in Chosen <=> pc[x] \in Chosen
  BY <1>1, <1>4, <1>6 DEF Chosen
<1>14. CallsOK'
  BY <1>3, <1>12 DEF CallsOK, Pending, Types, AnyCall
<1>15. ReadyOK' /\ ZombiesOK'
  BY <1>3, <1>12, <1>13 DEF ReadyOK, ZombiesOK, Pending, Types, TCB
<1>16. NextOK'
  BY <1>3, <1>12, <1>13 DEF NextOK, Pending, Types, AnyFrame
<1>17. CorpsesOK'
  <2>1. \A x \in TCB : Where(x)' = Where(x)
    BY <1>1, <1>3, <1>4, <1>6 DEF Where, InBlock, l
  <2> QED BY <2>1, <1>1, <1>3, <1>4, <1>6, <1>12 DEF CorpsesOK, Pending
<1>18. NoneLost(P)'
  BY <1>3, <1>12, <1>13, NoneLostKept DEF TCB
<1>40. ParkedOK(P)'
  BY <1>3, <1>12, <1>13, ParkedKept DEF ParkedOK, TCB
<1> QED
  BY <1>40, <1>5, <1>8, <1>9, <1>10, <1>11, <1>14, <1>15, <1>16, <1>17, <1>18

(* The next thread is marked, and made the active one. *)
LEMMA AdvanceInv ==
    ASSUME NEW P, IInv(P), NEW c \in Core, NEW l \in {"activate", "switch"},
           pc[Me(c)] = IF l = "activate" THEN "mark" ELSE "activate",
           Goto(Me(c), l),
           no_preempt' \in {no_preempt, [no_preempt EXCEPT ![frame[Me(c)].next] = TRUE]},
           l = "activate" => no_preempt'[frame[Me(c)].next] = TRUE,
           activeThreads' = IF l = "switch"
                            THEN [activeThreads EXCEPT ![frame[Me(c)].core_id] = frame[Me(c)].next]
                            ELSE activeThreads,
           tss' = IF l = "switch"
                  THEN [tss EXCEPT ![frame[Me(c)].core_id] = frame[Me(c)].next] ELSE tss,
           UNCHANGED <<onCore, interrupts, frame, corpse, handler, queues>>
    PROVE IInv(P)'
<1> DEFINE t == Me(c)
           n == frame[t].next
<1> USE DEF IInv
<1>1. t \in TCB /\ t = onCore[c] /\ pc[t] \in {"mark", "activate"} /\ n \in TCB
  BY DEF Me, Types, AnyFrame
<1>2. /\ pc' = [pc EXCEPT ![t] = l]
      /\ UNCHANGED <<onCore, interrupts, frame, corpse, handler, readyQ, zombies>>
  BY DEF Goto, queues
<1>3. frame[t].core_id = c
  BY <1>1 DEF FramesOK, InBlock
<1> HIDE DEF t
<1>4. Types'
  <2>1. no_preempt' \in [TCB -> BOOLEAN]
    BY <1>1 DEF t, Types
  <2>2. activeThreads' \in [Core -> TCB] /\ tss' \in [Core -> TCB]
    BY <1>1, <1>3 DEF t, Types
  <2>3. pc' \in [TCB -> Labels \cup InBlock \cup {"away", "free"}]
    BY <1>1, <1>2 DEF Types, InBlock
  <2> QED BY <2>1, <2>2, <2>3, <1>2 DEF Types
<1>5. pc'[t] = l /\ \A x \in TCB : x # t => pc'[x] = pc[x]
  BY <1>1, <1>2 DEF Types
<1>6. \A d \in Core : onCore[d] \in TCB /\ (d # c => onCore[d] # t)
  BY <1>1 DEF CoresOK, Types
<1>7. CoresOK'
  BY <1>1, <1>2, <1>5, <1>6 DEF CoresOK, Pending, Running, InBlock, Labels
<1>8. FramesOK'
  BY <1>1, <1>2, <1>5, <1>6 DEF FramesOK, Blocked, InBlock
<1>9. ActiveOK'
  <2>1. \A d \in Core : LET u == IF pc'[onCore[d]] = "switch" THEN frame[onCore[d]].next ELSE onCore[d]
                        IN  activeThreads'[d] = u /\ tss'[d] = u
    BY <1>1, <1>3, <1>5, <1>6 DEF ActiveOK, Types, t
  <2>2. \A x \in TCB : no_preempt[x] => no_preempt'[x]
    BY <1>1 DEF Types, t
  <2>3. \A d \in Core : pc'[onCore[d]] \in InBlock => no_preempt'[onCore[d]]
    BY <2>2, <1>1, <1>5, <1>6 DEF ActiveOK, InBlock
  <2>4. \A d \in Core : frame[onCore[d]].next \in TCB
    BY <1>6 DEF Types, AnyFrame
  <2>5. \A d \in Core : pc'[onCore[d]] \in {"activate", "switch"} => no_preempt'[frame[onCore[d]].next]
    <3>1. no_preempt'[frame[onCore[c]].next]
      BY <2>2, <2>4, <1>1 DEF ActiveOK, t
    <3> QED BY <3>1, <2>2, <2>4, <1>5, <1>6 DEF ActiveOK
  <2> QED BY <2>1, <2>3, <2>5, <1>2 DEF ActiveOK
<1>10. InterruptsOK'
  BY <1>1, <1>2, <1>5, <1>6 DEF InterruptsOK, Pending, Labels
<1>11. \A x \in TCB : Away(x)' <=> Away(x)
  BY <1>1, <1>2, <1>5 DEF Away, OffCore
<1>12. \A x \in TCB : pc'[x] \in Chosen <=> pc[x] \in Chosen
  BY <1>1, <1>5 DEF Chosen
<1>13. CallsOK'
  BY <1>2, <1>11 DEF CallsOK, Pending, Types, AnyCall
<1>14. ReadyOK' /\ ZombiesOK'
  <2>1. /\ \A i \in 1 .. Len(readyQ) : readyQ[i] \in TCB
        /\ \A i \in 1 .. Len(zombies) : zombies[i] \in TCB
    BY DEF Types, TCB
  <2>2. ReadyOK'
    BY <2>1, <1>2, <1>11, <1>12 DEF ReadyOK, Pending
  <2>3. ZombiesOK'
    BY <2>1, <1>2, <1>11 DEF ZombiesOK, Pending
  <2> QED BY <2>2, <2>3
<1>15. NextOK'
  BY <1>2, <1>11, <1>12 DEF NextOK, Pending, Types, AnyFrame
<1>16. CorpsesOK'
  BY <1>1, <1>2, <1>5, <1>11 DEF CorpsesOK, Pending, Where, InBlock
<1>17. NoneLost(P)'
  BY <1>2, <1>11, <1>12, NoneLostKept DEF TCB
<1>40. ParkedOK(P)'
  BY <1>2, <1>11, <1>12, ParkedKept DEF ParkedOK, TCB
<1> QED
  BY <1>40, <1>4, <1>7, <1>8, <1>9, <1>10, <1>13, <1>14, <1>15, <1>16, <1>17

(* block() sets no_preempt of next_tcb. *)
LEMMA MarkInv == ASSUME NEW P, IInv(P), NEW c \in Core, Mark(c) PROVE IInv(P)'
<1>1. Me(c) \in TCB /\ frame[Me(c)].next \in TCB
  BY DEF IInv, Types, Me, AnyFrame
<1>2. no_preempt'[frame[Me(c)].next] = TRUE
  BY <1>1 DEF Mark, IInv, Types
<1> QED BY <1>2, AdvanceInv DEF Mark, At, cpu, queues

(* block() records next_tcb in activeThreads and in the TSS. *)
LEMMA ActivateInv == ASSUME NEW P, IInv(P), NEW c \in Core, Activate(c) PROVE IInv(P)'
  BY AdvanceInv DEF Activate, At

(* The context switch: the core's thread goes to the pending lambda, the   *)
(* chosen one to the core.                                                 *)
LEMMA ContextSwitchInv == ASSUME NEW P, IInv(P), NEW c \in Core, ContextSwitch(c) PROVE IInv(P)'
<1> DEFINE t == Me(c)
           f == frame[t]
           n == f.next
           call == [act |-> f.act, prev |-> t]
<1> USE DEF IInv
<1>1. t \in TCB /\ t = onCore[c] /\ pc[t] = "switch" /\ ~Pending(c) /\ f \in AnyFrame /\ n \in TCB
  BY DEF ContextSwitch, At, Me, Pending, Types, AnyFrame
<1>2. f.core_id = c /\ f.me = t
  BY <1>1 DEF FramesOK, InBlock
<1>3. f.act \in {"yield", "stop", "down"}
  BY <1>1 DEF AnyFrame
<1>4. /\ pc' = [pc EXCEPT ![t] = "away"]
      /\ frame' = [frame EXCEPT ![t] = Spent(f)]
      /\ no_preempt' = [no_preempt EXCEPT ![t] = FALSE, ![n] = FALSE]
      /\ onCore' = [onCore EXCEPT ![c] = n]
      /\ interrupts' = [interrupts EXCEPT ![c] = FALSE]
      /\ handler' = [handler EXCEPT ![c] = call]
      /\ UNCHANGED <<activeThreads, tss, corpse, readyQ, zombies>>
  BY <1>2 DEF ContextSwitch, Goto, Unmarked, queues
<1>5. call \in AnyCall /\ call # NoCall /\ call.act = f.act /\ call.prev = t /\ call.act # "none"
  BY <1>1, <1>3 DEF AnyCall, NoCall
<1>6. /\ Spent(f) \in AnyFrame /\ Spent(f).act = f.act /\ Spent(f).opt = f.opt
      /\ Spent(f).ret = f.ret /\ Spent(f).iff = f.iff
  BY <1>1, SpentType DEF Spent, AnyFrame
<1>7. /\ pc[n] = "away" /\ \A d \in Core : onCore[d] # n
      /\ n \in Thread => frame[n].act # "stop"
      /\ n \in Idle => n = idleThreads[c]
      /\ \A x \in TCB : pc[x] \in Chosen /\ x # t => frame[x].next # n
      /\ \A d \in Core : Pending(d) => handler[d].prev # n
      /\ \A i \in 1 .. Len(readyQ) : readyQ[i] # n
  BY <1>1, <1>2 DEF NextOK, ReadyOK, Chosen, Away, OffCore
<1>8. n # t
  BY <1>1, <1>7
<1> HIDE DEF t, f, n, call
<1>9. Types'
  BY <1>1, <1>4, <1>5, <1>6 DEF Types
<1>10. /\ pc'[t] = "away" /\ frame'[t] = Spent(f)
       /\ \A x \in TCB : x # t => pc'[x] = pc[x] /\ frame'[x] = frame[x]
       /\ \A x \in TCB : x # t /\ x # n => no_preempt'[x] = no_preempt[x]
       /\ onCore'[c] = n /\ ~interrupts'[c] /\ handler'[c] = call
       /\ \A d \in Core : d # c => /\ onCore'[d] = onCore[d]
                                   /\ interrupts'[d] = interrupts[d]
                                   /\ handler'[d] = handler[d]
  BY <1>1, <1>4 DEF Types
<1>11. \A d \in Core : onCore[d] \in TCB /\ (d # c => onCore[d] # t)
  BY <1>1 DEF CoresOK, Types
<1>12. CoresOK'
  <2>1. \A d \in Core : onCore'[d] \in Idle => onCore'[d] = idleThreads[d]
    BY <1>7, <1>10 DEF CoresOK
  <2>2. \A d, e \in Core : onCore'[d] = onCore'[e] => d = e
    BY <1>7, <1>10 DEF CoresOK
  <2>3. \A d \in Core : IF Pending(d)' THEN pc'[onCore'[d]] = "away"
                                        ELSE pc'[onCore'[d]] \in Running
    <3>1. Pending(c)' /\ pc'[onCore'[c]] = "away"
      BY <1>1, <1>5, <1>7, <1>8, <1>10 DEF Pending
    <3>2. ASSUME NEW d \in Core, d # c
          PROVE  (Pending(d)' <=> Pending(d)) /\ pc'[onCore'[d]] = pc[onCore[d]]
      BY <3>2, <1>10, <1>11 DEF Pending
    <3> QED BY <3>1, <3>2 DEF CoresOK
  <2>4. \A x \in TCB : pc'[x] \in Running => \E d \in Core : onCore'[d] = x
    <3> SUFFICES ASSUME NEW x \in TCB, pc'[x] \in Running
                 PROVE \E d \in Core : onCore'[d] = x
      OBVIOUS
    <3>1. x # t
      BY <1>10 DEF Running, Labels, InBlock
    <3>2. PICK d \in Core : onCore[d] = x
      BY <3>1, <1>10 DEF CoresOK
    <3>3. d # c
      BY <3>1, <3>2, <1>1
    <3> QED BY <3>2, <3>3, <1>10
  <2>5. \A x \in Idle : pc'[x] \notin {"free", "yield"}
    BY <1>10, IdleFacts DEF CoresOK, TCB
  <2> QED BY <2>1, <2>2, <2>3, <2>4, <2>5 DEF CoresOK
<1>13. \A x \in TCB : /\ frame'[x].act = frame[x].act /\ frame'[x].opt = frame[x].opt
                      /\ frame'[x].ret = frame[x].ret /\ frame'[x].iff = frame[x].iff
  BY <1>6, <1>10 DEF f
<1>14. FramesOK'
  BY <1>1, <1>7, <1>8, <1>10, <1>11, <1>13 DEF FramesOK, Blocked, InBlock
<1>15. ActiveOK'
  <2>1. activeThreads[c] = n /\ tss[c] = n
    BY <1>1 DEF ActiveOK, n, f
  <2>2. \A d \in Core : d # c => frame[onCore[d]].next \in TCB
    BY <1>11 DEF Types, AnyFrame
  <2>3. \A d \in Core : d # c /\ pc[onCore[d]] \in {"activate", "switch"} =>
           /\ frame[onCore[d]].next # n
           /\ frame[onCore[d]].next # t
    BY <1>1, <1>7, <1>11 DEF Chosen, NextOK, Away, OffCore
  <2>4. pc'[onCore'[c]] = "away"
    BY <1>1, <1>7, <1>8, <1>10
  <2>5. \A d \in Core : d # c => /\ onCore'[d] = onCore[d] /\ pc'[onCore[d]] = pc[onCore[d]]
                                 /\ frame'[onCore[d]] = frame[onCore[d]]
                                 /\ onCore[d] # n /\ onCore[d] # t
    BY <1>7, <1>10, <1>11
  <2>6. \A d \in Core : LET u == IF pc'[onCore'[d]] = "switch" THEN frame'[onCore'[d]].next
                                                               ELSE onCore'[d]
                        IN  activeThreads[d] = u /\ tss[d] = u
    BY <2>1, <2>4, <2>5, <1>10 DEF ActiveOK
  <2>7. \A d \in Core : pc'[onCore'[d]] \in InBlock => no_preempt'[onCore'[d]]
    BY <2>4, <2>5, <1>10, <1>11 DEF ActiveOK, InBlock
  <2>8. \A d \in Core : pc'[onCore'[d]] \in {"activate", "switch"} =>
           no_preempt'[frame'[onCore'[d]].next]
    BY <2>2, <2>3, <2>4, <2>5, <1>10, <1>11 DEF ActiveOK
  <2> QED BY <2>6, <2>7, <2>8, <1>4 DEF ActiveOK
<1>16. InterruptsOK'
  BY <1>5, <1>8, <1>10, <1>11 DEF InterruptsOK, Pending
<1>17. \A x \in TCB : Away(x)' <=> (x = t \/ (Away(x) /\ x # n))
  BY <1>1, <1>7, <1>8, <1>10, <1>11 DEF Away, OffCore
<1>18. ~Away(t)
  BY <1>1 DEF Away, OffCore
<1>19. \A x \in TCB : pc'[x] \in Chosen <=> pc[x] \in Chosen /\ x # t
  BY <1>1, <1>10 DEF Chosen
<1>20. \A d \in Core : Pending(d)' <=> Pending(d) \/ d = c
  BY <1>5, <1>10 DEF Pending
<1>21. CallsOK'
  <2>1. t \in Idle => t = idleThreads[c]
    BY <1>1 DEF CoresOK
  <2>2. \A d \in Core : Pending(d) => handler[d].prev # t /\ handler[d].prev \in TCB
    BY <1>18 DEF CallsOK, Types, AnyCall
  <2>3. frame'[t].act = call.act
    BY <1>5, <1>6, <1>10
  <2>4. \A d \in Core : handler'[d].act = "none" => handler'[d] = NoCall
    BY <1>5, <1>10 DEF CallsOK
  <2>5. \A d \in Core : Pending(d)' =>
          /\ \A x \in TCB : x = handler'[d].prev => Away(x)'
          /\ frame'[handler'[d].prev].act = handler'[d].act
          /\ handler'[d].prev \in Idle => handler'[d].prev = idleThreads[d]
          /\ handler'[d].prev \in TCB
    BY <2>1, <2>2, <2>3, <1>1, <1>5, <1>7, <1>10, <1>13, <1>17, <1>20 DEF CallsOK
  <2>6. \A d, e \in Core : Pending(d)' /\ Pending(e)'
                           /\ handler'[d].prev = handler'[e].prev => d = e
    BY <2>2, <1>5, <1>10, <1>20 DEF CallsOK
  <2> QED BY <2>4, <2>5, <2>6 DEF CallsOK
<1>22. ReadyOK'
  <2>1. \A i \in 1 .. Len(readyQ) : readyQ[i] \in TCB /\ readyQ[i] # t /\ readyQ[i] # n
    BY <1>7, <1>18 DEF ReadyOK, Types, TCB
  <2> QED BY <2>1, <1>4, <1>5, <1>10, <1>13, <1>17, <1>19, <1>20 DEF ReadyOK
<1>23. NextOK'
  <2>1. \A x \in TCB : pc[x] \in Chosen => frame[x].next # t /\ frame[x].next \in TCB
    BY <1>18 DEF NextOK, Types, AnyFrame
  <2> QED BY <2>1, <1>5, <1>7, <1>10, <1>13, <1>17, <1>19, <1>20 DEF NextOK
<1>24. ZombiesOK'
  <2>1. \A i \in 1 .. Len(zombies) : /\ zombies[i] \in TCB /\ zombies[i] \in Thread
                                     /\ zombies[i] # t /\ zombies[i] # n
    <3>1. \A i \in 1 .. Len(zombies) : zombies[i] \in TCB /\ zombies[i] \in Thread
      BY DEF Types, TCB
    <3>2. \A i \in 1 .. Len(zombies) : Away(zombies[i]) /\ frame[zombies[i]].act = "stop"
      BY DEF ZombiesOK
    <3> QED BY <3>1, <3>2, <1>7, <1>18
  <2> QED BY <2>1, <1>4, <1>5, <1>10, <1>13, <1>17, <1>20 DEF ZombiesOK
<1>25. CorpsesOK'
  <2>1. \A x, u \in TCB : x \in corpse[u] => x # t /\ x # n
    BY <1>7, <1>18 DEF CorpsesOK
  <2>2. \A x \in TCB : Where(x)' = Where(x)
    BY <1>1, <1>10, <1>13 DEF Where, InBlock
  <2> QED BY <2>1, <2>2, <1>1, <1>4, <1>5, <1>10, <1>13, <1>17, <1>20 DEF CorpsesOK
<1>26. NoneLost(P)'
  <2> SUFFICES ASSUME NEW x \in Thread, Away(x)'
               PROVE \/ \E i \in 1 .. Len(readyQ) : readyQ[i] = x
                     \/ \E i \in 1 .. Len(zombies) : zombies[i] = x
                     \/ \E u \in TCB : pc'[u] \in Chosen /\ frame'[u].next = x
                     \/ \E d \in Core : Pending(d)' /\ handler'[d].prev = x
                     \/ \E u \in TCB : x \in corpse[u]
                     \/ x \in P
    BY <1>4 DEF NoneLost
  <2>1. x \in TCB
    BY DEF TCB
  <2>2. CASE x = t
    BY <2>2, <1>5, <1>10, <1>20
  <2>3. CASE x # t
    <3>1. Away(x) /\ x # n
      BY <2>1, <2>3, <1>17
    <3>2. CASE \E u \in TCB : pc[u] \in Chosen /\ frame[u].next = x
      BY <3>1, <3>2, <1>10, <1>19 DEF n, f
    <3>3. CASE \E d \in Core : Pending(d) /\ handler[d].prev = x
      BY <3>3, <1>1, <1>10, <1>20
    <3> QED BY <3>1, <3>2, <3>3 DEF NoneLost
  <2> QED BY <2>2, <2>3
<1>27. ParkedOK(P)'
  <2>1. \A x \in P : x \in TCB /\ x # t /\ x # n
    BY <1>1, <1>18 DEF ParkedOK, n, f, Chosen, TCB
  <2> QED BY <2>1, <1>1, <1>4, <1>5, <1>10, <1>13, <1>17, <1>19, <1>20 DEF ParkedOK
<1> QED
  BY <1>27, <1>9, <1>12, <1>14, <1>15, <1>16, <1>21, <1>22, <1>23, <1>24, <1>25, <1>26

(* What Queue::add leaves in a queue. *)
LEMMA AppendFacts ==
    ASSUME NEW S, NEW s \in Seq(S), NEW e \in S, NEW q, q = Append(s, e)
    PROVE /\ q \in Seq(S) /\ Len(s) \in Nat
          /\ Len(s) + 1 \in 1 .. Len(q) /\ q[Len(s) + 1] = e
          /\ \A i \in 1 .. Len(s) : i \in 1 .. Len(q) /\ q[i] = s[i]
          /\ \A i \in 1 .. Len(q) : i \in 1 .. Len(s) \/ i = Len(s) + 1
  BY AppendProperties

(* The lambda has returned: core c goes on in the thread it switched to.   *)
LEMMA ResumeInv ==
    ASSUME NEW P, IInv(P), NEW c \in Core, Pending(c), Resume(c),
           UNCHANGED <<onCore, activeThreads, tss, no_preempt, frame, corpse>>,
           readyQ' \in Seq(Thread), zombies' \in Seq(Thread)
    PROVE /\ Types' /\ CoresOK' /\ FramesOK' /\ ActiveOK' /\ InterruptsOK' /\ CallsOK'
          /\ NextOK'
          /\ zombies' = zombies => CorpsesOK'
          /\ \A x \in TCB : /\ Away(x)' <=> Away(x)
                            /\ pc'[x] \in Chosen <=> pc[x] \in Chosen
                            /\ pc[x] # "free" /\ Where(x) \in Deleting
                                 => pc'[x] # "free" /\ Where(x)' \in Deleting
          /\ \A d \in Core : /\ Pending(d)' <=> Pending(d) /\ d # c
                             /\ d # c => handler'[d] = handler[d]
<1> DEFINE t == onCore[c]
           l == frame[t].ret
<1> USE DEF IInv
<1>1. t \in TCB /\ pc[t] = "away"
  BY DEF CoresOK, Types
<1>2. l \in Labels /\ frame[t].iff = TRUE /\ (t \in Idle => l = "stop")
  BY <1>1 DEF FramesOK, Types, AnyFrame, Blocked
<1>3. /\ pc' = [pc EXCEPT ![t] = l]
      /\ interrupts' = [interrupts EXCEPT ![c] = TRUE]
      /\ handler' = [handler EXCEPT ![c] = NoCall]
  BY <1>2 DEF Resume, Goto, Me
<1>4. l \notin {"away", "free", "pick", "mark", "activate", "switch"}
  BY <1>2 DEF Labels
<1>5. onCore[c] = t /\ frame[t].ret = l
  OBVIOUS
<1> HIDE DEF t, l
<1>6. pc'[t] = l /\ \A x \in TCB : x # t => pc'[x] = pc[x]
  BY <1>1, <1>3 DEF Types
<1>7. \A d \in Core : onCore[d] \in TCB /\ (d # c => onCore[d] # t)
  BY <1>5 DEF CoresOK, Types
<1>8. handler'[c] = NoCall /\ \A d \in Core : d # c => handler'[d] = handler[d]
  BY <1>3 DEF Types
<1>9. \A d \in Core : Pending(d)' <=> Pending(d) /\ d # c
  BY <1>8 DEF Pending
<1>10. Types'
  <2>1. NoCall \in AnyCall
    BY ThreadAssumption DEF NoCall, AnyCall, TCB
  <2> QED BY <2>1, <1>1, <1>2, <1>3 DEF Types
<1>11. CoresOK'
  <2>1. \A d \in Core : IF Pending(d)' THEN pc'[onCore[d]] = "away"
                                       ELSE pc'[onCore[d]] \in Running
    <3>1. pc'[onCore[c]] \in Running /\ ~Pending(c)'
      BY <1>2, <1>5, <1>6, <1>9 DEF Running
    <3>2. \A d \in Core : d # c => pc'[onCore[d]] = pc[onCore[d]] /\ (Pending(d)' <=> Pending(d))
      BY <1>6, <1>7, <1>9
    <3> QED BY <3>1, <3>2 DEF CoresOK
  <2>2. \A x \in TCB : pc'[x] \in Running => \E d \in Core : onCore[d] = x
    BY <1>5, <1>6 DEF CoresOK
  <2>3. \A x \in Idle : pc'[x] \notin {"free", "yield"}
    BY <1>2, <1>4, <1>6 DEF CoresOK, TCB
  <2> QED BY <2>1, <2>2, <2>3 DEF CoresOK
<1>12. FramesOK'
  BY <1>1, <1>4, <1>5, <1>6, <1>7 DEF FramesOK, Blocked, InBlock
<1>13. ActiveOK'
  BY <1>1, <1>4, <1>5, <1>6, <1>7 DEF ActiveOK, InBlock
<1>14. InterruptsOK'
  BY <1>1, <1>3, <1>5, <1>6, <1>7, <1>9 DEF InterruptsOK, Types
<1>15. \A x \in TCB : Away(x)' <=> Away(x)
  BY <1>1, <1>4, <1>5, <1>6 DEF Away, OffCore
<1>16. \A x \in TCB : (pc'[x] \in Chosen <=> pc[x] \in Chosen) /\ (pc[x] \in Chosen => x # t)
  BY <1>1, <1>4, <1>6 DEF Chosen
<1>17. CallsOK'
  <2>1. \A d \in Core : d # c /\ Pending(d) => handler[d].prev \in TCB
    BY DEF Types, AnyCall
  <2>2. \A d \in Core : handler'[d].act = "none" => handler'[d] = NoCall
    BY <1>8 DEF CallsOK
  <2>3. \A d \in Core, x \in TCB : d # c /\ Pending(d) /\ handler[d].prev = x =>
          /\ Away(x)'
          /\ frame[x].act = handler[d].act
          /\ x \in Idle => x = idleThreads[d]
    BY <1>15 DEF CallsOK
  <2> QED BY <2>1, <2>2, <2>3, <1>8, <1>9 DEF CallsOK
<1>18. NextOK'
  BY <1>8, <1>9, <1>15, <1>16 DEF NextOK, Types, AnyFrame
<1>19. \A x \in TCB : pc[x] # "free" /\ Where(x) \in Deleting
                        => pc'[x] # "free" /\ Where(x)' \in Deleting
  <2> SUFFICES ASSUME NEW x \in TCB, pc[x] # "free", Where(x) \in Deleting
               PROVE  pc'[x] # "free" /\ Where(x)' \in Deleting
    OBVIOUS
  <2>1. CASE x = t
    BY <2>1, <1>1, <1>4, <1>5, <1>6 DEF Where, InBlock
  <2>2. CASE x # t
    BY <2>2, <1>6 DEF Where
  <2> QED BY <2>1, <2>2
<1>20. ASSUME zombies' = zombies PROVE CorpsesOK'
  <2>1. \A x, y \in TCB : y \in corpse[x] => y \in Thread /\ Away(y)' /\ frame[y].act = "stop"
    BY <1>15 DEF CorpsesOK
  <2> QED BY <2>1, <1>8, <1>9, <1>19, <1>20 DEF CorpsesOK
<1> QED
  BY <1>8, <1>9, <1>10, <1>11, <1>12, <1>13, <1>14, <1>15, <1>16, <1>17, <1>18, <1>19, <1>20

(* A lambda queues the thread that was left, which has not ended. *)
LEMMA ReadyHandlerInv ==
    ASSUME NEW P, IInv(P), NEW c \in Core, handler[c].act \in {"yield", "down"},
           Schedule(handler[c].prev), Resume(c),
           UNCHANGED <<onCore, activeThreads, tss, no_preempt, frame, corpse, zombies>>
    PROVE IInv(P)'
<1> DEFINE p == handler[c].prev
           q == readyQ'
<1> USE DEF IInv
<1>1. Pending(c)
  BY DEF Pending, NoCall
<1>2. /\ p \in TCB /\ Away(p) /\ frame[p].act \in {"yield", "down"}
      /\ handler[c].prev = p
  BY <1>1 DEF CallsOK, Types, AnyCall
<1>3. p \in Thread
  BY <1>2, IdleFacts DEF FramesOK, Away, Blocked
<1>4. q = Append(readyQ, p) /\ readyQ \in Seq(Thread)
  BY <1>3, IdleFacts, <1>2 DEF Schedule, Types
<1>5. UNCHANGED <<onCore, frame, corpse, zombies>> /\ zombies \in Seq(Thread)
  BY DEF Types
<1> HIDE DEF p
<1>6. /\ q \in Seq(Thread) /\ Len(readyQ) \in Nat
      /\ Len(readyQ) + 1 \in 1 .. Len(q) /\ q[Len(readyQ) + 1] = p
      /\ \A i \in 1 .. Len(readyQ) : i \in 1 .. Len(q) /\ q[i] = readyQ[i]
      /\ \A i \in 1 .. Len(q) : i \in 1 .. Len(readyQ) \/ i = Len(readyQ) + 1
  BY <1>3, <1>4, AppendFacts
<1>7. /\ Types' /\ CoresOK' /\ FramesOK' /\ ActiveOK' /\ InterruptsOK' /\ CallsOK'
      /\ NextOK' /\ CorpsesOK'
      /\ \A x \in TCB : /\ Away(x)' <=> Away(x)
                        /\ pc'[x] \in Chosen <=> pc[x] \in Chosen
      /\ \A d \in Core : /\ Pending(d)' <=> Pending(d) /\ d # c
                         /\ d # c => handler'[d] = handler[d]
  BY <1>1, <1>5, <1>6, ResumeInv
<1> HIDE DEF q
<1>8. \A i \in 1 .. Len(readyQ) : readyQ[i] \in TCB /\ readyQ[i] # p
  BY <1>1, <1>2, <1>4 DEF ReadyOK, TCB
<1>9. ReadyOK'
  <2>1. \A i \in 1 .. Len(q), x \in TCB : q[i] = x => Away(x)' /\ frame[x].act # "stop"
    BY <1>2, <1>6, <1>7, <1>8 DEF ReadyOK
  <2>2. \A i, j \in 1 .. Len(q) : q[i] = q[j] => i = j
    BY <1>6, <1>8 DEF ReadyOK
  <2>3. \A i \in 1 .. Len(q), d \in Core : Pending(d)' => handler'[d].prev # q[i]
    BY <1>1, <1>2, <1>6, <1>7 DEF ReadyOK, CallsOK
  <2>4. \A i \in 1 .. Len(q), x \in TCB : pc'[x] \in Chosen => frame[x].next # q[i]
    BY <1>1, <1>2, <1>6, <1>7 DEF ReadyOK, NextOK
  <2>5. \A i \in 1 .. Len(q) : q[i] \in TCB
    BY <1>6 DEF TCB
  <2> QED BY <2>1, <2>2, <2>3, <2>4, <2>5, <1>5 DEF ReadyOK, q
<1>10. ZombiesOK'
  BY <1>5, <1>7 DEF ZombiesOK, TCB
<1>11. NoneLost(P)'
  <2> SUFFICES ASSUME NEW x \in Thread, Away(x)
               PROVE \/ \E i \in 1 .. Len(q) : q[i] = x
                     \/ \E i \in 1 .. Len(zombies) : zombies[i] = x
                     \/ \E u \in TCB : pc'[u] \in Chosen /\ frame[u].next = x
                     \/ \E d \in Core : Pending(d)' /\ handler'[d].prev = x
                     \/ \E u \in TCB : x \in corpse[u]
                     \/ x \in P
    BY <1>5, <1>7 DEF NoneLost, TCB, q
  <2>1. CASE \E i \in 1 .. Len(readyQ) : readyQ[i] = x
    BY <2>1, <1>6
  <2>2. CASE \E u \in TCB : pc[u] \in Chosen /\ frame[u].next = x
    BY <2>2, <1>7
  <2>3. CASE \E d \in Core : Pending(d) /\ handler[d].prev = x
    BY <2>3, <1>2, <1>6, <1>7
  <2> QED BY <2>1, <2>2, <2>3 DEF NoneLost
<1>40. ParkedOK(P)'
  BY <1>1, <1>2, <1>5, <1>6, <1>7 DEF ParkedOK, TCB, q
<1> QED
  BY <1>40, <1>7, <1>9, <1>10, <1>11

(* ... as the lambda of yield() does. *)
LEMMA YieldHandlerInv == ASSUME NEW P, IInv(P), NEW c \in Core, YieldHandler(c) PROVE IInv(P)'
  BY ReadyHandlerInv DEF YieldHandler

(* The lambda of stop() makes the thread that was left a zombie. *)
LEMMA StopHandlerInv == ASSUME NEW P, IInv(P), NEW c \in Core, StopHandler(c) PROVE IInv(P)'
<1> DEFINE p == handler[c].prev
           z == zombies'
<1> USE DEF IInv
<1>1. Pending(c)
  BY DEF StopHandler, Pending, NoCall
<1>2. /\ p \in TCB /\ Away(p) /\ frame[p].act = "stop"
      /\ handler[c].prev = p
  BY <1>1 DEF CallsOK, Types, AnyCall, StopHandler
<1>3. z = (IF p \in Idle THEN zombies ELSE Append(zombies, p)) /\ zombies \in Seq(Thread)
  BY DEF StopHandler, Bury, Types
<1>4. UNCHANGED <<onCore, frame, corpse, readyQ>> /\ readyQ \in Seq(Thread)
  BY DEF StopHandler, Types
<1> HIDE DEF p
<1>5. /\ z \in Seq(Thread) /\ Len(zombies) \in Nat
      /\ \A i \in 1 .. Len(zombies) : i \in 1 .. Len(z) /\ z[i] = zombies[i]
      /\ \A i \in 1 .. Len(z) : i \in 1 .. Len(zombies) \/ (i = Len(zombies) + 1 /\ z[i] = p)
      /\ p \in Thread => \E i \in 1 .. Len(z) : z[i] = p
  <2>1. CASE p \in Idle
    BY <2>1, <1>2, <1>3, IdleFacts
  <2>2. CASE p \in Thread
    BY <2>2, <1>2, <1>3, IdleFacts, AppendFacts
  <2> QED BY <2>1, <2>2, <1>2 DEF TCB
<1>6. /\ Types' /\ CoresOK' /\ FramesOK' /\ ActiveOK' /\ InterruptsOK' /\ CallsOK'
      /\ NextOK'
      /\ \A x \in TCB : /\ Away(x)' <=> Away(x)
                        /\ pc'[x] \in Chosen <=> pc[x] \in Chosen
                        /\ pc[x] # "free" /\ Where(x) \in Deleting
                                 => pc'[x] # "free" /\ Where(x)' \in Deleting
      /\ \A d \in Core : /\ Pending(d)' <=> Pending(d) /\ d # c
                         /\ d # c => handler'[d] = handler[d]
  BY <1>1, <1>4, <1>5, ResumeInv DEF StopHandler
<1> HIDE DEF z
<1>7. /\ \A i \in 1 .. Len(zombies) : zombies[i] \in TCB /\ zombies[i] # p
      /\ \A i \in 1 .. Len(z) : z[i] \in TCB
  BY <1>1, <1>2, <1>3, <1>5 DEF ZombiesOK, TCB
<1>8. ZombiesOK'
  <2>1. \A i \in 1 .. Len(z), x \in TCB : z[i] = x => Away(x)' /\ frame[x].act = "stop"
    BY <1>2, <1>5, <1>6, <1>7 DEF ZombiesOK
  <2>2. \A i, j \in 1 .. Len(z) : z[i] = z[j] => i = j
    BY <1>5, <1>7 DEF ZombiesOK
  <2>3. \A i \in 1 .. Len(z), d \in Core : Pending(d)' => handler'[d].prev # z[i]
    BY <1>1, <1>2, <1>5, <1>6 DEF ZombiesOK, CallsOK
  <2> QED BY <2>1, <2>2, <2>3, <1>4, <1>7 DEF ZombiesOK, z
<1>9. ReadyOK'
  BY <1>4, <1>6 DEF ReadyOK, TCB
<1>10. CorpsesOK'
  <2>1. \A x, y \in TCB : y \in corpse[x] => y \in Thread /\ Away(y)' /\ frame[y].act = "stop"
    BY <1>6 DEF CorpsesOK
  <2>2. \A x \in TCB, i \in 1 .. Len(z) : z[i] \notin corpse[x]
    BY <1>1, <1>2, <1>5 DEF CorpsesOK
  <2>3. \A x \in TCB, d \in Core : Pending(d)' => handler'[d].prev \notin corpse[x]
    BY <1>6 DEF CorpsesOK
  <2>4. \A x \in TCB : corpse[x] # {} => pc'[x] # "free" /\ Where(x)' \in Deleting
    BY <1>6 DEF CorpsesOK
  <2>5. \A x, y \in TCB, u \in TCB : u \in corpse[x] /\ u \in corpse[y] => x = y
    BY DEF CorpsesOK
  <2> QED BY <2>1, <2>2, <2>3, <2>4, <2>5, <1>4 DEF CorpsesOK, z
<1>11. NoneLost(P)'
  <2> SUFFICES ASSUME NEW x \in Thread, Away(x)
               PROVE \/ \E i \in 1 .. Len(readyQ) : readyQ[i] = x
                     \/ \E i \in 1 .. Len(z) : z[i] = x
                     \/ \E u \in TCB : pc'[u] \in Chosen /\ frame[u].next = x
                     \/ \E d \in Core : Pending(d)' /\ handler'[d].prev = x
                     \/ \E u \in TCB : x \in corpse[u]
                     \/ x \in P
    BY <1>4, <1>6 DEF NoneLost, TCB, z
  <2>1. CASE \E i \in 1 .. Len(zombies) : zombies[i] = x
    BY <2>1, <1>5
  <2>2. CASE \E u \in TCB : pc[u] \in Chosen /\ frame[u].next = x
    BY <2>2, <1>6
  <2>3. CASE \E d \in Core : Pending(d) /\ handler[d].prev = x
    BY <2>3, <1>2, <1>5, <1>6
  <2> QED BY <2>1, <2>2, <2>3 DEF NoneLost
<1>40. ParkedOK(P)'
  BY <1>4, <1>6 DEF ParkedOK, TCB
<1> QED
  BY <1>40, <1>6, <1>8, <1>9, <1>10, <1>11

(* delete_zombies() takes the first zombie. *)
LEMMA RemoveZombieInv == ASSUME NEW P, IInv(P), NEW c \in Core, RemoveZombie(c) PROVE IInv(P)'
<1> DEFINE t == Me(c)
           x == Head(zombies)
           z == zombies'
<1> USE DEF IInv
<1>1. /\ x \in Thread /\ x \in TCB /\ x = zombies[1] /\ 1 \in 1 .. Len(zombies)
      /\ z \in Seq(Thread) /\ Len(z) = Len(zombies) - 1 /\ Len(zombies) \in Nat
      /\ \A i \in 1 .. Len(z) : /\ i + 1 \in 1 .. Len(zombies)
                                /\ z[i] = zombies[i + 1] /\ z[i] \in TCB
  BY DEF Types, RemoveZombie, TCB
<1>2. t \in TCB /\ t = onCore[c] /\ pc[t] = "reap" /\ ~Pending(c)
  BY DEF RemoveZombie, At, Me, Types, Pending
<1>3. /\ pc' = [pc EXCEPT ![t] = "delete"]
      /\ corpse' = [corpse EXCEPT ![t] = {x}]
      /\ UNCHANGED <<onCore, activeThreads, tss, interrupts, no_preempt, frame, handler, readyQ>>
  BY DEF RemoveZombie, Goto, cpu
<1> HIDE DEF t, x, z
<1>4. /\ pc'[t] = "delete" /\ \A y \in TCB : y # t => pc'[y] = pc[y]
      /\ corpse'[t] = {x} /\ \A y \in TCB : y # t => corpse'[y] = corpse[y]
  BY <1>2, <1>3 DEF Types
<1>5. Types'
  BY <1>1, <1>2, <1>3 DEF Types, Labels, z
<1>6. \A d \in Core : onCore[d] \in TCB /\ (d # c => onCore[d] # t)
  BY <1>2 DEF CoresOK, Types
<1>7. CoresOK' /\ InterruptsOK'
  BY <1>2, <1>3, <1>4, <1>6 DEF CoresOK, InterruptsOK, Pending, Running, Labels
<1>8. FramesOK' /\ ActiveOK'
  BY <1>2, <1>3, <1>4, <1>6 DEF FramesOK, ActiveOK, Blocked, InBlock
<1>9. \A y \in TCB : /\ Away(y)' <=> Away(y)
                     /\ pc'[y] \in Chosen <=> pc[y] \in Chosen
  BY <1>2, <1>3, <1>4 DEF Away, OffCore, Chosen
<1>10. CallsOK' /\ NextOK'
  BY <1>3, <1>9 DEF CallsOK, NextOK, Pending, Types, AnyCall, AnyFrame
<1>11. ReadyOK'
  <2>1. \A i \in 1 .. Len(readyQ) : readyQ[i] \in TCB
    BY DEF Types, TCB
  <2> QED BY <2>1, <1>3, <1>9 DEF ReadyOK, Pending
<1>12. \A i, j \in 1 .. Len(z) : z[i] # x /\ (z[i] = z[j] => i = j)
  <2>1. \A i, j \in 1 .. Len(zombies) : zombies[i] = zombies[j] => i = j
    BY DEF ZombiesOK
  <2>2. \A i \in 1 .. Len(z) : i + 1 # 1 /\ i + 1 \in 1 .. Len(zombies) /\ z[i] = zombies[i + 1]
    BY <1>1
  <2>3. \A i \in 1 .. Len(z) : z[i] # x
    BY <2>1, <2>2, <1>1
  <2>4. \A i, j \in 1 .. Len(z) : z[i] = z[j] => i + 1 = j + 1
    BY <2>1, <2>2
  <2> QED BY <2>3, <2>4
<1>13. ZombiesOK'
  <2>1. \A i \in 1 .. Len(z), y \in TCB : z[i] = y => Away(y)' /\ frame[y].act = "stop"
    <3>1. \A i \in 1 .. Len(zombies) : Away(zombies[i]) /\ frame[zombies[i]].act = "stop"
      BY DEF ZombiesOK
    <3>2. \A i \in 1 .. Len(z) : Away(z[i]) /\ frame[z[i]].act = "stop"
      BY <3>1, <1>1
    <3> QED BY <3>2, <1>9
  <2>2. \A i \in 1 .. Len(z), d \in Core : Pending(d) => handler[d].prev # z[i]
    BY <1>1 DEF ZombiesOK
  <2> QED BY <2>1, <2>2, <1>1, <1>3, <1>12 DEF ZombiesOK, Pending, z
<1>14. corpse[t] = {} /\ \A y \in TCB : x \notin corpse[y]
  BY <1>1, <1>2 DEF CorpsesOK, Where, InBlock, Types, Deleting
<1>15. CorpsesOK'
  <2>1. \A u, y \in TCB : y \in corpse'[u] => y \in Thread /\ Away(y)' /\ frame[y].act = "stop"
    BY <1>1, <1>4, <1>9 DEF CorpsesOK, ZombiesOK
  <2>2. \A u, w \in TCB, y \in TCB : y \in corpse'[u] /\ y \in corpse'[w] => u = w
    BY <1>4, <1>14 DEF CorpsesOK
  <2>3. \A u \in TCB : corpse'[u] # {} => pc'[u] # "free" /\ Where(u)' \in Deleting
    BY <1>2, <1>3, <1>4 DEF CorpsesOK, Where, InBlock, Deleting
  <2>4. \A u \in TCB, d \in Core : Pending(d) => handler[d].prev \notin corpse'[u]
    BY <1>1, <1>4 DEF CorpsesOK, ZombiesOK
  <2>5. \A u \in TCB, i \in 1 .. Len(z) : z[i] \notin corpse'[u]
    BY <1>1, <1>4, <1>12 DEF CorpsesOK
  <2> QED BY <2>1, <2>2, <2>3, <2>4, <2>5, <1>3 DEF CorpsesOK, Pending, z
<1>16. NoneLost(P)'
  <2> SUFFICES ASSUME NEW y \in Thread, Away(y)
               PROVE \/ \E i \in 1 .. Len(readyQ) : readyQ[i] = y
                     \/ \E i \in 1 .. Len(z) : z[i] = y
                     \/ \E u \in TCB : pc'[u] \in Chosen /\ frame[u].next = y
                     \/ \E d \in Core : Pending(d) /\ handler[d].prev = y
                     \/ \E u \in TCB : y \in corpse'[u]
                     \/ y \in P
    BY <1>3, <1>9 DEF NoneLost, Pending, TCB, z
  <2>1. CASE \E i \in 1 .. Len(zombies) : zombies[i] = y
    <3>1. PICK i \in 1 .. Len(zombies) : zombies[i] = y
      BY <2>1
    <3>2. CASE i = 1
      BY <3>1, <3>2, <1>1, <1>2, <1>4
    <3>3. CASE i # 1
      <4>1. i - 1 \in 1 .. Len(z) /\ z[i - 1] = y
        BY <3>1, <3>3, <1>1
      <4> QED BY <4>1
    <3> QED BY <3>2, <3>3
  <2>2. CASE \E u \in TCB : pc[u] \in Chosen /\ frame[u].next = y
    BY <2>2, <1>9
  <2>3. CASE \E u \in TCB : y \in corpse[u]
    BY <2>3, <1>4, <1>14
  <2> QED BY <2>1, <2>2, <2>3 DEF NoneLost
<1>40. ParkedOK(P)'
  BY <1>3, <1>9 DEF ParkedOK, Pending, TCB
<1> QED
  BY <1>40, <1>5, <1>7, <1>8, <1>10, <1>11, <1>13, <1>15, <1>16

(* It deletes it: nothing else points to it. *)
LEMMA DeleteZombieInv ==
    ASSUME NEW P, IInv(P), NEW c \in Core, NEW l \in {"delete", "freed"}, DeleteZombieAt(c, l)
    PROVE IInv(P)'
<1> DEFINE t == Me(c)
           D == corpse[t]
<1> USE DEF IInv
<1>1. t \in TCB /\ t = onCore[c] /\ pc[t] = l /\ ~Pending(c)
  BY DEF DeleteZombieAt, At, Me, Types, Pending
<1>2. /\ pc' = [x \in TCB |-> IF x = t THEN "reap" ELSE IF x \in D THEN "free" ELSE pc[x]]
      /\ corpse' = [corpse EXCEPT ![t] = {}]
      /\ UNCHANGED <<onCore, activeThreads, tss, interrupts, no_preempt, frame, handler, readyQ, zombies>>
  BY DEF DeleteZombieAt, cpu, queues
<1>3. /\ D \subseteq TCB /\ t \notin D
      /\ \A x \in D : /\ x \in Thread /\ x \notin Idle /\ Away(x) /\ frame[x].act = "stop" /\ frame[x].ret = "stop"
                      /\ corpse[x] = {}
  <2>1. D \subseteq TCB
    BY <1>1 DEF Types
  <2>2. \A x \in D : x \in Thread /\ Away(x) /\ frame[x].act = "stop"
    BY <1>1, <2>1 DEF CorpsesOK
  <2>3. \A x \in D : frame[x].ret = "stop" /\ x \notin Idle
    BY <2>1, <2>2, IdleFacts DEF FramesOK, Away, Blocked
  <2>4. \A x \in D : corpse[x] = {}
    BY <2>1, <2>2, <2>3 DEF CorpsesOK, Away, Where, Deleting
  <2>5. t \notin D
    BY <2>2, <1>1 DEF Away
  <2> QED BY <2>1, <2>2, <2>3, <2>4, <2>5
<1> HIDE DEF t
<1>4. /\ pc'[t] = "reap" /\ corpse'[t] = {}
      /\ \A x \in TCB : x # t => corpse'[x] = corpse[x]
      /\ \A x \in D : pc'[x] = "free"
      /\ \A x \in TCB \ D : x # t => pc'[x] = pc[x]
  BY <1>1, <1>2, <1>3 DEF Types
<1>5. Types'
  BY <1>1, <1>2, <1>3 DEF Types, Labels
<1>6. \A d \in Core : onCore[d] \in TCB /\ (d # c => onCore[d] # t)
                      /\ (Pending(d) \/ onCore[d] \notin D)
  BY <1>1, <1>3 DEF CoresOK, Types, Away, OffCore
<1>7. \A d \in Core : onCore[d] \notin D
  BY <1>3, <1>6 DEF Away, OffCore
<1> HIDE DEF D
<1>8. CoresOK'
  <2>1. \A d \in Core : d # c => pc'[onCore[d]] = pc[onCore[d]]
    BY <1>4, <1>6, <1>7
  <2>2. \A d \in Core : IF Pending(d) THEN pc'[onCore[d]] = "away" ELSE pc'[onCore[d]] \in Running
    BY <2>1, <1>1, <1>4 DEF CoresOK, Running, Labels
  <2>3. \A x \in TCB : pc'[x] \in Running => \E d \in Core : onCore[d] = x
    BY <1>1, <1>4 DEF CoresOK, Running, Labels, InBlock
  <2>4. \A x \in Idle : pc'[x] \notin {"free", "yield"}
    BY <1>3, <1>4 DEF CoresOK, TCB
  <2> QED BY <2>2, <2>3, <2>4, <1>2 DEF CoresOK, Pending
<1>9. InterruptsOK'
  BY <1>1, <1>2, <1>4, <1>6, <1>7 DEF InterruptsOK, Pending, Labels
<1>10. FramesOK' /\ ActiveOK'
  BY <1>1, <1>2, <1>4, <1>6, <1>7 DEF FramesOK, ActiveOK, Blocked, InBlock
<1>11. \A x \in TCB : /\ Away(x)' <=> Away(x) /\ x \notin D
                      /\ pc'[x] \in Chosen <=> pc[x] \in Chosen
  <2>1. \A x \in D : pc[x] = "away"
    BY <1>3 DEF Away
  <2> QED BY <2>1, <1>1, <1>2, <1>4 DEF Away, OffCore, Chosen
<1>12. CallsOK'
  <2>1. \A d \in Core : Pending(d) => handler[d].prev \in TCB /\ handler[d].prev \notin D
    BY <1>1 DEF CorpsesOK, Types, AnyCall, D
  <2> QED BY <2>1, <1>2, <1>11 DEF CallsOK, Pending
<1>13. NextOK'
  <2>1. \A x \in TCB : frame[x].next \in TCB
    BY DEF Types, AnyFrame
  <2>2. \A x \in TCB : pc[x] \in Chosen => frame[x].next \notin D
    BY <1>3, <2>1 DEF NextOK
  <2> QED BY <2>1, <2>2, <1>2, <1>11 DEF NextOK, Pending
<1>14. ReadyOK'
  <2>1. \A i \in 1 .. Len(readyQ) : readyQ[i] \in TCB /\ readyQ[i] \notin D
    BY <1>3 DEF ReadyOK, Types, TCB
  <2> QED BY <2>1, <1>2, <1>11 DEF ReadyOK, Pending
<1>15. ZombiesOK'
  <2>1. \A i \in 1 .. Len(zombies) : zombies[i] \in TCB /\ zombies[i] \notin D
    BY <1>1 DEF CorpsesOK, Types, TCB, D
  <2> QED BY <2>1, <1>2, <1>11 DEF ZombiesOK, Pending
<1>16. CorpsesOK'
  <2>1. \A u, y \in TCB : y \in corpse'[u] => y \in corpse[u] /\ u # t /\ y \notin D
    BY <1>1, <1>4 DEF CorpsesOK, D
  <2>2. \A u, y \in TCB : y \in corpse'[u] => y \in Thread /\ Away(y)' /\ frame[y].act = "stop"
    BY <2>1, <1>11 DEF CorpsesOK
  <2>3. \A u \in TCB : corpse'[u] # {} => pc'[u] # "free" /\ Where(u)' \in Deleting
    <3> SUFFICES ASSUME NEW u \in TCB, corpse'[u] # {}
                 PROVE  pc'[u] # "free" /\ Where(u)' \in Deleting
      OBVIOUS
    <3>1. u # t /\ corpse[u] # {} /\ u \notin D
      BY <1>3, <1>4
    <3>2. pc'[u] = pc[u]
      BY <3>1, <1>4
    <3> QED BY <3>1, <3>2, <1>2 DEF CorpsesOK, Where
  <2> QED BY <2>1, <2>2, <2>3, <1>2, <1>4 DEF CorpsesOK, Pending
<1>17. NoneLost(P)'
  <2> SUFFICES ASSUME NEW y \in Thread, Away(y), y \notin D
               PROVE \/ \E i \in 1 .. Len(readyQ) : readyQ[i] = y
                     \/ \E i \in 1 .. Len(zombies) : zombies[i] = y
                     \/ \E u \in TCB : pc'[u] \in Chosen /\ frame[u].next = y
                     \/ \E d \in Core : Pending(d) /\ handler[d].prev = y
                     \/ \E u \in TCB : y \in corpse'[u]
                     \/ y \in P
    BY <1>2, <1>11 DEF NoneLost, Pending, TCB
  <2>1. CASE \E u \in TCB : pc[u] \in Chosen /\ frame[u].next = y
    BY <2>1, <1>11
  <2>2. CASE \E u \in TCB : y \in corpse[u]
    BY <2>2, <1>4 DEF D
  <2> QED BY <2>1, <2>2 DEF NoneLost
<1>40. ParkedOK(P)'
  BY <1>1, <1>2, <1>3, <1>11 DEF ParkedOK, Pending, TCB
<1> QED
  BY <1>40, <1>5, <1>8, <1>9, <1>10, <1>12, <1>13, <1>14, <1>15, <1>16, <1>17

(* thread() queues a new TCB: no place had it. *)
LEMMA SpawnInv ==
    ASSUME NEW P, IInv(P), NEW c \in Core, NEW k \in {"spawn", "new"}, SpawnAt(c, k)
    PROVE IInv(P)'
<1> DEFINE t == Me(c)
           l == IF t \in Idle THEN "stop" ELSE "work"
           q == readyQ'
<1> USE DEF IInv
<1>1. t \in TCB /\ t = onCore[c] /\ pc[t] = k /\ ~Pending(c)
  BY DEF SpawnAt, At, Me, Types, Pending
<1>2. PICK x \in Thread :
        /\ pc[x] = "free"
        /\ pc' = [pc EXCEPT ![x] = "away", ![t] = l]
        /\ frame' = [frame EXCEPT ![x] = FirstFrame(x, "work")]
        /\ no_preempt' = [no_preempt EXCEPT ![x] = FALSE]
        /\ Schedule(x)
  BY DEF SpawnAt
<1>3. UNCHANGED <<onCore, activeThreads, tss, interrupts, corpse, handler, zombies>>
  BY DEF SpawnAt, cpu
<1>4. l \in {"stop", "work"} /\ (t \in Idle => l = "stop")
  OBVIOUS
<1> HIDE DEF t, l
<1>5. x \in TCB /\ x \notin Idle /\ x # t
  BY <1>1, <1>2, IdleFacts DEF TCB
<1>6. q = Append(readyQ, x) /\ readyQ \in Seq(Thread) /\ zombies \in Seq(Thread)
  BY <1>2, <1>5 DEF Schedule, Types
<1> DEFINE fr == FirstFrame(x, "work")
<1>7. fr \in AnyFrame /\ fr.iff /\ fr.act = "yield" /\ fr.opt = "CanReturn" /\ fr.ret = "work"
  BY <1>5, FirstFrameType DEF FirstFrame, NewFrame, Labels
<1>8. frame' = [frame EXCEPT ![x] = fr]
  BY <1>2
<1> HIDE DEF fr, q
<1>9. /\ q \in Seq(Thread) /\ Len(readyQ) \in Nat
      /\ Len(readyQ) + 1 \in 1 .. Len(q) /\ q[Len(readyQ) + 1] = x
      /\ \A i \in 1 .. Len(readyQ) : i \in 1 .. Len(q) /\ q[i] = readyQ[i]
      /\ \A i \in 1 .. Len(q) : i \in 1 .. Len(readyQ) \/ i = Len(readyQ) + 1
      /\ \A i \in 1 .. Len(q) : q[i] \in TCB
  BY <1>5, <1>6, AppendFacts DEF TCB
<1>10. /\ pc'[x] = "away" /\ pc'[t] = l /\ frame'[x] = fr
       /\ \A y \in TCB : /\ y # x /\ y # t => pc'[y] = pc[y]
                         /\ y # x => frame'[y] = frame[y] /\ no_preempt'[y] = no_preempt[y]
  BY <1>1, <1>2, <1>5, <1>8, ZenonT(60) DEF Types
<1>11. Types'
  <2>1. readyQ' \in Seq(Thread)
    BY <1>9 DEF q
  <2>2. l \in Labels
    BY <1>4 DEF Labels
  <2>3. pc' \in [TCB -> Labels \cup InBlock \cup {"away", "free"}]
    BY <2>2, <1>2 DEF Types
  <2>4. frame' \in [TCB -> AnyFrame]
    BY <1>7, <1>8 DEF Types
  <2>5. no_preempt' \in [TCB -> BOOLEAN]
    BY <1>2 DEF Types
  <2> QED BY <2>1, <2>3, <2>4, <2>5, <1>3 DEF Types
<1>12. \A d \in Core : onCore[d] \in TCB /\ onCore[d] # x /\ (d # c => onCore[d] # t)
  BY <1>1, <1>2 DEF CoresOK, Types, Running, Labels, InBlock
<1>13. Away(x)' /\ ~Away(x)
  BY <1>2, <1>3, <1>10, <1>12 DEF Away, OffCore
<1>14. \A y \in TCB : y # x => (Away(y)' <=> Away(y))
  BY <1>1, <1>3, <1>4, <1>10 DEF Away, OffCore
<1>15. \A y \in TCB : /\ pc'[y] \in Chosen <=> pc[y] \in Chosen
                      /\ pc[y] \in Chosen => y # x
  BY <1>1, <1>2, <1>4, <1>10 DEF Chosen
<1>16. CoresOK'
  <2>1. \A d \in Core : d # c => pc'[onCore[d]] = pc[onCore[d]]
    BY <1>10, <1>12
  <2>2. \A d \in Core : IF Pending(d) THEN pc'[onCore[d]] = "away" ELSE pc'[onCore[d]] \in Running
    BY <2>1, <1>1, <1>4, <1>10 DEF CoresOK, Running, Labels
  <2>3. \A y \in TCB : pc'[y] \in Running => \E d \in Core : onCore[d] = y
    BY <1>1, <1>10 DEF CoresOK, Running, Labels, InBlock
  <2>4. \A y \in Idle : pc'[y] \notin {"free", "yield"}
    BY <1>4, <1>5, <1>10 DEF CoresOK, TCB
  <2> QED BY <2>2, <2>3, <2>4, <1>3 DEF CoresOK, Pending
<1>17. FramesOK'
  <2>1. \A d \in Core : pc'[onCore[d]] \in InBlock =>
          frame'[onCore[d]].core_id = d /\ frame'[onCore[d]].me = onCore[d]
    BY <1>1, <1>4, <1>10, <1>12 DEF FramesOK, InBlock
  <2>2. \A y \in TCB : pc'[y] \in Blocked =>
          /\ frame'[y].iff
          /\ frame'[y].act = "stop" => frame'[y].ret = "stop"
          /\ frame'[y].act = "yield" <=> frame'[y].opt = "CanReturn"
          /\ y \in Idle => frame'[y].act = "stop"
    <3> SUFFICES ASSUME NEW y \in TCB, pc'[y] \in Blocked
                 PROVE  /\ frame'[y].iff
                        /\ frame'[y].act = "stop" => frame'[y].ret = "stop"
                        /\ frame'[y].act = "yield" <=> frame'[y].opt = "CanReturn"
                        /\ y \in Idle => frame'[y].act = "stop"
      OBVIOUS
    <3>1. CASE y = x
      BY <3>1, <1>5, <1>7, <1>10
    <3>2. CASE y # x
      BY <3>2, <1>1, <1>4, <1>10 DEF FramesOK, Blocked, InBlock
    <3> QED BY <3>1, <3>2
  <2> QED BY <2>1, <2>2, <1>3 DEF FramesOK
<1>18. ActiveOK'
  <2>1. \A y \in TCB : pc[y] \in Chosen => frame[y].next # x /\ frame[y].next \in TCB
    BY <1>2 DEF NextOK, Away, Types, AnyFrame
  <2>2. \A d \in Core : pc'[onCore[d]] \in {"activate", "switch"} => no_preempt'[frame'[onCore[d]].next]
    BY <2>1, <1>1, <1>4, <1>10, <1>12 DEF ActiveOK, Chosen
  <2>3. \A d \in Core : pc'[onCore[d]] \in InBlock => no_preempt'[onCore[d]]
    BY <1>1, <1>4, <1>10, <1>12 DEF ActiveOK, InBlock
  <2>4. \A d \in Core :
          LET y == IF pc'[onCore[d]] = "switch" THEN frame'[onCore[d]].next ELSE onCore[d]
          IN  activeThreads[d] = y /\ tss[d] = y
    BY <1>1, <1>4, <1>10, <1>12 DEF ActiveOK
  <2> QED BY <2>2, <2>3, <2>4, <1>3 DEF ActiveOK
<1>19. InterruptsOK'
  BY <1>1, <1>3, <1>4, <1>10, <1>12 DEF InterruptsOK, Pending, Labels
<1>20. \A d \in Core : Pending(d) => handler[d].prev \in TCB /\ handler[d].prev # x
  BY <1>13 DEF CallsOK, Types, AnyCall
<1>21. CallsOK'
  <2>1. \A d \in Core : Pending(d) => frame'[handler[d].prev] = frame[handler[d].prev]
    BY <1>10, <1>20
  <2> QED BY <2>1, <1>3, <1>14, <1>20 DEF CallsOK, Pending
<1>22. NextOK'
  <2>1. \A y \in TCB : pc[y] \in Chosen => frame[y].next # x /\ frame[y].next \in TCB
    BY <1>13 DEF NextOK, Types, AnyFrame
  <2>2. \A y \in TCB : pc[y] \in Chosen => frame'[y] = frame[y] /\ frame'[frame[y].next] = frame[frame[y].next]
    BY <2>1, <1>10, <1>15
  <2> QED BY <2>1, <2>2, <1>3, <1>14, <1>15 DEF NextOK, Pending
<1>23. \A i \in 1 .. Len(readyQ) : readyQ[i] \in TCB /\ readyQ[i] # x
  BY <1>6, <1>13 DEF ReadyOK, TCB
<1>24. ReadyOK'
  <2>1. \A i \in 1 .. Len(q), y \in TCB : q[i] = y => Away(y)' /\ frame'[y].act # "stop"
    <3>1. \A i \in 1 .. Len(readyQ) : Away(readyQ[i]) /\ frame[readyQ[i]].act # "stop"
      BY DEF ReadyOK
    <3>2. \A i \in 1 .. Len(readyQ), y \in TCB : readyQ[i] = y => Away(y)' /\ frame'[y].act # "stop"
      BY <3>1, <1>10, <1>14, <1>23
    <3> QED BY <3>2, <1>7, <1>9, <1>10, <1>13
  <2>2. \A i, j \in 1 .. Len(q) : q[i] = q[j] => i = j
    BY <1>9, <1>23 DEF ReadyOK
  <2>3. \A i \in 1 .. Len(q), d \in Core : Pending(d) => handler[d].prev # q[i]
    BY <1>9, <1>20 DEF ReadyOK
  <2>4. \A i \in 1 .. Len(q), y \in TCB : pc'[y] \in Chosen => frame'[y].next # q[i]
    BY <1>9, <1>10, <1>13, <1>15 DEF ReadyOK, NextOK
  <2> QED BY <2>1, <2>2, <2>3, <2>4, <1>3, <1>9 DEF ReadyOK, Pending, q
<1>25. ZombiesOK'
  <2>1. \A i \in 1 .. Len(zombies) : zombies[i] \in TCB /\ zombies[i] # x
    BY <1>6, <1>13 DEF ZombiesOK, TCB
  <2> QED BY <2>1, <1>3, <1>10, <1>14 DEF ZombiesOK, Pending
<1>26. CorpsesOK'
  <2>1. corpse[x] = {} /\ corpse[t] = {} /\ \A y \in TCB : x \notin corpse[y]
    BY <1>1, <1>2, <1>5, <1>13 DEF CorpsesOK, Where, InBlock, Deleting
  <2>2. \A u \in TCB : corpse[u] # {} => pc'[u] # "free" /\ Where(u)' \in Deleting
    BY <2>1, <1>10 DEF CorpsesOK, Where
  <2>3. \A u, y \in TCB : y \in corpse[u] => y \in Thread /\ Away(y)' /\ frame'[y].act = "stop"
    BY <2>1, <1>10, <1>14 DEF CorpsesOK
  <2> QED BY <2>2, <2>3, <1>3 DEF CorpsesOK, Pending
<1>27. NoneLost(P)'
  <2> SUFFICES ASSUME NEW y \in Thread, Away(y)'
               PROVE \/ \E i \in 1 .. Len(q) : q[i] = y
                     \/ \E i \in 1 .. Len(zombies) : zombies[i] = y
                     \/ \E u \in TCB : pc'[u] \in Chosen /\ frame'[u].next = y
                     \/ \E d \in Core : Pending(d) /\ handler[d].prev = y
                     \/ \E u \in TCB : y \in corpse[u]
                     \/ y \in P
    BY <1>3 DEF NoneLost, Pending, q
  <2>1. CASE y = x
    BY <2>1, <1>9
  <2>2. CASE y # x
    <3>1. Away(y)
      BY <2>2, <1>14 DEF TCB
    <3>2. CASE \E i \in 1 .. Len(readyQ) : readyQ[i] = y
      BY <3>2, <1>9
    <3>3. CASE \E u \in TCB : pc[u] \in Chosen /\ frame[u].next = y
      BY <3>3, <1>10, <1>15
    <3> QED BY <3>1, <3>2, <3>3 DEF NoneLost
  <2> QED BY <2>1, <2>2
<1>40. ParkedOK(P)'
  <2>1. \A y \in P : y \in TCB /\ y # x /\ Away(y)' /\ frame'[y] = frame[y]
    BY <1>10, <1>13, <1>14 DEF ParkedOK, TCB
  <2>2. \A i \in 1 .. Len(q) : q[i] \notin P
    BY <2>1, <1>9 DEF ParkedOK
  <2>3. \A y \in TCB : pc'[y] \in Chosen => frame'[y] = frame[y]
    BY <1>10, <1>15
  <2> QED BY <2>1, <2>2, <2>3, <1>3, <1>15 DEF ParkedOK, Pending, q
<1> QED
  BY <1>40, <1>11, <1>16, <1>17, <1>18, <1>19, <1>21, <1>22, <1>24, <1>25, <1>26, <1>27

(* The steps of a thread's own code that only move its pc. *)
LEMMA WorkInv ==
    ASSUME NEW P, IInv(P), NEW c \in Core,
           NoZombie(c) \/ Boot(c) \/ CallThread(c) \/ Finish(c)
    PROVE IInv(P)'
<1> USE DEF IInv
<1>1. Me(c) \in TCB /\ (Me(c) \in Idle => Me(c) # Reaper)
  BY IdleFacts DEF Types, Me
<1>2. CASE NoZombie(c)
  BY <1>1, <1>2, GotoInv DEF NoZombie, At, Labels, Deleting
<1>3. CASE Boot(c)
  <2>1. ASSUME NEW l \in {"reap", "stop"}, Goto(Me(c), l) PROVE IInv(P)'
    BY <2>1, <1>3, GotoInv DEF Boot, At, Labels, Deleting
  <2> QED BY <2>1, <1>3 DEF Boot
<1>4. CASE CallThread(c)
  BY <1>4, GotoInv DEF CallThread, At, Labels, Deleting
<1>5. CASE Finish(c)
  BY <1>5, GotoInv DEF Finish, At, Labels, Deleting
<1> QED
  BY <1>2, <1>3, <1>4, <1>5

-----------------------------------------------------------------------------
(* threadsInit establishes the invariant. *)
LEMMA InitInv == Init => IInv({})
<1> SUFFICES ASSUME Init PROVE IInv({})
  OBVIOUS
<1>1. /\ \A t \in TCB : FirstFrame(t, "reap") \in AnyFrame
      /\ \A t \in TCB : FirstFrame(t, "reap").act = "yield"
      /\ \A t \in TCB : FirstFrame(t, "reap").opt = "CanReturn"
      /\ \A t \in TCB : FirstFrame(t, "reap").iff
  BY FirstFrameType DEF FirstFrame, NewFrame, Labels
<1>2. \A t \in TCB : /\ pc[t] \in {"away", "boot", "free"}
                     /\ pc[t] = "away" <=> t = Reaper
                     /\ pc[t] = "boot" <=> t \in Idle
  BY IdleFacts DEF Init
<1>3. \A c \in Core : /\ onCore[c] \in Idle /\ onCore[c] = idleThreads[c]
                      /\ onCore[c] \in TCB /\ onCore[c] # Reaper
                      /\ pc[onCore[c]] = "boot" /\ ~Pending(c)
  BY <1>2, IdleFacts DEF Init, Pending, TCB
<1>4. /\ readyQ \in Seq(Thread) /\ Len(readyQ) = 1 /\ readyQ[1] = Reaper
      /\ zombies \in Seq(Thread) /\ Len(zombies) = 0
  BY ThreadAssumption DEF Init
<1> USE DEF Labels
<1>5. Types
  <2>1. NoCall \in AnyCall /\ idleThreads \in [Core -> TCB]
    BY ThreadAssumption, IdleAssumption, IdleFacts DEF NoCall, AnyCall, TCB
  <2>2. pc \in [TCB -> Labels \cup InBlock \cup {"away", "free"}]
    BY DEF Init, Labels
  <2>3. /\ frame \in [TCB -> AnyFrame] /\ corpse \in [TCB -> SUBSET TCB]
        /\ handler \in [Core -> AnyCall] /\ interrupts \in [Core -> BOOLEAN]
    BY <2>1, <1>1 DEF Init
  <2>4. no_preempt \in [TCB -> BOOLEAN]
    BY DEF Init
  <2>5. /\ onCore \in [Core -> TCB] /\ activeThreads \in [Core -> TCB] /\ tss \in [Core -> TCB]
    BY <2>1 DEF Init
  <2> QED BY <2>2, <2>3, <2>4, <2>5, <1>4 DEF Types
<1>6. CoresOK
  <2>1. \A t \in TCB : pc[t] \in Running => \E c \in Core : onCore[c] = t
    BY <1>2 DEF Running, Labels, InBlock, Init, Idle
  <2>2. \A t \in Idle : pc[t] = "boot"
    BY <1>2 DEF TCB
  <2> QED BY <2>1, <2>2, <1>3, IdleFacts DEF CoresOK, Running, Labels
<1>7. FramesOK
  <2>1. \A t \in TCB : frame[t] = FirstFrame(t, "reap")
    BY DEF Init
  <2>2. \A t \in TCB : pc[t] \in Blocked => t = Reaper
    BY <1>2 DEF Blocked, InBlock
  <2>3. \A c \in Core : pc[onCore[c]] \notin InBlock
    BY <1>3 DEF InBlock
  <2> QED BY <2>1, <2>2, <2>3, <1>1, IdleFacts DEF FramesOK
<1>8. ActiveOK /\ InterruptsOK
  BY <1>3 DEF ActiveOK, InterruptsOK, InBlock, Init
<1>9. CallsOK
  BY <1>3 DEF CallsOK, Init, Pending
<1>10. \A t \in TCB : pc[t] \notin Chosen /\ corpse[t] = {}
  BY <1>2 DEF Chosen, Init
<1>11. \A t \in TCB : Away(t) <=> t = Reaper
  BY <1>2, <1>3 DEF Away, OffCore
<1>12. ReadyOK
  <2>1. frame[Reaper].act = "yield" /\ Reaper \in TCB
    BY <1>1, IdleFacts DEF Init, TCB
  <2> QED BY <2>1, <1>3, <1>4, <1>10, <1>11 DEF ReadyOK
<1>13. NextOK /\ ZombiesOK /\ CorpsesOK
  BY <1>3, <1>4, <1>10 DEF NextOK, ZombiesOK, CorpsesOK
<1>14. NoneLost({}) /\ ParkedOK({})
  BY <1>4, <1>11 DEF NoneLost, ParkedOK, TCB
<1> QED
  BY <1>5, <1>6, <1>7, <1>8, <1>9, <1>12, <1>13, <1>14 DEF IInv

(* A step that changes nothing preserves it. *)
LEMMA StutterInv == ASSUME NEW P, IInv(P), UNCHANGED vars PROVE IInv(P)'
<1> USE DEF IInv
<1>1. UNCHANGED <<onCore, activeThreads, tss, interrupts, no_preempt, pc, frame,
                  corpse, handler, readyQ, zombies>>
  BY DEF vars, cpu, queues
<1>2. Types' /\ CoresOK' /\ FramesOK' /\ ActiveOK' /\ InterruptsOK' /\ CallsOK'
  BY <1>1 DEF Types, CoresOK, FramesOK, ActiveOK, InterruptsOK, CallsOK, Pending, Away, OffCore
<1>3. ReadyOK' /\ NextOK' /\ ZombiesOK' /\ CorpsesOK' /\ ParkedOK(P)' /\ NoneLost(P)'
  BY <1>1 DEF ReadyOK, NextOK, ZombiesOK, CorpsesOK, ParkedOK, NoneLost, Pending, Away,
     OffCore, Where
<1> QED BY <1>2, <1>3

(* The steps of Threads, and those that HeapLock takes from it with other  *)
(* labels.                                                                 *)
Deletes(c) == \E l \in {"delete", "freed"} : DeleteZombieAt(c, l)
Spawns(c) == \E k \in {"spawn", "new"} : SpawnAt(c, k)

ThreadStep(c) ==
    \/ InBlockStep(c) \/ ReaperYield(c) \/ Stop(c) \/ Boot(c)
    \/ RemoveZombie(c) \/ NoZombie(c) \/ Tick(c) \/ CallThread(c) \/ Finish(c)
    \/ Deletes(c) \/ Spawns(c)

(* A step of Threads is one of them. *)
LEMMA NextSteps == Next => \E c \in Core : ThreadStep(c)
  BY DEF Next, KernelStep, ThreadStep, DeleteZombie, Spawn, Deletes, Spawns

(* Every step of a core preserves it. *)
LEMMA StepInv == ASSUME NEW P, IInv(P), NEW c \in Core, ThreadStep(c) PROVE IInv(P)'
<1>1. CASE InBlockStep(c)
  BY <1>1, PickReadyInv, PickReturnInv, PickIdleInv, MarkInv, ActivateInv,
     ContextSwitchInv, YieldHandlerInv, StopHandlerInv DEF InBlockStep
<1>2. CASE ReaperYield(c) \/ Stop(c) \/ Tick(c)
  BY <1>2, ReaperYieldInv, StopInv, TickInv
<1>3. CASE Boot(c) \/ NoZombie(c) \/ CallThread(c) \/ Finish(c)
  BY <1>3, WorkInv
<1>4. CASE Deletes(c)
  BY <1>4, DeleteZombieInv DEF Deletes
<1>5. CASE Spawns(c)
  BY <1>5, SpawnInv DEF Spawns
<1>6. CASE RemoveZombie(c)
  BY <1>6, RemoveZombieInv
<1> QED
  BY <1>1, <1>2, <1>3, <1>4, <1>5, <1>6 DEF ThreadStep

-----------------------------------------------------------------------------
(* The way back to a thread *)

(* A step of core c leaves alone what the other cores execute. *)
LEMMA Locality ==
    ASSUME NEW P, IInv(P), NEW c \in Core, ThreadStep(c)
    PROVE \A d \in Core : d # c =>
              /\ handler'[d] = handler[d] /\ onCore'[d] = onCore[d]
              /\ interrupts'[d] = interrupts[d]
              /\ pc'[onCore[d]] = pc[onCore[d]]
              /\ frame'[onCore[d]] = frame[onCore[d]]
              /\ no_preempt'[onCore[d]] => no_preempt[onCore[d]]
<1> USE DEF IInv
<1> DEFINE t == onCore[c]
<1>1. t \in TCB /\ \A d \in Core : onCore[d] \in TCB /\ (d # c => onCore[d] # t)
  BY DEF CoresOK, Types
<1>2. Me(c) = t
  BY DEF Me
<1> HIDE DEF t
<1> SUFFICES ASSUME NEW d \in Core, d # c
             PROVE  /\ handler'[d] = handler[d] /\ onCore'[d] = onCore[d]
                    /\ interrupts'[d] = interrupts[d]
                    /\ pc'[onCore[d]] = pc[onCore[d]]
                    /\ frame'[onCore[d]] = frame[onCore[d]]
                    /\ no_preempt'[onCore[d]] => no_preempt[onCore[d]]
  OBVIOUS
<1> USE <1>1, <1>2 DEF Goto, Types
<1>3. CASE PickReady(c) \/ PickReturn(c) \/ PickIdle(c)
  BY <1>3 DEF PickReady, PickReturn, PickIdle, cpu, queues
<1>4. CASE Mark(c)
  <2>1. frame[t].next # onCore[d] /\ pc[t] \in Chosen /\ frame[t].next \in TCB
    BY <1>4 DEF NextOK, Mark, At, Chosen, Away, OffCore, AnyFrame
  <2> QED BY <2>1, <1>4 DEF Mark, cpu, queues
<1>5. CASE Activate(c)
  BY <1>5 DEF Activate
<1>6. CASE ContextSwitch(c)
  BY <1>6 DEF ContextSwitch, Unmarked
<1>7. CASE YieldHandler(c) \/ StopHandler(c)
  BY <1>7 DEF YieldHandler, StopHandler, Resume
<1>8. CASE ReaperYield(c) \/ Stop(c) \/ Tick(c)
  <2>1. ASSUME Tick(c) PROVE activeThreads[c] = t
    BY <2>1 DEF Tick, ActiveOK, t
  <2>2. ASSUME ReaperYield(c) \/ Stop(c) PROVE activeThreads[c] = t
    BY <2>2 DEF ReaperYield, Stop, At, ActiveOK, t
  <2>3. activeThreads[c] = t
    BY <2>1, <2>2, <1>8
  <2>4. /\ UNCHANGED <<onCore, handler>>
        /\ interrupts' \in {interrupts, [interrupts EXCEPT ![c] = FALSE]}
        /\ pc' = [pc EXCEPT ![t] = "pick"]
        /\ no_preempt' = [no_preempt EXCEPT ![t] = TRUE]
        /\ \E fr : frame' = [frame EXCEPT ![t] = fr]
    <3>1. /\ UNCHANGED <<onCore, handler>>
          /\ interrupts' \in {interrupts, [interrupts EXCEPT ![c] = FALSE]}
      BY <1>8 DEF ReaperYield, Stop, Tick, cpu
    <3>2. \E opt, act, ret, iff : Block(c, opt, act, ret, iff)
      BY <1>8 DEF ReaperYield, Stop, Tick
    <3> QED BY <2>3, <3>1, <3>2 DEF Block
  <2> QED BY <2>4
<1>9. CASE RemoveZombie(c) \/ NoZombie(c) \/ Boot(c) \/ CallThread(c) \/ Finish(c)
  BY <1>9 DEF RemoveZombie, NoZombie, Boot, CallThread, Finish, cpu, queues
<1>10. CASE Deletes(c)
  <2>1. onCore[d] \notin corpse[t]
    BY DEF CorpsesOK, Away, OffCore
  <2> QED BY <2>1, <1>10 DEF Deletes, DeleteZombieAt, cpu, queues
<1>11. CASE Spawns(c)
  <2>1. PICK x \in Thread :
          /\ pc[x] = "free"
          /\ pc' = [pc EXCEPT ![x] = "away", ![t] = IF t \in Idle THEN "stop" ELSE "work"]
          /\ frame' = [frame EXCEPT ![x] = FirstFrame(x, "work")]
          /\ no_preempt' = [no_preempt EXCEPT ![x] = FALSE]
    BY <1>11 DEF Spawns, SpawnAt
  <2>2. x # onCore[d]
    BY <2>1 DEF CoresOK, Running, Labels, InBlock
  <2>3. UNCHANGED <<handler, onCore, interrupts>>
    BY <1>11 DEF Spawns, SpawnAt, cpu
  <2> QED BY <2>1, <2>2, <2>3
<1> QED
  BY <1>3, <1>4, <1>5, <1>6, <1>7, <1>8, <1>9, <1>10, <1>11 DEF ThreadStep, InBlockStep

(* What a step of core c leaves of its own thread. *)
LEMMA SwitchSteps ==
    ASSUME NEW P, IInv(P), NEW c \in Core, ThreadStep(c)
    PROVE \/ ContextSwitch(c)
          \/ ~Pending(c)'
<1> USE DEF IInv
<1>1. CASE YieldHandler(c) \/ StopHandler(c)
  BY <1>1 DEF YieldHandler, StopHandler, Resume, Pending, Types
<1>2. CASE Tick(c)
  BY <1>2 DEF Tick, InterruptsOK, Pending
<1> QED
  BY <1>1, <1>2 DEF ThreadStep, InBlockStep, PickReady, PickReturn, PickIdle, Mark, Activate,
     ReaperYield, Stop, RemoveZombie, NoZombie, Deletes, DeleteZombieAt, Spawns,
        SpawnAt, Boot, CallThread, Finish,
     At, Pending

(* A core is switched to a thread that may be preempted and has not ended. *)
LEMMA ResumedInv ==
    ASSUME NEW P, JInv(P), NEW c \in Core, ThreadStep(c)
    PROVE ResumedOK'
<1> USE DEF JInv
<1>1. ASSUME NEW d \in Core, d # c, Pending(d)'
      PROVE  /\ ~no_preempt'[onCore'[d]]
             /\ onCore'[d] \in Thread => frame'[onCore'[d]].act # "stop"
  <2>1. Pending(d)
    BY <1>1, Locality DEF Pending
  <2> QED BY <2>1, <1>1, Locality DEF ResumedOK
<1>2. ASSUME ContextSwitch(c)
      PROVE  /\ ~no_preempt'[onCore'[c]]
             /\ onCore'[c] \in Thread => frame'[onCore'[c]].act # "stop"
  <2> DEFINE t == Me(c)
             f == frame[t]
             n == f.next
  <2>1. t \in TCB /\ f \in AnyFrame /\ n \in TCB /\ pc[t] \in Chosen
    BY <1>2 DEF IInv, Types, Me, AnyFrame, ContextSwitch, At, Chosen
  <2>2. n # t /\ (n \in Thread => frame[n].act # "stop")
    BY <2>1 DEF IInv, NextOK, Away, OffCore, Me
  <2>3. onCore'[c] = n /\ ~no_preempt'[n] /\ frame'[n] = frame[n]
    BY <1>2, <2>1, <2>2 DEF ContextSwitch, Unmarked, IInv, Types
  <2> QED BY <2>2, <2>3
<1>3. ContextSwitch(c) \/ ~Pending(c)'
  BY SwitchSteps
<1>4. ASSUME NEW d \in Core, Pending(d)'
      PROVE  /\ ~no_preempt'[onCore'[d]]
             /\ onCore'[d] \in Thread => frame'[onCore'[d]].act # "stop"
  <2>1. CASE d = c
    BY <2>1, <1>2, <1>3, <1>4
  <2>2. CASE d # c
    BY <2>2, <1>1, <1>4
  <2> QED BY <2>1, <2>2
<1> QED
  BY <1>4 DEF ResumedOK

(* delete_zombies() holds one zombie at a time. *)
LEMMA OneCorpseInv ==
    ASSUME NEW P, JInv(P), NEW c \in Core, ThreadStep(c)
    PROVE OneCorpse'
<1> USE DEF JInv
<1>1. CASE RemoveZombie(c)
  <2>1. corpse' = [corpse EXCEPT ![Me(c)] = {Head(zombies)}]
    BY <1>1 DEF RemoveZombie
  <2> QED BY <2>1 DEF IInv, Types, OneCorpse
<1>2. CASE Deletes(c)
  <2>1. corpse' = [corpse EXCEPT ![Me(c)] = {}]
    BY <1>2 DEF Deletes, DeleteZombieAt
  <2> QED BY <2>1 DEF IInv, Types, OneCorpse
<1>3. ASSUME UNCHANGED corpse PROVE OneCorpse'
  BY <1>3 DEF OneCorpse
<1> QED
  BY <1>1, <1>2, <1>3 DEF ThreadStep, InBlockStep, PickReady, PickReturn, PickIdle, Mark,
     Activate, ContextSwitch, YieldHandler, StopHandler, ReaperYield, Stop, NoZombie,
        Spawns, SpawnAt,
     Boot, CallThread, Finish, Tick

(* The thread that a step of core c takes further. *)
LEMMA OwnPc ==
    ASSUME NEW P, IInv(P), NEW c \in Core, ThreadStep(c)
    PROVE \A x \in TCB :
            \/ pc'[x] = pc[x] /\ (pc[x] # "free" => frame'[x] = frame[x])
            \/ x = Me(c)
            \/ x \in Thread /\ pc[x] = "free" /\ pc'[x] = "away"
                 /\ frame'[x] = FirstFrame(x, "work")
            \/ x \in corpse[Me(c)] /\ pc'[x] = "free" /\ frame'[x] = frame[x]
<1> USE DEF IInv
<1> DEFINE t == Me(c)
<1>1. t \in TCB
  BY DEF Types, Me
<1> HIDE DEF t
<1> SUFFICES ASSUME NEW x \in TCB, x # t
             PROVE  \/ pc'[x] = pc[x] /\ (pc[x] # "free" => frame'[x] = frame[x])
                    \/ x \in Thread /\ pc[x] = "free" /\ pc'[x] = "away"
                         /\ frame'[x] = FirstFrame(x, "work")
                    \/ x \in corpse[Me(c)] /\ pc'[x] = "free" /\ frame'[x] = frame[x]
  BY DEF t
<1>2. CASE Spawns(c)
  <2>1. PICK y \in Thread :
          /\ pc[y] = "free"
          /\ pc' = [pc EXCEPT ![y] = "away", ![t] = IF t \in Idle THEN "stop" ELSE "work"]
          /\ frame' = [frame EXCEPT ![y] = FirstFrame(y, "work")]
    BY <1>2 DEF Spawns, SpawnAt, t
  <2>2. CASE x = y
    BY <2>1, <2>2, <1>1 DEF Types
  <2>3. CASE x # y
    BY <2>1, <2>3, <1>1 DEF Types
  <2> QED BY <2>2, <2>3
<1>3. CASE Deletes(c)
  BY <1>3 DEF Deletes, DeleteZombieAt, t
<1>4. ASSUME \E l : pc' = [pc EXCEPT ![t] = l],
             frame' = frame \/ (\E fr : frame' = [frame EXCEPT ![t] = fr])
      PROVE  pc'[x] = pc[x] /\ frame'[x] = frame[x]
  BY <1>4, <1>1 DEF Types
<1>5. CASE PickReady(c) \/ PickIdle(c)
  BY <1>5, <1>1 DEF PickReady, PickIdle, Goto, Types, t
<1>6. CASE ReaperYield(c) \/ Stop(c) \/ Tick(c)
  <2>1. \E opt, act, ret, iff : Block(c, opt, act, ret, iff)
    BY <1>6 DEF ReaperYield, Stop, Tick
  <2>2. (\E l : pc' = [pc EXCEPT ![t] = l]) /\ (\E fr : frame' = [frame EXCEPT ![t] = fr])
    BY <2>1 DEF Block, Goto, t
  <2> QED BY <2>2, <1>4
<1>7. CASE YieldHandler(c) \/ StopHandler(c)
  BY <1>7, <1>4 DEF YieldHandler, StopHandler, Resume, Goto, t
<1>8. CASE ContextSwitch(c)
  <2>1. (\E l : pc' = [pc EXCEPT ![t] = l]) /\ (\E fr : frame' = [frame EXCEPT ![t] = fr])
    BY <1>8 DEF ContextSwitch, Goto, t
  <2> QED BY <2>1, <1>4
<1>9. CASE PickReturn(c) \/ Mark(c) \/ Activate(c)
  BY <1>9, <1>4 DEF PickReturn, Mark, Activate, Goto, t
<1>10. CASE RemoveZombie(c) \/ NoZombie(c) \/ Boot(c) \/ CallThread(c) \/ Finish(c)
  BY <1>10, <1>4 DEF RemoveZombie, NoZombie, Boot, CallThread, Finish, Goto, t
<1> QED
  BY <1>2, <1>3, <1>5, <1>6, <1>7, <1>8, <1>9, <1>10 DEF ThreadStep, InBlockStep

(* An idle thread keeps its interrupts until its context switch, and works *)
(* for nobody.                                                              *)
LEMMA IdleInv ==
    ASSUME NEW P, JInv(P), NEW c \in Core, ThreadStep(c)
    PROVE IdleOK'
<1> USE DEF JInv
<1>1. \A d \in Core : ~Pending(d)' /\ onCore'[d] \in Idle /\ pc'[onCore'[d]] \in InBlock
                      => interrupts'[d]
  <2> SUFFICES ASSUME NEW d \in Core,
                      ~Pending(d)', onCore'[d] \in Idle, pc'[onCore'[d]] \in InBlock
               PROVE  interrupts'[d]
    OBVIOUS
  <2>1. CASE d # c
    BY <2>1, Locality DEF IdleOK, Pending
  <2>2. CASE d = c
    <3> USE <2>2
    <3>1. CASE YieldHandler(c) \/ StopHandler(c)
      <4>1. pc[onCore[c]] = "away" /\ onCore[c] \in TCB
        BY <3>1 DEF IInv, CoresOK, YieldHandler, StopHandler, Pending, NoCall, Types
      <4>2. frame[onCore[c]].ret \in Labels
        BY <4>1 DEF IInv, Types, AnyFrame
      <4>3. pc'[onCore[c]] = frame[onCore[c]].ret /\ onCore' = onCore
        BY <3>1, <4>1 DEF YieldHandler, StopHandler, Resume, Goto, Me, IInv, Types
      <4> QED BY <4>2, <4>3 DEF InBlock, Labels
    <3>2. CASE ContextSwitch(c)
      <4>1. handler'[c].prev = frame[Me(c)].me /\ handler'[c].act \in {"yield", "stop", "down"}
        BY <3>2 DEF ContextSwitch, IInv, Types, Me, AnyFrame
      <4> QED BY <4>1 DEF Pending, NoCall
    <3>3. CASE Tick(c)
      <4>1. onCore[c] = activeThreads[c]
        BY <3>3 DEF Tick, IInv, ActiveOK
      <4> QED BY <3>3, <4>1 DEF Tick
    <3>4. CASE PickReady(c) \/ PickReturn(c) \/ PickIdle(c) \/ Mark(c) \/ Activate(c)
               \/ RemoveZombie(c) \/ NoZombie(c) \/ Deletes(c) \/ Spawns(c)
               \/ Boot(c) \/ CallThread(c) \/ Finish(c) \/ ReaperYield(c) \/ Stop(c)
      <4>1. onCore' = onCore /\ (interrupts' = interrupts \/ interrupts'[c])
        <5>1. CASE PickReturn(c)
          BY <5>1 DEF PickReturn, At, Me, IInv, Types, FramesOK, Blocked, InBlock
        <5> QED BY <5>1, <3>4 DEF PickReady, PickIdle, Mark, Activate, RemoveZombie, NoZombie,
                   Deletes, DeleteZombieAt, Spawns, SpawnAt, Boot, CallThread,
                      Finish, ReaperYield, Stop, cpu
      <4>2. ~Pending(c)
        BY <3>4 DEF PickReady, PickReturn, PickIdle, Mark, Activate, RemoveZombie, NoZombie,
              Deletes, DeleteZombieAt, Spawns, SpawnAt, Boot, CallThread, Finish,
                 ReaperYield, Stop, At, Pending
      <4>3. pc[onCore[c]] \in InBlock \/ pc[onCore[c]] \in Labels
        BY <4>2 DEF IInv, CoresOK, Running
      <4> QED BY <4>1, <4>2, <4>3 DEF IdleOK, IInv, InterruptsOK
    <3> QED BY <3>1, <3>2, <3>3, <3>4 DEF ThreadStep, InBlockStep
  <2> QED BY <2>1, <2>2
<1>2. \A x \in Idle : pc'[x] \notin {"work", "wake", "heap", "heapwake"}
  <2> SUFFICES ASSUME NEW x \in Idle, pc'[x] \in {"work", "wake", "heap", "heapwake"}
               PROVE FALSE
    OBVIOUS
  <2>1. x \in TCB /\ x \notin Thread /\ pc[x] \notin {"work", "wake", "heap", "heapwake"}
    BY IdleFacts DEF TCB, IdleOK
  <2>2. x = Me(c) /\ x = onCore[c]
    BY <2>1, OwnPc DEF Me
  <2>3. CASE PickReturn(c) \/ YieldHandler(c) \/ StopHandler(c)
    <3>1. pc[x] \in Blocked
      BY <2>2, <2>3 DEF PickReturn, YieldHandler, StopHandler, At, Blocked, InBlock,
         IInv, CoresOK, Pending, NoCall
    <3>2. frame[x].ret = "stop"
      BY <2>1, <3>1 DEF IInv, FramesOK
    <3> QED BY <2>1, <2>2, <2>3, <3>2 DEF PickReturn, YieldHandler, StopHandler, Resume, Goto, IInv, Types
  <2>4. CASE Spawns(c)
    BY <2>1, <2>2, <2>4 DEF Spawns, SpawnAt, IInv, Types
  <2>5. CASE ReaperYield(c) \/ Stop(c) \/ Tick(c)
    BY <2>1, <2>2, <2>5 DEF ReaperYield, Stop, Tick, Block, Goto, IInv, Types
  <2>6. CASE CallThread(c) \/ Finish(c)
    BY <2>1, <2>2, <2>6 DEF CallThread, Finish, At
  <2>7. CASE PickReady(c) \/ PickIdle(c) \/ Mark(c) \/ Activate(c) \/ ContextSwitch(c)
    BY <2>1, <2>2, <2>7 DEF PickReady, PickIdle, Mark, Activate, ContextSwitch, Goto, IInv, Types
  <2>8. CASE RemoveZombie(c) \/ NoZombie(c) \/ Deletes(c) \/ Boot(c)
    BY <2>1, <2>2, <2>8 DEF RemoveZombie, NoZombie, Deletes, DeleteZombieAt, Boot,
       Goto, IInv, Types
  <2> QED BY <2>3, <2>4, <2>5, <2>6, <2>7, <2>8 DEF ThreadStep, InBlockStep
<1> QED
  BY <1>1, <1>2 DEF IdleOK

(* The reaper goes round its loop (threads.cc:101-108) for good. *)
LEMMA ReaperInv ==
    ASSUME NEW P, JInv(P), NEW c \in Core, ThreadStep(c)
    PROVE ReaperOK'
<1> USE DEF JInv
<1>1. Reaper \in TCB /\ Reaper \in Thread /\ Reaper \notin Idle
  BY IdleFacts DEF TCB
<1>2. pc[Reaper] # "free"
  BY DEF ReaperOK, Loop, Blocked, InBlock
<1>3. \A t \in TCB : Reaper \notin corpse[t]
  <2> SUFFICES ASSUME NEW t \in TCB, Reaper \in corpse[t] PROVE FALSE
    OBVIOUS
  <2>1. pc[Reaper] = "away" /\ frame[Reaper].act = "stop"
    BY <1>1 DEF IInv, CorpsesOK, Away
  <2>2. frame[Reaper].ret = "stop"
    BY <1>1, <2>1 DEF IInv, FramesOK, Blocked
  <2> QED BY <2>1, <2>2 DEF ReaperOK, Loop, Blocked
<1>4. CASE Reaper # Me(c)
  <2>1. Me(c) \in TCB
    BY DEF IInv, Types, Me
  <2>2. pc'[Reaper] = pc[Reaper] /\ frame'[Reaper].ret = frame[Reaper].ret
    BY <1>1, <1>2, <1>3, <1>4, <2>1, OwnPc
  <2> QED BY <2>2 DEF ReaperOK
<1>5. CASE Reaper = Me(c)
  <2> USE <1>5
  <2>1. \A l : pc' = [pc EXCEPT ![Me(c)] = l] => pc'[Reaper] = l
    BY <1>1 DEF IInv, Types
  <2>2. CASE PickReady(c) \/ PickIdle(c) \/ Mark(c) \/ Activate(c) \/ ContextSwitch(c)
    <3>1. pc[Reaper] \in InBlock /\ pc'[Reaper] \in Blocked
      BY <2>1, <2>2 DEF PickReady, PickIdle, Mark, Activate, ContextSwitch, At, Goto, InBlock, Blocked
    <3>2. frame'[Reaper].ret = frame[Reaper].ret
      <4>1. frame[Reaper] \in AnyFrame
        BY <1>1 DEF IInv, Types
      <4>2. CASE PickReady(c) \/ PickIdle(c)
        BY <4>1, <4>2, <1>1 DEF PickReady, PickIdle, IInv, Types, AnyFrame
      <4>3. CASE Mark(c) \/ Activate(c)
        BY <4>3 DEF Mark, Activate
      <4>4. CASE ContextSwitch(c)
        <5>1. frame' = [frame EXCEPT ![Reaper] = Spent(frame[Reaper])]
          BY <4>4 DEF ContextSwitch
        <5>2. frame'[Reaper] = Spent(frame[Reaper])
          BY <5>1, <1>1 DEF IInv, Types
        <5> QED BY <5>2, <4>1 DEF Spent, AnyFrame
      <4> QED BY <2>2, <4>2, <4>3, <4>4
    <3> QED BY <3>1, <3>2 DEF ReaperOK, Blocked
  <2>3. CASE PickReturn(c) \/ YieldHandler(c) \/ StopHandler(c)
    <3>1. pc[Reaper] \in Blocked
      BY <2>3 DEF PickReturn, YieldHandler, StopHandler, At, Blocked, InBlock,
         IInv, CoresOK, Pending, NoCall, Me
    <3>2. frame[Reaper].ret \in Loop
      BY <3>1 DEF ReaperOK
    <3>3. pc'[Reaper] = frame[Reaper].ret
      BY <2>1, <2>3 DEF PickReturn, YieldHandler, StopHandler, Resume, Goto
    <3> QED BY <3>2, <3>3 DEF ReaperOK, Loop, Blocked, InBlock
  <2>4. CASE ReaperYield(c) \/ Stop(c) \/ Tick(c)
    <3>1. pc[Reaper] \in Loop
      <4>1. ASSUME Tick(c) PROVE pc[Me(c)] \notin Blocked
        <5>1. ~Pending(c)
          BY <4>1 DEF Tick, IInv, InterruptsOK
        <5>2. pc[Me(c)] # "away"
          BY <5>1 DEF IInv, CoresOK, Running, Labels, InBlock, Me
        <5>3. pc[Me(c)] \notin InBlock
          BY <4>1 DEF Tick, IInv, ActiveOK, InBlock, Me
        <5> QED BY <5>2, <5>3 DEF Blocked
      <4> QED BY <2>4, <4>1 DEF ReaperYield, Stop, At, ReaperOK, Blocked, Loop, InBlock
    <3>2. Me(c) \in TCB /\ activeThreads[c] \in TCB
      BY DEF IInv, Types, Me
    <3>3. PICK opt, act, iff, ret : ret \in Loop /\ Block(c, opt, act, ret, iff)
      <4>1. ASSUME Stop(c) PROVE FALSE
        BY <3>1, <4>1 DEF Stop, At, Loop
      <4>2. ASSUME ReaperYield(c)
            PROVE  Block(c, "CanReturn", "yield", "reap", interrupts[c]) /\ "reap" \in Loop
        BY <4>2 DEF ReaperYield, Loop
      <4>3. ASSUME Tick(c)
            PROVE  Block(c, "CanReturn", "yield", pc[Reaper], TRUE) /\ pc[Reaper] \in Loop
        BY <4>3, <3>1 DEF Tick
      <4> QED BY <2>4, <4>1, <4>2, <4>3
    <3>4. /\ pc' = [pc EXCEPT ![Me(c)] = "pick"]
          /\ frame' = [frame EXCEPT ![Me(c)] = NewFrame(c, activeThreads[c], opt, act, ret, iff)]
      BY <3>3 DEF Block, Goto
    <3>5. pc'[Reaper] = "pick" /\ frame'[Reaper].ret = ret
      BY <1>1, <2>1, <3>4 DEF NewFrame, IInv, Types
    <3> QED BY <3>3, <3>5 DEF ReaperOK, Blocked, InBlock
  <2>5. CASE RemoveZombie(c) \/ NoZombie(c)
    BY <2>1, <2>5 DEF RemoveZombie, NoZombie, Goto, ReaperOK, Loop, Blocked, InBlock
  <2>6. CASE Deletes(c)
    BY <1>1, <2>6 DEF Deletes, DeleteZombieAt, ReaperOK, Loop, Blocked, InBlock
  <2>7. CASE Spawns(c) \/ Boot(c) \/ CallThread(c) \/ Finish(c)
    BY <2>7 DEF Spawns, SpawnAt, Boot, CallThread, Finish, At, ReaperOK, Loop, Blocked,
       InBlock
  <2> QED BY <2>2, <2>3, <2>4, <2>5, <2>6, <2>7 DEF ThreadStep, InBlockStep
<1> QED
  BY <1>4, <1>5

(* Only a return from block() without a switch leaves a thread with        *)
(* no_preempt set, and then the reaper was not in readyQ: a core runs it   *)
(* or is about to.                                                         *)
LEMMA CoreFreeInv ==
    ASSUME NEW P, JInv(P), NEW c \in Core, ThreadStep(c)
    PROVE CoreFree'
<1> USE DEF JInv
<1>1. \A d \in Core : d # c /\ Held(d)' => Held(d)
  BY Locality DEF Held, Pending
<1>0. CASE ReaperWaits
  <2>1. Reaper \in TCB /\ Reaper \in Thread /\ pc[Reaper] # "free"
    BY <1>0, IdleFacts DEF TCB, ReaperWaits, Blocked, InBlock
  <2>2. CASE Reaper # Me(c)
    <3>1. \A t \in TCB : Reaper \notin corpse[t]
      BY <1>0, <2>1 DEF IInv, CorpsesOK, ReaperWaits
    <3>2. Me(c) \in TCB
      BY DEF IInv, Types, Me
    <3> QED BY <2>1, <2>2, <3>1, <3>2, <1>0, OwnPc DEF CoreFree, ReaperWaits
  <2>3. CASE Reaper = Me(c)
    <3>1. CASE ContextSwitch(c)
      <4>1. pc'[Reaper] = "away" /\ frame'[Reaper] = Spent(frame[Reaper])
        BY <2>1, <2>3, <3>1 DEF ContextSwitch, Goto, IInv, Types
      <4>2. frame'[Reaper].act = frame[Reaper].act
        BY <2>1, <4>1 DEF Spent, IInv, Types, AnyFrame
      <4> QED BY <1>0, <4>1, <4>2 DEF CoreFree, ReaperWaits, Blocked
    <3>2. CASE ~ContextSwitch(c)
      <4>1. onCore' = onCore
        BY <3>2 DEF ThreadStep, InBlockStep, PickReady, PickReturn, PickIdle, Mark, Activate,
           YieldHandler, StopHandler, ReaperYield, Stop, Boot, RemoveZombie, NoZombie,
           Deletes, DeleteZombieAt, Spawns, SpawnAt, Tick, CallThread, Finish, cpu
      <4>2. ~Held(c)'
        BY <2>3, <4>1 DEF Held, Me
      <4> QED BY <4>2 DEF CoreFree
    <3> QED BY <3>1, <3>2
  <2> QED BY <2>2, <2>3
<1>2. CASE PickReturn(c) /\ ~ReaperWaits
  <2>1. Reaper \in Thread /\ Reaper \in TCB
    BY IdleFacts DEF TCB
  <2>2. readyQ = <<>> /\ pc[onCore[c]] = "pick" /\ UNCHANGED <<onCore, handler>>
    BY <1>2 DEF PickReturn, At, Me
  <2>3. pc[Reaper] = "away" => frame[Reaper].act = "yield"
    BY <1>2, <2>1 DEF IInv, FramesOK, ReaperOK, ReaperWaits, Blocked, Loop, Types, AnyFrame
  <2>4. CASE \E d \in Core : onCore[d] = Reaper
    BY <2>2, <2>4 DEF CoreFree, Held
  <2>5. CASE \A d \in Core : onCore[d] # Reaper
    <3>1. Away(Reaper)
      <4>1. pc[Reaper] \notin Running
        BY <2>1, <2>5 DEF IInv, CoresOK
      <4> QED BY <2>5, <4>1 DEF ReaperOK, Away, OffCore, Running, Loop, Blocked, Labels, InBlock
    <3>2. \A i \in 1 .. Len(zombies) : zombies[i] # Reaper
      BY <2>3, <3>1 DEF IInv, ZombiesOK, Away
    <3>3. \A u \in TCB : Reaper \notin corpse[u]
      BY <2>1, <2>3, <3>1 DEF IInv, CorpsesOK, Away
    <3>4. \A i \in 1 .. Len(readyQ) : FALSE
      BY <2>2
    <3>7. Reaper \notin P
      BY <2>3, <3>1 DEF IInv, ParkedOK, Away
    <3>5. CASE \E u \in TCB : pc[u] \in Chosen /\ frame[u].next = Reaper
      <4>1. PICK u \in TCB : pc[u] \in Chosen
        BY <3>5
      <4>2. PICK d \in Core : onCore[d] = u
        BY <4>1 DEF IInv, CoresOK, Running, InBlock, Chosen
      <4>3. d # c
        BY <2>2, <4>1, <4>2 DEF Chosen
      <4>4. ~Held(d)
        BY <4>1, <4>2 DEF Held, Chosen, Labels
      <4> QED BY <1>1, <4>3, <4>4 DEF CoreFree
    <3>6. CASE \E d \in Core : Pending(d) /\ handler[d].prev = Reaper
      BY <2>2, <3>6 DEF CoreFree, Held, Pending
    <3> QED BY <2>1, <3>1, <3>2, <3>3, <3>4, <3>5, <3>6, <3>7 DEF IInv, NoneLost
  <2> QED BY <2>4, <2>5
<1>3. CASE ~PickReturn(c) /\ ~ReaperWaits
  <2> SUFFICES Held(c)' => Held(c)
    BY <1>1, <1>3 DEF CoreFree
  <2>1. CASE YieldHandler(c) \/ StopHandler(c)
    <3>1. Pending(c)
      BY <2>1 DEF YieldHandler, StopHandler, Pending, NoCall
    <3> QED BY <2>1, <3>1 DEF YieldHandler, StopHandler, ResumedOK, Held
  <2>2. CASE ContextSwitch(c)
    <3>1. handler'[c].prev = frame[Me(c)].me /\ handler'[c].act \in {"yield", "stop", "down"}
      BY <2>2 DEF ContextSwitch, IInv, Types, Me, AnyFrame
    <3> QED BY <3>1 DEF Held, Pending, NoCall
  <2>3. CASE PickReady(c) \/ PickIdle(c) \/ Mark(c) \/ Activate(c)
             \/ ReaperYield(c) \/ Stop(c) \/ Tick(c)
    <3>1. onCore' = onCore /\ Me(c) \in TCB
      BY <2>3 DEF PickReady, PickIdle, Mark, Activate, ReaperYield, Stop, Tick, cpu, IInv, Types, Me
    <3>2. pc'[onCore[c]] \in InBlock
      <4>1. \E l \in InBlock : pc' = [pc EXCEPT ![Me(c)] = l]
        BY <2>3 DEF PickReady, PickIdle, Mark, Activate, ReaperYield, Stop, Tick, Block,
           Goto, InBlock
      <4> QED BY <3>1, <4>1 DEF IInv, Types, Me
    <3> QED BY <3>1, <3>2 DEF Held, InBlock, Labels
  <2>4. CASE RemoveZombie(c) \/ NoZombie(c) \/ Deletes(c) \/ Spawns(c)
             \/ Boot(c) \/ CallThread(c) \/ Finish(c)
    <3>1. onCore' = onCore /\ handler' = handler
      BY <2>4 DEF RemoveZombie, NoZombie, Deletes, DeleteZombieAt, Spawns, SpawnAt,
         Boot, CallThread, Finish, cpu
    <3>2. pc[onCore[c]] \in Labels
      BY <2>4 DEF RemoveZombie, NoZombie, Deletes, DeleteZombieAt, Spawns, SpawnAt,
         Boot, CallThread, Finish, At, Me, Labels
    <3>3. no_preempt'[onCore[c]] => no_preempt[onCore[c]]
      <4>1. CASE Spawns(c)
        BY <4>1 DEF Spawns, SpawnAt, IInv, Types
      <4> QED BY <2>4, <4>1 DEF RemoveZombie, NoZombie, Deletes, DeleteZombieAt,
         Boot, CallThread, Finish
    <3> QED BY <3>1, <3>2, <3>3 DEF Held, Pending
  <2> QED BY <1>3, <2>1, <2>2, <2>3, <2>4 DEF ThreadStep, InBlockStep
<1> QED
  BY <1>0, <1>2, <1>3

(* threadsInit establishes the second invariant. *)
LEMMA InitJInv == Init => JInv({})
<1> SUFFICES ASSUME Init PROVE JInv({})
  OBVIOUS
<1>1. IInv({})
  BY InitInv
<1>2. \A c \in Core : ~Pending(c) /\ onCore[c] \in Idle /\ onCore[c] \notin Thread
                      /\ interrupts[c]
  BY IdleFacts DEF Init, Pending, TCB
<1>3. ResumedOK /\ IdleOK /\ CoreFree
  BY <1>2, CoreAssumption, IdleFacts DEF ResumedOK, IdleOK, CoreFree, Held, Init, TCB
<1>4. OneCorpse
  BY DEF OneCorpse, Init
<1>5. ReaperOK
  BY IdleFacts DEF ReaperOK, Init, Blocked, Loop, FirstFrame, NewFrame, TCB
<1> QED
  BY <1>1, <1>3, <1>4, <1>5 DEF JInv

(* A step that changes nothing preserves what JInv adds. *)
LEMMA StutterJInv == ASSUME NEW P, JInv(P), UNCHANGED vars PROVE JInv(P)'
<1>1. UNCHANGED <<onCore, activeThreads, tss, interrupts, no_preempt, pc, frame,
                  corpse, handler, readyQ, zombies>>
  BY DEF vars, cpu, queues
<1>2. IInv(P)'
  BY StutterInv DEF JInv
<1> QED
  BY <1>1, <1>2 DEF JInv, ResumedOK, OneCorpse, IdleOK, ReaperOK, ReaperWaits, CoreFree, Held, Pending

(* Every step of a core preserves it. *)
LEMMA StepJInv == ASSUME NEW P, JInv(P), NEW c \in Core, ThreadStep(c) PROVE JInv(P)'
<1>1. IInv(P)'
  BY StepInv DEF JInv
<1> QED
  BY <1>1, ResumedInv, OneCorpseInv, IdleInv, ReaperInv, CoreFreeInv DEF JInv

-----------------------------------------------------------------------------
(* Each of the six places holds a thread once, and no two hold one. *)
LEMMA PlacesApart ==
    ASSUME NEW P, IInv(P), NEW x \in TCB
    PROVE \A p, q \in Places(x) : p = q
<1> DEFINE K == {<<"core", c>> : c \in {d \in Core : onCore[d] = x}}
           N == {<<"next", t>> : t \in {u \in TCB : pc[u] \in Chosen /\ frame[u].next = x}}
           H == {<<"call", c>> : c \in {d \in Core : handler[d].act # "none"
                                                      /\ handler[d].prev = x}}
           D == {<<"corpse", t>> : t \in {u \in TCB : x \in corpse[u]}}
           R == {<<"ready", i>> : i \in {j \in 1 .. Len(readyQ) : readyQ[j] = x}}
           Z == {<<"zombie", i>> : i \in {j \in 1 .. Len(zombies) : zombies[j] = x}}
<1> USE DEF IInv
<1>1. \A c \in Core : handler[c].act # "none" => Pending(c)
  BY DEF Pending, NoCall
<1>2. /\ \A p, q \in K : p = q
      /\ K # {} => ~Away(x)
  BY DEF CoresOK, Away, OffCore
<1>3. /\ \A p, q \in N : p = q
      /\ N # {} => Away(x) /\ H = {} /\ R = {} /\ (x \in Thread => frame[x].act # "stop")
  <2>1. \A p, q \in N : p = q
    BY DEF NextOK
  <2>2. ASSUME N # {}
        PROVE  Away(x) /\ H = {} /\ R = {} /\ (x \in Thread => frame[x].act # "stop")
    <3>1. PICK t \in TCB : pc[t] \in Chosen /\ frame[t].next = x
      BY <2>2
    <3> QED BY <3>1, <1>1 DEF NextOK, ReadyOK
  <2> QED BY <2>1, <2>2
<1>4. /\ \A p, q \in H : p = q
      /\ H # {} => Away(x) /\ D = {} /\ R = {} /\ Z = {}
  <2>1. \A p, q \in H : p = q
    BY <1>1 DEF CallsOK
  <2>2. ASSUME H # {} PROVE Away(x) /\ D = {} /\ R = {} /\ Z = {}
    <3>1. PICK c \in Core : Pending(c) /\ handler[c].prev = x
      BY <1>1, <2>2
    <3> QED BY <3>1 DEF CallsOK, CorpsesOK, ReadyOK, ZombiesOK
  <2> QED BY <2>1, <2>2
<1>5. /\ \A p, q \in D : p = q
      /\ D # {} => Away(x) /\ x \in Thread /\ frame[x].act = "stop" /\ Z = {}
  BY DEF CorpsesOK
<1>6. /\ \A p, q \in R : p = q
      /\ R # {} => Away(x) /\ frame[x].act # "stop"
  BY DEF ReadyOK
<1>7. /\ \A p, q \in Z : p = q
      /\ Z # {} => Away(x) /\ x \in Thread /\ frame[x].act = "stop"
  <2>1. \A p, q \in Z : p = q
    BY DEF ZombiesOK
  <2>2. ASSUME Z # {} PROVE Away(x) /\ x \in Thread /\ frame[x].act = "stop"
    <3>1. PICK i \in 1 .. Len(zombies) : zombies[i] = x
      BY <2>2
    <3>2. zombies[i] \in Thread
      BY <3>1 DEF Types
    <3> QED BY <3>1, <3>2 DEF ZombiesOK
  <2> QED BY <2>1, <2>2
<1>8. Places(x) = K \cup N \cup H \cup D \cup R \cup Z
  BY Zenon DEF Places
<1> HIDE DEF K, N, H, D, R, Z
<1> QED
  BY <1>2, <1>3, <1>4, <1>5, <1>6, <1>7, <1>8

(* A deleted thread is in none of them. *)
LEMMA FreeNowhere ==
    ASSUME NEW P, IInv(P), NEW x \in Thread, pc[x] = "free" PROVE Places(x) = {}
<1>1. x \in TCB /\ ~Away(x) /\ \A c \in Core : onCore[c] # x
  BY DEF IInv, CoresOK, Away, TCB, Running, Labels, InBlock
<1>2. \A c \in Core : handler[c].act # "none" => handler[c].prev # x
  BY <1>1 DEF IInv, CallsOK, Pending, NoCall
<1>3. \A u \in TCB : x \notin corpse[u] /\ ~(pc[u] \in Chosen /\ frame[u].next = x)
  BY <1>1 DEF IInv, CorpsesOK, NextOK
<1>4. /\ \A i \in 1 .. Len(readyQ) : readyQ[i] # x
      /\ \A i \in 1 .. Len(zombies) : zombies[i] # x
  BY <1>1 DEF IInv, ReadyOK, ZombiesOK
<1> QED BY <1>1, <1>2, <1>3, <1>4 DEF Places

(* A thread that is in none of them, and is not parked, is deleted. *)
LEMMA NowhereFree ==
    ASSUME NEW P, IInv(P), NEW x \in Thread, x \notin P, Places(x) = {} PROVE pc[x] = "free"
<1>1. x \in TCB
  BY DEF TCB
<1>2. \A c \in Core : onCore[c] # x
  BY DEF Places
<1>3. ~Away(x)
  <2>1. /\ \A i \in 1 .. Len(readyQ) : readyQ[i] # x
        /\ \A i \in 1 .. Len(zombies) : zombies[i] # x
        /\ \A u \in TCB : x \notin corpse[u] /\ ~(pc[u] \in Chosen /\ frame[u].next = x)
        /\ \A c \in Core : handler[c].act # "none" => handler[c].prev # x
    BY DEF Places
  <2>2. \A c \in Core : Pending(c) => handler[c].act # "none"
    BY DEF IInv, CallsOK, Pending
  <2> QED BY <2>1, <2>2 DEF IInv, NoneLost
<1>4. pc[x] \notin Running /\ pc[x] # "away"
  BY <1>1, <1>2, <1>3 DEF IInv, CoresOK, Away, OffCore
<1> QED BY <1>1, <1>4 DEF IInv, Types, Running

-----------------------------------------------------------------------------
(* Threads by itself: no thread waits for anything but a core. *)

Plain ==
    \A t \in TCB : pc[t] \notin Extra /\ frame[t].act # "down" /\ frame[t].ret \notin Extra

KInv == JInv({}) /\ Plain

(* Then the types are those of Threads. *)
LEMMA PlainTypes == JInv({}) /\ Plain => TypeOK
<1> SUFFICES ASSUME JInv({}), Plain PROVE TypeOK
  OBVIOUS
<1> USE DEF JInv, IInv
<1>1. \A t \in TCB : pc[t] \in Outside \cup InBlock \cup {"away", "free"}
  BY DEF Types, Plain, Extra
<1>2. \A t \in TCB : frame[t] \in Frame
  <2> SUFFICES ASSUME NEW t \in TCB PROVE frame[t] \in Frame
    OBVIOUS
  <2>1. frame[t] \in AnyFrame /\ frame[t].act \in {"yield", "stop"} /\ frame[t].ret \in Outside
    BY DEF Types, AnyFrame, Plain, Extra
  <2> QED BY <2>1 DEF AnyFrame, Frame
<1>3. \A c \in Core : handler[c] \in Call
  <2> SUFFICES ASSUME NEW c \in Core PROVE handler[c] \in Call
    OBVIOUS
  <2>1. handler[c] \in AnyCall /\ NoCall \in Call
    BY ThreadAssumption DEF Types, NoCall, Call, TCB
  <2>2. CASE Pending(c)
    <3>1. handler[c].act # "down"
      BY <2>1, <2>2 DEF CallsOK, Plain, AnyCall
    <3> QED BY <2>1, <3>1 DEF AnyCall, Call
  <2> QED BY <2>1, <2>2 DEF Pending
<1> QED
  BY <1>1, <1>2, <1>3 DEF TypeOK, Types

(* No step of Threads calls down(), or reaches a label of HeapLock. *)
LEMMA PlainInv ==
    ASSUME NEW P, IInv(P), Plain, NEW c \in Core, ThreadStep(c) PROVE Plain'
<1> USE DEF IInv
<1> DEFINE t == Me(c)
           Step(l, f) == pc' = [pc EXCEPT ![t] = l] /\ frame' = [frame EXCEPT ![t] = f]
<1>1. t \in TCB /\ frame[t] \in AnyFrame /\ activeThreads[c] \in TCB
  BY DEF Types, Me
<1>2. frame[t].act # "down" /\ frame[t].ret \notin Extra /\ pc[t] \notin Extra
  BY <1>1 DEF Plain
<1>3. \A l \in InBlock \cup {"away", "boot", "work", "stop", "reap", "delete", "spawn", "yield"} : l \notin Extra
  BY DEF Extra, Outside, InBlock, Labels
<1> HIDE DEF t
<1>4. ASSUME NEW l, NEW f, l \notin Extra, f.act # "down", f.ret \notin Extra, Step(l, f)
      PROVE  Plain'
  <2> SUFFICES ASSUME NEW x \in TCB
               PROVE  pc'[x] \notin Extra /\ frame'[x].act # "down" /\ frame'[x].ret \notin Extra
    BY DEF Plain
  <2>1. CASE x = t
    BY <1>1, <1>4, <2>1 DEF Types
  <2>2. CASE x # t
    <3>1. pc'[x] = pc[x] /\ frame'[x] = frame[x]
      BY <1>1, <1>4, <2>2 DEF Types
    <3> QED BY <3>1 DEF Plain
  <2> QED BY <2>1, <2>2
<1>5. frame = [frame EXCEPT ![t] = frame[t]]
  BY <1>1 DEF Types
<1>6. CASE PickReady(c) \/ PickIdle(c)
  <2>1. PICK x \in TCB : /\ pc' = [pc EXCEPT ![t] = "mark"]
                         /\ frame' = [frame EXCEPT ![t].next = x]
    <3>1. ASSUME PickReady(c) PROVE Head(readyQ) \in TCB
      BY <3>1 DEF PickReady, Types, TCB
    <3>2. ASSUME PickIdle(c) PROVE idleThreads[frame[t].core_id] \in TCB
      BY <1>1, IdleFacts DEF AnyFrame, TCB
    <3> QED BY <3>1, <3>2, <1>6 DEF PickReady, PickIdle, Goto, t
  <2> DEFINE g == [frame[t] EXCEPT !.next = x]
  <2>2. frame' = [frame EXCEPT ![t] = g]
    BY <2>1, <1>1 DEF Types
  <2>3. g.act = frame[t].act /\ g.ret = frame[t].ret
    BY <1>1, FrameNext
  <2> HIDE DEF g
  <2> QED BY <2>1, <2>2, <2>3, <1>2, <1>3, <1>4 DEF InBlock
<1>7. CASE PickReturn(c) \/ YieldHandler(c) \/ StopHandler(c)
  <2>1. Step(frame[t].ret, frame[t])
    BY <1>5, <1>7 DEF PickReturn, YieldHandler, StopHandler, Resume, Goto, t
  <2> QED BY <2>1, <1>2, <1>4
<1>8. CASE Mark(c) \/ Activate(c)
  <2>1. Step("activate", frame[t]) \/ Step("switch", frame[t])
    BY <1>5, <1>8 DEF Mark, Activate, Goto, t
  <2> QED BY <2>1, <1>2, <1>3, <1>4 DEF InBlock
<1>9. CASE ContextSwitch(c)
  <2>1. Step("away", Spent(frame[t]))
    BY <1>9 DEF ContextSwitch, Goto, t
  <2>2. Spent(frame[t]).act = frame[t].act /\ Spent(frame[t]).ret = frame[t].ret
    BY <1>1 DEF Spent, AnyFrame
  <2> QED BY <2>1, <2>2, <1>2, <1>3, <1>4
<1>10. CASE ReaperYield(c) \/ Stop(c) \/ Tick(c)
  <2>1. PICK opt, act, ret, iff : act # "down" /\ ret \notin Extra /\ Block(c, opt, act, ret, iff)
    <3>1. ASSUME Tick(c) PROVE pc[t] \notin Extra /\ Block(c, "CanReturn", "yield", pc[t], TRUE)
      BY <3>1, <1>2 DEF Tick, t
    <3> QED BY <1>3, <1>10, <3>1 DEF ReaperYield, Stop
  <2> DEFINE g == NewFrame(c, activeThreads[c], opt, act, ret, iff)
  <2>2. Step("pick", g)
    BY <2>1 DEF Block, Goto, t
  <2>3. g.act = act /\ g.ret = ret
    BY DEF NewFrame
  <2> HIDE DEF g
  <2> QED BY <2>1, <2>2, <2>3, <1>3, <1>4 DEF InBlock
<1>11. CASE Boot(c) \/ RemoveZombie(c) \/ NoZombie(c) \/ CallThread(c) \/ Finish(c)
  <2>1. PICK l : l \notin Extra /\ pc' = [pc EXCEPT ![t] = l]
    BY <1>3, <1>11 DEF Boot, RemoveZombie, NoZombie, CallThread, Finish, Goto, t
  <2>2. frame' = frame
    BY <1>11 DEF Boot, RemoveZombie, NoZombie, CallThread, Finish
  <2> QED BY <2>1, <2>2, <1>2, <1>4, <1>5
<1>12. CASE Deletes(c)
  <2>1. "reap" \notin Extra /\ "free" \notin Extra
    BY DEF Extra, Outside, Labels
  <2> QED BY <1>12, <2>1 DEF Deletes, DeleteZombieAt, Plain
<1>13. CASE Spawns(c)
  <2>1. PICK x \in Thread :
          /\ pc' = [pc EXCEPT ![x] = "away", ![t] = IF t \in Idle THEN "stop" ELSE "work"]
          /\ frame' = [frame EXCEPT ![x] = FirstFrame(x, "work")]
    BY <1>13 DEF Spawns, SpawnAt, t
  <2>2. FirstFrame(x, "work").act = "yield" /\ FirstFrame(x, "work").ret = "work"
    BY DEF FirstFrame, NewFrame
  <2>3. \A y \in TCB : /\ pc'[y] \in {pc[y], "away", "stop", "work"}
                       /\ frame'[y] = frame[y] \/ frame'[y] = FirstFrame(x, "work")
    BY <2>1, <1>1 DEF Types
  <2> QED BY <2>2, <2>3, <1>3 DEF Plain
<1> QED
  BY <1>6, <1>7, <1>8, <1>9, <1>10, <1>11, <1>12, <1>13 DEF ThreadStep, InBlockStep

(* Every reachable state of Threads satisfies it. *)
THEOREM ThreadsInductive == Spec => []KInv
<1>1. Init => KInv
  <2>1. Init => Plain
    BY DEF Init, Plain, Extra, Outside, Labels, FirstFrame, NewFrame
  <2> QED BY <2>1, InitJInv DEF KInv
<1>2. KInv /\ [Next]_vars => KInv'
  <2> SUFFICES ASSUME KInv, [Next]_vars PROVE KInv'
    OBVIOUS
  <2>1. JInv({}) /\ Plain /\ IInv({})
    BY DEF KInv, JInv
  <2>2. CASE UNCHANGED vars
    <3>1. Plain'
      BY <2>1, <2>2 DEF Plain, vars
    <3> QED BY <2>1, <2>2, <3>1, StutterJInv DEF KInv
  <2>3. ASSUME NEW c \in Core, ThreadStep(c) PROVE KInv'
    BY <2>1, <2>3, StepJInv, PlainInv DEF KInv
  <2> QED BY <2>2, <2>3, NextSteps
<1> QED
  BY <1>1, <1>2, PTL DEF Spec

-----------------------------------------------------------------------------
(* The properties of a state of Threads *)

(* Threads' state keeps its types, whatever the number of cores and        *)
(* threads, and an idle thread is never queued.                            *)
THEOREM TypeCorrect == Spec => []TypeOK
<1>1. KInv => TypeOK
  BY PlainTypes DEF KInv
<1> QED
  BY <1>1, ThreadsInductive, PTL

(* block() never migrates between its read of core_id and the switch.      *)
THEOREM StaysOnItsCore == Spec => []BlockStaysOnItsCore
<1>1. KInv => BlockStaysOnItsCore
  <2> SUFFICES ASSUME KInv, NEW c \in Core
               PROVE  LET t == Me(c) IN
                      IF At(c, "switch")
                      THEN /\ frame[t].core_id = c /\ frame[t].me = t
                           /\ activeThreads[c] = frame[t].next
                           /\ tss[c] = frame[t].next
                      ELSE /\ activeThreads[c] = t
                           /\ tss[c] = t
                           /\ handler[c] = NoCall /\ pc[t] \in InBlock
                                 => frame[t].core_id = c /\ frame[t].me = t
    BY DEF BlockStaysOnItsCore
  <2>1. pc[Me(c)] = "switch" => ~Pending(c)
    BY DEF KInv, JInv, IInv, CoresOK, Me
  <2> QED BY <2>1 DEF KInv, JInv, IInv, FramesOK, ActiveOK, At, Me, Pending, InBlock
<1> QED
  BY <1>1, ThreadsInductive, PTL

(* What threads.h asserts of an idle thread that looks for work holds for  *)
(* every number of cores.                                                  *)
THEOREM IdleAssertsHold == Spec => []IdleAsserts
<1>1. KInv => IdleAsserts
  <2> SUFFICES ASSUME KInv, NEW c \in Core, At(c, "pick"), frame[Me(c)].me \in Idle
               PROVE  LET f == frame[Me(c)] IN
                      /\ f.core_id = c
                      /\ interrupts[c]
                      /\ f.me = idleThreads[f.core_id]
                      /\ f.me = activeThreads[f.core_id]
    BY DEF IdleAsserts
  <2>1. ~Pending(c) /\ onCore[c] = Me(c) /\ pc[Me(c)] = "pick"
    BY DEF At, Pending, Me
  <2>2. frame[Me(c)].core_id = c /\ frame[Me(c)].me = Me(c) /\ activeThreads[c] = Me(c)
    BY <2>1 DEF KInv, JInv, IInv, FramesOK, ActiveOK, InBlock
  <2>3. Me(c) = idleThreads[c]
    BY <2>1, <2>2 DEF KInv, JInv, IInv, CoresOK
  <2>4. interrupts[c]
    BY <2>1, <2>2 DEF KInv, JInv, IdleOK, InBlock
  <2> QED BY <2>2, <2>3, <2>4
<1> QED
  BY <1>1, ThreadsInductive, PTL

(* However many threads return from block() with no_preempt set, some core *)
(* can still be taken from its thread, as long as the reaper waits for     *)
(* nobody (see module HeapLock for when it does).                          *)
THEOREM NotAllHeld == Spec => []SomeCorePreemptible
<1>1. KInv => SomeCorePreemptible
  <2> SUFFICES ASSUME KInv PROVE SomeCorePreemptible
    OBVIOUS
  <2>1. PICK c \in Core : ~Held(c)
    BY IdleFacts DEF KInv, JInv, CoreFree, ReaperWaits, Plain, TCB
  <2>2. Unpreemptible(c) => Held(c)
    <3> SUFFICES ASSUME Unpreemptible(c) PROVE Held(c)
      OBVIOUS
    <3>1. handler[c] = NoCall /\ pc[onCore[c]] = "work" /\ no_preempt[onCore[c]] /\ onCore[c] \in TCB
      BY DEF Unpreemptible, Me, KInv, JInv, IInv, Types
    <3>2. onCore[c] \in Thread \ {Reaper}
      BY <3>1, IdleFacts DEF KInv, JInv, IdleOK, ReaperOK, Loop, Blocked, InBlock
    <3> QED BY <3>1, <3>2 DEF Held, Pending, Labels
  <2> QED BY <2>1, <2>2 DEF SomeCorePreemptible
<1> QED
  BY <1>1, ThreadsInductive, PTL

(* A TCB is in one place at a time, and in none exactly when it is free.   *)
THEOREM NotTwoPlaces == Spec => []OnePlace
<1>1. KInv => OnePlace
  <2> SUFFICES ASSUME KInv PROVE OnePlace
    OBVIOUS
  <2>1. IInv({})
    BY DEF KInv, JInv
  <2> QED BY <2>1, PlacesApart, FreeNowhere, NowhereFree DEF OnePlace
<1> QED
  BY <1>1, ThreadsInductive, PTL

(* Interrupts are off while a lambda of block() runs, and on again outside *)
(* block().                                                                *)
THEOREM InterruptsRestored == Spec => []InterruptDiscipline
<1>1. KInv => InterruptDiscipline
  <2> SUFFICES ASSUME KInv, NEW c \in Core
               PROVE  IF handler[c] = NoCall
                      THEN pc[Me(c)] \notin InBlock => interrupts[c]
                      ELSE /\ ~interrupts[c]
                           /\ pc[Me(c)] = "away"
                           /\ handler[c].prev # Me(c)
    BY DEF InterruptDiscipline
  <2>1. CASE Pending(c)
    <3>1. handler[c].prev # onCore[c]
      BY <2>1 DEF KInv, JInv, IInv, CallsOK, Away, OffCore
    <3> QED BY <2>1, <3>1 DEF KInv, JInv, IInv, CoresOK, InterruptsOK, Pending, Me
  <2>2. CASE ~Pending(c)
    BY <2>2 DEF KInv, JInv, IInv, CoresOK, InterruptsOK, Pending, Me, Running
  <2> QED BY <2>1, <2>2
<1> QED
  BY <1>1, ThreadsInductive, PTL

-----------------------------------------------------------------------------
(* Steps of Threads *)

(* A thread that called stop() never gets a core again. *)
THEOREM StoppedForGood == Spec => StopIsFinal
<1>1. KInv /\ [Next]_vars =>
        [\A t \in Thread : pc[t] = "away" /\ frame[t].opt = "MustBlock"
                             => pc'[t] \in {"away", "free"}]_vars
  <2> SUFFICES ASSUME KInv, [Next]_vars, NEW t \in Thread,
                      pc[t] = "away", frame[t].opt = "MustBlock", pc'[t] # pc[t]
               PROVE  pc'[t] = "free"
    BY DEF vars
  <2>1. PICK c \in Core : ThreadStep(c)
    BY NextSteps DEF vars
  <2>2. t \in TCB /\ IInv({}) /\ frame[t].act # "down"
    BY DEF TCB, KInv, JInv, Plain
  <2>3. CASE t = Me(c)
    <3>1. Pending(c)
      BY <2>2, <2>3 DEF IInv, CoresOK, Running, Labels, InBlock, Me
    <3>2. frame[t].act = "yield"
      BY <2>2, <2>3, <3>1 DEF KInv, JInv, ResumedOK, Me, IInv, Types, AnyFrame
    <3> QED BY <2>2, <3>2 DEF IInv, FramesOK, Blocked
  <2> QED BY <2>1, <2>2, <2>3, OwnPc
<1> QED
  BY <1>1, ThreadsInductive, PTL DEF Spec, StopIsFinal

-----------------------------------------------------------------------------
(* Refinement *)

(* The abstract sets ready and ended hold the threads that are away. *)
LEMMA OffAway ==
    ASSUME NEW act
    PROVE /\ Off(act) = {x \in Thread : Away(x) /\ frame[x].act = act}
          /\ Off(act)' = {x \in Thread : Away(x)' /\ frame'[x].act = act}
  BY DEF Off, Away, OffCore, Runs

(* A step that switches no core and makes or deletes no thread. *)
LEMMA QuietStep ==
    ASSUME NEW P, IInv(P), NEW c \in Core, ThreadStep(c),
           ~ContextSwitch(c), ~Spawns(c), ~Deletes(c)
    PROVE UNCHANGED Abstract!vars
<1> USE DEF IInv
<1>1. onCore' = onCore
  BY DEF ThreadStep, InBlockStep, PickReady, PickReturn, PickIdle, Mark, Activate,
     YieldHandler, StopHandler, ReaperYield, Stop, Boot, RemoveZombie, NoZombie, Tick,
     CallThread, Finish, cpu
<1>2. \A x \in TCB : x # Me(c) => /\ pc'[x] = pc[x]
                                  /\ pc[x] # "free" => frame'[x] = frame[x]
  <2> SUFFICES ASSUME NEW x \in TCB, x # Me(c)
               PROVE  pc'[x] = pc[x] /\ (pc[x] # "free" => frame'[x] = frame[x])
    OBVIOUS
  <2>1. \/ \E l : pc' = [pc EXCEPT ![Me(c)] = l]
        \/ UNCHANGED pc
    BY DEF ThreadStep, InBlockStep, PickReady, PickReturn, PickIdle, Mark, Activate,
       YieldHandler, StopHandler, Resume, ReaperYield, Stop, Block, Boot, RemoveZombie,
       NoZombie, Tick, CallThread, Finish, Goto
  <2>2. pc'[x] = pc[x]
    BY <2>1 DEF Types
  <2>3. x \in corpse[Me(c)] => pc[x] = "away"
    BY DEF CorpsesOK, Away, Types, Me
  <2> QED BY <2>2, <2>3, OwnPc
<1>3. \A x \in Thread : /\ Away(x)' <=> Away(x)
                        /\ Away(x) => frame'[x] = frame[x]
  BY <1>1, <1>2 DEF Away, OffCore, Me, TCB
<1>4. ASSUME NEW act PROVE Off(act)' = Off(act)
  BY <1>3, OffAway
<1> QED
  BY <1>1, <1>4 DEF Abstract!vars

(* A context switch is Switch: the thread that is left is ready or has     *)
(* ended from now on, though no queue holds it yet.                        *)
LEMMA SwitchStep ==
    ASSUME NEW P, IInv(P), Plain, NEW c \in Core, ContextSwitch(c)
    PROVE \E u \in Thread \cup Idle : Abstract!Switch(c, u)
<1> DEFINE t == Me(c)
           f == frame[t]
           n == f.next
<1> USE DEF IInv
<1>1. /\ t \in TCB /\ t = onCore[c] /\ pc[t] = "switch" /\ f \in AnyFrame /\ n \in TCB
      /\ f.me = t /\ f.core_id = c /\ f = frame[t] /\ n = f.next
  BY DEF ContextSwitch, At, Me, Types, AnyFrame, FramesOK, InBlock
<1>2. /\ Away(n) /\ n # t
      /\ n \in Thread => frame[n].act = "yield"
      /\ n \in Idle => n = idleThreads[c]
  <2>1. Away(n) /\ (n \in Thread => frame[n].act # "stop") /\ (n \in Idle => n = idleThreads[c])
    BY <1>1 DEF NextOK, Chosen
  <2>2. frame[n].act \in {"yield", "stop"}
    BY <1>1 DEF Types, AnyFrame, Plain
  <2> QED BY <2>1, <2>2, <1>1 DEF Away
<1>3. /\ onCore' = [onCore EXCEPT ![c] = n]
      /\ pc' = [pc EXCEPT ![t] = "away"]
      /\ frame' = [frame EXCEPT ![t] = Spent(f)]
  BY DEF ContextSwitch, Goto
<1>4. f.act \in {"yield", "stop"} /\ Spent(f).act = f.act
  BY <1>1 DEF AnyFrame, Spent, Plain
<1>5. t \in Idle => t = idleThreads[c] /\ f.act = "stop"
  BY <1>1 DEF CoresOK, FramesOK, Blocked, InBlock
<1> HIDE DEF t, f, n
<1>6. /\ pc'[t] = "away" /\ frame'[t].act = f.act
      /\ \A x \in TCB : x # t => pc'[x] = pc[x] /\ frame'[x] = frame[x]
      /\ onCore'[c] = n /\ \A d \in Core : d # c => onCore'[d] = onCore[d] /\ onCore[d] # t
  BY <1>1, <1>3, <1>4 DEF Types, CoresOK
<1>7. \A x \in TCB : Away(x)' <=> (x = t \/ (Away(x) /\ x # n))
  <2>1. \A x \in TCB : x = n => ~Away(x)'
    BY <1>6 DEF Away, OffCore
  <2>2. \A x \in TCB : x = t => Away(x)'
    BY <1>2, <1>6 DEF Away, OffCore
  <2>3. \A x \in TCB : x # t /\ x # n => (Away(x)' <=> Away(x))
    BY <1>1, <1>6 DEF Away, OffCore
  <2> QED BY <1>1, <1>2, <2>1, <2>2, <2>3
<1>8. ~Away(t)
  BY <1>1 DEF Away
<1>9. \A act, x : x \in Off(act)' <=> \/ x \in Off(act) /\ x # n
                                      \/ x = t /\ t \in Thread /\ f.act = act
  <2> SUFFICES ASSUME NEW act, NEW x \in Thread
               PROVE  Away(x)' /\ frame'[x].act = act
                        <=> \/ Away(x) /\ frame[x].act = act /\ x # n
                            \/ x = t /\ f.act = act
    BY OffAway
  <2>1. x \in TCB
    BY DEF TCB
  <2> QED BY <2>1, <1>6, <1>7, <1>8
<1>10. n \in Thread => n \in Off("yield")
  BY <1>2, OffAway
<1>11. n \notin Off("stop")
  BY <1>2, OffAway
<1>12. CASE t \in Thread /\ f.act = "yield"
  <2>1. Off("yield")' = (Off("yield") \ {n}) \cup {t} /\ Off("stop")' = Off("stop")
    BY <1>9, <1>11, <1>12
  <2>2. n \in Off("yield") \cup {idleThreads[c]} /\ n \in Thread \cup Idle
    BY <1>1, <1>2, <1>10 DEF TCB
  <2>3. Abstract!Switch(c, n)
    BY <2>1, <2>2, <1>1, <1>2, <1>3, <1>12 DEF Abstract!Switch
  <2> QED BY <2>2, <2>3
<1>13. CASE t \in Thread /\ f.act = "stop"
  <2>1. Off("yield")' = Off("yield") \ {n} /\ Off("stop")' = Off("stop") \cup {t}
    BY <1>9, <1>11, <1>13
  <2>2. n \in Off("yield") \cup {idleThreads[c]} /\ n \in Thread \cup Idle
    BY <1>1, <1>2, <1>10 DEF TCB
  <2>3. Abstract!Switch(c, n)
    BY <2>1, <2>2, <1>1, <1>2, <1>3, <1>13 DEF Abstract!Switch
  <2> QED BY <2>2, <2>3
<1>14. CASE t \in Idle
  <2>1. Off("yield")' = Off("yield") \ {n} /\ Off("stop")' = Off("stop")
    <3>1. t \notin Thread
      BY <1>1, <1>14, IdleFacts
    <3> QED BY <3>1, <1>9, <1>11
  <2>2. n \in Off("yield") \cup {idleThreads[c]} /\ n \in Thread \cup Idle
    BY <1>1, <1>2, <1>10 DEF TCB
  <2>3. Abstract!Switch(c, n)
    BY <2>1, <2>2, <1>1, <1>2, <1>3, <1>5, <1>14 DEF Abstract!Switch
  <2> QED BY <2>2, <2>3
<1> QED
  BY <1>1, <1>4, <1>12, <1>13, <1>14 DEF TCB

(* thread() is Create. *)
LEMMA CreateStep ==
    ASSUME NEW P, IInv(P), NEW c \in Core, Spawns(c)
    PROVE \E x \in Thread : Abstract!Create(x)
<1> USE DEF IInv
<1>1. PICK x \in Thread :
        /\ pc[x] = "free"
        /\ pc' = [pc EXCEPT ![x] = "away", ![Me(c)] = IF Me(c) \in Idle THEN "stop" ELSE "work"]
        /\ frame' = [frame EXCEPT ![x] = FirstFrame(x, "work")]
  BY DEF Spawns, SpawnAt
<1>2. onCore' = onCore /\ x \in TCB /\ Me(c) \in TCB /\ pc[Me(c)] \in {"spawn", "new"}
  BY DEF Spawns, SpawnAt, cpu, TCB, Types, Me, At
<1>3. \A d \in Core : onCore[d] # x
  BY <1>1 DEF CoresOK, Running, Labels, InBlock
<1>4. FirstFrame(x, "work").act = "yield"
  BY DEF FirstFrame, NewFrame
<1>5. /\ pc'[x] = "away" /\ frame'[x].act = "yield"
      /\ \A y \in TCB : y # x => frame'[y] = frame[y] /\ (pc'[y] = "away" <=> pc[y] = "away")
  BY <1>1, <1>2, <1>4 DEF Types
<1>6. Away(x)' /\ ~Away(x) /\ \A y \in TCB : y # x => (Away(y)' <=> Away(y))
  BY <1>1, <1>2, <1>3, <1>5 DEF Away, OffCore
<1>7. \A y \in Thread : \A act : Away(y)' /\ frame'[y].act = act
                                 <=> (Away(y) /\ frame[y].act = act) \/ (y = x /\ act = "yield")
  BY <1>5, <1>6 DEF TCB
<1>8. Off("yield")' = Off("yield") \cup {x} /\ Off("stop")' = Off("stop")
  <2>1. Off("yield")' = Off("yield") \cup {x}
    <3>1. \A y \in Thread : y \in Off("yield")' <=> y \in Off("yield") \/ y = x
      BY <1>7, OffAway
    <3>2. Off("yield")' \subseteq Thread /\ Off("yield") \subseteq Thread
      BY DEF Off
    <3> QED BY <3>1, <3>2
  <2>2. Off("stop")' = Off("stop")
    <3>1. \A y \in Thread : Away(y)' /\ frame'[y].act = "stop" <=> Away(y) /\ frame[y].act = "stop"
      BY <1>7
    <3> QED BY <3>1, OffAway
  <2> QED BY <2>1, <2>2
<1>9. x \notin Off("yield") \cup Off("stop") \cup Abstract!Running
  BY <1>3, <1>6, OffAway DEF Abstract!Running
<1>10. Abstract!Create(x)
  BY <1>2, <1>8, <1>9 DEF Abstract!Create
<1> QED BY <1>10

(* The delete of delete_zombies() is Delete. *)
LEMMA DeleteStep ==
    ASSUME NEW P, JInv(P), NEW c \in Core, Deletes(c)
    PROVE (\E x \in Thread : Abstract!Delete(x)) \/ UNCHANGED Abstract!vars
<1> DEFINE t == Me(c)
<1> USE DEF JInv, IInv
<1>1. t \in TCB /\ t = onCore[c] /\ pc[t] \in Deleting
  BY DEF Deletes, DeleteZombieAt, At, Me, Types, Deleting
<1>2. /\ pc' = [x \in TCB |-> IF x = t THEN "reap" ELSE IF x \in corpse[t] THEN "free" ELSE pc[x]]
      /\ UNCHANGED <<onCore, frame>>
  BY DEF Deletes, DeleteZombieAt, cpu
<1>3. \A x \in corpse[t] : x \in Thread /\ x \in TCB /\ Away(x) /\ frame[x].act = "stop"
  BY <1>1 DEF CorpsesOK, Types
<1> HIDE DEF t
<1>4. \A x \in TCB : Away(x)' <=> Away(x) /\ x \notin corpse[t]
  BY <1>1, <1>2 DEF Away, OffCore
<1>5. \A act, x : x \in Off(act)' <=> x \in Off(act) /\ x \notin corpse[t]
  BY <1>2, <1>4, OffAway DEF TCB
<1>6. Off("yield")' = Off("yield")
  <2>1. \A x \in Thread : Away(x)' /\ frame'[x].act = "yield" <=> Away(x) /\ frame[x].act = "yield"
    BY <1>2, <1>3, <1>4 DEF TCB
  <2> QED BY <2>1, OffAway
<1>7. CASE corpse[t] = {}
  <2>1. \A x \in Thread : Away(x)' /\ frame'[x].act = "stop" <=> Away(x) /\ frame[x].act = "stop"
    BY <1>2, <1>4, <1>7 DEF TCB
  <2>2. Off("stop")' = Off("stop")
    BY <2>1, OffAway
  <2> QED BY <2>2, <1>2, <1>6 DEF Abstract!vars
<1>8. CASE corpse[t] # {}
  <2>1. PICK x \in corpse[t] : TRUE
    BY <1>8
  <2>2. x \in Off("stop") /\ x \in Thread
    BY <1>3, OffAway
  <2>3. \A y \in corpse[t] : y = x
    BY <1>1, <1>3 DEF OneCorpse
  <2>4. Off("stop")' = Off("stop") \ {x}
    BY <1>5, <2>3
  <2>5. Abstract!Delete(x)
    BY <1>2, <1>6, <2>2, <2>4 DEF Abstract!Delete
  <2> QED BY <2>2, <2>5
<1> QED BY <1>7, <1>8

(* The scheduler implements its abstract specification, whatever the       *)
(* number of cores and threads.                                            *)
THEOREM Refines == Spec => ImplementsScheduler
<1>1. Init => Abstract!Init
  <2> SUFFICES ASSUME Init PROVE Abstract!Init
    OBVIOUS
  <2>1. IInv({})
    BY InitInv
  <2>2. \A x \in Thread : Away(x) <=> x = Reaper
    BY IdleFacts DEF Init, Away, OffCore, TCB
  <2>3. frame[Reaper].act = "yield"
    BY IdleFacts DEF Init, FirstFrame, NewFrame, TCB
  <2>4. Off("yield") = {Reaper} /\ Off("stop") = {}
    BY <2>2, <2>3, OffAway, IdleFacts
  <2> QED BY <2>4 DEF Init, Abstract!Init
<1>2. KInv /\ [Next]_vars => [Abstract!Next]_Abstract!vars
  <2> SUFFICES ASSUME KInv, [Next]_vars PROVE [Abstract!Next]_Abstract!vars
    OBVIOUS
  <2>1. IInv({}) /\ JInv({}) /\ Plain
    BY DEF KInv, JInv
  <2>2. CASE UNCHANGED vars
    <3>1. UNCHANGED <<onCore, pc, frame>>
      BY <2>2 DEF vars, cpu
    <3> QED BY <3>1 DEF Abstract!vars, Off, Runs
  <2>3. CASE Next
    <3>1. PICK c \in Core : ThreadStep(c)
      BY <2>3, NextSteps
    <3>2. CASE ContextSwitch(c)
      BY <2>1, <3>2, SwitchStep DEF Abstract!Next, Abstract!Idle, Idle
    <3>3. CASE Spawns(c)
      BY <2>1, <3>3, CreateStep DEF Abstract!Next
    <3>4. CASE Deletes(c)
      BY <2>1, <3>4, DeleteStep DEF Abstract!Next
    <3> QED BY <2>1, <3>1, <3>2, <3>3, <3>4, QuietStep
  <2> QED BY <2>2, <2>3
<1> QED
  BY <1>1, <1>2, ThreadsInductive, PTL DEF Spec, ImplementsScheduler, Abstract!Spec

-----------------------------------------------------------------------------
(* Semaphores *)

(* The moves of a call of down() and up() between labels. *)
CanDown(l, m) ==
    \/ l = "work" /\ m \in {"work", "heap"}
    \/ l = "delete" /\ m = "freeing"
    \/ l = "spawn" /\ m = "alloc"

CanUp(l, w, m) ==
    \/ l = "work" /\ w = "wake" /\ m = "work"
    \/ l = "heap" /\ w = "heapwake" /\ m = "work"
    \/ l = "freeing" /\ w = "freewake" /\ m = "freed"
    \/ l = "alloc" /\ w = "allocwake" /\ m = "new"

(* What the invariant asks of a move. *)
Works == {"work", "wake", "heap", "heapwake"}

Move(l, m) ==
    /\ l \in Labels /\ m \in Labels \ {"yield"}
    /\ l \in Deleting => m \in Deleting
    /\ l \in Loop => m \in Loop
    /\ m \in Works => l \in Works

(* down() and up() make such moves. *)
LEMMA DownMoves == ASSUME NEW l, NEW m, CanDown(l, m) PROVE Move(l, m)
  BY DEF CanDown, Move, Labels, Deleting, Loop, Works

(* ... and so does a call of up(), past w or not. *)
LEMMA UpMoves == ASSUME NEW l, NEW w, NEW m, CanUp(l, w, m)
                 PROVE Move(l, w) /\ Move(l, m) /\ Move(w, m)
  BY DEF CanUp, Move, Labels, Deleting, Loop, Works

(* A move of core c keeps what JInv adds to IInv. *)
LEMMA MoveRest ==
    ASSUME NEW P, JInv(P), NEW c \in Core, NEW l, NEW m, Move(l, m), At(c, l),
           Goto(Me(c), m),
           UNCHANGED <<onCore, interrupts, no_preempt, frame, corpse, handler>>
    PROVE ResumedOK' /\ OneCorpse' /\ IdleOK' /\ ReaperOK' /\ CoreFree'
<1> DEFINE t == onCore[c]
<1> USE DEF JInv
<1>1. t \in TCB /\ pc[t] = l /\ ~Pending(c) /\ pc' = [pc EXCEPT ![t] = m]
  BY DEF IInv, Types, At, Me, Pending, Goto
<1>2. l \in Labels /\ m \in Labels /\ l \notin Blocked /\ m \notin Blocked /\ m \notin InBlock
  BY DEF Move, Labels, Blocked, InBlock
<1>3. \A d \in Core : onCore[d] \in TCB /\ (d # c => onCore[d] # t)
  BY DEF IInv, Types, CoresOK
<1>4. \A x \in TCB : pc'[x] = IF x = t THEN m ELSE pc[x]
  BY <1>1 DEF IInv, Types
<1>5. onCore[c] = t
  OBVIOUS
<1> HIDE DEF t
<1>6. ResumedOK' /\ OneCorpse'
  BY DEF ResumedOK, OneCorpse, Pending
<1>7. IdleOK'
  <2>1. \A d \in Core : pc'[onCore[d]] \in InBlock => pc[onCore[d]] \in InBlock
    BY <1>2, <1>3, <1>4
  <2>2. \A i \in Idle : pc'[i] \notin Works
    BY <1>1, <1>4 DEF IdleOK, Works, Move, TCB
  <2> QED BY <2>1, <2>2 DEF IdleOK, Pending, Works
<1>8. Reaper \in TCB
  BY IdleFacts DEF TCB
<1>9. ReaperOK'
  BY <1>1, <1>2, <1>4, <1>8 DEF ReaperOK, Move
<1>10. ReaperWaits => ReaperWaits'
  BY <1>1, <1>2, <1>4, <1>8 DEF ReaperWaits
<1>11. \A d \in Core : Held(d)' => Held(d)
  BY <1>1, <1>2, <1>3, <1>4, <1>5 DEF Held, Pending
<1> QED
  BY <1>6, <1>7, <1>9, <1>10, <1>11 DEF CoreFree

(* A call of down() or up() that changes no queue. *)
LEMMA MoveJInv ==
    ASSUME NEW P, JInv(P), NEW c \in Core, NEW l, NEW m, Move(l, m), At(c, l),
           Goto(Me(c), m),
           UNCHANGED <<cpu, no_preempt, frame, corpse, handler, queues>>
    PROVE JInv(P)'
<1>1. handler[c] = NoCall /\ pc[Me(c)] = l /\ l \in Labels /\ m \in Labels /\ m # "yield"
  BY DEF At, Move
<1>2. IInv(P)'
  BY <1>1, GotoInv DEF Move, JInv
<1> QED
  BY <1>2, MoveRest DEF JInv, cpu

(* A call of down() that blocks.  No idle thread's does, which is for the  *)
(* callers to show.                                                        *)
LEMMA DownBlockJInv ==
    ASSUME NEW P, JInv(P), NEW c \in Core, NEW l, NEW m, Move(l, m), At(c, l),
           Me(c) \notin Idle,
           Block(c, "MustBlock", "down", m, interrupts[c]),
           interrupts' = [interrupts EXCEPT ![c] = FALSE],
           UNCHANGED <<onCore, activeThreads, tss, corpse, handler, queues>>
    PROVE JInv(P)'
<1> DEFINE t == onCore[c]
<1> USE DEF JInv
<1>1. t \in TCB /\ pc[t] = l /\ ~Pending(c) /\ t = Me(c)
  BY DEF IInv, Types, At, Me, Pending
<1>2. l \in Labels /\ m \in Labels /\ l \notin Blocked /\ l \notin InBlock
      /\ l \notin {"switch"}
  BY DEF Move, Labels, Blocked, InBlock
<1>3. interrupts[c] = TRUE /\ activeThreads[c] = t
  BY <1>1, <1>2 DEF IInv, InterruptsOK, ActiveOK, Types
<1>4. IInv(P)'
  BY <1>1, <1>2, <1>3, BlockInv DEF At, Move
<1>5. \A d \in Core : onCore[d] \in TCB /\ (d # c => onCore[d] # t)
  BY DEF IInv, Types, CoresOK
<1>6. onCore[c] = t
  OBVIOUS
<1> DEFINE fr == NewFrame(c, t, "MustBlock", "down", m, TRUE)
<1>7. /\ pc' = [pc EXCEPT ![t] = "pick"]
      /\ frame' = [frame EXCEPT ![t] = fr]
      /\ no_preempt' = [no_preempt EXCEPT ![t] = TRUE]
  BY <1>1, <1>3 DEF Block, Goto
<1>8. fr.act = "down" /\ fr.ret = m
  BY DEF NewFrame
<1> HIDE DEF t, fr
<1>9. \A x \in TCB : IF x = t THEN pc'[x] = "pick" /\ frame'[x] = fr
                     ELSE /\ pc'[x] = pc[x] /\ frame'[x] = frame[x]
                          /\ no_preempt'[x] = no_preempt[x]
  BY <1>1, <1>7 DEF IInv, Types
<1>10. ResumedOK' /\ OneCorpse'
  BY <1>1, <1>5, <1>6, <1>9 DEF ResumedOK, OneCorpse, Pending
<1>11. \A d \in Core : d # c => interrupts'[d] = interrupts[d]
  BY DEF IInv, Types
<1>12. IdleOK'
  <2>1. \A d \in Core : ~Pending(d)' /\ onCore'[d] \in Idle /\ pc'[onCore'[d]] \in InBlock
                          => interrupts'[d]
    BY <1>1, <1>5, <1>6, <1>9, <1>11 DEF IdleOK, Pending
  <2>2. \A i \in Idle : pc'[i] \notin {"work", "wake", "heap", "heapwake"}
    BY <1>1, <1>9 DEF IdleOK, TCB
  <2> QED BY <2>1, <2>2 DEF IdleOK
<1>13. Reaper \in TCB
  BY IdleFacts DEF TCB
<1>14. ReaperOK'
  BY <1>1, <1>2, <1>8, <1>9, <1>13 DEF ReaperOK, Move, Blocked, InBlock
<1>15. ReaperWaits => ReaperWaits'
  BY <1>1, <1>2, <1>9, <1>13 DEF ReaperWaits
<1>16. \A d \in Core : Held(d)' => Held(d)
  <2>1. "pick" \notin Labels
    BY DEF Labels
  <2> QED BY <2>1, <1>5, <1>6, <1>9 DEF Held, Pending
<1> QED
  BY <1>4, <1>10, <1>12, <1>14, <1>15, <1>16 DEF CoreFree

(* A lambda that has returned keeps what JInv adds to IInv. *)
LEMMA ResumeRest ==
    ASSUME NEW P, JInv(P), NEW c \in Core, Pending(c), Resume(c),
           UNCHANGED <<onCore, activeThreads, tss, no_preempt, frame, corpse>>
    PROVE ResumedOK' /\ OneCorpse' /\ IdleOK' /\ ReaperOK' /\ CoreFree'
<1> DEFINE t == onCore[c]
<1> USE DEF JInv, IInv
<1>1. t \in TCB /\ pc[t] = "away" /\ (t \in Idle => frame[t].ret = "stop")
      /\ frame[t].iff /\ frame[t].ret \in Labels
  BY DEF CoresOK, Types, FramesOK, Blocked, AnyFrame
<1>2. \A d \in Core : onCore[d] \in TCB /\ (d # c => onCore[d] # t /\ interrupts'[d] = interrupts[d])
  BY DEF Types, CoresOK, Resume
<1>3. onCore[c] = t /\ interrupts'[c]
  BY <1>1 DEF Resume, Me, Types
<1>4. \A y \in TCB : pc'[y] = IF y = t THEN frame[t].ret ELSE pc[y]
  BY <1>1 DEF Resume, Goto, Me, Types
<1>5. \A d \in Core : /\ Pending(d)' <=> Pending(d) /\ d # c
                      /\ d # c => handler'[d] = handler[d]
  <2>1. handler'[c] = NoCall /\ \A d \in Core : d # c => handler'[d] = handler[d]
    BY DEF Resume, Types
  <2> QED BY <2>1 DEF Pending
<1>11. UNCHANGED onCore /\ UNCHANGED no_preempt /\ UNCHANGED frame /\ UNCHANGED corpse
  OBVIOUS
<1> HIDE DEF t
<1>6. ResumedOK' /\ OneCorpse'
  BY <1>5, <1>11 DEF ResumedOK, OneCorpse
<1>7. IdleOK'
  <2>1. \A i \in Idle : pc'[i] \notin {"work", "wake", "heap", "heapwake"}
    BY <1>1, <1>4 DEF IdleOK, TCB
  <2>2. \A d \in Core : ~Pending(d)' /\ onCore'[d] \in Idle /\ pc'[onCore'[d]] \in InBlock
                          => interrupts'[d]
    BY <1>2, <1>3, <1>4, <1>5, <1>11 DEF IdleOK
  <2> QED BY <2>1, <2>2 DEF IdleOK
<1>8. Reaper \in TCB
  BY IdleFacts DEF TCB
<1>9. ReaperOK'
  BY <1>1, <1>4, <1>8 DEF ReaperOK, Blocked
<1>10. ~Held(c)'
  BY <1>3 DEF Held, ResumedOK
<1> QED
  BY <1>6, <1>7, <1>9, <1>10 DEF CoreFree

(* The lambda of down(): the thread that was left waits. *)
LEMMA DownHandlerJInv ==
    ASSUME NEW P, JInv(P), NEW c \in Core, NEW x, x = handler[c].prev,
           handler[c].act = "down", Resume(c),
           UNCHANGED <<onCore, activeThreads, tss, no_preempt, frame, corpse, queues>>
    PROVE JInv(P \cup {x})' /\ x \in Thread /\ x \notin P
<1> DEFINE Q == P \cup {x}
<1> USE DEF JInv, IInv
<1>1. Pending(c)
  BY DEF Pending, NoCall
<1>2. x \in TCB /\ Away(x) /\ frame[x].act = "down"
  BY <1>1 DEF CallsOK, Types, AnyCall
<1>3. x \in Thread
  BY <1>2, IdleFacts DEF FramesOK, Away, Blocked
<1>4. x \notin P
  BY <1>1 DEF ParkedOK
<1>5. /\ UNCHANGED <<onCore, frame, corpse, no_preempt, readyQ, zombies>>
      /\ readyQ \in Seq(Thread) /\ zombies \in Seq(Thread)
  BY DEF queues, Types
<1>6. /\ Types' /\ CoresOK' /\ FramesOK' /\ ActiveOK' /\ InterruptsOK' /\ CallsOK'
      /\ NextOK' /\ CorpsesOK'
      /\ \A y \in TCB : /\ Away(y)' <=> Away(y)
                        /\ pc'[y] \in Chosen <=> pc[y] \in Chosen
      /\ \A d \in Core : /\ Pending(d)' <=> Pending(d) /\ d # c
                         /\ d # c => handler'[d] = handler[d]
  BY <1>1, <1>5, ResumeInv
<1>7. ReadyOK' /\ ZombiesOK'
  BY <1>5, <1>6 DEF ReadyOK, ZombiesOK, TCB
<1>8. \A d \in Core : Pending(d)' => handler'[d].prev # x
  BY <1>1, <1>6 DEF CallsOK
<1>9. ParkedOK(Q)'
  <2>1. \A i \in 1 .. Len(readyQ) : readyQ[i] # x
    BY <1>1 DEF ReadyOK
  <2>2. \A y \in TCB : pc[y] \in Chosen => frame[y].next # x
    BY <1>1 DEF NextOK
  <2>3. \A y \in P : /\ y \in Thread /\ Away(y) /\ frame[y].act = "down"
                     /\ \A i \in 1 .. Len(readyQ) : readyQ[i] # y
                     /\ \A u \in TCB : pc[u] \in Chosen => frame[u].next # y
                     /\ \A d \in Core : Pending(d) => handler[d].prev # y
    BY DEF ParkedOK
  <2> SUFFICES ASSUME NEW y \in Q
               PROVE  /\ y \in Thread /\ Away(y)' /\ frame[y].act = "down"
                      /\ \A i \in 1 .. Len(readyQ) : readyQ[i] # y
                      /\ \A u \in TCB : pc'[u] \in Chosen => frame[u].next # y
                      /\ \A d \in Core : Pending(d)' => handler'[d].prev # y
    BY <1>5 DEF ParkedOK
  <2> QED BY <2>1, <2>2, <2>3, <1>2, <1>3, <1>6, <1>8 DEF TCB
<1>10. NoneLost(Q)'
  <2> SUFFICES ASSUME NEW y \in Thread, Away(y)
               PROVE \/ \E i \in 1 .. Len(readyQ) : readyQ[i] = y
                     \/ \E i \in 1 .. Len(zombies) : zombies[i] = y
                     \/ \E u \in TCB : pc'[u] \in Chosen /\ frame[u].next = y
                     \/ \E d \in Core : Pending(d)' /\ handler'[d].prev = y
                     \/ \E u \in TCB : y \in corpse[u]
                     \/ y \in Q
    BY <1>5, <1>6 DEF NoneLost, TCB
  <2>1. CASE \E u \in TCB : pc[u] \in Chosen /\ frame[u].next = y
    BY <2>1, <1>6
  <2>2. CASE \E d \in Core : Pending(d) /\ handler[d].prev = y
    BY <2>2, <1>6
  <2> QED BY <2>1, <2>2 DEF NoneLost
<1> HIDE DEF Q
<1>11. ResumedOK' /\ OneCorpse' /\ IdleOK' /\ ReaperOK' /\ CoreFree'
  BY <1>1, ResumeRest
<1> QED
  BY <1>3, <1>4, <1>6, <1>7, <1>9, <1>10, <1>11 DEF Q

(* A lambda that finds that the thread that was left need not wait. *)
LEMMA LateHandlerJInv ==
    ASSUME NEW P, JInv(P), NEW c \in Core, handler[c].act = "down",
           Schedule(handler[c].prev), Resume(c),
           UNCHANGED <<onCore, activeThreads, tss, no_preempt, frame, corpse, zombies>>
    PROVE JInv(P)'
<1>1. Pending(c)
  BY DEF Pending, NoCall
<1>2. IInv(P)'
  BY ReadyHandlerInv DEF JInv
<1> QED
  BY <1>1, <1>2, ResumeRest DEF JInv

(* schedule(next) of up(): a thread that waited is ready. *)
LEMMA WakeJInv ==
    ASSUME NEW P, JInv(P), NEW c \in Core, NEW l, NEW m, Move(l, m), At(c, l),
           Goto(Me(c), m), NEW x \in P, Schedule(x),
           UNCHANGED <<cpu, no_preempt, frame, corpse, handler, zombies>>
    PROVE JInv(P \ {x})'
<1> DEFINE t == onCore[c]
           q == readyQ'
           Q == P \ {x}
<1> USE DEF JInv, IInv
<1>1. x \in Thread /\ x \in TCB /\ x \notin Idle /\ Away(x) /\ frame[x].act = "down"
  BY IdleFacts DEF ParkedOK, TCB
<1>2. q = Append(readyQ, x) /\ readyQ \in Seq(Thread) /\ zombies \in Seq(Thread)
  BY <1>1 DEF Schedule, Types
<1> HIDE DEF q
<1>3. /\ q \in Seq(Thread) /\ Len(readyQ) \in Nat
      /\ Len(readyQ) + 1 \in 1 .. Len(q) /\ q[Len(readyQ) + 1] = x
      /\ \A i \in 1 .. Len(readyQ) : i \in 1 .. Len(q) /\ q[i] = readyQ[i]
      /\ \A i \in 1 .. Len(q) : i \in 1 .. Len(readyQ) \/ i = Len(readyQ) + 1
  BY <1>1, <1>2, AppendFacts
<1>4. UNCHANGED <<onCore, activeThreads, tss, interrupts, no_preempt, frame, corpse, handler, zombies>>
  BY DEF cpu
<1>5. t \in TCB /\ pc[t] = l /\ ~Pending(c) /\ pc' = [pc EXCEPT ![t] = m]
  BY DEF Types, At, Me, Pending, Goto
<1>6. /\ l \in Labels /\ m \in Labels
      /\ l \notin {"away", "free", "pick", "mark", "activate", "switch"}
      /\ m \notin {"away", "free", "pick", "mark", "activate", "switch"}
      /\ l \in Deleting => m \in Deleting
  BY DEF Move, Labels
<1>7. ResumedOK' /\ OneCorpse' /\ IdleOK' /\ ReaperOK' /\ CoreFree'
  BY <1>4, MoveRest
<1>8. \A d \in Core : onCore[d] \in TCB /\ (d # c => onCore[d] # t)
  BY DEF Types, CoresOK
<1>9. onCore[c] = t
  OBVIOUS
<1> HIDE DEF t
<1>10. \A y \in TCB : (y # t /\ pc'[y] = pc[y]) \/ (y = t /\ pc'[y] = m)
  BY <1>5 DEF Types
<1>11. Types'
  BY <1>3, <1>4, <1>5, <1>6 DEF Types, q
<1>12. CoresOK'
  <2>1. m # "yield"
    BY DEF Move
  <2> QED BY <2>1, <1>4, <1>5, <1>6, <1>8, <1>9, <1>10 DEF CoresOK, Pending, Running, TCB
<1>13. FramesOK' /\ ActiveOK'
  BY <1>4, <1>5, <1>6, <1>8, <1>9, <1>10 DEF FramesOK, ActiveOK, Blocked, InBlock
<1>14. InterruptsOK'
  BY <1>4, <1>5, <1>6, <1>8, <1>9, <1>10 DEF InterruptsOK, Pending
<1>15. \A y \in TCB : /\ Away(y)' <=> Away(y)
                      /\ pc'[y] \in Chosen <=> pc[y] \in Chosen
  BY <1>4, <1>5, <1>6, <1>9, <1>10 DEF Away, OffCore, Chosen
<1>16. CallsOK'
  BY <1>4, <1>15 DEF CallsOK, Pending, Types, AnyCall
<1>17. NextOK'
  BY <1>4, <1>15 DEF NextOK, Pending, Types, AnyFrame
<1>18. ZombiesOK'
  <2>1. \A i \in 1 .. Len(zombies) : zombies[i] \in TCB
    BY <1>2 DEF TCB
  <2> QED BY <2>1, <1>4, <1>15 DEF ZombiesOK, Pending
<1>19. CorpsesOK'
  BY <1>4, <1>5, <1>6, <1>10, <1>15 DEF CorpsesOK, Pending, Where, InBlock, TCB
<1>20. \A i \in 1 .. Len(readyQ) : readyQ[i] \in TCB /\ readyQ[i] # x
  BY <1>2 DEF ParkedOK, TCB
<1>21. ReadyOK'
  <2>1. \A i \in 1 .. Len(q), y \in TCB : q[i] = y => Away(y)' /\ frame[y].act # "stop"
    BY <1>1, <1>3, <1>15, <1>20 DEF ReadyOK
  <2>2. \A i, j \in 1 .. Len(q) : q[i] = q[j] => i = j
    BY <1>3, <1>20 DEF ReadyOK
  <2>3. \A i \in 1 .. Len(q), d \in Core : Pending(d) => handler[d].prev # q[i]
    BY <1>3 DEF ReadyOK, ParkedOK
  <2>4. \A i \in 1 .. Len(q), y \in TCB : pc'[y] \in Chosen => frame[y].next # q[i]
    BY <1>3, <1>15 DEF ReadyOK, ParkedOK
  <2>5. \A i \in 1 .. Len(q) : q[i] \in TCB
    BY <1>3 DEF TCB
  <2> QED BY <2>1, <2>2, <2>3, <2>4, <2>5, <1>4 DEF ReadyOK, Pending, q
<1>22. NoneLost(Q)'
  <2> SUFFICES ASSUME NEW y \in Thread, Away(y)
               PROVE \/ \E i \in 1 .. Len(q) : q[i] = y
                     \/ \E i \in 1 .. Len(zombies) : zombies[i] = y
                     \/ \E u \in TCB : pc'[u] \in Chosen /\ frame[u].next = y
                     \/ \E d \in Core : Pending(d) /\ handler[d].prev = y
                     \/ \E u \in TCB : y \in corpse[u]
                     \/ y \in Q
    BY <1>4, <1>15 DEF NoneLost, Pending, TCB, q
  <2>1. CASE \E i \in 1 .. Len(readyQ) : readyQ[i] = y
    BY <2>1, <1>3
  <2>2. CASE \E u \in TCB : pc[u] \in Chosen /\ frame[u].next = y
    BY <2>2, <1>15
  <2>3. CASE y = x
    BY <2>3, <1>3
  <2> QED BY <2>1, <2>2, <2>3 DEF NoneLost
<1>23. ParkedOK(Q)'
  <2> SUFFICES ASSUME NEW y \in Q
               PROVE  /\ y \in Thread /\ Away(y)' /\ frame[y].act = "down"
                      /\ \A i \in 1 .. Len(q) : q[i] # y
                      /\ \A u \in TCB : pc'[u] \in Chosen => frame[u].next # y
                      /\ \A d \in Core : Pending(d) => handler[d].prev # y
    BY <1>4 DEF ParkedOK, Pending, q
  <2>1. y \in P /\ y # x
    OBVIOUS
  <2>2. \A i \in 1 .. Len(q) : q[i] # y
    BY <2>1, <1>3 DEF ParkedOK
  <2> QED BY <2>1, <2>2, <1>15 DEF ParkedOK, TCB
<1> HIDE DEF Q
<1> QED
  BY <1>7, <1>11, <1>12, <1>13, <1>14, <1>16, <1>17, <1>18, <1>19, <1>21, <1>22, <1>23 DEF Q

-----------------------------------------------------------------------------
(* Semaphore: its lock, its queue and the threads up() has removed. *)

(* Where up() has removed a thread, and where a thread is in or past a     *)
(* call of down() or up(): no step of Threads leads to these labels or     *)
(* away from them.                                                         *)
Wakes == {"wake", "heapwake", "freewake", "allocwake"}
Far == Wakes \cup Within

(* The threads that wait for the semaphore, and those just removed. *)
Parked == {x \in Thread : \/ \E i \in 1 .. Len(waiting) : waiting[i] = x
                          \/ \E u \in TCB : x \in woken[u]}

SemTypes ==
    /\ waiting \in Seq(Thread)
    /\ taken \in BOOLEAN
    /\ woken \in [TCB -> SUBSET Thread]

LockOK == LockHeldBriefly /\ (taken => count = 0)

WaitOK ==
    /\ \A i, j \in 1 .. Len(waiting) : waiting[i] = waiting[j] => i = j
    /\ \A u \in TCB, i \in 1 .. Len(waiting) : waiting[i] \notin woken[u]
    /\ \A u, v \in TCB, x \in Thread : x \in woken[u] /\ x \in woken[v] => u = v
    /\ \A u \in TCB, x, y \in Thread : x \in woken[u] /\ y \in woken[u] => x = y
    /\ \A u \in TCB : woken[u] # {} => Where(u) \in Wakes

SInv == JInv(Parked) /\ SemTypes /\ LockOK /\ WaitOK

(* What a step of Threads does to the thread that takes it. *)
LEMMA OwnSteps ==
    ASSUME NEW P, IInv(P), NEW c \in Core, ThreadStep(c), NEW t, t = Me(c)
    PROVE \/ /\ handler[c] = NoCall
             /\ pc[t] \in InBlock /\ pc'[t] \in InBlock
             /\ frame'[t].act = frame[t].act /\ frame'[t].ret = frame[t].ret
             /\ UNCHANGED <<onCore, handler, interrupts>>
          \/ /\ handler[c] = NoCall /\ handler'[c].act = frame[t].act /\ handler'[c].prev = t
             /\ \A d \in Core : d # c => handler'[d] = handler[d] /\ onCore'[d] = onCore[d]
             /\ pc[t] \in InBlock /\ pc'[t] = "away" /\ ~interrupts'[c]
             /\ frame'[t].act = frame[t].act /\ frame'[t].ret = frame[t].ret
          \/ /\ pc[t] = "pick" /\ pc'[t] = frame[t].ret
             /\ frame[t].act = "yield" /\ UNCHANGED <<onCore, handler, frame>>
          \/ /\ handler[c].act \in {"yield", "stop"}
             /\ handler' = [handler EXCEPT ![c] = NoCall]
             /\ pc[t] = "away" /\ pc'[t] = frame[t].ret
             /\ UNCHANGED <<onCore, frame>>
          \/ /\ handler[c] = NoCall /\ UNCHANGED <<onCore, handler>>
             /\ pc[t] \in Labels /\ pc'[t] = "pick" /\ frame'[t].act # "down"
             /\ frame'[t].ret # pc[t] => pc[t] \notin Far /\ frame'[t].ret \notin Far
          \/ /\ handler[c] = NoCall /\ UNCHANGED <<onCore, handler>>
             /\ pc[t] \in Labels \ Far /\ pc'[t] \in Labels \ Far
             /\ frame'[t] = frame[t]
<1> USE DEF IInv
<1>1. t \in TCB /\ t = onCore[c] /\ frame[t] \in AnyFrame
  BY DEF Types, Me
<1>2. \A l : pc' = [pc EXCEPT ![t] = l] => pc'[t] = l
  BY <1>1 DEF Types
<1>3. CASE PickReady(c) \/ PickIdle(c)
  <2>1. PICK x \in TCB : frame' = [frame EXCEPT ![t].next = x]
    <3>1. ASSUME PickReady(c) PROVE Head(readyQ) \in TCB
      BY <3>1 DEF PickReady, Types, TCB
    <3>2. ASSUME PickIdle(c) PROVE idleThreads[frame[t].core_id] \in TCB
      BY <1>1, IdleFacts DEF AnyFrame, TCB
    <3> QED BY <3>1, <3>2, <1>3 DEF PickReady, PickIdle
  <2>2. frame'[t] = [frame[t] EXCEPT !.next = x]
    BY <2>1, <1>1 DEF Types
  <2>3. frame'[t].act = frame[t].act /\ frame'[t].ret = frame[t].ret
    BY <1>1, <2>2, FrameNext
  <2>4. handler[c] = NoCall /\ pc[t] = "pick" /\ pc'[t] = "mark"
        /\ UNCHANGED <<onCore, handler, interrupts>>
    BY <1>2, <1>3 DEF PickReady, PickIdle, At, Goto, cpu
  <2> QED BY <2>3, <2>4 DEF InBlock
<1>4. CASE Mark(c) \/ Activate(c)
  <2>1. handler[c] = NoCall /\ pc[t] \in InBlock /\ pc'[t] \in InBlock /\ frame' = frame
        /\ UNCHANGED <<onCore, handler, interrupts>>
    BY <1>2, <1>4 DEF Mark, Activate, At, Goto, InBlock, cpu
  <2> QED BY <2>1
<1>5. CASE ContextSwitch(c)
  <2>1. frame'[t] = Spent(frame[t])
    BY <1>1, <1>5 DEF ContextSwitch, Types
  <2>2. frame'[t].act = frame[t].act /\ frame'[t].ret = frame[t].ret
    BY <1>1, <2>1 DEF Spent, AnyFrame
  <2>3. handler[c] = NoCall /\ pc[t] = "switch" /\ pc'[t] = "away" /\ ~interrupts'[c]
    BY <1>2, <1>5 DEF ContextSwitch, At, Goto, Types
  <2>4. frame[t].me = t
    BY <1>1, <2>3 DEF FramesOK, InBlock
  <2>5. /\ handler'[c] = [act |-> frame[t].act, prev |-> t]
        /\ \A d \in Core : d # c => handler'[d] = handler[d] /\ onCore'[d] = onCore[d]
    BY <1>5, <2>4 DEF ContextSwitch, Types
  <2> QED BY <2>2, <2>3, <2>5 DEF InBlock
<1>6. CASE PickReturn(c)
  <2>1. pc[t] = "pick" /\ pc'[t] = frame[t].ret /\ UNCHANGED <<onCore, handler, frame>>
        /\ frame[t].opt = "CanReturn"
    BY <1>2, <1>6 DEF PickReturn, At, Goto
  <2> QED BY <1>1, <2>1 DEF FramesOK, Blocked, InBlock
<1>7. CASE YieldHandler(c) \/ StopHandler(c)
  <2>1. Pending(c)
    BY <1>7 DEF YieldHandler, StopHandler, Pending, NoCall
  <2>2. pc[t] = "away"
    BY <1>1, <2>1 DEF CoresOK
  <2> QED BY <1>2, <1>7, <2>2 DEF YieldHandler, StopHandler, Resume, Goto
<1>8. CASE ReaperYield(c) \/ Stop(c) \/ Tick(c)
  <2>1. ASSUME Tick(c) PROVE handler[c] = NoCall /\ pc[t] \in Labels
    <3>1. ~Pending(c)
      BY <2>1 DEF Tick, InterruptsOK
    <3>2. pc[t] \in Running
      BY <3>1, <1>1 DEF CoresOK
    <3>3. pc[t] \notin InBlock
      BY <2>1, <1>1 DEF Tick, ActiveOK, InBlock
    <3> QED BY <3>1, <3>2, <3>3 DEF Running, Pending
  <2>2. PICK opt, act, ret, iff :
          /\ act # "down" /\ (ret # pc[t] => pc[t] \notin Far /\ ret \notin Far)
          /\ Block(c, opt, act, ret, iff)
    <3>1. "stop" \notin Far /\ "yield" \notin Far /\ "reap" \notin Far
      BY DEF Far, Wakes, Within
    <3>2. ASSUME ReaperYield(c)
          PROVE  pc[t] = "yield" /\ Block(c, "CanReturn", "yield", "reap", interrupts[c])
      BY <3>2 DEF ReaperYield, At
    <3>3. ASSUME Stop(c)
          PROVE  pc[t] = "stop" /\ Block(c, "MustBlock", "stop", "stop", interrupts[c])
      BY <3>3 DEF Stop, At
    <3>4. ASSUME Tick(c) PROVE  Block(c, "CanReturn", "yield", pc[t], TRUE)
      BY <3>4 DEF Tick
    <3> QED BY <3>1, <3>2, <3>3, <3>4, <1>8
  <2>3. handler[c] = NoCall /\ pc[t] \in Labels
    BY <2>1, <1>8 DEF ReaperYield, Stop, At, Labels
  <2>4. pc'[t] = "pick" /\ frame'[t] = NewFrame(c, activeThreads[c], opt, act, ret, iff)
    BY <1>1, <1>2, <2>2 DEF Block, Goto, Types
  <2>5. frame'[t].act = act /\ frame'[t].ret = ret
    BY <2>4 DEF NewFrame
  <2>6. UNCHANGED <<onCore, handler>>
    BY <1>8 DEF ReaperYield, Stop, Tick, cpu
  <2> QED BY <2>2, <2>3, <2>4, <2>5, <2>6
<1>9. \A l \in {"boot", "work", "stop", "reap", "delete", "spawn", "yield", "freed", "new"} :
        l \in Labels \ Far
  BY DEF Labels, Far, Wakes, Within
<1>10. CASE RemoveZombie(c) \/ NoZombie(c) \/ Boot(c) \/ CallThread(c) \/ Finish(c)
  <2>1. PICK l \in {"boot", "work", "stop", "reap", "delete", "spawn", "yield"} :
          pc' = [pc EXCEPT ![t] = l]
    BY <1>10 DEF RemoveZombie, NoZombie, Boot, CallThread, Finish, Goto
  <2>2. handler[c] = NoCall /\ pc[t] \in {"boot", "work", "reap"}
        /\ UNCHANGED <<onCore, handler, frame>>
    BY <1>10 DEF RemoveZombie, NoZombie, Boot, CallThread, Finish, At, cpu
  <2> QED BY <1>2, <1>9, <2>1, <2>2
<1>11. CASE Deletes(c)
  <2>1. handler[c] = NoCall /\ pc[t] \in {"delete", "freed"} /\ pc'[t] = "reap"
        /\ UNCHANGED <<onCore, handler, frame>>
    BY <1>1, <1>11 DEF Deletes, DeleteZombieAt, At, cpu
  <2> QED BY <1>9, <2>1
<1>12. CASE Spawns(c)
  <2>1. PICK x \in Thread :
          /\ pc[x] = "free"
          /\ pc' = [pc EXCEPT ![x] = "away", ![t] = IF t \in Idle THEN "stop" ELSE "work"]
          /\ frame' = [frame EXCEPT ![x] = FirstFrame(x, "work")]
    BY <1>12 DEF Spawns, SpawnAt
  <2>2. handler[c] = NoCall /\ pc[t] \in {"spawn", "new"} /\ UNCHANGED <<onCore, handler>>
    BY <1>12 DEF Spawns, SpawnAt, At, cpu
  <2>3. pc'[t] \in {"stop", "work"} /\ frame'[t] = frame[t]
    BY <1>1, <2>1, <2>2 DEF Types
  <2> QED BY <1>9, <2>2, <2>3
<1> QED
  BY <1>3, <1>4, <1>5, <1>6, <1>7, <1>8, <1>10, <1>11, <1>12 DEF ThreadStep, InBlockStep

(* A thread that is in or past a call of down() or up() stays there while  *)
(* threads are switched.                                                   *)
LEMMA FarStep ==
    ASSUME NEW P, IInv(P), NEW c \in Core, ThreadStep(c), NEW x \in TCB,
           Where(x) \in Far \/ Where(x)' \in Far
    PROVE Where(x)' = Where(x)
<1> USE DEF IInv
<1>1. "free" \notin Far /\ "work" \notin Far /\ "stop" \notin Far
  BY DEF Far, Wakes, Within
<1>2. CASE x # Me(c)
  <2>1. CASE x \in Thread /\ pc[x] = "free" /\ pc'[x] = "away"
             /\ frame'[x] = FirstFrame(x, "work")
    <3>1. Where(x) = "free" /\ Where(x)' = "work"
      BY <2>1 DEF Where, InBlock, FirstFrame, NewFrame
    <3> QED BY <1>1, <3>1
  <2>2. CASE x \in corpse[Me(c)] /\ pc'[x] = "free"
    <3>1. Me(c) \in TCB
      BY DEF Types, Me
    <3>2. pc[x] = "away" /\ frame[x].act = "stop"
      BY <2>2, <3>1 DEF CorpsesOK, Away
    <3>3. frame[x].ret = "stop"
      BY <3>2 DEF FramesOK, Blocked
    <3>4. Where(x) = "stop" /\ Where(x)' = "free"
      BY <2>2, <3>2, <3>3 DEF Where, InBlock
    <3> QED BY <1>1, <3>4
  <2>3. CASE pc'[x] = pc[x] /\ (pc[x] # "free" => frame'[x] = frame[x])
    BY <2>3 DEF Where, InBlock
  <2> QED BY <1>2, <2>1, <2>2, <2>3, OwnPc
<1>3. CASE x = Me(c)
  <2>1. frame[x].ret \in Labels
    BY DEF Types, AnyFrame
  <2>2. \A l \in Labels : l \notin InBlock /\ l # "away"
    BY DEF Labels, InBlock
  <2> QED BY <1>3, <2>1, <2>2, OwnSteps DEF Where, InBlock
<1> QED BY <1>2, <1>3

(* The lock is held as before a step of Threads. *)
LEMMA LockThread ==
    ASSUME NEW P, IInv(P), NEW c \in Core, ThreadStep(c), LockOK, UNCHANGED semaphore
    PROVE LockOK'
<1> DEFINE t == Me(c)
<1> USE DEF IInv
<1>1. \A d \in Core : d # c => (InDown(d)' <=> InDown(d)) /\ interrupts'[d] = interrupts[d]
  BY Locality DEF InDown, Me
<1>2. t \in TCB /\ t = onCore[c] /\ frame[t].act \in {"yield", "stop", "down"}
      /\ frame[t].ret \in Labels /\ onCore[c] \in TCB
  BY DEF Types, Me, AnyFrame
<1>3. (Pending(c) => pc[t] = "away") /\ (handler[c].act = "down" => Pending(c))
  BY <1>2 DEF CoresOK, Pending, NoCall
<1>4. \A l \in Labels : l \notin InBlock /\ l # "away"
  BY DEF Labels, InBlock
<1>5. NoCall.act = "none" /\ "away" \notin InBlock /\ "pick" \in InBlock
  BY DEF NoCall, InBlock
<1>6. \/ UNCHANGED <<onCore, handler>>
      \/ UNCHANGED onCore /\ handler[c].act \in {"yield", "stop"}
         /\ handler' = [handler EXCEPT ![c] = NoCall]
      \/ handler'[c].act = frame[t].act
  BY OwnSteps
<1> HIDE DEF t
<1>7. handler[c].act # "down"
  <2>1. handler[c] = NoCall \/ handler[c].act \in {"yield", "stop"} \/ pc[t] = "pick"
    BY OwnSteps DEF t
  <2> QED BY <1>3, <1>5, <2>1
<1>8. InDown(c) <=> handler[c] = NoCall /\ pc[t] \in InBlock /\ frame[t].act = "down"
  BY <1>7 DEF InDown, t
<1>9. CASE ContextSwitch(c)
  <2>1. /\ handler[c] = NoCall /\ pc[t] \in InBlock
        /\ handler'[c].act = frame[t].act /\ ~interrupts'[c]
    <3>1. frame[t].me = t /\ pc[t] = "switch" /\ handler[c] = NoCall
      BY <1>2, <1>9 DEF ContextSwitch, At, FramesOK, InBlock, t
    <3> QED BY <1>2, <1>9, <3>1 DEF ContextSwitch, InBlock, Types, t
  <2>2. handler'[c] # NoCall
    BY <1>2, <1>5, <2>1
  <2>3. InDown(c)' <=> InDown(c)
    BY <1>8, <2>1, <2>2 DEF InDown
  <2> QED BY <1>1, <2>1, <2>3 DEF LockOK, LockHeldBriefly, semaphore
<1>10. CASE ~ContextSwitch(c)
  <2>1. onCore' = onCore /\ Me(c)' = t
    <3>1. onCore' = onCore
      BY <1>10 DEF ThreadStep, InBlockStep, PickReady, PickReturn, PickIdle, Mark, Activate,
         YieldHandler, StopHandler, ReaperYield, Stop, Boot, RemoveZombie, NoZombie,
         Deletes, DeleteZombieAt, Spawns, SpawnAt, Tick, CallThread, Finish, cpu
    <3> QED BY <3>1 DEF Me, t
  <2>2. ~Pending(c)'
    BY <1>10, SwitchSteps
  <2>3. InDown(c)' <=> pc'[t] \in InBlock /\ frame'[t].act = "down"
    BY <1>5, <2>1, <2>2 DEF InDown, Pending
  <2>4. pc'[t] # "away"
    BY <2>1, <2>2, StepInv, <1>2 DEF CoresOK, Pending, Running, Labels, InBlock
  <2>5. \/ handler[c] = NoCall /\ pc[t] \in InBlock /\ pc'[t] \in InBlock
           /\ frame'[t].act = frame[t].act /\ interrupts' = interrupts
        \/ pc[t] = "pick" /\ pc'[t] \in Labels /\ frame[t].act = "yield"
        \/ pc[t] = "away" /\ pc'[t] \in Labels
        \/ pc[t] \in Labels /\ pc'[t] = "pick" /\ frame'[t].act # "down"
        \/ pc[t] \in Labels /\ pc'[t] \in Labels
    BY <1>2, <2>4, OwnSteps DEF t
  <2>6. (InDown(c)' <=> InDown(c)) /\ (InDown(c) => interrupts' = interrupts)
    BY <1>4, <1>5, <1>8, <2>3, <2>5
  <2> QED BY <1>1, <2>6 DEF LockOK, LockHeldBriefly, semaphore
<1> QED BY <1>9, <1>10

(* What IInv says of the parked threads does not depend on how the set is  *)
(* written.                                                                *)
LEMMA SameParked == ASSUME NEW P, JInv(P)', Parked' = P PROVE JInv(Parked)'
  BY DEF JInv, IInv, ParkedOK, NoneLost

(* A step of Threads keeps the semaphore's invariant. *)
LEMMA ThreadSInv ==
    ASSUME SInv, NEW c \in Core, ThreadStep(c), UNCHANGED semaphore
    PROVE SInv'
<1>1. PICK P : P = Parked
  OBVIOUS
<1>2. JInv(P) /\ IInv(P)
  BY <1>1 DEF SInv, JInv, IInv, ParkedOK, NoneLost
<1>3. UNCHANGED <<count, waiting, taken, woken>>
  BY DEF semaphore
<1>4. JInv(Parked)'
  BY <1>1, <1>2, <1>3, StepJInv, SameParked DEF Parked
<1>5. LockOK'
  BY <1>2, LockThread DEF SInv
<1>6. \A u \in TCB : woken[u] # {} => Where(u)' \in Wakes
  BY <1>2, FarStep DEF SInv, WaitOK, Far
<1> QED BY <1>3, <1>4, <1>5, <1>6 DEF SInv, SemTypes, WaitOK

(* The invariant with the set of parked threads named. *)
LEMMA NameParked == SInv => \E P : P = Parked /\ JInv(P) /\ IInv(P) /\ P \subseteq Thread
<1> SUFFICES ASSUME SInv PROVE \E P : P = Parked /\ JInv(P) /\ IInv(P) /\ P \subseteq Thread
  OBVIOUS
<1>1. PICK P : P = Parked
  OBVIOUS
<1> QED BY <1>1 DEF SInv, JInv, IInv, ParkedOK, NoneLost, Parked

(* What a move does to the labels and to the calls of down(). *)
LEMMA MoveFacts ==
    ASSUME NEW P, IInv(P), NEW c \in Core, NEW l, NEW m, Move(l, m), At(c, l),
           Goto(Me(c), m), UNCHANGED <<cpu, frame, handler>>
    PROVE /\ Me(c) \in TCB /\ Where(Me(c)) = l
          /\ \A x \in TCB : Where(x)' = IF x = Me(c) THEN m ELSE Where(x)
          /\ \A x \in TCB : pc'[x] \in InBlock <=> pc[x] \in InBlock
          /\ \A d \in Core : InDown(d)' <=> InDown(d)
          /\ \A d \in Core : interrupts'[d] = interrupts[d]
<1> USE DEF IInv
<1>1. Me(c) \in TCB /\ pc[Me(c)] = l
  BY DEF Types, Me, At
<1>2. l \in Labels /\ m \in Labels /\ \A k \in Labels : k \notin InBlock /\ k # "away"
  BY DEF Move, Labels, InBlock
<1>3. \A x \in TCB : pc'[x] = IF x = Me(c) THEN m ELSE pc[x]
  BY <1>1 DEF Goto, Types
<1>4. \A d \in Core : Me(d) \in TCB /\ Me(d)' = Me(d)
  BY DEF Me, Types, cpu
<1> QED BY <1>1, <1>2, <1>3, <1>4 DEF Where, InDown, cpu

(* down() on a free semaphore. *)
LEMMA DownTakeSInv ==
    ASSUME SInv, NEW c \in Core, NEW l, NEW m, CanDown(l, m), DownTake(c, l, m)
    PROVE SInv'
<1>1. PICK P : P = Parked /\ JInv(P) /\ IInv(P)
  BY NameParked
<1>2. /\ At(c, l) /\ Goto(Me(c), m) /\ ~taken
      /\ UNCHANGED <<cpu, no_preempt, frame, corpse, handler, queues, waiting, taken, woken>>
  BY DEF DownTake
<1>3. Move(l, m) /\ l \notin Wakes
  BY DownMoves DEF CanDown, Wakes
<1>4. JInv(Parked)'
  BY <1>1, <1>2, <1>3, MoveJInv, SameParked DEF Parked
<1>5. /\ Me(c) \in TCB /\ Where(Me(c)) = l
      /\ \A x \in TCB : Where(x)' = IF x = Me(c) THEN m ELSE Where(x)
      /\ \A d \in Core : InDown(d)' <=> InDown(d)
      /\ \A d \in Core : interrupts'[d] = interrupts[d]
  BY <1>1, <1>2, <1>3, MoveFacts
<1>6. LockOK'
  BY <1>2, <1>5 DEF SInv, LockOK, LockHeldBriefly
<1>7. WaitOK'
  BY <1>2, <1>3, <1>5 DEF SInv, WaitOK
<1> QED BY <1>2, <1>4, <1>6, <1>7 DEF SInv, SemTypes

(* up() with nobody waiting. *)
LEMMA UpCountSInv ==
    ASSUME SInv, NEW c \in Core, NEW l, NEW w, NEW m, CanUp(l, w, m), UpCount(c, l, m)
    PROVE SInv'
<1>1. PICK P : P = Parked /\ JInv(P) /\ IInv(P)
  BY NameParked
<1>2. /\ At(c, l) /\ Goto(Me(c), m) /\ ~taken
      /\ UNCHANGED <<cpu, no_preempt, frame, corpse, handler, queues, waiting, taken, woken>>
  BY DEF UpCount
<1>3. Move(l, m) /\ l \notin Wakes
  BY UpMoves DEF CanUp, Wakes
<1>4. JInv(Parked)'
  BY <1>1, <1>2, <1>3, MoveJInv, SameParked DEF Parked
<1>5. /\ Me(c) \in TCB /\ Where(Me(c)) = l
      /\ \A x \in TCB : Where(x)' = IF x = Me(c) THEN m ELSE Where(x)
      /\ \A d \in Core : InDown(d)' <=> InDown(d)
      /\ \A d \in Core : interrupts'[d] = interrupts[d]
  BY <1>1, <1>2, <1>3, MoveFacts
<1>6. LockOK'
  BY <1>2, <1>5 DEF SInv, LockOK, LockHeldBriefly
<1>7. WaitOK'
  BY <1>2, <1>3, <1>5 DEF SInv, WaitOK
<1> QED BY <1>2, <1>4, <1>6, <1>7 DEF SInv, SemTypes

(* What waiting.remove() takes from the queue. *)
LEMMA TailFacts ==
    ASSUME NEW S, NEW s \in Seq(S), s # <<>>, NEW q, q = Tail(s)
    PROVE /\ q \in Seq(S) /\ Head(s) \in S /\ 1 \in 1 .. Len(s) /\ s[1] = Head(s)
          /\ \A i \in 1 .. Len(q) : i + 1 \in 1 .. Len(s) /\ q[i] = s[i + 1]
          /\ \A i \in 1 .. Len(s) : i = 1 \/ (i - 1 \in 1 .. Len(q) /\ q[i - 1] = s[i])
  BY HeadTailProperties

(* up() removes the thread that waited longest. *)
LEMMA UpRemoveSInv ==
    ASSUME SInv, NEW c \in Core, NEW l, NEW w, NEW m, CanUp(l, w, m), UpRemove(c, l, w)
    PROVE SInv'
<1> DEFINE h == Head(waiting)
           q == waiting'
<1>1. PICK P : P = Parked /\ JInv(P) /\ IInv(P)
  BY NameParked
<1>2. /\ At(c, l) /\ Goto(Me(c), w) /\ ~taken /\ waiting # <<>>
      /\ woken' = [woken EXCEPT ![Me(c)] = {h}] /\ q = Tail(waiting)
      /\ UNCHANGED <<cpu, no_preempt, frame, corpse, handler, queues, count, taken>>
  BY DEF UpRemove
<1>3. Move(l, w) /\ l \notin Wakes /\ w \in Wakes
  BY UpMoves DEF CanUp, Wakes
<1>4. /\ Me(c) \in TCB /\ Where(Me(c)) = l
      /\ \A x \in TCB : Where(x)' = IF x = Me(c) THEN w ELSE Where(x)
      /\ \A d \in Core : InDown(d)' <=> InDown(d)
      /\ \A d \in Core : interrupts'[d] = interrupts[d]
  BY <1>1, <1>2, <1>3, MoveFacts
<1>5. woken[Me(c)] = {} /\ woken \in [TCB -> SUBSET Thread] /\ waiting \in Seq(Thread)
  BY <1>3, <1>4 DEF SInv, WaitOK, SemTypes
<1>6. /\ q \in Seq(Thread) /\ h \in Thread /\ 1 \in 1 .. Len(waiting) /\ waiting[1] = h
      /\ \A i \in 1 .. Len(q) : i + 1 \in 1 .. Len(waiting) /\ q[i] = waiting[i + 1]
      /\ \A i \in 1 .. Len(waiting) : i = 1 \/ (i - 1 \in 1 .. Len(q) /\ q[i - 1] = waiting[i])
  BY <1>2, <1>5, TailFacts
<1> HIDE DEF h, q
<1>7. \A u \in TCB : woken'[u] = IF u = Me(c) THEN {h} ELSE woken[u]
  BY <1>2, <1>5
<1>8. Parked' = Parked
  <2>1. ASSUME NEW x \in Thread
        PROVE  (\E i \in 1 .. Len(q) : q[i] = x) \/ (\E u \in TCB : x \in woken'[u])
               <=> (\E i \in 1 .. Len(waiting) : waiting[i] = x) \/ (\E u \in TCB : x \in woken[u])
    <3>1. ASSUME NEW i \in 1 .. Len(q), q[i] = x
          PROVE  \E j \in 1 .. Len(waiting) : waiting[j] = x
      BY <3>1, <1>6
    <3>2. ASSUME NEW u \in TCB, x \in woken'[u]
          PROVE  (\E j \in 1 .. Len(waiting) : waiting[j] = x) \/ x \in woken[u]
      BY <3>2, <1>6, <1>7
    <3>3. ASSUME NEW i \in 1 .. Len(waiting), waiting[i] = x
          PROVE  (\E j \in 1 .. Len(q) : q[j] = x) \/ x \in woken'[Me(c)]
      BY <3>3, <1>4, <1>6, <1>7
    <3>4. ASSUME NEW u \in TCB, x \in woken[u] PROVE x \in woken'[u]
      BY <3>4, <1>5, <1>7
    <3> QED BY <3>1, <3>2, <3>3, <3>4, <1>4
  <2> QED BY <2>1 DEF Parked, q
<1>9. JInv(Parked)'
  BY <1>1, <1>2, <1>3, <1>8, MoveJInv, SameParked
<1>10. LockOK'
  BY <1>2, <1>4 DEF SInv, LockOK, LockHeldBriefly
<1>11. SemTypes'
  <2>1. woken' \in [TCB -> SUBSET Thread] /\ taken' \in BOOLEAN
    BY <1>2, <1>5, <1>6 DEF SInv, SemTypes
  <2> QED BY <2>1, <1>6 DEF SemTypes, q
<1>12. WaitOK'
  <2> USE DEF SInv, WaitOK
  <2>1. \A i, j \in 1 .. Len(q) : q[i] = q[j] => i = j
    BY <1>6
  <2>2. \A i \in 1 .. Len(q) : q[i] # h
    BY <1>6
  <2>3. \A u \in TCB : h \notin woken[u]
    BY <1>6
  <2>4. \A u \in TCB, i \in 1 .. Len(q) : q[i] \notin woken'[u]
    BY <2>2, <1>6, <1>7
  <2>5. \A u, v \in TCB, x \in Thread : x \in woken'[u] /\ x \in woken'[v] => u = v
    BY <2>3, <1>7
  <2>6. \A u \in TCB, x, y \in Thread : x \in woken'[u] /\ y \in woken'[u] => x = y
    BY <1>7
  <2>7. \A u \in TCB : woken'[u] # {} => Where(u)' \in Wakes
    BY <1>3, <1>4, <1>7
  <2> QED BY <2>1, <2>4, <2>5, <2>6, <2>7 DEF q
<1> QED BY <1>9, <1>10, <1>11, <1>12 DEF SInv

(* ... and schedules it. *)
LEMMA WakeSInv ==
    ASSUME SInv, NEW c \in Core, NEW l, NEW w, NEW m, CanUp(l, w, m), Wake(c, w, m)
    PROVE SInv'
<1>1. PICK P : P = Parked /\ JInv(P) /\ IInv(P) /\ P \subseteq Thread
  BY NameParked
<1>2. /\ At(c, w) /\ Goto(Me(c), m)
      /\ woken' = [woken EXCEPT ![Me(c)] = {}]
      /\ UNCHANGED <<cpu, no_preempt, frame, corpse, handler, zombies, count, waiting, taken>>
  BY DEF Wake
<1>3. PICK x \in woken[Me(c)] : Schedule(x)
  BY DEF Wake
<1>4. Move(w, m)
  BY UpMoves
<1>5. /\ Me(c) \in TCB
      /\ \A y \in TCB : Where(y)' = IF y = Me(c) THEN m ELSE Where(y)
      /\ \A d \in Core : InDown(d)' <=> InDown(d)
      /\ \A d \in Core : interrupts'[d] = interrupts[d]
  BY <1>1, <1>2, <1>4, MoveFacts
<1>6. woken \in [TCB -> SUBSET Thread] /\ waiting \in Seq(Thread)
  BY DEF SInv, SemTypes
<1>7. x \in Thread
  BY <1>5, <1>6
<1>8. \A u \in TCB : woken'[u] = IF u = Me(c) THEN {} ELSE woken[u]
  BY <1>2, <1>6
<1>9. x \in Parked
  BY <1>5, <1>7 DEF Parked
<1>10. Parked' = Parked \ {x}
  <2>1. ASSUME NEW y \in Thread
        PROVE  (\E i \in 1 .. Len(waiting) : waiting[i] = y) \/ (\E u \in TCB : y \in woken'[u])
               <=> y # x /\ ((\E i \in 1 .. Len(waiting) : waiting[i] = y)
                              \/ (\E u \in TCB : y \in woken[u]))
    <3>1. \A i \in 1 .. Len(waiting) : waiting[i] # x
      BY <1>5, <1>6 DEF SInv, WaitOK
    <3>2. \A u \in TCB : x \in woken[u] => u = Me(c)
      BY <1>5, <1>7 DEF SInv, WaitOK
    <3>3. y \in woken[Me(c)] => y = x
      BY <1>5, <1>7 DEF SInv, WaitOK
    <3> QED BY <3>1, <3>2, <3>3, <1>8
  <2> QED BY <2>1, <1>2 DEF Parked
<1>11. JInv(P \ {x})'
  BY <1>1, <1>2, <1>3, <1>4, <1>9, WakeJInv
<1>12. JInv(Parked)'
  BY <1>1, <1>10, <1>11, SameParked
<1>13. LockOK'
  BY <1>2, <1>5 DEF SInv, LockOK, LockHeldBriefly
<1>14. SemTypes'
  BY <1>2, <1>6 DEF SInv, SemTypes
<1>15. WaitOK'
  BY <1>2, <1>5, <1>8 DEF SInv, WaitOK
<1> QED BY <1>12, <1>13, <1>14, <1>15 DEF SInv

(* down() with nothing left takes the lock into block(). *)
LEMMA DownBlockSInv ==
    ASSUME SInv, NEW c \in Core, NEW l, NEW m, CanDown(l, m), DownBlock(c, l, m),
           Me(c) \notin Idle
    PROVE SInv'
<1> DEFINE t == Me(c)
<1>1. PICK P : P = Parked /\ JInv(P) /\ IInv(P)
  BY NameParked
<1>2. /\ At(c, l) /\ ~taken /\ count = 0 /\ taken'
      /\ interrupts' = [interrupts EXCEPT ![c] = FALSE]
      /\ Block(c, "MustBlock", "down", m, interrupts[c])
      /\ UNCHANGED <<onCore, activeThreads, tss, corpse, handler, queues, count, waiting, woken>>
  BY DEF DownBlock
<1>3. Move(l, m) /\ l \notin Wakes /\ l \in Labels /\ l \notin InBlock
  BY DownMoves DEF CanDown, Wakes, Labels, InBlock
<1>4. JInv(P)'
  BY <1>1, <1>2, <1>3, DownBlockJInv
<1>5. JInv(Parked)'
  BY <1>1, <1>2, <1>4, SameParked DEF Parked
<1>6. t \in TCB /\ t = onCore[c] /\ pc[t] = l /\ handler[c] = NoCall
  BY <1>1, <1>2 DEF IInv, Types, At, Me
<1> HIDE DEF t
<1>7. PICK fr : fr.act = "down" /\ frame' = [frame EXCEPT ![t] = fr]
  <2>1. frame' = [frame EXCEPT ![t] = NewFrame(c, activeThreads[c], "MustBlock", "down", m, interrupts[c])]
    BY <1>2 DEF Block, t
  <2> QED BY <2>1 DEF NewFrame
<1>8. pc' = [pc EXCEPT ![t] = "pick"]
  BY <1>2 DEF Block, Goto, t
<1>9. \A x \in TCB : /\ pc'[x] = IF x = t THEN "pick" ELSE pc[x]
                     /\ frame'[x] = IF x = t THEN fr ELSE frame[x]
  BY <1>1, <1>6, <1>7, <1>8 DEF IInv, Types
<1>10. \A d \in Core : onCore[d] \in TCB /\ (d # c => onCore[d] # t)
  BY <1>1, <1>6 DEF IInv, Types, CoresOK
<1>11. \A d \in Core : interrupts'[d] = IF d = c THEN FALSE ELSE interrupts[d]
  BY <1>1, <1>2 DEF IInv, Types
<1>12. LockOK'
  <2>1. \A d \in Core : ~InDown(d)
    BY <1>2 DEF SInv, LockOK, LockHeldBriefly
  <2>2. \A d \in Core : InDown(d)' <=> d = c
    <3>1. InDown(c)'
      BY <1>2, <1>6, <1>7, <1>9 DEF InDown, Me, InBlock
    <3>2. ASSUME NEW d \in Core, d # c PROVE InDown(d)' <=> InDown(d)
      BY <1>2, <1>9, <1>10, <3>2 DEF InDown, Me
    <3> QED BY <2>1, <3>1, <3>2
  <2> QED BY <2>2, <1>2, <1>11 DEF LockOK, LockHeldBriefly
<1>13. WaitOK'
  <2>1. woken[t] = {}
    BY <1>3, <1>6 DEF SInv, WaitOK, Where, Move, Labels, InBlock
  <2>2. \A x \in TCB : x # t => Where(x)' = Where(x)
    BY <1>9 DEF Where
  <2> QED BY <2>1, <2>2, <1>2, <1>6 DEF SInv, WaitOK
<1>14. SemTypes'
  BY <1>2 DEF SInv, SemTypes, DownBlock
<1> QED BY <1>5, <1>12, <1>13, <1>14 DEF SInv

(* The lambda of down() queues the thread and releases the lock. *)
LEMMA DownHandlerSInv ==
    ASSUME SInv, NEW c \in Core, DownHandler(c)
    PROVE /\ SInv'
          /\ handler[c].prev \in Thread
          /\ \A i \in 1 .. Len(waiting) : waiting[i] # handler[c].prev
<1> DEFINE t == Me(c)
           q == waiting'
<1>0. PICK x : x = handler[c].prev
  OBVIOUS
<1>1. PICK P : P = Parked /\ JInv(P) /\ IInv(P)
  BY NameParked
<1>2. /\ handler[c].act = "down" /\ Resume(c) /\ taken' = FALSE
      /\ q = Append(waiting, x)
      /\ UNCHANGED <<onCore, activeThreads, tss, no_preempt, frame, corpse, queues, count, woken>>
  BY <1>0 DEF DownHandler
<1> HIDE DEF q
<1>3. JInv(P \cup {x})' /\ x \in Thread /\ x \notin P
  BY <1>0, <1>1, <1>2, DownHandlerJInv
<1>4. waiting \in Seq(Thread) /\ woken \in [TCB -> SUBSET Thread] /\ taken \in BOOLEAN
  BY DEF SInv, SemTypes
<1>5. /\ q \in Seq(Thread) /\ Len(waiting) \in Nat
      /\ Len(waiting) + 1 \in 1 .. Len(q) /\ q[Len(waiting) + 1] = x
      /\ \A i \in 1 .. Len(waiting) : i \in 1 .. Len(q) /\ q[i] = waiting[i]
      /\ \A i \in 1 .. Len(q) : i \in 1 .. Len(waiting) \/ i = Len(waiting) + 1
  BY <1>2, <1>3, <1>4, AppendFacts
<1>6. /\ \A i \in 1 .. Len(waiting) : waiting[i] # x
      /\ \A u \in TCB : x \notin woken[u]
  BY <1>1, <1>3 DEF Parked
<1>7. Parked' = P \cup {x}
  <2>1. \A y \in Thread : (\E i \in 1 .. Len(q) : q[i] = y)
                          <=> y = x \/ \E i \in 1 .. Len(waiting) : waiting[i] = y
    BY <1>5
  <2> QED BY <2>1, <1>1, <1>2, <1>3 DEF Parked, q
<1>8. JInv(Parked)'
  BY <1>3, <1>7, SameParked
<1>9. Pending(c)
  BY <1>2 DEF Pending, NoCall
<1>10. t \in TCB /\ t = onCore[c] /\ pc[t] = "away" /\ frame[t].ret \in Labels
  BY <1>1, <1>9 DEF IInv, Types, CoresOK, Me, AnyFrame
<1> HIDE DEF t
<1>11. \A y \in TCB : pc'[y] = IF y = t THEN frame[t].ret ELSE pc[y]
  BY <1>1, <1>2, <1>10 DEF Resume, Goto, IInv, Types, t
<1>12. \A d \in Core : onCore[d] \in TCB /\ (d # c => onCore[d] # t)
  BY <1>1, <1>10 DEF IInv, Types, CoresOK
<1>13. /\ handler'[c] = NoCall
       /\ \A d \in Core : d # c => handler'[d] = handler[d] /\ interrupts'[d] = interrupts[d]
  BY <1>1, <1>2 DEF Resume, IInv, Types
<1>14. \A k \in Labels : k \notin InBlock /\ k # "away"
  BY DEF Labels, InBlock
<1>15. LockOK'
  <2>1. InDown(c)
    BY <1>2 DEF InDown
  <2>2. \A d \in Core : InDown(d) <=> d = c
    BY <2>1 DEF SInv, LockOK, LockHeldBriefly
  <2>3. ~InDown(c)'
    BY <1>2, <1>10, <1>11, <1>13, <1>14 DEF InDown, NoCall, Me
  <2>4. ASSUME NEW d \in Core, d # c PROVE InDown(d)' <=> InDown(d)
    BY <2>4, <1>2, <1>11, <1>12, <1>13 DEF InDown, Me
  <2>5. \A d \in Core : ~InDown(d)'
    BY <2>2, <2>3, <2>4
  <2> QED BY <2>5, <1>2 DEF LockOK, LockHeldBriefly
<1>16. \A y \in TCB : Where(y)' = Where(y)
  BY <1>2, <1>10, <1>11, <1>14 DEF Where
<1>17. WaitOK'
  <2>1. \A i, j \in 1 .. Len(q) : q[i] = q[j] => i = j
    BY <1>5, <1>6 DEF SInv, WaitOK
  <2>2. \A u \in TCB, i \in 1 .. Len(q) : q[i] \notin woken[u]
    BY <1>5, <1>6 DEF SInv, WaitOK
  <2> QED BY <2>1, <2>2, <1>2, <1>16 DEF SInv, WaitOK, q
<1>18. SemTypes'
  BY <1>2, <1>4, <1>5 DEF SemTypes, q
<1> QED BY <1>0, <1>3, <1>6, <1>8, <1>15, <1>17, <1>18 DEF SInv

(* Nobody calls down() before a thread runs. *)
LEMMA InitSInv == SemInit => SInv
<1> SUFFICES ASSUME SemInit PROVE SInv
  OBVIOUS
<1>1. Init /\ waiting = <<>> /\ ~taken /\ taken \in BOOLEAN /\ woken = [t \in TCB |-> {}]
  BY DEF SemInit
<1>2. Parked = {}
  BY <1>1 DEF Parked
<1>3. JInv(Parked)
  <2>1. JInv({})
    BY <1>1, InitJInv
  <2> QED BY <2>1, <1>2 DEF JInv, IInv, ParkedOK, NoneLost
<1>4. LockOK
  <2>1. \A c \in Core : handler[c] = NoCall /\ pc[Me(c)] = "boot"
    BY <1>1, IdleFacts DEF Init, Me, TCB
  <2>2. \A c \in Core : ~InDown(c)
    BY <2>1 DEF InDown, InBlock, NoCall
  <2> QED BY <2>2, <1>1 DEF LockOK, LockHeldBriefly
<1>5. SemTypes /\ WaitOK
  BY <1>1 DEF SemTypes, WaitOK
<1> QED BY <1>3, <1>4, <1>5 DEF SInv

(* A step of something else keeps it. *)
LEMMA StutterSInv == ASSUME SInv, UNCHANGED semVars PROVE SInv'
<1>1. UNCHANGED vars /\ UNCHANGED semaphore
  BY DEF semVars
<1>2. UNCHANGED <<onCore, activeThreads, tss, interrupts, no_preempt, pc, frame,
                  corpse, handler, readyQ, zombies, count, waiting, taken, woken>>
  BY <1>1 DEF vars, cpu, queues, semaphore
<1>3. PICK P : P = Parked /\ JInv(P)
  BY NameParked
<1>4. JInv(Parked)'
  BY <1>1, <1>2, <1>3, StutterJInv, SameParked DEF Parked
<1>5. LockOK' /\ SemTypes' /\ WaitOK'
  BY <1>2 DEF SInv, LockOK, LockHeldBriefly, InDown, Me, SemTypes, WaitOK, Where
<1> QED BY <1>4, <1>5 DEF SInv

-----------------------------------------------------------------------------
(* Threads that call down() and up() whenever they like *)

(* A step of SemSpec is one of a thread or one of its calls. *)
LEMMA SemSteps ==
    SemNext => \E c \in Core : \/ ThreadStep(c) /\ UNCHANGED semaphore
                               \/ DownHandler(c) \/ Down(c, "work", "work")
                               \/ Up(c, "work", "wake", "work")
  BY DEF SemNext, KernelStep, ThreadStep, DeleteZombie, Spawn, Deletes, Spawns

(* Every reachable state satisfies the semaphore's invariant. *)
THEOREM SemInductive == SemSpec => []SInv
<1>1. SInv /\ [SemNext]_semVars => SInv'
  <2> SUFFICES ASSUME SInv, [SemNext]_semVars PROVE SInv'
    OBVIOUS
  <2>1. ASSUME NEW c \in Core, Down(c, "work", "work") PROVE SInv'
    <3>1. Me(c) \notin Idle
      BY <2>1 DEF Down, DownTake, DownBlock, At, SInv, JInv, IdleOK
    <3>2. CanDown("work", "work")
      BY DEF CanDown
    <3> QED BY <2>1, <3>1, <3>2, DownTakeSInv, DownBlockSInv DEF Down
  <2>2. ASSUME NEW c \in Core, Up(c, "work", "wake", "work") PROVE SInv'
    <3>1. CanUp("work", "wake", "work")
      BY DEF CanUp
    <3> QED BY <2>2, <3>1, UpCountSInv, UpRemoveSInv, WakeSInv DEF Up
  <2> QED BY <2>1, <2>2, SemSteps, ThreadSInv, DownHandlerSInv, StutterSInv
<1> QED
  BY <1>1, InitSInv, PTL DEF SemSpec

(* The lock is held for no longer than a context switch takes. *)
THEOREM LockedForASwitch == SemSpec => []LockHeldBriefly
<1>1. SInv => LockHeldBriefly
  BY DEF SInv, LockOK
<1> QED
  BY <1>1, SemInductive, PTL

(* A parked thread is in no place of Threads. *)
LEMMA ParkedNowhere ==
    ASSUME NEW P, IInv(P), NEW x \in P PROVE Places(x) = {} /\ pc[x] = "away"
<1>1. x \in Thread /\ x \in TCB /\ Away(x) /\ frame[x].act = "down"
  BY DEF IInv, ParkedOK, TCB
<1>2. \A c \in Core : onCore[c] # x
  BY <1>1 DEF Away, OffCore
<1>3. \A t \in TCB : ~(pc[t] \in Chosen /\ frame[t].next = x)
  BY DEF IInv, ParkedOK
<1>4. \A c \in Core : ~(handler[c].act # "none" /\ handler[c].prev = x)
  BY DEF IInv, ParkedOK, Pending, NoCall
<1>5. \A t \in TCB : x \notin corpse[t]
  BY <1>1 DEF IInv, CorpsesOK
<1>6. \A i \in 1 .. Len(readyQ) : readyQ[i] # x
  BY DEF IInv, ParkedOK
<1>7. \A i \in 1 .. Len(zombies) : zombies[i] # x
  BY <1>1 DEF IInv, ZombiesOK
<1> QED BY <1>1, <1>2, <1>3, <1>4, <1>5, <1>6, <1>7 DEF Places, Away

(* What the invariant says of the places of a thread. *)
LEMMA SemPlacesApart == SInv => SemOnePlace
<1> SUFFICES ASSUME SInv PROVE SemOnePlace
  OBVIOUS
<1>1. PICK P : P = Parked /\ IInv(P) /\ P \subseteq Thread
  BY NameParked
<1>2. waiting \in Seq(Thread) /\ woken \in [TCB -> SUBSET Thread]
  BY DEF SInv, SemTypes
<1>3. ASSUME NEW x \in TCB
      PROVE  /\ SemPlaces(x) # Places(x) => x \in P
             /\ SemPlaces(x) = {} => x \notin P
             /\ \A p, q \in SemPlaces(x) : p = q
  <2> DEFINE W == {<<"waiting", i>> : i \in {j \in 1 .. Len(waiting) : waiting[j] = x}}
             K == {<<"woken", t>> : t \in {u \in TCB : x \in woken[u]}}
  <2>1. SemPlaces(x) = Places(x) \cup W \cup K
    BY DEF SemPlaces
  <2>2. W # {} => \E i \in 1 .. Len(waiting) : waiting[i] = x
    OBVIOUS
  <2>3. K # {} => \E u \in TCB : x \in woken[u]
    OBVIOUS
  <2>4. W # {} => x \in P
    BY <2>2, <1>1, <1>2 DEF Parked
  <2>5. K # {} => x \in P
    BY <2>3, <1>1, <1>2 DEF Parked
  <2>6. x \in P => W # {} \/ K # {}
    <3>1. ASSUME NEW i \in 1 .. Len(waiting), waiting[i] = x PROVE <<"waiting", i>> \in W
      BY <3>1
    <3>2. ASSUME NEW u \in TCB, x \in woken[u] PROVE <<"woken", u>> \in K
      BY <3>2
    <3> HIDE DEF W, K
    <3> QED BY <3>1, <3>2, <1>1 DEF Parked
  <2>7. \A p, q \in W : p = q
    BY DEF SInv, WaitOK
  <2>8. \A p, q \in K : p = q
    BY <1>2 DEF SInv, WaitOK
  <2>9. W = {} \/ K = {}
    BY <2>2, <2>3 DEF SInv, WaitOK
  <2> HIDE DEF W, K
  <2>10. \A p, q \in Places(x) : p = q
    BY <1>1, PlacesApart
  <2>11. x \in P => Places(x) = {}
    BY <1>1, ParkedNowhere
  <2> QED BY <2>1, <2>4, <2>5, <2>6, <2>7, <2>8, <2>9, <2>10, <2>11
<1>4. ASSUME NEW x \in Thread PROVE pc[x] = "free" <=> SemPlaces(x) = {}
  <2>1. x \in TCB
    BY DEF TCB
  <2>2. CASE x \in P
    BY <2>1, <2>2, <1>1, <1>3, ParkedNowhere
  <2>3. CASE x \notin P
    BY <2>1, <2>3, <1>1, <1>3, FreeNowhere, NowhereFree
  <2> QED BY <2>2, <2>3
<1> QED BY <1>3, <1>4 DEF SemOnePlace

(* A thread that waits is in one queue and on no core, and one that up()   *)
(* removes reaches readyQ.                                                 *)
THEOREM NotLostWaiting == SemSpec => []SemOnePlace
  BY SemPlacesApart, SemInductive, PTL

(* Only the lambda of down() and the calls of up() and down() that return  *)
(* at once change the abstract semaphore.                                  *)
LEMMA CallRefines ==
    ASSUME SInv, NEW c \in Core, NEW l, NEW w, NEW m,
           DownHandler(c) \/ Down(c, l, m) \/ Up(c, l, w, m)
    PROVE [AbstractSemaphore!Next]_AbstractSemaphore!vars
<1> USE DEF AbstractSemaphore!Next, AbstractSemaphore!vars
<1>1. CASE DownHandler(c)
  <2>1. InDown(c)
    BY <1>1 DEF DownHandler, InDown
  <2>2. count = 0
    BY <2>1 DEF SInv, LockOK, LockHeldBriefly
  <2>3. /\ handler[c].prev \in Thread
        /\ \A i \in 1 .. Len(waiting) : waiting[i] # handler[c].prev
    BY <1>1, DownHandlerSInv
  <2>4. waiting' = Append(waiting, handler[c].prev) /\ count' = count
    BY <1>1 DEF DownHandler
  <2> QED BY <2>2, <2>3, <2>4 DEF AbstractSemaphore!Down
<1>2. CASE DownTake(c, l, m)
  BY <1>2 DEF DownTake, AbstractSemaphore!Down
<1>3. CASE DownBlock(c, l, m)
  BY <1>3 DEF DownBlock
<1>4. CASE UpCount(c, l, m)
  BY <1>4 DEF UpCount, AbstractSemaphore!Up
<1>5. CASE UpRemove(c, l, w)
  BY <1>5 DEF UpRemove, AbstractSemaphore!Up
<1>6. CASE Wake(c, w, m)
  BY <1>6 DEF Wake
<1> QED BY <1>1, <1>2, <1>3, <1>4, <1>5, <1>6 DEF Down, Up

(* down() and up() are those of a semaphore that blocks threads in order. *)
THEOREM SemaphoreImplemented == SemSpec => ImplementsSemaphore
<1>1. SemInit => AbstractSemaphore!Init
  BY DEF SemInit, AbstractSemaphore!Init
<1>2. SInv /\ [SemNext]_semVars => [AbstractSemaphore!Next]_AbstractSemaphore!vars
  <2> SUFFICES ASSUME SInv, [SemNext]_semVars
               PROVE  [AbstractSemaphore!Next]_AbstractSemaphore!vars
    OBVIOUS
  <2>1. ASSUME UNCHANGED semaphore PROVE [AbstractSemaphore!Next]_AbstractSemaphore!vars
    BY <2>1 DEF semaphore, AbstractSemaphore!vars
  <2> QED BY <2>1, SemSteps, CallRefines DEF semVars
<1> QED
  BY <1>1, <1>2, SemInductive, PTL DEF SemSpec, ImplementsSemaphore, AbstractSemaphore!Spec

-----------------------------------------------------------------------------
(* The heap's lock *)

(* count says whether a thread has the lock, and who waits has called      *)
(* malloc() or free().                                                     *)
HeapOK ==
    /\ count \in {0, 1}
    /\ \A t, u \in TCB : Has(t) /\ Has(u) => t = u
    /\ count = 1 => \A t \in TCB : ~Has(t) /\ ~Waits(t)
    /\ \A t \in TCB : Waits(t) => Where(t) \in Within

(* Until the last core to start has made the first thread, only its idle   *)
(* thread calls down(): no other thread but the reaper is alive, and the   *)
(* reaper finds no zombie.                                                 *)
Early == {"boot", "reap", "spawn", "alloc", "new"}
Booting == \E i \in Idle : pc[i] \in Early

BootOK ==
    /\ \A i \in Idle : pc[i] \in Early \cup {"stop"} \cup Blocked
    /\ \A i, j \in Idle : pc[i] \in Early \ {"boot"} /\ pc[j] \in Early => i = j
    /\ Booting =>
          /\ \A t \in Thread \ {Reaper} : pc[t] = "free"
          /\ Where(Reaper) \in {"reap", "yield"}
          /\ zombies = <<>> /\ waiting = <<>> /\ ~taken
          /\ \A t \in TCB : corpse[t] = {}
          /\ count = IF \E i \in Idle : pc[i] = "alloc" THEN 0 ELSE 1

HInv == SInv /\ HeapOK /\ BootOK

(* Who waits is in block() or away, and not where another thread is.       *)
LEMMA WaitsBlocked ==
    ASSUME SInv, NEW x \in TCB, Waits(x)
    PROVE /\ pc[x] \in Blocked /\ frame[x].act = "down"
          /\ pc[x] \in InBlock \/ Away(x)
<1>1. PICK P : P = Parked /\ IInv(P) /\ P \subseteq Thread
  BY NameParked
<1>2. ASSUME NEW i \in 1 .. Len(waiting), waiting[i] = x PROVE Away(x)
  <2>1. waiting[i] \in Thread
    BY DEF SInv, SemTypes
  <2>2. x \in P
    BY <2>1, <1>1, <1>2 DEF Parked
  <2> QED BY <2>2, <1>1 DEF IInv, ParkedOK
<1>3. ASSUME NEW c \in Core, handler[c] # NoCall, handler[c].prev = x PROVE Away(x)
  BY <1>1, <1>3 DEF IInv, CallsOK, Pending
<1> QED BY <1>2, <1>3 DEF Waits, Blocked, Away

(* A step of Threads lets nobody wait and ends no wait. *)
LEMMA WaitsThread ==
    ASSUME SInv, NEW c \in Core, ThreadStep(c), UNCHANGED semaphore, NEW x \in TCB
    PROVE Waits(x)' <=> Waits(x)
<1>0. PICK P : P = Parked /\ IInv(P)
  BY NameParked
<1>1. IInv(P)' /\ SInv'
  BY <1>0, StepInv, ThreadSInv
<1>2. waiting' = waiting
  BY DEF semaphore
<1>3. \A d \in Core : d # c => handler'[d] = handler[d] /\ onCore'[d] = onCore[d]
  BY <1>0, Locality
<1>4. CASE x # Me(c)
  <2>1. CASE pc[x] = "free" \/ pc'[x] = "free"
    <3>1. pc[x] = "free" => pc'[x] = "free" \/ frame'[x] = FirstFrame(x, "work")
      BY <1>0, <1>4, OwnPc
    <3>2. pc'[x] = "free" => pc[x] = "free" \/ frame[x].act = "stop"
      <4>1. Me(c) \in TCB
        BY <1>0 DEF IInv, Types, Me
      <4> QED BY <1>0, <1>4, <4>1, OwnPc DEF IInv, CorpsesOK
    <3>3. FirstFrame(x, "work").act = "yield" /\ "free" \notin Blocked
      BY DEF FirstFrame, NewFrame, Blocked, InBlock
    <3>4. ~Waits(x)
      BY <2>1, <3>1, <3>2, <3>3, WaitsBlocked
    <3>5. Waits(x)' => pc'[x] \in Blocked /\ frame'[x].act = "down"
      <4>1. ASSUME Waits(x)' PROVE pc'[x] = "away" \/ pc'[x] \in InBlock
        <5>1. ASSUME NEW i \in 1 .. Len(waiting), waiting[i] = x PROVE FALSE
          <6>1. waiting[i] \in Thread
            BY DEF SInv, SemTypes
          <6>2. x \in P
            BY <6>1, <5>1, <1>0 DEF Parked
          <6>3. pc[x] = "away" /\ frame[x].act = "down"
            BY <6>2, <1>0 DEF IInv, ParkedOK, Away
          <6> QED BY <6>3, <2>1, <3>2
        <5>2. ASSUME NEW d \in Core, handler'[d] # NoCall, handler'[d].prev = x
              PROVE  pc'[x] = "away"
          BY <5>2, <1>1 DEF IInv, CallsOK, Pending, Away
        <5> QED BY <4>1, <5>1, <5>2, <1>2 DEF Waits
      <4> QED BY <4>1 DEF Waits, Blocked
    <3> QED BY <2>1, <3>1, <3>3, <3>4, <3>5
  <2>2. CASE pc[x] # "free" /\ pc'[x] # "free"
    <3>1. pc'[x] = pc[x] /\ frame'[x] = frame[x]
      BY <1>0, <1>4, <2>2, OwnPc
    <3>2. \/ handler'[c] = handler[c]
          \/ handler[c] = NoCall /\ handler'[c].prev # x
          \/ handler[c].act \in {"yield", "stop"} /\ handler'[c] = NoCall
      BY <1>0, <1>4, OwnSteps DEF IInv, Types
    <3>3. handler[c].act \in {"yield", "stop"} /\ handler[c].prev = x => frame[x].act # "down"
      BY <1>0 DEF IInv, CallsOK, Pending, NoCall
    <3> QED BY <3>1, <3>2, <3>3, <1>2, <1>3 DEF Waits
  <2> QED BY <2>1, <2>2
<1>5. CASE x = Me(c)
  <2>1. ~Away(x) /\ x = onCore[c]
    BY <1>5 DEF Away, OffCore, Me
  <2>2. Waits(x) <=> pc[x] \in InBlock /\ frame[x].act = "down"
    BY <2>1, WaitsBlocked DEF Waits
  <2>3. \A i \in 1 .. Len(waiting) : waiting[i] # x
    <3> SUFFICES ASSUME NEW i \in 1 .. Len(waiting), waiting[i] = x PROVE FALSE
      OBVIOUS
    <3>1. waiting[i] \in Thread
      BY DEF SInv, SemTypes
    <3>2. x \in P
      BY <3>1, <1>0 DEF Parked
    <3> QED BY <3>2, <2>1, <1>0 DEF IInv, ParkedOK
  <2>4. \A d \in Core : d # c /\ handler'[d] # NoCall => handler'[d].prev # x
    BY <2>1, <1>0, <1>3 DEF IInv, CallsOK, Pending
  <2>5. Waits(x)' <=> /\ frame'[x].act = "down"
                      /\ pc'[x] \in InBlock \/ (handler'[c] # NoCall /\ handler'[c].prev = x)
    BY <2>3, <2>4, <1>2 DEF Waits
  <2>6. frame[x].ret \in Labels /\ frame[x].act # "none" /\ NoCall.act = "none"
    BY <1>0, <1>5 DEF IInv, Types, Me, AnyFrame, NoCall
  <2>7. \A l \in Labels : l \notin InBlock
    BY DEF Labels, InBlock
  <2>8. handler[c] # NoCall => handler[c].prev # x
    BY <2>1, <1>0 DEF IInv, CallsOK, Pending
  <2>9. "away" \notin InBlock /\ "pick" \in InBlock
    BY DEF InBlock
  <2>10. handler[c].act \in {"yield", "stop"} /\ handler' = [handler EXCEPT ![c] = NoCall]
         => handler'[c] = NoCall
    BY <1>0 DEF IInv, Types
  <2> QED BY <1>0, <1>5, <2>2, <2>5, <2>6, <2>7, <2>8, <2>9, <2>10, OwnSteps
<1> QED BY <1>4, <1>5

(* ... and keeps what count says. *)
LEMMA HeapThread ==
    ASSUME SInv, HeapOK, NEW c \in Core, ThreadStep(c), UNCHANGED semaphore
    PROVE HeapOK'
<1>1. \A x \in TCB : Waits(x)' <=> Waits(x)
  BY WaitsThread
<1>2. \A x \in TCB : (Where(x)' \in Within <=> Where(x) \in Within)
  <2>1. PICK P : P = Parked /\ IInv(P)
    BY NameParked
  <2> QED BY <2>1, FarStep DEF Far
<1>3. \A x \in TCB : Has(x)' <=> Has(x)
  BY <1>1, <1>2 DEF Has
<1> QED BY <1>1, <1>2, <1>3 DEF HeapOK, semaphore

(* The calls of malloc() and free(): the lock is taken on the way to       *)
(* Within and given back on the way out.                                   *)
HeapDown(l, m) == CanDown(l, m) /\ m \in Within
HeapUp(l, w, m) == CanUp(l, w, m) /\ l \in Within

(* A move of a call lets nobody wait and ends no wait. *)
LEMMA WaitsMove ==
    ASSUME NEW P, IInv(P), NEW c \in Core, NEW l, NEW m, Move(l, m), At(c, l),
           Goto(Me(c), m), UNCHANGED <<cpu, frame, handler, waiting>>
    PROVE \A x \in TCB : Waits(x)' <=> Waits(x)
<1>1. \A x \in TCB : pc'[x] \in InBlock <=> pc[x] \in InBlock
  BY MoveFacts
<1> QED BY <1>1 DEF Waits

(* The thread at a label outside block() waits for nothing. *)
LEMMA NoWaitAt ==
    ASSUME SInv, NEW c \in Core, NEW l \in Labels, At(c, l)
    PROVE ~Waits(Me(c)) /\ Me(c) \in TCB /\ Where(Me(c)) = l
<1>1. PICK P : P = Parked /\ IInv(P)
  BY NameParked
<1>2. Me(c) \in TCB /\ pc[Me(c)] = l /\ l \notin Blocked /\ l \notin InBlock
  BY <1>1 DEF IInv, Types, Me, At, Labels, Blocked, InBlock
<1> QED BY <1>2, WaitsBlocked DEF Where, Blocked

(* malloc() or free() takes a free lock ... *)
LEMMA DownTakeHeap ==
    ASSUME SInv, HeapOK, NEW c \in Core, NEW l, NEW m, HeapDown(l, m), DownTake(c, l, m)
    PROVE HeapOK'
<1>1. PICK P : P = Parked /\ IInv(P)
  BY NameParked
<1>2. /\ At(c, l) /\ Goto(Me(c), m) /\ count > 0 /\ count' = count - 1
      /\ UNCHANGED <<cpu, frame, handler, waiting>>
  BY DEF DownTake
<1>3. Move(l, m) /\ m \in Within
  BY DownMoves DEF HeapDown
<1>4. /\ Me(c) \in TCB
      /\ \A x \in TCB : Where(x)' = IF x = Me(c) THEN m ELSE Where(x)
  BY <1>1, <1>2, <1>3, MoveFacts
<1>5. \A x \in TCB : Waits(x)' <=> Waits(x)
  BY <1>1, <1>2, <1>3, WaitsMove
<1>6. count = 1 /\ count' = 0
  BY <1>2 DEF HeapOK
<1>7. \A x \in TCB : Has(x)' => x = Me(c)
  BY <1>4, <1>5, <1>6 DEF HeapOK, Has
<1> QED BY <1>3, <1>4, <1>5, <1>6, <1>7 DEF HeapOK

(* ... or sets out to wait for it ... *)
LEMMA DownBlockHeap ==
    ASSUME SInv, HeapOK, NEW c \in Core, NEW l, NEW m, HeapDown(l, m), DownBlock(c, l, m)
    PROVE HeapOK'
<1>0. PICK t : t = Me(c)
  OBVIOUS
<1>1. PICK P : P = Parked /\ IInv(P)
  BY NameParked
<1>2. /\ At(c, l) /\ count = 0 /\ count' = count
      /\ Block(c, "MustBlock", "down", m, interrupts[c])
      /\ UNCHANGED <<onCore, handler, waiting>>
  BY DEF DownBlock
<1>3. Move(l, m) /\ m \in Within /\ l \in Labels
  BY DownMoves DEF HeapDown, Move
<1>4. ~Waits(t) /\ t \in TCB /\ Where(t) = l
  BY <1>0, <1>2, <1>3, NoWaitAt
<1>5. PICK fr : /\ fr.act = "down" /\ fr.ret = m
                /\ frame' = [frame EXCEPT ![t] = fr] /\ pc' = [pc EXCEPT ![t] = "pick"]
  <2>1. frame' = [frame EXCEPT ![t] = NewFrame(c, activeThreads[c], "MustBlock", "down", m, interrupts[c])]
    BY <1>0, <1>2 DEF Block
  <2>2. pc' = [pc EXCEPT ![t] = "pick"]
    BY <1>0, <1>2 DEF Block, Goto
  <2> QED BY <2>1, <2>2 DEF NewFrame
<1>6. \A x \in TCB : /\ pc'[x] = IF x = t THEN "pick" ELSE pc[x]
                     /\ frame'[x] = IF x = t THEN fr ELSE frame[x]
  BY <1>1, <1>4, <1>5 DEF IInv, Types
<1>7. Waits(t)' /\ Where(t)' = m
  BY <1>4, <1>5, <1>6 DEF Waits, Where, InBlock
<1>8. \A x \in TCB : x # t => (Waits(x)' <=> Waits(x)) /\ Where(x)' = Where(x)
  BY <1>2, <1>6 DEF Waits, Where
<1>9. \A x \in TCB : Has(x)' => Has(x)
  BY <1>7, <1>8 DEF Has
<1> QED BY <1>2, <1>3, <1>7, <1>8, <1>9 DEF HeapOK

(* ... and goes on waiting in the semaphore's queue. *)
LEMMA DownHandlerHeap ==
    ASSUME SInv, HeapOK, NEW c \in Core, DownHandler(c)
    PROVE HeapOK'
<1> DEFINE t == Me(c)
           q == waiting'
<1>0. PICK x : x = handler[c].prev
  OBVIOUS
<1>1. PICK P : P = Parked /\ IInv(P)
  BY NameParked
<1>2. /\ handler[c].act = "down" /\ Resume(c)
      /\ q = Append(waiting, x)
      /\ UNCHANGED <<onCore, frame, count>>
  BY <1>0 DEF DownHandler
<1>3. x \in Thread /\ x \in TCB
  BY <1>0, DownHandlerSInv DEF TCB
<1>4. waiting \in Seq(Thread)
  BY DEF SInv, SemTypes
<1> HIDE DEF q
<1>5. /\ Len(waiting) + 1 \in 1 .. Len(q) /\ q[Len(waiting) + 1] = x
      /\ \A i \in 1 .. Len(waiting) : i \in 1 .. Len(q) /\ q[i] = waiting[i]
      /\ \A i \in 1 .. Len(q) : i \in 1 .. Len(waiting) \/ i = Len(waiting) + 1
  BY <1>2, <1>3, <1>4, AppendFacts
<1>6. Pending(c)
  BY <1>2 DEF Pending, NoCall
<1>7. t \in TCB /\ t = onCore[c] /\ pc[t] = "away" /\ frame[t].ret \in Labels
  BY <1>1, <1>6 DEF IInv, Types, CoresOK, Me, AnyFrame
<1> HIDE DEF t
<1>8. \A y \in TCB : pc'[y] = IF y = t THEN frame[t].ret ELSE pc[y]
  BY <1>1, <1>2, <1>7 DEF Resume, Goto, IInv, Types, t
<1>9. \A k \in Labels : k \notin InBlock /\ k # "away"
  BY DEF Labels, InBlock
<1>10. /\ handler'[c] = NoCall
       /\ \A d \in Core : d # c => handler'[d] = handler[d]
  BY <1>1, <1>2 DEF Resume, IInv, Types
<1>11. \A y \in TCB : /\ Where(y)' = Where(y)
                      /\ pc'[y] \in InBlock <=> pc[y] \in InBlock
  BY <1>2, <1>7, <1>8, <1>9 DEF Where, InBlock
<1>12. frame[x].act = "down" /\ handler[c] # NoCall
  BY <1>0, <1>1, <1>2, <1>6 DEF IInv, CallsOK, Pending
<1>13. \A y \in TCB : Waits(y)' <=> Waits(y)
  <2> SUFFICES ASSUME NEW y \in TCB PROVE Waits(y)' <=> Waits(y)
    OBVIOUS
  <2>1. CASE y = x
    <3>1. Waits(y)
      BY <2>1, <1>0, <1>12 DEF Waits
    <3>2. \E i \in 1 .. Len(q) : q[i] = x
      BY <1>5
    <3>3. Waits(y)'
      BY <2>1, <3>2, <1>2, <1>12 DEF Waits, q
    <3> QED BY <3>1, <3>3
  <2>2. CASE y # x
    <3>1. (\E i \in 1 .. Len(q) : q[i] = y) <=> \E i \in 1 .. Len(waiting) : waiting[i] = y
      BY <2>2, <1>5
    <3>2. (\E d \in Core : handler'[d] # NoCall /\ handler'[d].prev = y)
          <=> \E d \in Core : handler[d] # NoCall /\ handler[d].prev = y
      BY <2>2, <1>0, <1>10
    <3> QED BY <3>1, <3>2, <1>2, <1>11 DEF Waits, q
  <2> QED BY <2>1, <2>2
<1>14. \A y \in TCB : Has(y)' <=> Has(y)
  BY <1>11, <1>13 DEF Has
<1> QED BY <1>2, <1>11, <1>13, <1>14 DEF HeapOK

(* While the lock of the semaphore is free, only threads in waiting wait. *)
LEMMA WaitsQueued ==
    ASSUME SInv, ~taken, NEW x \in TCB, Waits(x)
    PROVE \E i \in 1 .. Len(waiting) : waiting[i] = x
<1>1. PICK P : P = Parked /\ IInv(P)
  BY NameParked
<1>2. \A d \in Core : ~InDown(d)
  BY DEF SInv, LockOK, LockHeldBriefly
<1>3. pc[x] \notin InBlock
  <2> SUFFICES ASSUME pc[x] \in InBlock PROVE FALSE
    OBVIOUS
  <2>1. PICK d \in Core : onCore[d] = x
    BY <1>1 DEF IInv, CoresOK, Running
  <2>2. handler[d] = NoCall
    BY <1>1, <2>1 DEF IInv, CoresOK, Pending, InBlock
  <2> QED BY <2>1, <2>2, <1>2 DEF InDown, Me, Waits
<1>4. \A d \in Core : handler[d] # NoCall /\ handler[d].prev = x => FALSE
  BY <1>1, <1>2 DEF IInv, CallsOK, Pending, InDown, Waits
<1> QED BY <1>3, <1>4 DEF Waits

(* The lock is given back with nobody waiting ... *)
LEMMA UpCountHeap ==
    ASSUME SInv, HeapOK, NEW c \in Core, NEW l, NEW w, NEW m, HeapUp(l, w, m), UpCount(c, l, m)
    PROVE HeapOK'
<1>1. PICK P : P = Parked /\ IInv(P)
  BY NameParked
<1>2. /\ At(c, l) /\ Goto(Me(c), m) /\ ~taken /\ waiting = <<>> /\ count' = count + 1
      /\ UNCHANGED <<cpu, frame, handler, waiting>>
  BY DEF UpCount
<1>3. Move(l, m) /\ l \in Within /\ m \notin Within /\ l \in Labels
  BY UpMoves DEF HeapUp, CanUp, Within, Move
<1>4. /\ Me(c) \in TCB
      /\ \A x \in TCB : Where(x)' = IF x = Me(c) THEN m ELSE Where(x)
  BY <1>1, <1>2, <1>3, MoveFacts
<1>5. \A x \in TCB : Waits(x)' <=> Waits(x)
  BY <1>1, <1>2, <1>3, WaitsMove
<1>6. Has(Me(c))
  BY <1>2, <1>3, NoWaitAt DEF Has
<1>7. count = 0 /\ count' = 1
  BY <1>2, <1>4, <1>6 DEF HeapOK
<1>8. \A x \in TCB : ~Waits(x)'
  BY <1>2, <1>5, WaitsQueued
<1>9. \A x \in TCB : ~Has(x)'
  BY <1>3, <1>4, <1>5, <1>6 DEF HeapOK, Has
<1> QED BY <1>7, <1>8, <1>9 DEF HeapOK

(* ... or handed to the thread that waited longest, which has it at once ... *)
LEMMA UpRemoveHeap ==
    ASSUME SInv, HeapOK, NEW c \in Core, NEW l, NEW w, NEW m, HeapUp(l, w, m), UpRemove(c, l, w)
    PROVE HeapOK'
<1> DEFINE q == waiting'
<1>1. PICK P : P = Parked /\ IInv(P)
  BY NameParked
<1>2. PICK h : h = Head(waiting)
  OBVIOUS
<1>3. /\ At(c, l) /\ Goto(Me(c), w) /\ ~taken /\ waiting # <<>> /\ q = Tail(waiting)
      /\ UNCHANGED <<cpu, frame, handler, count>>
  BY DEF UpRemove
<1>4. Move(l, w) /\ l \in Within /\ w \notin Within /\ l \in Labels
  BY UpMoves DEF HeapUp, CanUp, Within, Move
<1>5. /\ Me(c) \in TCB
      /\ \A x \in TCB : Where(x)' = IF x = Me(c) THEN w ELSE Where(x)
      /\ \A x \in TCB : pc'[x] \in InBlock <=> pc[x] \in InBlock
  BY <1>1, <1>3, <1>4, MoveFacts
<1>6. waiting \in Seq(Thread)
  BY DEF SInv, SemTypes
<1>7. /\ h \in Thread /\ 1 \in 1 .. Len(waiting) /\ waiting[1] = h
      /\ \A i \in 1 .. Len(q) : i + 1 \in 1 .. Len(waiting) /\ q[i] = waiting[i + 1]
      /\ \A i \in 1 .. Len(waiting) : i = 1 \/ (i - 1 \in 1 .. Len(q) /\ q[i - 1] = waiting[i])
  BY <1>2, <1>3, <1>6, TailFacts
<1> HIDE DEF q
<1>8. h \in TCB /\ Away(h) /\ frame[h].act = "down"
      /\ \A d \in Core : Pending(d) => handler[d].prev # h
  <2>1. h \in P
    BY <1>1, <1>7 DEF Parked
  <2> QED BY <2>1, <1>1 DEF IInv, ParkedOK, TCB
<1>9. Waits(h)
  BY <1>7, <1>8 DEF Waits
<1>10. h # Me(c)
  BY <1>3, <1>4, <1>9, NoWaitAt
<1>11. ASSUME NEW x \in TCB, x # h PROVE Waits(x)' <=> Waits(x)
  <2>1. ASSUME NEW i \in 1 .. Len(q), q[i] = x
        PROVE  \E j \in 1 .. Len(waiting) : waiting[j] = x
    BY <2>1, <1>7
  <2>2. ASSUME NEW i \in 1 .. Len(waiting), waiting[i] = x
        PROVE  \E j \in 1 .. Len(q) : q[j] = x
    <3>1. i # 1
      BY <2>2, <1>7, <1>11
    <3> QED BY <2>2, <3>1, <1>7
  <2> QED BY <2>1, <2>2, <1>3, <1>5 DEF Waits, q
<1>12. ~Waits(h)'
  <2>1. \A i \in 1 .. Len(q) : q[i] # h
    BY <1>7 DEF SInv, WaitOK
  <2>2. pc'[h] \notin InBlock
    BY <1>5, <1>8 DEF Away, InBlock
  <2> QED BY <2>1, <2>2, <1>3, <1>8 DEF Waits, Pending, q
<1>13. Has(Me(c))
  BY <1>3, <1>4, NoWaitAt DEF Has
<1>14. \A x \in TCB : Has(x)' => x = h
  BY <1>4, <1>5, <1>11, <1>13 DEF HeapOK, Has
<1>15. \A x \in TCB : Waits(x)' => Where(x)' \in Within
  <2>1. \A x \in TCB : Waits(x)' => x # Me(c) /\ Waits(x)
    <3>1. ~Waits(Me(c))
      BY <1>3, <1>4, NoWaitAt
    <3> QED BY <3>1, <1>5, <1>10, <1>11, <1>12
  <2> QED BY <2>1, <1>5 DEF HeapOK
<1> QED BY <1>3, <1>5, <1>13, <1>14, <1>15 DEF HeapOK

(* ... though it is yet to be scheduled. *)
LEMMA WakeHeap ==
    ASSUME SInv, HeapOK, NEW c \in Core, NEW l, NEW w, NEW m, HeapUp(l, w, m), Wake(c, w, m)
    PROVE HeapOK'
<1>1. PICK P : P = Parked /\ IInv(P)
  BY NameParked
<1>2. /\ At(c, w) /\ Goto(Me(c), m)
      /\ UNCHANGED <<cpu, frame, handler, count, waiting>>
  BY DEF Wake
<1>3. Move(w, m) /\ w \notin Within /\ m \notin Within
  BY UpMoves DEF HeapUp, CanUp, Within
<1>4. /\ Me(c) \in TCB /\ Where(Me(c)) = w
      /\ \A x \in TCB : Where(x)' = IF x = Me(c) THEN m ELSE Where(x)
  BY <1>1, <1>2, <1>3, MoveFacts
<1>5. \A x \in TCB : Waits(x)' <=> Waits(x)
  BY <1>1, <1>2, <1>3, WaitsMove
<1>6. \A x \in TCB : Has(x)' <=> Has(x)
  BY <1>3, <1>4, <1>5 DEF Has
<1>7. \A x \in TCB : Waits(x)' => Where(x)' \in Within
  BY <1>3, <1>4, <1>5 DEF HeapOK
<1> QED BY <1>2, <1>5, <1>6, <1>7 DEF HeapOK

(* How an idle thread goes on: it boots, it makes the first thread, or it  *)
(* is in block() for good.                                                 *)
LEMMA IdleSteps ==
    ASSUME SInv, BootOK, NEW c \in Core, ThreadStep(c), NEW i, i = Me(c), i \in Idle
    PROVE \/ /\ pc[i] \in {"stop"} \cup Blocked
             /\ pc'[i] \in {"stop"} \cup Blocked
          \/ /\ pc[i] = "boot"
             /\ \/ pc'[i] = "stop"
                \/ pc'[i] = "reap" /\ \A j \in Idle \ {i} : pc[j] # "boot"
          \/ pc[i] = "reap" /\ pc'[i] = "spawn"
          \/ pc[i] \in {"spawn", "new"} /\ pc'[i] = "stop"
<1>1. PICK P : P = Parked /\ IInv(P) /\ JInv(P)
  BY NameParked
<1>2. i \in TCB /\ i = onCore[c] /\ i # Reaper
  BY <1>1, IdleFacts DEF IInv, Types, Me
<1>3. \A l : pc' = [pc EXCEPT ![i] = l] => pc'[i] = l
  BY <1>1, <1>2 DEF IInv, Types
<1>4. pc[i] \in Early \cup {"stop"} \cup Blocked
  BY DEF BootOK
<1>5. pc[i] \notin {"work", "delete", "freed", "yield"}
  BY <1>4 DEF Early, Blocked, InBlock
<1>6. CASE PickReady(c) \/ PickIdle(c) \/ Mark(c) \/ Activate(c) \/ ContextSwitch(c)
  BY <1>3, <1>6 DEF PickReady, PickIdle, Mark, Activate, ContextSwitch, At, Goto, Blocked, InBlock
<1>7. CASE PickReturn(c) \/ YieldHandler(c) \/ StopHandler(c)
  <2>1. pc[i] \in Blocked
    BY <1>1, <1>2, <1>7 DEF PickReturn, YieldHandler, StopHandler, At, Blocked, InBlock,
       IInv, CoresOK, Pending, NoCall
  <2>2. frame[i].ret = "stop"
    BY <1>1, <1>2, <2>1 DEF IInv, FramesOK
  <2>3. pc'[i] = "stop"
    BY <1>3, <1>7, <2>2 DEF PickReturn, YieldHandler, StopHandler, Resume, Goto
  <2> QED BY <2>1, <2>3
<1>8. CASE Tick(c)
  <2>1. ~Pending(c)
    BY <1>1, <1>8 DEF Tick, IInv, InterruptsOK
  <2>2. pc[onCore[c]] \notin InBlock
    BY <1>1, <1>8 DEF Tick, IInv, ActiveOK, InBlock
  <2>3. activeThreads[c] = i
    BY <1>1, <1>2, <2>2 DEF IInv, ActiveOK, InBlock
  <2> QED BY <1>8, <2>3 DEF Tick
<1>9. CASE ReaperYield(c) \/ Stop(c)
  BY <1>3, <1>5, <1>9 DEF ReaperYield, Stop, Block, At, Goto, Blocked, InBlock
<1>10. CASE Boot(c)
  BY <1>3, <1>10 DEF Boot, At, Goto
<1>11. CASE RemoveZombie(c)
  <2>1. pc[i] = "reap" /\ zombies # <<>>
    BY <1>11 DEF RemoveZombie, At
  <2>2. Booting
    BY <2>1 DEF Booting, Early
  <2> QED BY <2>1, <2>2 DEF BootOK
<1>12. CASE NoZombie(c)
  BY <1>2, <1>3, <1>12 DEF NoZombie, At, Goto
<1>13. CASE Deletes(c) \/ CallThread(c) \/ Finish(c)
  BY <1>5, <1>13 DEF Deletes, DeleteZombieAt, CallThread, Finish, At
<1>14. CASE Spawns(c)
  <2>1. PICK x \in Thread :
          /\ pc[x] = "free"
          /\ pc' = [pc EXCEPT ![x] = "away", ![i] = IF i \in Idle THEN "stop" ELSE "work"]
    BY <1>14 DEF Spawns, SpawnAt
  <2>2. pc[i] \in {"spawn", "new"}
    BY <1>14 DEF Spawns, SpawnAt, At
  <2>3. pc'[i] = "stop"
    BY <1>1, <1>2, <2>1, <2>2 DEF IInv, Types
  <2> QED BY <2>2, <2>3
<1> QED
  BY <1>6, <1>7, <1>8, <1>9, <1>10, <1>11, <1>12, <1>13, <1>14 DEF ThreadStep, InBlockStep

(* The other idle threads stay where they are. *)
LEMMA IdleStays ==
    ASSUME NEW P, IInv(P), NEW c \in Core, ThreadStep(c), NEW i \in Idle, i # Me(c)
    PROVE pc'[i] = pc[i]
<1>1. i \in TCB /\ i \notin Thread /\ Me(c) \in TCB
  BY IdleFacts DEF TCB, IInv, Types, Me
<1>2. i \notin corpse[Me(c)]
  BY <1>1 DEF IInv, CorpsesOK
<1> QED BY <1>1, <1>2, OwnPc

(* A step of Threads keeps BootOK. *)
LEMMA BootThread ==
    ASSUME SInv, BootOK, NEW c \in Core, ThreadStep(c), UNCHANGED semaphore
    PROVE BootOK'
<1>1. PICK P : P = Parked /\ IInv(P) /\ JInv(P)
  BY NameParked
<1>2. \A i \in Idle : i # Me(c) => pc'[i] = pc[i]
  BY <1>1, IdleStays
<1>3. ASSUME NEW i \in Idle, i = Me(c)
      PROVE  \/ /\ pc[i] \in {"stop"} \cup Blocked
                /\ pc'[i] \in {"stop"} \cup Blocked
             \/ /\ pc[i] = "boot"
                /\ \/ pc'[i] = "stop"
                   \/ pc'[i] = "reap" /\ \A j \in Idle \ {i} : pc[j] # "boot"
             \/ pc[i] = "reap" /\ pc'[i] = "spawn"
             \/ pc[i] \in {"spawn", "new"} /\ pc'[i] = "stop"
  BY <1>3, IdleSteps
<1>4. \A l \in {"stop"} \cup Blocked : l \notin Early
  BY DEF Early, Blocked, InBlock
<1>5. {"boot", "reap", "spawn", "alloc", "new"} = Early
  BY DEF Early
<1>6. \A i \in Idle : pc'[i] \in Early \cup {"stop"} \cup Blocked
  BY <1>2, <1>3, <1>5 DEF BootOK
<1>7. \A i \in Idle : /\ pc'[i] \in Early => pc[i] \in Early
                      /\ pc'[i] = "alloc" <=> pc[i] = "alloc"
                      /\ pc'[i] = "boot" => pc[i] = "boot"
  <2> SUFFICES ASSUME NEW i \in Idle
               PROVE  /\ pc'[i] \in Early => pc[i] \in Early
                      /\ pc'[i] = "alloc" <=> pc[i] = "alloc"
                      /\ pc'[i] = "boot" => pc[i] = "boot"
    OBVIOUS
  <2>1. CASE i = Me(c)
    BY <2>1, <1>3, <1>4, <1>5
  <2>2. CASE i # Me(c)
    BY <2>2, <1>2
  <2> QED BY <2>1, <2>2
<1>8. \A i, j \in Idle : pc'[i] \in Early \ {"boot"} /\ pc'[j] \in Early => i = j
  <2> SUFFICES ASSUME NEW i \in Idle, NEW j \in Idle, i # j,
                      pc'[i] \in Early \ {"boot"}, pc'[j] \in Early
               PROVE  FALSE
    OBVIOUS
  <2>1. pc[i] \in Early /\ pc[j] \in Early
    BY <1>7
  <2>2. pc[i] = "boot"
    BY <2>1 DEF BootOK
  <2>3. i = Me(c) /\ \A k \in Idle \ {i} : pc[k] # "boot"
    BY <2>2, <1>2, <1>3, <1>4
  <2> QED BY <2>1, <2>2, <2>3 DEF BootOK
<1>9. ASSUME Booting'
      PROVE  /\ \A t \in Thread \ {Reaper} : pc'[t] = "free"
             /\ Where(Reaper)' \in {"reap", "yield"}
             /\ zombies' = <<>>
             /\ \A t \in TCB : corpse'[t] = {}
  <2> USE DEF BootOK
  <2>1. PICK b \in Idle : pc'[b] \in Early /\ pc[b] \in Early
    BY <1>7, <1>9 DEF Booting
  <2>2. Booting
    BY <2>1 DEF Booting
  <2>3. Me(c) \in TCB /\ Reaper \in TCB /\ Reaper \in Thread /\ corpse \in [TCB -> SUBSET TCB]
        /\ pc[Reaper] # "free"
    BY <1>1, IdleFacts DEF IInv, JInv, ReaperOK, Types, Me, TCB, Loop, Blocked, InBlock
  <2>4. corpse[Me(c)] = {}
    BY <2>2, <2>3
  <2>5. pc[Me(c)] # "free"
    BY <1>1, <2>3 DEF IInv, CoresOK, Me, Running, Labels, InBlock
  <2>6. pc[Reaper] \in {"reap", "yield"} \/ (pc[Reaper] \in Blocked /\ frame[Reaper].ret \in {"reap", "yield"})
    BY <2>2 DEF Where, Blocked
  <2>7. Me(c) \in Idle \/ Me(c) = Reaper
    BY <2>2, <2>3, <2>5 DEF TCB
  <2>8. ~Spawns(c) /\ ~Deletes(c)
    <3>1. Spawns(c) \/ Deletes(c) => pc[Me(c)] \in {"spawn", "new", "delete", "freed"}
      BY DEF Spawns, SpawnAt, Deletes, DeleteZombieAt, At
    <3>2. Me(c) # Reaper \/ pc[Me(c)] \notin {"spawn", "new", "delete", "freed"}
      BY <2>6 DEF Blocked, InBlock
    <3>3. ASSUME Me(c) \in Idle, pc[Me(c)] \in {"spawn", "new", "delete", "freed"},
                 Spawns(c) \/ Deletes(c)
          PROVE  FALSE
      <4>1. pc[Me(c)] \in Early \ {"boot"}
        BY <3>3 DEF Early, Blocked, InBlock
      <4>2. b = Me(c)
        BY <2>1, <3>3, <4>1
      <4>3. pc'[Me(c)] \notin Early
        BY <1>3, <3>3, <4>1 DEF Early, Blocked, InBlock
      <4> QED BY <2>1, <4>2, <4>3
    <3> QED BY <2>7, <3>1, <3>2, <3>3
  <2>9. \A t \in Thread \ {Reaper} : pc'[t] = "free"
    <3> SUFFICES ASSUME NEW t \in Thread \ {Reaper} PROVE pc'[t] = "free"
      OBVIOUS
    <3>1. t \in TCB /\ pc[t] = "free" /\ t # Me(c)
      BY <2>2, <2>5 DEF TCB
    <3>2. pc'[t] # "away"
      <4>1. \A l : Goto(Me(c), l) => pc'[t] = pc[t]
        BY <1>1, <2>3, <3>1 DEF Goto, IInv, Types
      <4>2. \E l : Goto(Me(c), l)
        BY <2>8 DEF ThreadStep, InBlockStep, PickReady, PickReturn, PickIdle, Mark, Activate,
           ContextSwitch, YieldHandler, StopHandler, Resume, ReaperYield, Stop, Tick, Block,
           Boot, RemoveZombie, NoZombie, CallThread, Finish
      <4> QED BY <3>1, <4>1, <4>2
    <3> QED BY <1>1, <2>4, <3>1, <3>2, OwnPc
  <2>10. ~RemoveZombie(c)
    BY <2>2 DEF RemoveZombie
  <2>11. \A t \in TCB : corpse'[t] = {}
    <3>1. corpse' = corpse
      BY <2>8, <2>10 DEF ThreadStep, InBlockStep, PickReady, PickReturn, PickIdle, Mark, Activate,
         ContextSwitch, YieldHandler, StopHandler, ReaperYield, Stop, Tick,
         Boot, NoZombie, CallThread, Finish
    <3> QED BY <2>2, <3>1
  <2>12. zombies' = <<>>
    <3>1. CASE StopHandler(c)
      <4>1. Pending(c) /\ handler[c].act = "stop"
        BY <3>1 DEF StopHandler, Pending, NoCall
      <4>2. PICK x : x = handler[c].prev /\ x \in TCB
        BY <1>1 DEF IInv, Types, AnyCall
      <4>3. pc[x] = "away" /\ frame[x].act = "stop"
        BY <1>1, <4>1, <4>2 DEF IInv, CallsOK, Away
      <4>4. frame[x].ret = "stop"
        BY <1>1, <4>2, <4>3 DEF IInv, FramesOK, Blocked
      <4>5. x \in Idle
        BY <2>2, <2>6, <4>2, <4>3, <4>4 DEF TCB
      <4> QED BY <2>2, <3>1, <4>2, <4>5 DEF StopHandler, Bury
    <3>2. CASE ~StopHandler(c)
      <4>1. zombies' = zombies
        BY <2>8, <2>10, <3>2 DEF ThreadStep, InBlockStep, PickReady, PickReturn, PickIdle, Mark,
           Activate, ContextSwitch, YieldHandler, ReaperYield, Stop, Tick,
           Boot, NoZombie, CallThread, Finish, queues
      <4> QED BY <2>2, <4>1
    <3> QED BY <3>1, <3>2
  <2>13. Where(Reaper)' \in {"reap", "yield"}
    <3>1. CASE Reaper # Me(c)
      <4>1. pc'[Reaper] = pc[Reaper] /\ frame'[Reaper] = frame[Reaper]
        BY <1>1, <2>3, <2>4, <3>1, OwnPc
      <4> QED BY <2>2, <4>1 DEF Where
    <3>2. CASE Reaper = Me(c)
      <4>1. \A l : Goto(Me(c), l) => pc'[Reaper] = l
        BY <1>1, <2>3, <3>2 DEF Goto, IInv, Types
      <4>2. CASE NoZombie(c)
        <5>1. pc'[Reaper] = "yield"
          BY <3>2, <4>1, <4>2 DEF NoZombie
        <5> QED BY <5>1 DEF Where, InBlock
      <4>3. CASE ReaperYield(c)
        <5>1. frame' = [frame EXCEPT ![Reaper] = NewFrame(c, activeThreads[c], "CanReturn", "yield", "reap", interrupts[c])]
              /\ pc'[Reaper] = "pick"
          BY <3>2, <4>1, <4>3 DEF ReaperYield, Block
        <5>2. frame'[Reaper].ret = "reap"
          BY <1>1, <2>3, <5>1 DEF IInv, Types, NewFrame
        <5> QED BY <5>1, <5>2 DEF Where, InBlock
      <4>4. CASE Tick(c)
        <5>1. pc[Reaper] \in Labels
          <6>1. ~Pending(c)
            BY <1>1, <4>4 DEF Tick, IInv, InterruptsOK
          <6>2. pc[Reaper] \notin InBlock
            BY <1>1, <3>2, <4>4 DEF Tick, IInv, ActiveOK, InBlock, Me
          <6> QED BY <1>1, <3>2, <6>1, <6>2 DEF IInv, CoresOK, Running, Me
        <5>2. pc[Reaper] \in {"reap", "yield"}
          BY <2>6, <5>1 DEF Labels, Blocked, InBlock
        <5>3. frame' = [frame EXCEPT ![Reaper] = NewFrame(c, activeThreads[c], "CanReturn", "yield", pc[Reaper], TRUE)]
              /\ pc'[Reaper] = "pick"
          BY <3>2, <4>1, <4>4 DEF Tick, Block
        <5>4. frame'[Reaper].ret = pc[Reaper]
          BY <1>1, <2>3, <5>3 DEF IInv, Types, NewFrame
        <5> QED BY <5>2, <5>3, <5>4 DEF Where, InBlock
      <4>5. CASE Stop(c) \/ Boot(c) \/ CallThread(c) \/ Finish(c)
        BY <2>6, <3>2, <4>5 DEF Stop, Boot, CallThread, Finish, At, Blocked, InBlock
      <4>6. CASE InBlockStep(c)
        <5>1. pc[Reaper] \in Blocked
          BY <1>1, <3>2, <4>6 DEF InBlockStep, PickReady, PickReturn, PickIdle, Mark, Activate,
             ContextSwitch, YieldHandler, StopHandler, At, Blocked, InBlock, IInv, CoresOK,
             Pending, NoCall, Me
        <5>2. frame[Reaper].ret \in {"reap", "yield"}
          BY <2>6, <5>1 DEF Blocked, InBlock
        <5>3. \/ pc'[Reaper] \in Blocked /\ frame'[Reaper].ret = frame[Reaper].ret
              \/ pc'[Reaper] = frame[Reaper].ret
          <6>1. pc[Reaper] \notin Labels
            BY <5>1 DEF Labels, Blocked, InBlock
          <6> QED BY <1>1, <3>2, <6>1, OwnSteps DEF Blocked, InBlock
        <5> QED BY <5>2, <5>3 DEF Where, Blocked, InBlock
      <4> QED BY <2>8, <2>10, <4>2, <4>3, <4>4, <4>5, <4>6 DEF ThreadStep
    <3> QED BY <3>1, <3>2
  <2> QED BY <2>9, <2>11, <2>12, <2>13
<1>10. Booting' => Booting
  BY <1>7 DEF Booting
<1> QED BY <1>6, <1>7, <1>8, <1>9, <1>10 DEF BootOK, semaphore

(* Once the first thread is made, BootOK asks where the idle threads are   *)
(* and no more.                                                            *)
LEMMA BootQuiet ==
    ASSUME BootOK, ~Booting,
           \A i \in Idle : \/ pc'[i] = pc[i]
                           \/ pc[i] \in Blocked /\ pc'[i] \in {"stop"} \cup Blocked
    PROVE BootOK'
<1>1. \A l \in {"stop"} \cup Blocked : l \notin Early
  BY DEF Early, Blocked, InBlock
<1>2. \A i \in Idle : pc'[i] \in {"stop"} \cup Blocked
  BY DEF BootOK, Booting
<1> QED BY <1>1, <1>2 DEF BootOK, Booting

(* A call is one of the idle thread that boots, or there is none. *)
LEMMA BootCaller ==
    ASSUME SInv, BootOK, NEW c \in Core, NEW l \in Labels \ {"reap", "yield"}, At(c, l)
    PROVE /\ Me(c) \in TCB /\ pc[Me(c)] = l
          /\ Booting => Me(c) \in Idle
          /\ Me(c) \in Idle => l \in Early \cup {"stop"}
<1>1. PICK P : P = Parked /\ IInv(P)
  BY NameParked
<1>2. Me(c) \in TCB /\ pc[Me(c)] = l /\ l \notin Blocked /\ l # "free"
  BY <1>1 DEF IInv, Types, Me, At, Labels, Blocked, InBlock
<1>3. Where(Me(c)) = l
  BY <1>2 DEF Where, Blocked
<1>4. Booting => Me(c) \notin Thread
  BY <1>2, <1>3 DEF BootOK
<1> QED BY <1>2, <1>4 DEF BootOK, TCB

(* The idle thread that boots finds the lock free, so that it never waits. *)
LEMMA BootDown ==
    ASSUME SInv, BootOK, NEW c \in Core, NEW l, NEW m, HeapDown(l, m), Down(c, l, m)
    PROVE BootOK' /\ (DownBlock(c, l, m) => Me(c) \notin Idle)
<1>0. PICK t : t = Me(c)
  OBVIOUS
<1>1. PICK P : P = Parked /\ IInv(P)
  BY NameParked
<1>2. At(c, l) /\ l \in Labels \ {"reap", "yield"} /\ (l \in Early => l = "spawn" /\ m = "alloc")
      /\ l # "stop"
  BY DEF Down, DownTake, DownBlock, HeapDown, CanDown, Labels, Early
<1>3. t \in TCB /\ pc[t] = l /\ (Booting => t \in Idle) /\ (t \in Idle => l \in Early)
  BY <1>0, <1>2, BootCaller
<1>4. \E k : pc' = [pc EXCEPT ![t] = k]
  BY <1>0 DEF Down, DownTake, DownBlock, Block, Goto
<1>5. \A i \in TCB : i # t => pc'[i] = pc[i]
  BY <1>1, <1>4 DEF IInv, Types
<1>6. CASE t \notin Idle
  <2>1. \A i \in Idle : pc'[i] = pc[i]
    BY <1>5, <1>6 DEF TCB
  <2> QED BY <1>0, <1>3, <1>6, <2>1, BootQuiet
<1>7. CASE t \in Idle
  <2>1. pc[t] = "spawn" /\ l = "spawn" /\ m = "alloc"
    BY <1>2, <1>3, <1>7
  <2>2. Booting /\ \A i \in Idle : pc[i] \in Early => i = t
    BY <1>7, <2>1 DEF BootOK, Booting, Early
  <2>3. count = 1
    BY <2>1, <2>2 DEF BootOK, Early
  <2>4. ~DownBlock(c, l, m) /\ DownTake(c, l, m)
    BY <2>3 DEF Down, DownBlock
  <2>5. /\ count' = 0 /\ pc' = [pc EXCEPT ![t] = "alloc"]
        /\ UNCHANGED <<frame, corpse, zombies, waiting, taken>>
    BY <1>0, <2>1, <2>3, <2>4 DEF DownTake, Goto, queues
  <2>6. pc'[t] = "alloc" /\ "alloc" \in Early
    BY <1>1, <1>3, <2>5 DEF IInv, Types, Early
  <2>7. \A i \in Idle : pc'[i] \in Early => i = t
    BY <1>5, <2>2 DEF TCB
  <2>8. /\ \A x \in Thread : pc'[x] = pc[x]
        /\ Where(Reaper)' = Where(Reaper)
    BY <1>5, <1>7, <2>5, IdleFacts DEF TCB, Where
  <2>9. \A i \in Idle : pc'[i] \in Early \cup {"stop"} \cup Blocked
    BY <1>5, <2>6 DEF BootOK, TCB
  <2> QED BY <1>7, <2>2, <2>4, <2>5, <2>6, <2>7, <2>8, <2>9 DEF BootOK, Booting
<1> QED BY <1>6, <1>7

(* ... and gives it back with nobody waiting. *)
LEMMA BootUp ==
    ASSUME SInv, BootOK, NEW c \in Core, NEW l, NEW w, NEW m, HeapUp(l, w, m), Up(c, l, w, m)
    PROVE BootOK'
<1>0. PICK t : t = Me(c)
  OBVIOUS
<1>1. PICK P : P = Parked /\ IInv(P)
  BY NameParked
<1>2. PICK k \in {l, w} : At(c, k) /\ (k = w => Wake(c, w, m))
  <2>1. l # w
    BY DEF HeapUp, CanUp
  <2>2. At(c, l) \/ Wake(c, w, m)
    BY DEF Up, UpCount, UpRemove
  <2> QED BY <2>1, <2>2 DEF Wake
<1>3. /\ k \in Labels \ {"reap", "yield", "stop"}
      /\ k \in Early => k = "alloc" /\ k = l /\ k # w /\ m = "new"
  BY <1>2 DEF HeapUp, CanUp, Labels, Early, Within
<1>4. t \in TCB /\ pc[t] = k /\ (Booting => t \in Idle) /\ (t \in Idle => k \in Early)
  BY <1>0, <1>2, <1>3, BootCaller
<1>5. \E j : pc' = [pc EXCEPT ![t] = j]
  BY <1>0 DEF Up, UpCount, UpRemove, Wake, Goto
<1>6. \A i \in TCB : i # t => pc'[i] = pc[i]
  BY <1>1, <1>5 DEF IInv, Types
<1>7. CASE t \notin Idle
  <2>1. \A i \in Idle : pc'[i] = pc[i]
    BY <1>6, <1>7 DEF TCB
  <2> QED BY <1>4, <1>7, <2>1, BootQuiet
<1>8. CASE t \in Idle
  <2>1. pc[t] = "alloc" /\ l = "alloc" /\ m = "new" /\ w # "alloc"
    BY <1>3, <1>4, <1>8
  <2>2. Booting /\ \A i \in Idle : pc[i] \in Early => i = t
    BY <1>8, <2>1 DEF BootOK, Booting, Early
  <2>3. count = 0 /\ waiting = <<>>
    BY <1>8, <2>1, <2>2 DEF BootOK
  <2>4. UpCount(c, l, m)
    BY <1>0, <2>1, <2>3 DEF Up, UpRemove, Wake, At
  <2>5. /\ count' = 1 /\ pc' = [pc EXCEPT ![t] = "new"]
        /\ UNCHANGED <<frame, corpse, zombies, waiting, taken>>
    BY <1>0, <2>1, <2>3, <2>4 DEF UpCount, Goto, queues
  <2>6. pc'[t] = "new" /\ "new" \in Early
    BY <1>1, <1>4, <2>5 DEF IInv, Types, Early
  <2>7. \A i \in Idle : pc'[i] \in Early => i = t
    BY <1>6, <2>2 DEF TCB
  <2>8. /\ \A x \in Thread : pc'[x] = pc[x]
        /\ Where(Reaper)' = Where(Reaper)
    BY <1>6, <1>8, <2>5, IdleFacts DEF TCB, Where
  <2>9. \A i \in Idle : pc'[i] \in Early \cup {"stop"} \cup Blocked
    BY <1>6, <2>6 DEF BootOK, TCB
  <2>10. \A i \in Idle : pc'[i] # "alloc"
    BY <2>6, <2>7 DEF Early
  <2> QED BY <1>8, <2>2, <2>5, <2>6, <2>7, <2>8, <2>9, <2>10 DEF BootOK, Booting
<1> QED BY <1>7, <1>8

(* The lambda of down() runs when all cores have booted. *)
LEMMA BootHandler ==
    ASSUME SInv, BootOK, NEW c \in Core, DownHandler(c)
    PROVE BootOK'
<1>0. PICK t : t = Me(c)
  OBVIOUS
<1>1. PICK P : P = Parked /\ IInv(P)
  BY NameParked
<1>2. handler[c].act = "down" /\ pc' = [pc EXCEPT ![t] = frame[t].ret]
  BY <1>0 DEF DownHandler, Resume, Goto
<1>3. ~Booting
  <2>1. InDown(c)
    BY <1>2 DEF InDown
  <2> QED BY <2>1 DEF SInv, LockOK, LockHeldBriefly, BootOK
<1>4. t \in TCB /\ pc[t] = "away"
  BY <1>0, <1>1, <1>2 DEF IInv, Types, CoresOK, Me, Pending, NoCall
<1>5. t \in Idle => frame[t].ret = "stop"
  BY <1>1, <1>4 DEF IInv, FramesOK, Blocked
<1>6. \A i \in Idle : pc'[i] = IF i = t THEN "stop" ELSE pc[i]
  BY <1>1, <1>2, <1>4, <1>5 DEF IInv, Types, TCB
<1> QED BY <1>3, <1>4, <1>6, BootQuiet DEF Blocked

(* Nobody waits before a thread runs. *)
LEMMA InitHeap == SemInit => HeapOK /\ BootOK
<1> SUFFICES ASSUME SemInit PROVE HeapOK /\ BootOK
  OBVIOUS
<1>1. /\ count = 1 /\ waiting = <<>> /\ ~taken /\ zombies = <<>>
      /\ corpse = [t \in TCB |-> {}]
      /\ handler = [c \in Core |-> NoCall]
      /\ pc = [t \in TCB |-> IF t = Reaper THEN "away" ELSE IF t \in Idle THEN "boot" ELSE "free"]
      /\ frame = [t \in TCB |-> FirstFrame(t, "reap")]
  BY HeapLockAssumption DEF SemInit, Init
<1>2. Reaper \in TCB /\ \A i \in Idle : i # Reaper /\ i \in TCB
  BY IdleFacts DEF TCB
<1>3. \A t \in TCB : frame[t].act = "yield" /\ frame[t].ret = "reap"
  BY <1>1 DEF FirstFrame, NewFrame
<1>4. \A t \in TCB : ~Waits(t)
  BY <1>3 DEF Waits
<1>5. \A t \in TCB : Where(t) \in {"reap", "boot", "free"}
  BY <1>1, <1>3 DEF Where, InBlock
<1>6. \A t \in TCB : ~Has(t)
  BY <1>5 DEF Has, Within
<1>7. HeapOK
  BY <1>1, <1>4, <1>6 DEF HeapOK
<1>8. Where(Reaper) = "reap"
  BY <1>1, <1>2, <1>3 DEF Where
<1>9. \A i \in Idle : pc[i] = "boot"
  BY <1>1, <1>2
<1>10. \A t \in Thread \ {Reaper} : pc[t] = "free"
  BY <1>1, <1>2, IdleFacts DEF TCB
<1>11. BootOK
  BY <1>1, <1>8, <1>9, <1>10 DEF BootOK, Early
<1> QED BY <1>7, <1>11

(* What a core does for the heap. *)
HeapMove(c) ==
    \/ ThreadStep(c) /\ UNCHANGED semaphore
    \/ DownHandler(c)
    \/ \E l, m \in Labels : HeapDown(l, m) /\ Down(c, l, m)
    \/ \E l, w, m \in Labels : HeapUp(l, w, m) /\ Up(c, l, w, m)

(* A step of HeapSpec is one of a thread or a call of the heap. *)
LEMMA HeapSteps == HeapNext => \E c \in Core : HeapMove(c)
<1>1. ASSUME NEW c \in Core,
             OtherStep(c) \/ HeapCallThread(c) \/ ((Tick(c) \/ Finish(c)) /\ UNCHANGED semaphore)
      PROVE  HeapMove(c)
  BY <1>1 DEF OtherStep, HeapCallThread, ThreadStep, HeapMove
<1>2. ASSUME NEW c \in Core, Freed(c) \/ Made(c) PROVE HeapMove(c)
  BY <1>2 DEF Freed, Made, ThreadStep, Deletes, Spawns, HeapMove
<1>3. ASSUME NEW c \in Core, HeapCall(c) \/ FreeCall(c) \/ AllocCall(c) PROVE HeapMove(c)
  <2>1. /\ HeapDown("work", "heap") /\ HeapDown("delete", "freeing") /\ HeapDown("spawn", "alloc")
        /\ {"work", "heap", "delete", "freeing", "spawn", "alloc"} \subseteq Labels
    BY DEF HeapDown, CanDown, Within, Labels
  <2> QED BY <1>3, <2>1 DEF HeapCall, FreeCall, AllocCall, HeapMove
<1>4. ASSUME NEW c \in Core, HeapDone(c) \/ FreeDone(c) \/ AllocDone(c) PROVE HeapMove(c)
  <2>1. HeapUp("heap", "heapwake", "work")
    BY DEF HeapUp, CanUp, Within
  <2>2. HeapUp("freeing", "freewake", "freed")
    BY DEF HeapUp, CanUp, Within
  <2>3. HeapUp("alloc", "allocwake", "new")
    BY DEF HeapUp, CanUp, Within
  <2>4. {"heap", "heapwake", "work", "freeing", "freewake", "freed",
         "alloc", "allocwake", "new"} \subseteq Labels
    BY DEF Labels
  <2>5. CASE HeapDone(c)
    BY <2>5, <2>1, <2>4 DEF HeapDone, HeapMove
  <2>6. CASE FreeDone(c)
    BY <2>6, <2>2, <2>4 DEF FreeDone, HeapMove
  <2>7. CASE AllocDone(c)
    BY <2>7, <2>3, <2>4 DEF AllocDone, HeapMove
  <2> QED BY <1>4, <2>5, <2>6, <2>7
<1>5. ASSUME NEW c \in Core, DownHandler(c) PROVE HeapMove(c)
  BY <1>5 DEF HeapMove
<1> QED BY <1>1, <1>2, <1>3, <1>4, <1>5 DEF HeapNext, HeapStep

(* Every reachable state satisfies the invariant of the heap's lock. *)
THEOREM HeapInductive == HeapSpec => []HInv
<1>1. SemInit => HInv
  BY InitSInv, InitHeap DEF HInv
<1>2. HInv /\ [HeapNext]_semVars => HInv'
  <2> SUFFICES ASSUME HInv, [HeapNext]_semVars PROVE HInv'
    OBVIOUS
  <2> USE DEF HInv
  <2>1. ASSUME NEW c \in Core, ThreadStep(c), UNCHANGED semaphore PROVE HInv'
    BY <2>1, ThreadSInv, HeapThread, BootThread
  <2>2. ASSUME NEW c \in Core, DownHandler(c) PROVE HInv'
    BY <2>2, DownHandlerSInv, DownHandlerHeap, BootHandler
  <2>3. ASSUME NEW c \in Core, NEW l, NEW m, HeapDown(l, m), Down(c, l, m) PROVE HInv'
    <3>1. CanDown(l, m)
      BY <2>3 DEF HeapDown
    <3>2. BootOK' /\ (DownBlock(c, l, m) => Me(c) \notin Idle)
      BY <2>3, BootDown
    <3> QED BY <2>3, <3>1, <3>2, DownTakeSInv, DownBlockSInv, DownTakeHeap, DownBlockHeap DEF Down
  <2>4. ASSUME NEW c \in Core, NEW l, NEW w, NEW m, HeapUp(l, w, m), Up(c, l, w, m) PROVE HInv'
    <3>1. CanUp(l, w, m)
      BY <2>4 DEF HeapUp
    <3>2. BootOK'
      BY <2>4, BootUp
    <3> QED BY <2>4, <3>1, <3>2, UpCountSInv, UpRemoveSInv, WakeSInv,
               UpCountHeap, UpRemoveHeap, WakeHeap DEF Up
  <2>5. ASSUME UNCHANGED semVars PROVE HInv'
    <3>1. UNCHANGED <<onCore, pc, frame, corpse, handler, zombies, count, waiting, taken>>
      BY <2>5 DEF semVars, vars, cpu, queues, semaphore
    <3>2. \A t \in TCB : (Waits(t)' <=> Waits(t)) /\ (Has(t)' <=> Has(t)) /\ Where(t)' = Where(t)
      BY <3>1 DEF Waits, Has, Where
    <3>3. HeapOK'
      BY <3>1, <3>2 DEF HeapOK
    <3>4. BootOK'
      BY <3>1 DEF BootOK, Booting, Where
    <3> QED BY <2>5, <3>3, <3>4, StutterSInv
  <2> QED BY <2>1, <2>2, <2>3, <2>4, <2>5, HeapSteps DEF HeapMove
<1> QED
  BY <1>1, <1>2, PTL DEF HeapSpec

(* The heap's data is never entered by two threads, count says whether it  *)
(* may be, and no idle thread blocks for it (semaphore.h:33).              *)
THEOREM HeapByOneThread == HeapSpec => []HeapExclusive
<1>1. HInv => HeapExclusive
  <2> SUFFICES ASSUME HInv PROVE HeapExclusive
    OBVIOUS
  <2>1. PICK P : P = Parked /\ IInv(P)
    BY NameParked DEF HInv
  <2>2. \A t \in Idle : t \in TCB /\ ~Waits(t)
    BY <2>1, WaitsBlocked DEF HInv, IInv, FramesOK, TCB
  <2>3. \A t \in Idle, u \in TCB : t \notin woken[u]
    BY <2>2, IdleFacts DEF HInv, SInv, SemTypes
  <2> QED BY <2>2, <2>3 DEF HeapExclusive, HInv, HeapOK
<1> QED
  BY <1>1, HeapInductive, PTL

(* Only while the reaper waits for the heap's lock, or for a core after    *)
(* that, can block() have left every core to a thread the timer spares.    *)
THEOREM NotAllHeldButForTheReaper == HeapSpec => []HeldWithoutReaper
<1>1. HInv => HeldWithoutReaper
  <2> SUFFICES ASSUME HInv, ~SomeCorePreemptible
               PROVE  frame[Reaper].act = "down" /\ pc[Reaper] \in InBlock \cup {"away"}
    BY DEF HeldWithoutReaper
  <2>1. PICK P : P = Parked /\ JInv(P) /\ IInv(P)
    BY NameParked DEF HInv
  <2>2. ASSUME NEW c \in Core PROVE Held(c)
    <3>1. handler[c] = NoCall /\ pc[Me(c)] = "work" /\ no_preempt[Me(c)]
      BY DEF SomeCorePreemptible, Unpreemptible
    <3>2. onCore[c] \in TCB /\ onCore[c] \notin Idle
      BY <2>1, <3>1 DEF IInv, Types, JInv, IdleOK, Me
    <3>3. onCore[c] # Reaper
      BY <2>1, <3>1 DEF JInv, ReaperOK, Loop, Blocked, InBlock, Me
    <3> QED BY <3>1, <3>2, <3>3 DEF Held, Pending, Me, Labels, TCB
  <2> QED BY <2>1, <2>2 DEF JInv, CoreFree, ReaperWaits, Blocked
<1> QED
  BY <1>1, HeapInductive, PTL

(* What is proved of a semaphore holds of the heap's lock. *)
THEOREM HeapLockIsASemaphore ==
    HeapSpec => [](LockHeldBriefly /\ SemOnePlace) /\ ImplementsSemaphore
<1>1. HInv => LockHeldBriefly /\ SemOnePlace
  BY SemPlacesApart DEF HInv, SInv, LockOK
<1>2. SemInit => AbstractSemaphore!Init
  BY DEF SemInit, AbstractSemaphore!Init
<1>3. HInv /\ [HeapNext]_semVars => [AbstractSemaphore!Next]_AbstractSemaphore!vars
  <2> SUFFICES ASSUME HInv, [HeapNext]_semVars
               PROVE  [AbstractSemaphore!Next]_AbstractSemaphore!vars
    OBVIOUS
  <2>1. ASSUME UNCHANGED semaphore PROVE [AbstractSemaphore!Next]_AbstractSemaphore!vars
    BY <2>1 DEF semaphore, AbstractSemaphore!vars
  <2>2. ASSUME NEW c \in Core, NEW l, NEW w, NEW m,
               DownHandler(c) \/ Down(c, l, m) \/ Up(c, l, w, m)
        PROVE  [AbstractSemaphore!Next]_AbstractSemaphore!vars
    BY <2>2, CallRefines DEF HInv
  <2> QED BY <2>1, <2>2, HeapSteps DEF HeapMove, semVars
<1> QED
  BY <1>1, <1>2, <1>3, HeapInductive, PTL DEF HeapSpec, ImplementsSemaphore, AbstractSemaphore!Spec
=============================================================================
