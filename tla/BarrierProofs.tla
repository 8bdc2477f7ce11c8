---------------------------- MODULE BarrierProofs ----------------------------
(***************************************************************************)
(* What TLAPS proves of Condition and ReusableBarrier for any number of    *)
(* cores and threads: no signal is missed, and nobody leaves a round before*)
(* everybody has entered it.                                               *)
(*                                                                         *)
(* The scheduler does not know the labels of sync(): to it, a thread there *)
(* is at "work".  It knows that interrupts are off inside the monitor no   *)
(* more than it knows of the monitor, and a wait() that blocks is to it    *)
(* what a down() is.  Seen so, every step of the barrier is a step that    *)
(* ThreadsProofs has a lemma about, or none, and its invariant holds of    *)
(* what is seen (T below).  What is left to prove is about the monitor, the*)
(* epochs and the rounds.                                                  *)
(***************************************************************************)
EXTENDS ReusableBarrier, SequenceTheorems, FiniteSetTheorems, TLAPS

Monitor == {"last", "check", "notify", "leave"}
Syncing == Monitor \cup {"released", "relock"}

SeenLabel(l) == IF l \in Syncing THEN "work" ELSE l
SeenAct(a) == IF a = "wait" THEN "down" ELSE a
SeenFrame(f) ==
    [core_id |-> f.core_id, me |-> f.me, next |-> f.next, opt |-> f.opt,
     act |-> SeenAct(f.act), ret |-> SeenLabel(f.ret), iff |-> f.iff]
SeenCall(h) == [act |-> SeenAct(h.act), prev |-> h.prev]

(* The IF flag, but for the monitor; and off in wait(), as in down(). *)
SeenFlag(c) ==
    IF handler[c] = NoCall /\ pc[onCore[c]] \in Monitor THEN TRUE
    ELSE IF pc[onCore[c]] \in InBlock /\ frame[onCore[c]].act = "wait" THEN FALSE
    ELSE interrupts[c]

seenPc == [t \in TCB |-> SeenLabel(pc[t])]
seenFrame == [t \in TCB |-> SeenFrame(frame[t])]
seenHandler == [c \in Core |-> SeenCall(handler[c])]
seenInterrupts == [c \in Core |-> SeenFlag(c)]

(* No semaphore is here. *)
T == INSTANCE ThreadsProofs
       WITH pc <- seenPc, frame <- seenFrame, handler <- seenHandler,
            interrupts <- seenInterrupts,
            Initial <- 1, MaxCount <- 1, count <- 1, waiting <- <<>>, taken <- FALSE,
            woken <- [t \in TCB |-> {}]

-----------------------------------------------------------------------------
(* The types of the real state *)

Labels == Outside \cup Syncing

BarrierFrame ==
    [core_id : Core, me : TCB, next : TCB,
     opt : {"CanReturn", "MustBlock"}, act : {"yield", "stop", "wait"},
     ret : Labels \ Monitor, iff : BOOLEAN]

BarrierCall == [act : {"none", "yield", "stop", "wait"}, prev : TCB]

(* What block() and its callers change ... *)
StackTypes ==
    /\ interrupts \in [Core -> BOOLEAN]
    /\ pc \in [TCB -> Labels \cup InBlock \cup {"away", "free"}]
    /\ frame \in [TCB -> BarrierFrame]
    /\ handler \in [Core -> BarrierCall]

(* ThreadsProofs' assumptions are those of Threads. *)
LEMMA SeenAssumptions ==
    T!CoreAssumption /\ T!ThreadAssumption /\ T!IdleAssumption /\ T!HeapLockAssumption
<1>1. T!CoreAssumption
  BY CoreAssumption DEF T!IsFiniteSet, IsFiniteSet
<1>2. T!ThreadAssumption /\ T!HeapLockAssumption
  BY ThreadAssumption
<1>3. T!IdleAssumption
  BY IdleAssumption DEF T!Idle, Idle
<1> QED BY <1>1, <1>2, <1>3

(* ... and what it calls by a name is the same. *)
LEMMA SeenSame ==
    /\ T!TCB = TCB /\ T!Idle = Idle /\ T!NoCall = NoCall /\ T!InBlock = InBlock
    /\ T!Chosen = Chosen /\ T!Outside = Outside
    /\ \A c \in Core : T!Me(c) = Me(c)
  BY DEF T!TCB, TCB, T!Idle, Idle, T!NoCall, NoCall, T!InBlock, InBlock,
     T!Chosen, Chosen, T!Outside, Outside, T!Me, Me

(* The fields of what is seen. *)
LEMMA SeenFields ==
    ASSUME StackTypes
    PROVE /\ \A t \in TCB : /\ seenPc[t] = SeenLabel(pc[t])
                            /\ seenFrame[t].core_id = frame[t].core_id
                            /\ seenFrame[t].me = frame[t].me
                            /\ seenFrame[t].next = frame[t].next
                            /\ seenFrame[t].opt = frame[t].opt
                            /\ seenFrame[t].act = SeenAct(frame[t].act)
                            /\ seenFrame[t].ret = SeenLabel(frame[t].ret)
                            /\ seenFrame[t].iff = frame[t].iff
          /\ \A c \in Core : /\ seenHandler[c].prev = handler[c].prev
                             /\ seenHandler[c].act = SeenAct(handler[c].act)
                             /\ seenInterrupts[c] = SeenFlag(c)
  BY DEF seenPc, seenFrame, seenHandler, seenInterrupts, SeenFrame, SeenCall

(* A lambda is pending if one is seen to be. *)
LEMMA SeenPending ==
    ASSUME StackTypes, NEW c \in Core
    PROVE seenHandler[c] = NoCall <=> handler[c] = NoCall
<1>1. handler[c] \in BarrierCall
  BY DEF StackTypes
<1>2. SeenCall(handler[c]) = NoCall <=> handler[c] = NoCall
  BY <1>1 DEF SeenCall, SeenAct, NoCall, BarrierCall
<1> QED BY <1>2 DEF seenHandler

(* ... and a thread is outside sync() and block() where it is seen there. *)
LEMMA SeenAt ==
    ASSUME StackTypes, NEW t \in TCB, NEW l
    PROVE /\ pc[t] = l => seenPc[t] = SeenLabel(l)
          /\ l \notin Syncing /\ l # "work" => (seenPc[t] = l <=> pc[t] = l)
          /\ l = "work" => (seenPc[t] = l <=> pc[t] \in Syncing \cup {"work"})
  BY DEF StackTypes, seenPc, SeenLabel

(* A change of one thread's place, of its frame, and of a core's call. *)
LEMMA SeenGoto ==
    ASSUME StackTypes, NEW t \in TCB, NEW l, pc' = [pc EXCEPT ![t] = l]
    PROVE seenPc' = [seenPc EXCEPT ![t] = SeenLabel(l)]
  BY DEF StackTypes, seenPc

LEMMA SeenPut ==
    ASSUME StackTypes, NEW t \in TCB, NEW f, frame' = [frame EXCEPT ![t] = f]
    PROVE seenFrame' = [seenFrame EXCEPT ![t] = SeenFrame(f)]
  BY DEF StackTypes, seenFrame

LEMMA SeenSet ==
    ASSUME StackTypes, NEW c \in Core, NEW h, handler' = [handler EXCEPT ![c] = h]
    PROVE seenHandler' = [seenHandler EXCEPT ![c] = SeenCall(h)]
  BY DEF StackTypes, seenHandler

(* The flags of the cores where nothing happens. *)
LEMMA SeenFlags ==
    ASSUME StackTypes, NEW c \in Core,
           \A d \in Core : d # c =>
               /\ onCore'[d] = onCore[d] /\ handler'[d] = handler[d]
               /\ interrupts'[d] = interrupts[d]
               /\ pc'[onCore[d]] = pc[onCore[d]]
               /\ frame'[onCore[d]] = frame[onCore[d]]
    PROVE /\ \A v : SeenFlag(c)' = v => seenInterrupts' = [seenInterrupts EXCEPT ![c] = v]
          /\ SeenFlag(c)' = SeenFlag(c) => seenInterrupts' = seenInterrupts
<1>1. \A d \in Core : d # c => SeenFlag(d)' = SeenFlag(d)
  BY DEF SeenFlag
<1> QED BY <1>1 DEF seenInterrupts

(* The frames block() works with. *)
LEMMA SeenNext == ASSUME NEW f \in BarrierFrame, NEW x \in TCB
                  PROVE SeenFrame([f EXCEPT !.next = x]) = [SeenFrame(f) EXCEPT !.next = x]
  BY DEF BarrierFrame, SeenFrame

(* A frame that is left behind is seen spent. *)
LEMMA SeenSpent == ASSUME NEW f \in BarrierFrame
                   PROVE SeenFrame(Spent(f)) = T!Spent(SeenFrame(f))
<1>1. T!AnyCore = AnyCore
  BY DEF T!AnyCore, AnyCore
<1> DEFINE g == [f EXCEPT !.core_id = AnyCore, !.next = f.me]
           h == SeenFrame(f)
<1>2. /\ g.core_id = AnyCore /\ g.next = f.me /\ g.me = f.me /\ g.opt = f.opt
      /\ g.act = f.act /\ g.ret = f.ret /\ g.iff = f.iff
  BY DEF BarrierFrame
<1>3. g = [core_id |-> AnyCore, me |-> f.me, next |-> f.me, opt |-> f.opt,
           act |-> f.act, ret |-> f.ret, iff |-> f.iff]
  <2> DEFINE k == [f EXCEPT !.core_id = AnyCore]
  <2>1. k = [core_id |-> AnyCore, me |-> f.me, next |-> f.next, opt |-> f.opt,
             act |-> f.act, ret |-> f.ret, iff |-> f.iff]
    BY DEF BarrierFrame
  <2>2. g = [k EXCEPT !.next = f.me]
    OBVIOUS
  <2> HIDE DEF g, k
  <2> QED BY <2>1, <2>2
<1>4. T!Spent(h) = [core_id |-> AnyCore, me |-> h.me, next |-> h.me, opt |-> h.opt,
                    act |-> h.act, ret |-> h.ret, iff |-> h.iff]
  <2> DEFINE k == [h EXCEPT !.core_id = AnyCore]
  <2>1. k = [core_id |-> AnyCore, me |-> h.me, next |-> h.next, opt |-> h.opt,
             act |-> h.act, ret |-> h.ret, iff |-> h.iff]
    BY DEF SeenFrame
  <2>2. T!Spent(h) = [k EXCEPT !.next = h.me]
    BY <1>1 DEF T!Spent
  <2> QED BY <2>1, <2>2
<1> HIDE DEF g
<1>5. SeenFrame(g) = T!Spent(h)
  BY <1>2, <1>4 DEF SeenFrame
<1> QED BY <1>5 DEF Spent, g

(* A new frame is seen new. *)
LEMMA SeenNewFrame ==
    ASSUME NEW c, NEW me, NEW opt, NEW act, NEW ret, NEW iff
    PROVE SeenFrame(NewFrame(c, me, opt, act, ret, iff))
            = T!NewFrame(c, me, opt, SeenAct(act), SeenLabel(ret), iff)
  BY DEF SeenFrame, NewFrame, T!NewFrame

-----------------------------------------------------------------------------
(* What ThreadsProofs' invariant says of the real state. *)

(* Every core runs one thread, and every thread that runs is on one core. *)
LEMMA RealCores ==
    ASSUME StackTypes, NEW P, T!IInv(P)
    PROVE /\ onCore \in [Core -> TCB] /\ activeThreads \in [Core -> TCB]
          /\ no_preempt \in [TCB -> BOOLEAN] /\ corpse \in [TCB -> SUBSET TCB]
          /\ readyQ \in Seq(Thread) /\ zombies \in Seq(Thread)
          /\ \A c, d \in Core : onCore[c] = onCore[d] => c = d
          /\ \A c \in Core : /\ handler[c] = NoCall => pc[onCore[c]] \in Labels \cup InBlock
                             /\ handler[c] # NoCall => pc[onCore[c]] = "away"
          /\ \A t \in TCB : pc[t] \in Labels \cup InBlock => \E c \in Core : onCore[c] = t
<1>1. /\ onCore \in [Core -> TCB] /\ activeThreads \in [Core -> TCB]
      /\ no_preempt \in [TCB -> BOOLEAN] /\ corpse \in [TCB -> SUBSET TCB]
      /\ readyQ \in Seq(Thread) /\ zombies \in Seq(Thread)
  BY SeenSame DEF T!IInv, T!Types
<1>2. T!CoresOK
  BY DEF T!IInv
<1>3. \A l \in Labels \cup InBlock \cup {"away", "free"} :
          /\ SeenLabel(l) = "away" <=> l = "away"
          /\ SeenLabel(l) \in T!Running <=> l \in Labels \cup InBlock
  BY DEF SeenLabel, T!Running, T!Labels, T!InBlock, Labels, Outside, InBlock, Syncing, Monitor
<1>4. \A t \in TCB : /\ seenPc[t] = "away" <=> pc[t] = "away"
                     /\ seenPc[t] \in T!Running <=> pc[t] \in Labels \cup InBlock
  BY <1>3, SeenFields DEF StackTypes
<1>5. \A c, d \in Core : onCore[c] = onCore[d] => c = d
  BY <1>2 DEF T!CoresOK
<1>6. \A c \in Core : T!Pending(c) <=> handler[c] # NoCall
  BY SeenPending, SeenSame DEF T!Pending
<1>7. \A c \in Core : IF T!Pending(c) THEN seenPc[onCore[c]] = "away"
                                      ELSE seenPc[onCore[c]] \in T!Running
  BY <1>2 DEF T!CoresOK
<1>8. \A t \in TCB : seenPc[t] \in T!Running => \E c \in Core : onCore[c] = t
  BY <1>2, SeenSame DEF T!CoresOK
<1>9. \A c \in Core : /\ handler[c] = NoCall => pc[onCore[c]] \in Labels \cup InBlock
                      /\ handler[c] # NoCall => pc[onCore[c]] = "away"
  BY <1>1, <1>4, <1>6, <1>7
<1>10. \A t \in TCB : pc[t] \in Labels \cup InBlock => \E c \in Core : onCore[c] = t
  BY <1>4, <1>8
<1> QED BY <1>1, <1>5, <1>9, <1>10

(* What block() left in the frames. *)
LEMMA RealFrames ==
    ASSUME StackTypes, NEW P, T!IInv(P)
    PROVE /\ \A c \in Core : pc[onCore[c]] \in InBlock =>
                frame[onCore[c]].core_id = c /\ frame[onCore[c]].me = onCore[c]
                /\ no_preempt[onCore[c]]
          /\ \A t \in TCB : pc[t] \in InBlock \cup {"away"} =>
                /\ frame[t].iff
                /\ frame[t].act = "stop" => frame[t].ret = "stop"
                /\ frame[t].act = "yield" <=> frame[t].opt = "CanReturn"
                /\ t \in Idle => frame[t].act = "stop"
          /\ \A c \in Core : activeThreads[c] = IF pc[onCore[c]] = "switch"
                                                THEN frame[onCore[c]].next ELSE onCore[c]
          /\ \A c \in Core : pc[onCore[c]] = "switch" => no_preempt[frame[onCore[c]].next]
<1>1. onCore \in [Core -> TCB]
  BY RealCores
<1>2. T!FramesOK /\ T!ActiveOK
  BY DEF T!IInv
<1>3. \A t \in TCB : /\ seenPc[t] \in InBlock <=> pc[t] \in InBlock
                     /\ seenPc[t] \in T!Blocked <=> pc[t] \in InBlock \cup {"away"}
                     /\ seenPc[t] = "switch" <=> pc[t] = "switch"
  BY SeenFields DEF StackTypes, SeenLabel, T!Blocked, T!InBlock, InBlock, Syncing, Monitor
<1>4. \A c \in Core : pc[onCore[c]] \in InBlock =>
          frame[onCore[c]].core_id = c /\ frame[onCore[c]].me = onCore[c]
          /\ no_preempt[onCore[c]]
  BY <1>1, <1>2, <1>3, SeenFields, SeenSame DEF T!FramesOK, T!ActiveOK
<1>5. ASSUME NEW t \in TCB, pc[t] \in InBlock \cup {"away"}
      PROVE  /\ frame[t].iff
             /\ frame[t].act = "stop" => frame[t].ret = "stop"
             /\ frame[t].act = "yield" <=> frame[t].opt = "CanReturn"
             /\ t \in Idle => frame[t].act = "stop"
  <2>1. t \in T!TCB /\ seenPc[t] \in T!Blocked
    BY <1>3, <1>5, SeenSame
  <2>2. /\ seenFrame[t].iff
        /\ seenFrame[t].act = "stop" => seenFrame[t].ret = "stop"
        /\ seenFrame[t].act = "yield" <=> seenFrame[t].opt = "CanReturn"
        /\ t \in T!Idle => seenFrame[t].act = "stop"
    BY <1>2, <2>1 DEF T!FramesOK
  <2> QED BY <2>2, SeenFields, SeenSame DEF SeenAct, SeenLabel
<1>6. \A c \in Core :
          LET t == IF seenPc[onCore[c]] = "switch" THEN seenFrame[onCore[c]].next ELSE onCore[c]
          IN  activeThreads[c] = t
  BY <1>2 DEF T!ActiveOK
<1>7. \A c \in Core : activeThreads[c] = IF pc[onCore[c]] = "switch" THEN frame[onCore[c]].next
                                                                     ELSE onCore[c]
  BY <1>1, <1>3, <1>6, SeenFields
<1>8. \A c \in Core : pc[onCore[c]] = "switch" => no_preempt[frame[onCore[c]].next]
  BY <1>1, <1>2, <1>3, SeenFields DEF T!ActiveOK
<1> QED BY <1>4, <1>5, <1>7, <1>8

(* ... of threads off the cores ... *)
LEMMA RealAway ==
    ASSUME StackTypes, NEW P, T!IInv(P), NEW x \in TCB, T!Away(x)
    PROVE pc[x] = "away" /\ \A c \in Core : onCore[c] # x
  BY SeenFields DEF T!Away, T!OffCore, SeenLabel

(* A thread that was chosen or left behind is on no core. *)
LEMMA RealElsewhere ==
    ASSUME StackTypes, NEW P, T!IInv(P)
    PROVE /\ \A t \in TCB : pc[t] \in Chosen =>
                 pc[frame[t].next] = "away" /\ \A c \in Core : onCore[c] # frame[t].next
          /\ \A c \in Core : handler[c] # NoCall =>
                 /\ handler[c].prev \in TCB
                 /\ pc[handler[c].prev] = "away" /\ \A d \in Core : onCore[d] # handler[c].prev
                 /\ frame[handler[c].prev].act = handler[c].act
          /\ \A t, x \in TCB : x \in corpse[t] =>
                 /\ pc[x] = "away" /\ frame[x].ret = "stop"
                 /\ \A c \in Core : onCore[c] # x
<1> USE SeenSame DEF T!IInv
<1>1. ASSUME NEW t \in TCB, pc[t] \in Chosen
      PROVE  pc[frame[t].next] = "away" /\ \A c \in Core : onCore[c] # frame[t].next
  <2>1. seenPc[t] \in Chosen /\ seenFrame[t].next = frame[t].next /\ frame[t].next \in TCB
    BY <1>1, SeenFields DEF SeenLabel, Chosen, Syncing, Monitor, StackTypes, BarrierFrame
  <2>2. T!Away(frame[t].next)
    BY <2>1 DEF T!NextOK
  <2> QED BY <2>1, <2>2, RealAway
<1>2. ASSUME NEW c \in Core, handler[c] # NoCall
      PROVE  /\ handler[c].prev \in TCB
             /\ pc[handler[c].prev] = "away" /\ \A d \in Core : onCore[d] # handler[c].prev
             /\ frame[handler[c].prev].act = handler[c].act
  <2>1. T!Pending(c) /\ handler[c].prev \in TCB /\ seenHandler[c].prev = handler[c].prev
    BY <1>2, SeenPending, SeenFields DEF T!Pending, StackTypes, BarrierCall
  <2>2. T!Away(handler[c].prev) /\ seenFrame[handler[c].prev].act = seenHandler[c].act
    BY <2>1 DEF T!CallsOK
  <2>3. /\ frame[handler[c].prev].act \in {"yield", "stop", "wait"}
        /\ handler[c].act \in {"none", "yield", "stop", "wait"}
        /\ SeenAct(frame[handler[c].prev].act) = SeenAct(handler[c].act)
    BY <2>1, <2>2, SeenFields DEF StackTypes, BarrierFrame, BarrierCall
  <2> QED BY <2>1, <2>2, <2>3, RealAway DEF SeenAct
<1>3. ASSUME NEW t \in TCB, NEW x \in TCB, x \in corpse[t]
      PROVE  /\ pc[x] = "away" /\ frame[x].ret = "stop"
             /\ \A c \in Core : onCore[c] # x
  <2>1. T!Away(x) /\ seenFrame[x].act = "stop"
    BY <1>3 DEF T!CorpsesOK
  <2>2. frame[x].act = "stop"
    BY <2>1, SeenFields DEF SeenAct
  <2> QED BY <2>1, <2>2, RealAway, RealFrames
<1> QED BY <1>1, <1>2, <1>3

(* ... and of the IF flags. *)
LEMMA RealFlags ==
    ASSUME StackTypes, NEW P, T!IInv(P), NEW c \in Core
    PROVE /\ handler[c] # NoCall => ~interrupts[c]
          /\ handler[c] = NoCall /\ pc[onCore[c]] \in Labels \ Monitor => interrupts[c]
<1> USE SeenSame, RealCores DEF T!IInv
<1>1. IF T!Pending(c) THEN ~seenInterrupts[c] ELSE seenPc[onCore[c]] \in T!Labels => seenInterrupts[c]
  BY DEF T!InterruptsOK
<1>2. T!Pending(c) <=> handler[c] # NoCall
  BY SeenPending DEF T!Pending
<1>3. pc[onCore[c]] \in Labels => seenPc[onCore[c]] \in T!Labels /\ pc[onCore[c]] \notin InBlock
  BY SeenFields DEF SeenLabel, Labels, T!Labels, Syncing, Monitor, Outside, InBlock
<1>4. seenInterrupts[c] = SeenFlag(c)
  BY SeenFields
<1>5. handler[c] # NoCall => SeenFlag(c) = interrupts[c]
  BY DEF SeenFlag, InBlock
<1>6. handler[c] = NoCall /\ pc[onCore[c]] \in Labels \ Monitor => SeenFlag(c) = interrupts[c]
  BY <1>3 DEF SeenFlag
<1> QED BY <1>1, <1>2, <1>3, <1>4, <1>5, <1>6

-----------------------------------------------------------------------------
(* The steps of Threads are seen as what they are. *)

(* Core c goes on in its thread, outside the monitor ... *)
Change(c, m, f, b) ==
    /\ handler[c] = NoCall
    /\ m \notin Monitor
    /\ pc' = [pc EXCEPT ![onCore[c]] = m]
    /\ frame' = [frame EXCEPT ![onCore[c]] = f]
    /\ interrupts' = [interrupts EXCEPT ![c] = b]
    /\ UNCHANGED <<onCore, handler>>

(* ... and what is seen of it. *)
SeenChange(c, m, f, b) ==
    /\ seenPc' = [seenPc EXCEPT ![onCore[c]] = SeenLabel(m)]
    /\ seenFrame' = [seenFrame EXCEPT ![onCore[c]] = SeenFrame(f)]
    /\ seenHandler' = seenHandler
    /\ LET v == IF m \in InBlock /\ f.act = "wait" THEN FALSE ELSE b
       IN  /\ seenInterrupts' = [seenInterrupts EXCEPT ![c] = v]
           /\ v = SeenFlag(c) => seenInterrupts' = seenInterrupts

(* What a core does to its own thread and flag is seen as the same. *)
LEMMA SeenOwn ==
    ASSUME StackTypes, NEW P, T!IInv(P), NEW c \in Core,
           NEW m, NEW f, NEW b, Change(c, m, f, b)
    PROVE SeenChange(c, m, f, b)
<1> USE DEF Change
<1> DEFINE t == onCore[c]
           v == IF m \in InBlock /\ f.act = "wait" THEN FALSE ELSE b
<1>1. t \in TCB /\ \A d \in Core : d # c => onCore[d] # t
  BY RealCores
<1> HIDE DEF t
<1>2. \A d \in Core : d # c =>
          /\ onCore'[d] = onCore[d] /\ handler'[d] = handler[d]
          /\ interrupts'[d] = interrupts[d]
          /\ pc'[onCore[d]] = pc[onCore[d]]
          /\ frame'[onCore[d]] = frame[onCore[d]]
  BY <1>1 DEF StackTypes, t
<1>3. pc'[t] = m /\ frame'[t] = f /\ interrupts'[c] = b /\ onCore'[c] = t
  BY <1>1 DEF StackTypes, t
<1>4. SeenFlag(c)' = v
  BY <1>3 DEF SeenFlag
<1>5. /\ seenInterrupts' = [seenInterrupts EXCEPT ![c] = v]
      /\ v = SeenFlag(c) => seenInterrupts' = seenInterrupts
  BY <1>2, <1>4, SeenFlags
<1>6. seenHandler' = seenHandler
  BY DEF seenHandler
<1>7. seenPc' = [seenPc EXCEPT ![t] = SeenLabel(m)]
  BY <1>1, SeenGoto DEF t
<1>8. seenFrame' = [seenFrame EXCEPT ![t] = SeenFrame(f)]
  BY <1>1, SeenPut DEF t
<1> QED BY <1>5, <1>6, <1>7, <1>8 DEF t, SeenChange

(* An unchanged function, written as a change. *)
LEMMA SameExcept ==
    ASSUME NEW S, NEW F, F = [x \in S |-> F[x]], NEW s \in S
    PROVE F = [F EXCEPT ![s] = F[s]]
  OBVIOUS

(* What is seen of the flag outside the monitor. *)
LEMMA FlagOutside ==
    ASSUME StackTypes, NEW c \in Core, pc[onCore[c]] \notin Monitor
    PROVE SeenFlag(c) = IF pc[onCore[c]] \in InBlock /\ frame[onCore[c]].act = "wait"
                        THEN FALSE ELSE interrupts[c]
  BY DEF SeenFlag

(* ... and when it goes on inside block(). *)
LEMMA SeenStay ==
    ASSUME StackTypes, NEW P, T!IInv(P), NEW c \in Core, handler[c] = NoCall,
           pc[onCore[c]] \in InBlock, NEW m \in InBlock,
           NEW g, g.act = frame[onCore[c]].act,
           pc' = [pc EXCEPT ![onCore[c]] = m],
           frame' = [frame EXCEPT ![onCore[c]] = g],
           onCore' = onCore, handler' = handler, interrupts' = interrupts
    PROVE /\ seenPc' = [seenPc EXCEPT ![onCore[c]] = m]
          /\ seenFrame' = [seenFrame EXCEPT ![onCore[c]] = SeenFrame(g)]
          /\ seenHandler' = seenHandler
          /\ seenInterrupts' = seenInterrupts
<1>1. SeenFlag(c) = IF g.act = "wait" THEN FALSE ELSE interrupts[c]
  BY FlagOutside DEF InBlock, Monitor
<1>2. SeenLabel(m) = m /\ m \notin Monitor
  BY DEF SeenLabel, InBlock, Syncing, Monitor
<1>3. Change(c, m, g, interrupts[c])
  BY <1>2 DEF Change, StackTypes
<1>4. SeenChange(c, m, g, interrupts[c])
  BY <1>3, SeenOwn
<1> QED BY <1>1, <1>2, <1>4 DEF SeenChange

(* block() up to its switch is seen as block() up to its switch. *)
LEMMA SeenPicks ==
    ASSUME StackTypes, NEW P, T!IInv(P), NEW c \in Core,
           PickReady(c) \/ PickIdle(c) \/ Mark(c) \/ Activate(c)
    PROVE T!PickReady(c) \/ T!PickIdle(c) \/ T!Mark(c) \/ T!Activate(c)
<1> DEFINE t == onCore[c]
           f == frame[t]
<1>1. t \in TCB /\ f \in BarrierFrame /\ Me(c) = t /\ T!Me(c) = t
  BY RealCores DEF StackTypes, Me, T!Me
<1>2. handler[c] = NoCall /\ pc[t] \in InBlock
  BY DEF PickReady, PickIdle, Mark, Activate, At, InBlock, Me
<1>3. seenHandler[c] = T!NoCall /\ seenPc[t] = pc[t] /\ seenFrame[t] = SeenFrame(f)
  BY <1>1, <1>2, SeenPending, SeenSame, SeenFields DEF SeenLabel, InBlock, Syncing, Monitor, seenFrame
<1>4. \A l \in InBlock : T!At(c, l) <=> pc[t] = l
  BY <1>1, <1>3 DEF T!At
<1>5. \A x \in TCB : SeenFrame([f EXCEPT !.next = x]) = [SeenFrame(f) EXCEPT !.next = x]
  BY <1>1, SeenNext
<1>6. /\ SeenFrame(f).core_id = f.core_id /\ SeenFrame(f).me = f.me /\ SeenFrame(f).next = f.next
      /\ SeenFrame(f).opt = f.opt
  BY DEF SeenFrame
<1>7. frame = [frame EXCEPT ![t] = f] /\ seenFrame = [seenFrame EXCEPT ![t] = SeenFrame(f)]
  BY <1>1, <1>3 DEF StackTypes, seenFrame
<1>8. ASSUME NEW x \in TCB, NEW m \in InBlock,
             pc' = [pc EXCEPT ![t] = m],
             frame' = [frame EXCEPT ![t].next = x],
             UNCHANGED <<onCore, handler, interrupts>>
      PROVE  /\ seenPc' = [seenPc EXCEPT ![t] = m]
             /\ seenFrame' = [seenFrame EXCEPT ![t].next = x]
             /\ seenHandler' = seenHandler /\ seenInterrupts' = seenInterrupts
  <2> DEFINE g == [f EXCEPT !.next = x]
  <2>1. g.act = frame[t].act
    BY <1>1 DEF BarrierFrame
  <2>2. frame' = [frame EXCEPT ![t] = g]
    BY <1>8
  <2>3. SeenFrame(g) = [seenFrame[t] EXCEPT !.next = x]
    BY <1>3, <1>5
  <2> HIDE DEF g, t, f
  <2>4. /\ seenPc' = [seenPc EXCEPT ![t] = m]
        /\ seenFrame' = [seenFrame EXCEPT ![t] = SeenFrame(g)]
        /\ seenHandler' = seenHandler /\ seenInterrupts' = seenInterrupts
    BY <2>1, <2>2, <1>2, <1>8, SeenStay DEF t
  <2> QED BY <2>3, <2>4
<1>9. ASSUME NEW m \in InBlock, pc' = [pc EXCEPT ![t] = m],
             UNCHANGED <<onCore, handler, interrupts, frame>>
      PROVE  /\ seenPc' = [seenPc EXCEPT ![t] = m] /\ seenFrame' = seenFrame
             /\ seenHandler' = seenHandler /\ seenInterrupts' = seenInterrupts
  <2>1. frame' = [frame EXCEPT ![t] = f]
    BY <1>7, <1>9
  <2> HIDE DEF t, f
  <2>2. /\ seenPc' = [seenPc EXCEPT ![t] = m]
        /\ seenFrame' = [seenFrame EXCEPT ![t] = SeenFrame(f)]
        /\ seenHandler' = seenHandler /\ seenInterrupts' = seenInterrupts
    BY <2>1, <1>2, <1>9, SeenStay DEF t, f
  <2> QED BY <2>2, <1>7
<1>10. readyQ # <<>> => Head(readyQ) \in TCB
  BY RealCores DEF TCB
<1> HIDE DEF t, f
<1>12. CASE PickReady(c)
  <2>1. /\ pc' = [pc EXCEPT ![t] = "mark"] /\ pc[t] = "pick" /\ readyQ # <<>>
        /\ frame' = [frame EXCEPT ![t].next = Head(readyQ)]
        /\ UNCHANGED <<onCore, handler, interrupts>>
    BY <1>12, <1>1 DEF PickReady, At, Goto, cpu
  <2>2. /\ seenPc' = [seenPc EXCEPT ![t] = "mark"]
        /\ seenFrame' = [seenFrame EXCEPT ![t].next = Head(readyQ)]
        /\ seenHandler' = seenHandler /\ seenInterrupts' = seenInterrupts
    BY <2>1, <1>8, <1>10 DEF InBlock
  <2>3. T!At(c, "pick")
    BY <2>1, <1>4 DEF InBlock
  <2> QED BY <2>1, <2>2, <2>3, <1>1, <1>12 DEF PickReady, T!PickReady, T!Goto, T!cpu, cpu
<1>13. CASE PickIdle(c)
  <2>1. /\ pc' = [pc EXCEPT ![t] = "mark"] /\ pc[t] = "pick"
        /\ frame' = [frame EXCEPT ![t].next = idleThreads[f.core_id]]
        /\ UNCHANGED <<onCore, handler, interrupts>>
    BY <1>13, <1>1 DEF PickIdle, At, Goto, cpu, f
  <2>2. idleThreads[f.core_id] \in TCB
    BY <1>1, IdleAssumption DEF BarrierFrame, TCB
  <2>3. /\ seenPc' = [seenPc EXCEPT ![t] = "mark"]
        /\ seenFrame' = [seenFrame EXCEPT ![t].next = idleThreads[f.core_id]]
        /\ seenHandler' = seenHandler /\ seenInterrupts' = seenInterrupts
    BY <2>1, <2>2, <1>8 DEF InBlock
  <2>4. T!At(c, "pick")
    BY <2>1, <1>4 DEF InBlock
  <2>5. readyQ = <<>> /\ f.opt = "MustBlock" /\ f.me \notin Idle
        /\ UNCHANGED <<cpu, no_preempt, corpse, queues>>
    BY <1>1, <1>13 DEF PickIdle, f
  <2> QED BY <2>3, <2>4, <2>5, <1>1, <1>3, <1>6, SeenSame
          DEF T!PickIdle, T!Goto, T!cpu, cpu, T!queues, queues
<1>14. CASE Mark(c)
  <2>1. /\ pc' = [pc EXCEPT ![t] = "activate"] /\ pc[t] = "mark"
        /\ no_preempt' = [no_preempt EXCEPT ![f.next] = TRUE]
        /\ UNCHANGED <<onCore, handler, interrupts, frame>>
        /\ UNCHANGED <<cpu, corpse, queues>>
    BY <1>14, <1>1 DEF Mark, At, Goto, cpu, f
  <2>2. /\ seenPc' = [seenPc EXCEPT ![t] = "activate"] /\ seenFrame' = seenFrame
        /\ seenHandler' = seenHandler /\ seenInterrupts' = seenInterrupts
    BY <2>1, <1>9 DEF InBlock
  <2>3. T!At(c, "mark")
    BY <2>1, <1>4 DEF InBlock
  <2> QED BY <2>1, <2>2, <2>3, <1>1, <1>3, <1>6 DEF T!Mark, T!Goto, T!cpu, cpu, T!queues, queues
<1>15. CASE Activate(c)
  <2>1. /\ pc' = [pc EXCEPT ![t] = "switch"] /\ pc[t] = "activate"
        /\ activeThreads' = [activeThreads EXCEPT ![f.core_id] = f.next]
        /\ tss' = [tss EXCEPT ![f.core_id] = f.next]
        /\ UNCHANGED <<onCore, handler, interrupts, frame>>
        /\ UNCHANGED <<no_preempt, corpse, queues>>
    BY <1>15, <1>1 DEF Activate, At, Goto, f
  <2>2. /\ seenPc' = [seenPc EXCEPT ![t] = "switch"] /\ seenFrame' = seenFrame
        /\ seenHandler' = seenHandler /\ seenInterrupts' = seenInterrupts
    BY <2>1, <1>9 DEF InBlock
  <2>3. T!At(c, "activate")
    BY <2>1, <1>4 DEF InBlock
  <2> QED BY <2>1, <2>2, <2>3, <1>1, <1>3, <1>6 DEF T!Activate, T!Goto, T!queues, queues
<1> QED BY <1>12, <1>13, <1>14, <1>15

(* block() that returns is seen to return. *)
LEMMA SeenReturn ==
    ASSUME StackTypes, NEW P, T!IInv(P), NEW c \in Core, PickReturn(c)
    PROVE T!PickReturn(c)
<1> DEFINE t == onCore[c]
           f == frame[t]
<1>1. t \in TCB /\ f \in BarrierFrame /\ Me(c) = t /\ T!Me(c) = t
  BY RealCores DEF StackTypes, Me, T!Me
<1>2. /\ handler[c] = NoCall /\ pc[t] = "pick" /\ readyQ = <<>> /\ f.opt = "CanReturn"
      /\ pc' = [pc EXCEPT ![t] = f.ret]
      /\ interrupts' = [interrupts EXCEPT ![c] = f.iff]
      /\ UNCHANGED <<onCore, activeThreads, tss, no_preempt, frame, corpse, handler, queues>>
  BY DEF PickReturn, At, Goto, Me
<1>3. /\ seenHandler[c] = T!NoCall /\ seenPc[t] = "pick"
      /\ seenFrame[t].opt = f.opt /\ seenFrame[t].ret = SeenLabel(f.ret) /\ seenFrame[t].iff = f.iff
  BY <1>1, <1>2, SeenPending, SeenSame, SeenFields DEF SeenLabel, Syncing, Monitor
<1>4. f.ret \in Labels \ Monitor /\ f.ret \notin InBlock
  BY <1>1 DEF BarrierFrame, Labels, Outside, Syncing, Monitor, InBlock
<1>5. Change(c, f.ret, f, f.iff)
  BY <1>1, <1>2, <1>4 DEF Change, StackTypes
<1> HIDE DEF t, f
<1>6. SeenChange(c, f.ret, f, f.iff)
  BY <1>5, SeenOwn
<1>7. /\ seenPc' = [seenPc EXCEPT ![t] = SeenLabel(f.ret)]
      /\ seenHandler' = seenHandler
      /\ seenInterrupts' = [seenInterrupts EXCEPT ![c] = f.iff]
  BY <1>4, <1>6 DEF SeenChange, t
<1>8. seenFrame' = seenFrame
  BY <1>2 DEF seenFrame
<1> QED BY <1>1, <1>2, <1>3, <1>7, <1>8 DEF T!PickReturn, T!At, T!Goto, T!queues, queues

(* gheith_contextSwitch. *)
LEMMA SeenSwitch ==
    ASSUME StackTypes, NEW P, T!IInv(P), NEW c \in Core, ContextSwitch(c)
    PROVE T!ContextSwitch(c)
<1> DEFINE t == onCore[c]
           f == frame[t]
<1>1. t \in TCB /\ f \in BarrierFrame /\ Me(c) = t /\ T!Me(c) = t
  BY RealCores DEF StackTypes, Me, T!Me
<1>2. /\ handler[c] = NoCall /\ pc[t] = "switch"
      /\ pc' = [pc EXCEPT ![t] = "away"]
      /\ frame' = [frame EXCEPT ![t] = Spent(f)]
      /\ interrupts' = [interrupts EXCEPT ![c] = FALSE]
      /\ no_preempt' = [no_preempt EXCEPT ![f.me] = FALSE, ![f.next] = FALSE]
      /\ onCore' = [onCore EXCEPT ![c] = f.next]
      /\ handler' = [handler EXCEPT ![c] = [act |-> f.act, prev |-> f.me]]
      /\ UNCHANGED <<activeThreads, tss, corpse, queues>>
  BY DEF ContextSwitch, At, Goto, Me, Unmarked
<1>3. /\ seenHandler[c] = T!NoCall /\ seenPc[t] = "switch" /\ seenFrame[t] = SeenFrame(f)
      /\ SeenFrame(f).me = f.me /\ SeenFrame(f).next = f.next /\ SeenFrame(f).act = SeenAct(f.act)
  BY <1>1, <1>2, SeenPending, SeenSame, SeenFields DEF SeenLabel, Syncing, Monitor, seenFrame, SeenFrame
<1>4. pc[f.next] = "away" /\ f.next \in TCB /\ f.next # t
  BY <1>1, <1>2, RealElsewhere DEF Chosen, BarrierFrame
<1>5. \A d \in Core : d # c => onCore[d] \in TCB /\ onCore[d] # t
  BY RealCores
<1>6. onCore[c] = t /\ onCore \in [Core -> TCB]
  BY RealCores
<1> HIDE DEF t, f
<1>7. seenPc' = [seenPc EXCEPT ![t] = "away"]
  <2>1. SeenLabel("away") = "away"
    BY DEF SeenLabel, Syncing, Monitor
  <2> QED BY <2>1, <1>1, <1>2, SeenGoto
<1>8. seenFrame' = [seenFrame EXCEPT ![t] = T!Spent(seenFrame[t])]
  <2>1. SeenFrame(Spent(f)) = T!Spent(seenFrame[t])
    BY <1>1, <1>3, SeenSpent
  <2>2. PICK g : g = Spent(f) /\ frame' = [frame EXCEPT ![t] = g]
    BY <1>2
  <2>3. seenFrame' = [seenFrame EXCEPT ![t] = SeenFrame(g)]
    BY <2>2, <1>1, SeenPut
  <2> QED BY <2>1, <2>2, <2>3
<1>9. seenHandler' = [seenHandler EXCEPT ![c] = [act |-> SeenFrame(f).act, prev |-> f.me]]
  <2>1. SeenCall([act |-> f.act, prev |-> f.me]) = [act |-> SeenFrame(f).act, prev |-> f.me]
    BY <1>3 DEF SeenCall
  <2> QED BY <2>1, <1>2, SeenSet
<1>10. seenInterrupts' = [seenInterrupts EXCEPT ![c] = FALSE]
  <2>1. \A d \in Core : d # c =>
            /\ onCore'[d] = onCore[d] /\ handler'[d] = handler[d]
            /\ interrupts'[d] = interrupts[d]
            /\ pc'[onCore[d]] = pc[onCore[d]]
            /\ frame'[onCore[d]] = frame[onCore[d]]
    BY <1>1, <1>2, <1>5, <1>6 DEF StackTypes
  <2>2. onCore'[c] = f.next /\ pc'[f.next] = "away" /\ interrupts'[c] = FALSE
    BY <1>1, <1>2, <1>4, <1>6 DEF StackTypes
  <2>3. SeenFlag(c)' = FALSE
    BY <2>2 DEF SeenFlag, InBlock, Monitor
  <2> QED BY <2>1, <2>3, SeenFlags
<1> QED BY <1>1, <1>2, <1>3, <1>7, <1>8, <1>9, <1>10
        DEF T!ContextSwitch, T!At, T!Goto, T!Unmarked, T!queues, queues

(* popf and ret. *)
LEMMA SeenResume ==
    ASSUME StackTypes, NEW P, T!IInv(P), NEW c \in Core, handler[c] # NoCall,
           Resume(c), UNCHANGED <<onCore, frame>>
    PROVE T!Resume(c) /\ UNCHANGED seenFrame
<1> DEFINE t == onCore[c]
           f == frame[t]
<1>1. t \in TCB /\ f \in BarrierFrame /\ Me(c) = t /\ T!Me(c) = t
  BY RealCores DEF StackTypes, Me, T!Me
<1>2. /\ pc' = [pc EXCEPT ![t] = f.ret]
      /\ interrupts' = [interrupts EXCEPT ![c] = f.iff]
      /\ handler' = [handler EXCEPT ![c] = NoCall]
  BY DEF Resume, Goto, Me
<1>3. seenFrame[t].ret = SeenLabel(f.ret) /\ seenFrame[t].iff = f.iff
  BY <1>1, SeenFields
<1>4. f.ret \in Labels \ Monitor /\ f.ret \notin InBlock
  BY <1>1 DEF BarrierFrame, Labels, Outside, Syncing, Monitor, InBlock
<1>5. \A d \in Core : d # c => onCore[d] \in TCB /\ onCore[d] # t
  BY RealCores
<1>6. onCore[c] = t /\ onCore \in [Core -> TCB]
  BY RealCores
<1> HIDE DEF t, f
<1>7. seenPc' = [seenPc EXCEPT ![t] = SeenLabel(f.ret)]
  BY <1>1, <1>2, SeenGoto
<1>8. seenHandler' = [seenHandler EXCEPT ![c] = T!NoCall]
  <2>1. SeenCall(NoCall) = T!NoCall
    BY DEF SeenCall, SeenAct, NoCall, T!NoCall
  <2> QED BY <2>1, <1>2, SeenSet
<1>9. seenInterrupts' = [seenInterrupts EXCEPT ![c] = f.iff]
  <2>1. \A d \in Core : d # c =>
            /\ onCore'[d] = onCore[d] /\ handler'[d] = handler[d]
            /\ interrupts'[d] = interrupts[d]
            /\ pc'[onCore[d]] = pc[onCore[d]]
            /\ frame'[onCore[d]] = frame[onCore[d]]
    BY <1>1, <1>2, <1>5, <1>6 DEF StackTypes
  <2>2. onCore'[c] = t /\ pc'[t] = f.ret /\ interrupts'[c] = f.iff
    BY <1>1, <1>2, <1>6 DEF StackTypes
  <2>3. SeenFlag(c)' = f.iff
    BY <2>2, <1>4 DEF SeenFlag
  <2> QED BY <2>1, <2>3, SeenFlags
<1>10. seenFrame' = seenFrame
  BY DEF seenFrame
<1> QED BY <1>1, <1>3, <1>6, <1>7, <1>8, <1>9, <1>10 DEF T!Resume, T!Goto

(* The lambdas of yield() and stop(). *)
LEMMA SeenLambdas ==
    ASSUME StackTypes, NEW P, T!IInv(P), NEW c \in Core, YieldHandler(c) \/ StopHandler(c)
    PROVE T!YieldHandler(c) \/ T!StopHandler(c)
<1>1. handler[c] # NoCall /\ Resume(c) /\ UNCHANGED <<onCore, frame>>
  BY DEF YieldHandler, StopHandler, NoCall
<1>2. T!Resume(c) /\ UNCHANGED seenFrame
  BY <1>1, SeenResume
<1>3. /\ seenHandler[c].prev = handler[c].prev
      /\ handler[c].act \in {"yield", "stop"} => seenHandler[c].act = handler[c].act
  BY SeenFields DEF SeenAct
<1>4. CASE YieldHandler(c)
  BY <1>2, <1>3, <1>4, SeenSame DEF YieldHandler, T!YieldHandler, Schedule, T!Schedule
<1>5. CASE StopHandler(c)
  BY <1>2, <1>3, <1>5, SeenSame DEF StopHandler, T!StopHandler, Bury, T!Bury
<1> QED BY <1>4, <1>5

(* A call of block() from outside the monitor. *)
LEMMA SeenBlock ==
    ASSUME StackTypes, NEW P, T!IInv(P), NEW c \in Core, handler[c] = NoCall,
           pc[onCore[c]] \in Labels \ Monitor,
           NEW opt, NEW act, NEW ret \in Labels \ Monitor, NEW iff, NEW b,
           Block(c, opt, act, ret, iff), interrupts' = [interrupts EXCEPT ![c] = b],
           UNCHANGED <<onCore, handler>>
    PROVE /\ T!Block(c, opt, SeenAct(act), SeenLabel(ret), iff)
          /\ seenHandler' = seenHandler
          /\ seenInterrupts' = [seenInterrupts EXCEPT ![c] = IF act = "wait" THEN FALSE ELSE b]
          /\ act # "wait" /\ b = interrupts[c] => seenInterrupts' = seenInterrupts
<1> DEFINE t == onCore[c]
           me == activeThreads[c]
           f == NewFrame(c, me, opt, act, ret, iff)
<1>1. t \in TCB /\ Me(c) = t /\ T!Me(c) = t
  BY RealCores DEF Me, T!Me
<1>2. /\ pc' = [pc EXCEPT ![t] = "pick"]
      /\ frame' = [frame EXCEPT ![t] = f]
      /\ no_preempt' = [no_preempt EXCEPT ![me] = TRUE]
  BY DEF Block, Goto, Me
<1>3. Change(c, "pick", f, b)
  BY <1>2 DEF Change, Monitor
<1>4. f.act = act /\ SeenFrame(f) = T!NewFrame(c, me, opt, SeenAct(act), SeenLabel(ret), iff)
  BY SeenNewFrame DEF NewFrame
<1> HIDE DEF f
<1>5. SeenChange(c, "pick", f, b)
  BY <1>3, SeenOwn
<1>6. pc[t] \notin InBlock
  BY DEF Labels, Outside, Syncing, Monitor, InBlock
<1>7. SeenFlag(c) = interrupts[c]
  BY <1>6, FlagOutside
<1>8. SeenLabel("pick") = "pick" /\ "pick" \in InBlock
  BY DEF SeenLabel, Syncing, Monitor, InBlock
<1> QED BY <1>1, <1>2, <1>4, <1>5, <1>7, <1>8 DEF SeenChange, T!Block, T!Goto

(* Interrupts are off in the monitor. *)
MonitorOff ==
    \A c \in Core : handler[c] = NoCall /\ pc[onCore[c]] \in Monitor => ~interrupts[c]

(* Where block() is called from. *)
LEMMA SeenCallers ==
    ASSUME StackTypes, NEW P, T!IInv(P), NEW c \in Core, ReaperYield(c) \/ Stop(c)
    PROVE T!ReaperYield(c) \/ T!Stop(c)
<1> DEFINE t == onCore[c]
<1>1. t \in TCB /\ Me(c) = t /\ T!Me(c) = t
  BY RealCores DEF Me, T!Me
<1>2. handler[c] = NoCall /\ pc[t] \in {"yield", "stop"}
  BY DEF ReaperYield, Stop, At, Me
<1>3. pc[t] \in Labels \ Monitor
  BY <1>2 DEF Labels, Outside, Monitor
<1>4. seenHandler[c] = T!NoCall /\ seenPc[t] = pc[t] /\ seenInterrupts[c] = interrupts[c]
  BY <1>1, <1>2, SeenPending, SeenSame, SeenFields DEF SeenLabel, SeenFlag, Syncing, Monitor, InBlock
<1>5. interrupts' = [interrupts EXCEPT ![c] = interrupts[c]] /\ UNCHANGED <<onCore, handler>>
  BY DEF StackTypes, ReaperYield, Stop, cpu
<1>6. PICK b : b = interrupts[c] /\ interrupts' = [interrupts EXCEPT ![c] = b]
  BY <1>5
<1>7. /\ {"reap", "stop"} \subseteq Labels \ Monitor
      /\ SeenLabel("reap") = "reap" /\ SeenLabel("stop") = "stop"
      /\ SeenAct("yield") = "yield" /\ SeenAct("stop") = "stop"
  BY DEF Labels, Outside, Monitor, SeenLabel, SeenAct, Syncing
<1> HIDE DEF t
<1>8. CASE ReaperYield(c)
  <2>1. Block(c, "CanReturn", "yield", "reap", b)
    BY <1>8, <1>6 DEF ReaperYield
  <2>2. /\ T!Block(c, "CanReturn", SeenAct("yield"), SeenLabel("reap"), b)
        /\ seenHandler' = seenHandler /\ seenInterrupts' = seenInterrupts
    BY <2>1, <1>2, <1>3, <1>5, <1>6, <1>7, SeenBlock DEF t
  <2> QED BY <2>2, <1>1, <1>2, <1>4, <1>6, <1>7, <1>8
          DEF ReaperYield, T!ReaperYield, At, T!At, cpu, T!cpu, queues, T!queues
<1>9. CASE Stop(c)
  <2>1. Block(c, "MustBlock", "stop", "stop", b)
    BY <1>9, <1>6 DEF Stop
  <2>2. /\ T!Block(c, "MustBlock", SeenAct("stop"), SeenLabel("stop"), b)
        /\ seenHandler' = seenHandler /\ seenInterrupts' = seenInterrupts
    BY <2>1, <1>2, <1>3, <1>5, <1>6, <1>7, SeenBlock DEF t
  <2> QED BY <2>2, <1>1, <1>2, <1>4, <1>6, <1>7, <1>9
          DEF Stop, T!Stop, At, T!At, cpu, T!cpu, queues, T!queues
<1> QED BY <1>8, <1>9

(* The timer does not fire in the monitor. *)
LEMMA SeenTick ==
    ASSUME StackTypes, NEW P, T!IInv(P), MonitorOff, NEW c \in Core, Tick(c)
    PROVE /\ T!Tick(c)
          /\ handler[c] = NoCall /\ pc[onCore[c]] \in Labels \ Monitor
<1> DEFINE t == onCore[c]
           l == pc[t]
<1>1. t \in TCB /\ Me(c) = t /\ T!Me(c) = t
  BY RealCores DEF Me, T!Me
<1>2. handler[c] = NoCall /\ l \notin Monitor
  BY RealFlags DEF Tick, MonitorOff
<1>3. l \in Labels \ Monitor
  <2>1. l \in Labels \cup InBlock
    BY <1>2, RealCores
  <2>2. l \notin InBlock
    BY RealFrames DEF Tick
  <2> QED BY <2>1, <2>2, <1>2
<1>4. seenPc[t] = SeenLabel(l) /\ seenInterrupts[c] = interrupts[c]
  BY <1>1, <1>2, <1>3, SeenFields DEF SeenFlag, Labels, Outside, Syncing, InBlock
<1>5. /\ interrupts' = [interrupts EXCEPT ![c] = FALSE] /\ UNCHANGED <<onCore, handler>>
      /\ Block(c, "CanReturn", "yield", l, TRUE)
  BY <1>1 DEF Tick
<1> HIDE DEF t, l
<1>6. SeenAct("yield") = "yield"
  BY DEF SeenAct
<1>7. /\ T!Block(c, "CanReturn", SeenAct("yield"), SeenLabel(l), TRUE)
      /\ seenHandler' = seenHandler
      /\ seenInterrupts' = [seenInterrupts EXCEPT ![c] = FALSE]
  BY <1>2, <1>3, <1>5, SeenBlock DEF l, t
<1> QED BY <1>1, <1>2, <1>3, <1>4, <1>6, <1>7, SeenSame DEF Tick, T!Tick, T!queues, queues, l, t

(* What a thread has of its own: a step from one label to another. *)
LEMMA SeenGo ==
    ASSUME StackTypes, NEW P, T!IInv(P), NEW c \in Core, handler[c] = NoCall,
           pc[onCore[c]] \in Labels \ Monitor, NEW m \in Labels \ Monitor,
           Goto(Me(c), m), UNCHANGED <<onCore, interrupts, frame, handler>>
    PROVE /\ T!Goto(T!Me(c), SeenLabel(m))
          /\ UNCHANGED <<seenFrame, seenHandler, seenInterrupts>>
<1> DEFINE t == onCore[c]
           f == frame[t]
<1>1. t \in TCB /\ Me(c) = t /\ T!Me(c) = t
  BY RealCores DEF Me, T!Me
<1>2. Change(c, m, f, interrupts[c])
  BY <1>1 DEF Change, Goto, StackTypes
<1>3. SeenChange(c, m, f, interrupts[c])
  BY <1>2, SeenOwn
<1>4. \A l \in Labels : l \notin InBlock
  BY DEF Labels, Outside, Syncing, Monitor, InBlock
<1>5. SeenFlag(c) = interrupts[c]
  BY <1>4, FlagOutside
<1>6. seenFrame' = seenFrame
  BY DEF seenFrame
<1> QED BY <1>1, <1>3, <1>4, <1>5, <1>6 DEF SeenChange, T!Goto

(* Where threads come and go. *)
LEMMA SeenWork ==
    ASSUME StackTypes, NEW P, T!IInv(P), NEW c \in Core,
           Boot(c) \/ RemoveZombie(c) \/ NoZombie(c) \/ CallThread(c)
    PROVE T!Boot(c) \/ T!RemoveZombie(c) \/ T!NoZombie(c) \/ T!CallThread(c)
<1> DEFINE t == onCore[c]
           l == pc[t]
<1>1. t \in TCB /\ Me(c) = t /\ T!Me(c) = t
  BY RealCores DEF Me, T!Me
<1>2. /\ handler[c] = NoCall /\ l \in {"boot", "reap", "work"}
      /\ UNCHANGED <<onCore, activeThreads, tss, interrupts, no_preempt, frame, handler, readyQ>>
  BY DEF Boot, RemoveZombie, NoZombie, CallThread, At, Me, cpu, queues
<1>3. l \in Labels \ Monitor
  BY <1>2 DEF Labels, Outside, Monitor
<1>4. seenHandler[c] = T!NoCall /\ seenPc[t] = l
  BY <1>1, <1>2, SeenPending, SeenSame, SeenFields DEF SeenLabel, Syncing, Monitor
<1>5. ASSUME NEW m \in {"delete", "yield", "spawn", "reap", "stop"}, Goto(t, m)
      PROVE  T!Goto(t, m) /\ UNCHANGED <<seenFrame, seenHandler, seenInterrupts>>
  <2>1. m \in Labels \ Monitor /\ SeenLabel(m) = m
    BY DEF Labels, Outside, Monitor, SeenLabel, Syncing
  <2> QED BY <2>1, <1>1, <1>2, <1>3, <1>5, SeenGo
<1> HIDE DEF t, l
<1>6. CASE RemoveZombie(c)
  BY <1>1, <1>2, <1>4, <1>5, <1>6
     DEF RemoveZombie, T!RemoveZombie, At, T!At, cpu, T!cpu, queues, T!queues, l
<1>7. CASE NoZombie(c)
  <2>1. PICK m \in {"yield", "spawn"} : m = (IF t = Reaper THEN "yield" ELSE "spawn") /\ Goto(t, m)
    BY <1>1, <1>7 DEF NoZombie
  <2>2. T!Goto(t, m) /\ UNCHANGED <<seenFrame, seenHandler, seenInterrupts>>
    BY <2>1, <1>5
  <2> QED BY <2>1, <2>2, <1>1, <1>2, <1>4, <1>7
          DEF NoZombie, T!NoZombie, At, T!At, cpu, T!cpu, queues, T!queues, l
<1>8. CASE Boot(c)
  <2>1. PICK m \in {"reap", "stop"} :
          /\ m = (IF \A i \in Idle \ {t} : pc[i] # "boot" THEN "reap" ELSE "stop")
          /\ Goto(t, m)
    BY <1>1, <1>8 DEF Boot
  <2>2. T!Goto(t, m) /\ UNCHANGED <<seenFrame, seenHandler, seenInterrupts>>
    BY <2>1, <1>5
  <2>3. \A i \in Idle : seenPc[i] = "boot" <=> pc[i] = "boot"
    BY SeenFields DEF SeenLabel, Syncing, Monitor, TCB
  <2> QED BY <2>1, <2>2, <2>3, <1>1, <1>2, <1>4, <1>8, SeenSame
          DEF Boot, T!Boot, At, T!At, cpu, T!cpu, queues, T!queues, l
<1>9. CASE CallThread(c)
  <2>1. \A x \in TCB : /\ seenPc[x] = "free" <=> pc[x] = "free"
                       /\ T!Where(x) = SeenLabel(Where(x))
    BY SeenFields DEF T!Where, Where, T!InBlock, InBlock, SeenLabel, Syncing, Monitor, StackTypes
  <2>2. T!Free = Free
    BY <2>1 DEF T!Free, Free, TCB
  <2>4. \A y : SeenLabel(y) \in {"boot", "reap", "delete", "spawn"}
                 <=> y \in {"boot", "reap", "delete", "spawn"}
    BY DEF SeenLabel, Syncing, Monitor
  <2>3. T!Spawning = Spawning
    <3>1. \A x \in TCB : T!Where(x) \in {"boot", "reap", "delete", "spawn"}
                            <=> Where(x) \in {"boot", "reap", "delete", "spawn"}
      BY <2>1, <2>4
    <3>2. T!TCB = TCB
      BY SeenSame
    <3> QED BY <3>1, <3>2 DEF T!Spawning, Spawning
  <2>5. \A S : T!Cardinality(S) = Cardinality(S)
    BY DEF T!Cardinality, Cardinality
  <2> QED BY <2>2, <2>3, <2>5, <1>1, <1>2, <1>4, <1>5, <1>9
          DEF CallThread, T!CallThread, At, T!At, cpu, T!cpu, queues, T!queues, l
<1> QED BY <1>6, <1>7, <1>8, <1>9

(* The delete of a zombie. *)
LEMMA SeenDelete ==
    ASSUME StackTypes, NEW P, T!IInv(P), NEW c \in Core, DeleteZombie(c)
    PROVE T!DeleteZombieAt(c, "delete")
<1> DEFINE t == onCore[c]
<1>1. t \in TCB /\ Me(c) = t /\ T!Me(c) = t /\ onCore[c] = t
  BY RealCores DEF Me, T!Me
<1>2. /\ handler[c] = NoCall /\ pc[t] = "delete"
      /\ pc' = [x \in TCB |-> IF x = t THEN "reap" ELSE IF x \in corpse[t] THEN "free" ELSE pc[x]]
      /\ corpse' = [corpse EXCEPT ![t] = {}]
      /\ UNCHANGED <<onCore, activeThreads, tss, interrupts, no_preempt, frame, handler, readyQ, zombies>>
  BY DEF DeleteZombie, DeleteZombieAt, At, Me, cpu, queues
<1>3. seenHandler[c] = T!NoCall /\ seenPc[t] = "delete"
  BY <1>1, <1>2, SeenPending, SeenSame, SeenFields DEF SeenLabel, Syncing, Monitor
<1>4. \A d \in Core : d # c => onCore[d] \in TCB /\ onCore[d] # t /\ onCore[d] \notin corpse[t]
  BY <1>1, RealCores, RealElsewhere
<1> HIDE DEF t
<1>5. seenPc' = [x \in TCB |-> IF x = t THEN "reap" ELSE IF x \in corpse[t] THEN "free" ELSE seenPc[x]]
  BY <1>2 DEF seenPc, SeenLabel, Syncing, Monitor
<1>6. seenFrame' = seenFrame /\ seenHandler' = seenHandler
  BY <1>2 DEF seenFrame, seenHandler
<1>7. seenInterrupts' = seenInterrupts
  <2>1. \A d \in Core : d # c =>
            /\ onCore'[d] = onCore[d] /\ handler'[d] = handler[d]
            /\ interrupts'[d] = interrupts[d]
            /\ pc'[onCore[d]] = pc[onCore[d]]
            /\ frame'[onCore[d]] = frame[onCore[d]]
    BY <1>1, <1>2, <1>4
  <2>2. pc'[t] = "reap" /\ onCore'[c] = t /\ interrupts'[c] = interrupts[c]
    BY <1>1, <1>2
  <2>3. SeenFlag(c)' = SeenFlag(c)
    BY <1>1, <1>2, <2>2 DEF SeenFlag, InBlock, Monitor
  <2> QED BY <2>1, <2>3, SeenFlags
<1> QED BY <1>1, <1>2, <1>3, <1>5, <1>6, <1>7, SeenSame
        DEF T!DeleteZombieAt, T!At, T!cpu, T!queues

(* The rest of thread(). *)
LEMMA SeenSpawn ==
    ASSUME StackTypes, NEW P, T!IInv(P), NEW c \in Core, Spawn(c)
    PROVE T!SpawnAt(c, "spawn")
<1> DEFINE t == onCore[c]
           m == IF t \in Idle THEN "stop" ELSE "work"
<1>1. t \in TCB /\ Me(c) = t /\ T!Me(c) = t /\ onCore[c] = t
  BY RealCores DEF Me, T!Me
<1>2. PICK x \in Thread :
        /\ pc[x] = "free"
        /\ pc' = [pc EXCEPT ![x] = "away", ![t] = m]
        /\ frame' = [frame EXCEPT ![x] = FirstFrame(x, "work")]
        /\ no_preempt' = [no_preempt EXCEPT ![x] = FALSE]
        /\ Schedule(x)
  BY <1>1 DEF Spawn, SpawnAt
<1>3. /\ handler[c] = NoCall /\ pc[t] = "spawn"
      /\ UNCHANGED <<onCore, activeThreads, tss, interrupts, corpse, handler, zombies>>
  BY DEF Spawn, SpawnAt, At, Me, cpu
<1>4. seenHandler[c] = T!NoCall /\ seenPc[t] = "spawn"
  BY <1>1, <1>3, SeenPending, SeenSame, SeenFields DEF SeenLabel, Syncing, Monitor
<1>5. x \in TCB /\ x # t /\ seenPc[x] = "free"
  BY <1>2, <1>3, SeenFields DEF TCB, SeenLabel, Syncing, Monitor
<1>6. m \in {"stop", "work"}
  OBVIOUS
<1>7. \A d \in Core : d # c => onCore[d] \in TCB /\ onCore[d] # t /\ onCore[d] # x
  <2>1. \A d \in Core : pc[onCore[d]] # "free"
    BY RealCores DEF Labels, Outside, Syncing, Monitor, InBlock
  <2> QED BY <2>1, <1>1, <1>2, RealCores
<1>8. T!FirstFrame(x, "work") = SeenFrame(FirstFrame(x, "work"))
  <2>1. T!AnyCore = AnyCore
    BY DEF T!AnyCore, AnyCore
  <2>2. "yield" = SeenAct("yield") /\ "work" = SeenLabel("work")
    BY DEF SeenAct, SeenLabel, Syncing, Monitor
  <2>3. SeenFrame(NewFrame(AnyCore, x, "CanReturn", "yield", "work", TRUE))
          = T!NewFrame(AnyCore, x, "CanReturn", SeenAct("yield"), SeenLabel("work"), TRUE)
    BY SeenNewFrame
  <2> QED BY <2>1, <2>2, <2>3 DEF T!FirstFrame, FirstFrame
<1>9. T!Schedule(x)
  BY <1>2, SeenSame DEF Schedule, T!Schedule
<1>20. m = IF t \in Idle THEN "stop" ELSE "work"
  OBVIOUS
<1> HIDE DEF t, m
<1>10. seenPc' = [seenPc EXCEPT ![x] = "away", ![t] = m]
  <2>1. \A y \in TCB : pc'[y] = IF y = t THEN m ELSE IF y = x THEN "away" ELSE pc[y]
    BY <1>1, <1>2, <1>5 DEF StackTypes
  <2>2. seenPc' = [y \in TCB |-> IF y = t THEN m ELSE IF y = x THEN "away" ELSE seenPc[y]]
    BY <2>1, <1>6 DEF seenPc, SeenLabel, Syncing, Monitor
  <2> QED BY <2>2, <1>1, <1>5 DEF seenPc
<1>11. seenFrame' = [seenFrame EXCEPT ![x] = T!FirstFrame(x, "work")]
  <2>1. PICK g : g = FirstFrame(x, "work") /\ frame' = [frame EXCEPT ![x] = g]
    BY <1>2
  <2>2. seenFrame' = [seenFrame EXCEPT ![x] = SeenFrame(g)]
    BY <2>1, <1>5, SeenPut
  <2> QED BY <2>1, <2>2, <1>8
<1>12. seenHandler' = seenHandler
  BY <1>3 DEF seenHandler
<1>13. seenInterrupts' = seenInterrupts
  <2>1. \A d \in Core : d # c =>
            /\ onCore'[d] = onCore[d] /\ handler'[d] = handler[d]
            /\ interrupts'[d] = interrupts[d]
            /\ pc'[onCore[d]] = pc[onCore[d]]
            /\ frame'[onCore[d]] = frame[onCore[d]]
    BY <1>1, <1>2, <1>3, <1>5, <1>7 DEF StackTypes
  <2>2. pc'[t] = m /\ onCore'[c] = t /\ interrupts'[c] = interrupts[c]
    BY <1>1, <1>2, <1>3, <1>5 DEF StackTypes
  <2>3. SeenFlag(c)' = SeenFlag(c)
    BY <1>1, <1>3, <1>6, <2>2 DEF SeenFlag, InBlock, Monitor
  <2> QED BY <2>1, <2>3, SeenFlags
<1> QED BY <1>1, <1>2, <1>3, <1>4, <1>5, <1>9, <1>10, <1>11, <1>12, <1>13, <1>20, SeenSame
        DEF T!SpawnAt, T!At, T!cpu

(* All of them. *)
LEMMA SeenStep ==
    ASSUME StackTypes, NEW P, T!IInv(P), MonitorOff, NEW c \in Core,
           KernelStep(c) \/ Tick(c) \/ CallThread(c)
    PROVE T!ThreadStep(c)
<1>1. CASE PickReady(c) \/ PickIdle(c) \/ Mark(c) \/ Activate(c)
  BY <1>1, SeenPicks DEF T!ThreadStep, T!InBlockStep
<1>2. CASE PickReturn(c) \/ ContextSwitch(c)
  BY <1>2, SeenReturn, SeenSwitch DEF T!ThreadStep, T!InBlockStep
<1>3. CASE YieldHandler(c) \/ StopHandler(c)
  BY <1>3, SeenLambdas DEF T!ThreadStep, T!InBlockStep
<1>4. CASE ReaperYield(c) \/ Stop(c) \/ Tick(c)
  BY <1>4, SeenCallers, SeenTick DEF T!ThreadStep
<1>5. CASE Boot(c) \/ RemoveZombie(c) \/ NoZombie(c) \/ CallThread(c)
  BY <1>5, SeenWork DEF T!ThreadStep
<1>6. CASE DeleteZombie(c) \/ Spawn(c)
  BY <1>6, SeenDelete, SeenSpawn DEF T!ThreadStep, T!Deletes, T!Spawns
<1> QED BY <1>1, <1>2, <1>3, <1>4, <1>5, <1>6 DEF KernelStep, InBlockStep

-----------------------------------------------------------------------------
(* What a step that is not the barrier's does to the real state. *)

(* A thread in sync(), off a core or preempted there as well. *)
Within(u) == Where(u) \in Syncing

(* Nobody moves in the monitor, or comes to sync() or leaves it. *)
Kept ==
    \A u \in TCB : /\ pc[u] \in Monitor \/ pc'[u] \in Monitor => pc'[u] = pc[u]
                   /\ Within(u)' <=> Within(u)

(* The cores but c. *)
Others(c) ==
    \A d \in Core \ {c} : /\ onCore'[d] = onCore[d] /\ handler'[d] = handler[d]
                          /\ interrupts'[d] = interrupts[d]

(* The whole effect of a step of core c. *)
Effect(c) == StackTypes' /\ Kept /\ MonitorOff'

(* Interrupts stay off in the monitor when core c does not come to it. *)
LEMMA OffStays ==
    ASSUME MonitorOff, NEW c \in Core, Others(c), onCore \in [Core -> TCB],
           \A u \in TCB : pc'[u] \in Monitor => pc[u] = pc'[u],
           handler'[c] # NoCall \/ pc'[onCore'[c]] \notin Monitor
    PROVE MonitorOff'
<1> SUFFICES ASSUME NEW d \in Core, handler'[d] = NoCall, pc'[onCore'[d]] \in Monitor
             PROVE  ~interrupts'[d]
  BY DEF MonitorOff
<1>1. d # c
  OBVIOUS
<1>2. onCore'[d] = onCore[d] /\ handler'[d] = handler[d] /\ interrupts'[d] = interrupts[d]
  BY <1>1 DEF Others
<1>3. pc[onCore[d]] = pc'[onCore[d]]
  BY <1>2
<1> QED BY <1>2, <1>3 DEF MonitorOff

(* One thread goes on, neither from nor to the monitor. *)
Going(t, m, f) ==
    /\ pc[t] \notin Monitor /\ m \notin Monitor
    /\ Within(t) <=> (IF m \in InBlock \cup {"away"} THEN f.ret ELSE m) \in Syncing
    /\ pc' = [pc EXCEPT ![t] = m]
    /\ frame' = [frame EXCEPT ![t] = f]

(* Who goes on outside the monitor leaves those in sync() where they are. *)
LEMMA GoingKept ==
    ASSUME StackTypes, NEW t \in TCB, NEW m, NEW f, Going(t, m, f)
    PROVE Kept
<1> SUFFICES ASSUME NEW u \in TCB
             PROVE  /\ pc[u] \in Monitor \/ pc'[u] \in Monitor => pc'[u] = pc[u]
                    /\ Within(u)' <=> Within(u)
  BY DEF Kept
<1> USE DEF Going
<1>1. CASE u = t
  <2>1. pc'[u] = m /\ frame'[u] = f
    BY <1>1 DEF StackTypes
  <2> QED BY <1>1, <2>1 DEF Within, Where
<1>2. CASE u # t
  <2>1. pc'[u] = pc[u] /\ frame'[u] = frame[u]
    BY <1>2 DEF StackTypes
  <2> QED BY <2>1 DEF Within, Where
<1> QED BY <1>1, <1>2

(* ... and has a step's whole effect. *)
LEMMA EffectGo ==
    ASSUME StackTypes, MonitorOff, NEW c \in Core, onCore \in [Core -> TCB],
           NEW m \in (Labels \ Monitor) \cup InBlock \cup {"away"},
           NEW f \in BarrierFrame, NEW b \in BOOLEAN, Going(onCore[c], m, f),
           interrupts' = [interrupts EXCEPT ![c] = b],
           handler' \in [Core -> BarrierCall],
           \A d \in Core \ {c} : onCore'[d] = onCore[d] /\ handler'[d] = handler[d],
           onCore' = onCore \/ handler'[c] # NoCall
    PROVE Effect(c)
<1>1. Kept
  BY GoingKept
<1>2. StackTypes'
  <2>1. pc' \in [TCB -> Labels \cup InBlock \cup {"away", "free"}]
    BY DEF StackTypes, Going
  <2> QED BY <2>1 DEF StackTypes, Going
<1>3. \A u \in TCB : pc'[u] \in Monitor => pc[u] = pc'[u]
  BY <1>1 DEF Kept
<1>4. onCore' = onCore => pc'[onCore'[c]] = m
  BY DEF Going, StackTypes
<1>5. m \notin Monitor
  BY DEF Going
<1>6. Others(c)
  BY DEF Others, StackTypes
<1>7. MonitorOff'
  BY <1>3, <1>4, <1>5, <1>6, OffStays
<1> QED BY <1>1, <1>2, <1>7 DEF Effect

(* Inside block(), where the frame keeps its return address ... *)
LEMMA EffectInBlock ==
    ASSUME StackTypes, MonitorOff, NEW P, T!IInv(P), NEW c \in Core,
           PickReady(c) \/ PickIdle(c) \/ Mark(c) \/ Activate(c)
    PROVE Effect(c)
<1> DEFINE t == onCore[c]
           f == frame[t]
<1>1. t \in TCB /\ f \in BarrierFrame /\ Me(c) = t /\ onCore \in [Core -> TCB]
  BY RealCores DEF StackTypes, Me
<1>2. /\ pc[t] \in InBlock /\ onCore' = onCore /\ handler' = handler
      /\ interrupts' = interrupts
  BY <1>1 DEF PickReady, PickIdle, Mark, Activate, At, InBlock, cpu
<1>3. ASSUME NEW m \in InBlock, NEW x \in TCB, pc' = [pc EXCEPT ![t] = m],
             frame' = [frame EXCEPT ![t].next = x] \/ frame' = frame
      PROVE  Effect(c)
  <2> DEFINE g == [f EXCEPT !.next = x]
  <2>1. g \in BarrierFrame /\ g.ret = f.ret
    BY <1>1 DEF BarrierFrame
  <2>2. PICK h \in BarrierFrame : h.ret = f.ret /\ frame' = [frame EXCEPT ![t] = h]
    <3>1. CASE frame' = [frame EXCEPT ![t].next = x]
      BY <2>1, <3>1
    <3>2. CASE frame' = frame
      <4>1. frame' = [frame EXCEPT ![t] = f]
        BY <3>2, <1>1 DEF StackTypes
      <4> QED BY <4>1, <1>1
    <3> QED BY <1>3, <3>1, <3>2
  <2> HIDE DEF g, f, t
  <2>3. Going(t, m, h)
    BY <1>1, <1>2, <1>3, <2>2 DEF Going, InBlock, Monitor, Within, Where, t, f
  <2>4. PICK b \in BOOLEAN : interrupts' = [interrupts EXCEPT ![c] = b]
    BY <1>2 DEF StackTypes
  <2> QED BY <1>1, <1>2, <1>3, <2>3, <2>4, EffectGo DEF StackTypes, t
<1>4. readyQ # <<>> => Head(readyQ) \in TCB
  BY RealCores DEF TCB
<1>5. idleThreads[f.core_id] \in TCB
  BY <1>1, IdleAssumption DEF BarrierFrame, TCB
<1> HIDE DEF t, f
<1>6. CASE PickReady(c)
  BY <1>1, <1>3, <1>4, <1>6 DEF PickReady, Goto, InBlock
<1>7. CASE PickIdle(c)
  BY <1>1, <1>3, <1>5, <1>7 DEF PickIdle, Goto, InBlock, f
<1>8. CASE Mark(c)
  BY <1>1, <1>3, <1>8 DEF Mark, Goto, InBlock
<1>9. CASE Activate(c)
  BY <1>1, <1>3, <1>9 DEF Activate, Goto, InBlock
<1> QED BY <1>6, <1>7, <1>8, <1>9

(* ... where it comes back from it ... *)
LEMMA EffectReturn ==
    ASSUME StackTypes, MonitorOff, NEW P, T!IInv(P), NEW c \in Core, PickReturn(c)
    PROVE Effect(c)
<1> DEFINE t == onCore[c]
           f == frame[t]
<1>1. t \in TCB /\ f \in BarrierFrame /\ Me(c) = t /\ onCore \in [Core -> TCB]
  BY RealCores DEF StackTypes, Me
<1>2. /\ pc[t] = "pick" /\ onCore' = onCore /\ handler' = handler /\ frame' = frame
      /\ pc' = [pc EXCEPT ![t] = f.ret]
      /\ interrupts' = [interrupts EXCEPT ![c] = f.iff]
  BY <1>1 DEF PickReturn, At, Goto
<1>3. f.ret \in Labels \ Monitor /\ f.ret \notin InBlock \cup {"away"} /\ f.iff \in BOOLEAN
  BY <1>1 DEF BarrierFrame, Labels, Outside, Syncing, Monitor, InBlock
<1>4. frame' = [frame EXCEPT ![t] = f]
  BY <1>1, <1>2 DEF StackTypes
<1>5. Within(t) <=> f.ret \in Syncing
  BY <1>2 DEF Within, Where, InBlock
<1> HIDE DEF t, f
<1>6. Going(t, f.ret, f)
  BY <1>2, <1>3, <1>4, <1>5 DEF Going, Monitor
<1>7. handler \in [Core -> BarrierCall]
  BY DEF StackTypes
<1> QED BY <1>1, <1>2, <1>3, <1>6, <1>7, EffectGo DEF t

(* ... where its core goes from a thread to another ... *)
LEMMA EffectSwitch ==
    ASSUME StackTypes, MonitorOff, NEW P, T!IInv(P), NEW c \in Core, ContextSwitch(c)
    PROVE Effect(c)
<1> DEFINE t == onCore[c]
           f == frame[t]
           h == [act |-> f.act, prev |-> f.me]
<1>1. t \in TCB /\ f \in BarrierFrame /\ Me(c) = t /\ onCore \in [Core -> TCB]
  BY RealCores DEF StackTypes, Me
<1>2. /\ pc[t] = "switch"
      /\ pc' = [pc EXCEPT ![t] = "away"]
      /\ frame' = [frame EXCEPT ![t] = Spent(f)]
      /\ interrupts' = [interrupts EXCEPT ![c] = FALSE]
      /\ onCore' = [onCore EXCEPT ![c] = f.next]
      /\ handler' = [handler EXCEPT ![c] = h]
  BY <1>1 DEF ContextSwitch, At, Goto
<1>3. Spent(f) \in BarrierFrame /\ Spent(f).ret = f.ret
  <2>1. AnyCore \in Core
    BY CoreAssumption DEF AnyCore
  <2> QED BY <2>1, <1>1 DEF Spent, BarrierFrame
<1>4. h \in BarrierCall /\ h # NoCall
  BY <1>1 DEF BarrierCall, BarrierFrame, NoCall
<1>5. Within(t) <=> f.ret \in Syncing
  BY <1>2 DEF Within, Where, InBlock
<1> HIDE DEF t, f, h
<1>6. PICK g \in BarrierFrame : g.ret = f.ret /\ frame' = [frame EXCEPT ![t] = g]
  BY <1>2, <1>3
<1>7. Going(t, "away", g)
  BY <1>2, <1>5, <1>6 DEF Going, Monitor
<1>8. handler' \in [Core -> BarrierCall] /\ handler'[c] # NoCall
  BY <1>2, <1>4 DEF StackTypes
<1>9. \A d \in Core \ {c} : onCore'[d] = onCore[d] /\ handler'[d] = handler[d]
  BY <1>1, <1>2 DEF StackTypes
<1> QED BY <1>1, <1>2, <1>6, <1>7, <1>8, <1>9, EffectGo DEF t

(* ... and where a lambda has run there and the thread goes on. *)
LEMMA EffectResume ==
    ASSUME StackTypes, MonitorOff, NEW P, T!IInv(P), NEW c \in Core, handler[c] # NoCall,
           Resume(c), UNCHANGED <<onCore, frame>>
    PROVE Effect(c)
<1> DEFINE t == onCore[c]
           f == frame[t]
<1>1. t \in TCB /\ f \in BarrierFrame /\ Me(c) = t /\ onCore \in [Core -> TCB]
      /\ pc[t] = "away"
  BY RealCores DEF StackTypes, Me
<1>2. /\ handler' = [handler EXCEPT ![c] = NoCall]
      /\ pc' = [pc EXCEPT ![t] = f.ret]
      /\ interrupts' = [interrupts EXCEPT ![c] = f.iff]
  BY <1>1 DEF Resume, Goto
<1>3. f.ret \in Labels \ Monitor /\ f.ret \notin InBlock \cup {"away"} /\ f.iff \in BOOLEAN
  BY <1>1 DEF BarrierFrame, Labels, Outside, Syncing, Monitor, InBlock
<1>4. frame' = [frame EXCEPT ![t] = f]
  BY <1>1 DEF StackTypes
<1>5. Within(t) <=> f.ret \in Syncing
  BY <1>1 DEF Within, Where, InBlock
<1> HIDE DEF t, f
<1>6. Going(t, f.ret, f)
  BY <1>1, <1>2, <1>3, <1>4, <1>5 DEF Going, Monitor
<1>7. handler' \in [Core -> BarrierCall]
  <2>1. NoCall \in BarrierCall
    BY ThreadAssumption DEF NoCall, BarrierCall, TCB
  <2> QED BY <1>2, <2>1 DEF StackTypes
<1>8. \A d \in Core \ {c} : onCore'[d] = onCore[d] /\ handler'[d] = handler[d]
  BY <1>2 DEF StackTypes
<1> QED BY <1>1, <1>2, <1>3, <1>6, <1>7, <1>8, EffectGo DEF t

(* A call of block() keeps the thread on its side of sync(). *)
LEMMA EffectBlock ==
    ASSUME StackTypes, MonitorOff, NEW P, T!IInv(P), NEW c \in Core,
           pc[onCore[c]] \in Labels \ Monitor,
           NEW opt \in {"CanReturn", "MustBlock"}, NEW act \in {"yield", "stop", "wait"},
           NEW ret \in Labels \ Monitor, NEW iff \in BOOLEAN, NEW b \in BOOLEAN,
           pc[onCore[c]] \in Syncing <=> ret \in Syncing,
           Block(c, opt, act, ret, iff), interrupts' = [interrupts EXCEPT ![c] = b],
           UNCHANGED <<onCore, handler>>
    PROVE Effect(c)
<1> DEFINE t == onCore[c]
           me == activeThreads[c]
           f == NewFrame(c, me, opt, act, ret, iff)
<1>1. t \in TCB /\ Me(c) = t /\ onCore \in [Core -> TCB] /\ me \in TCB
  BY RealCores DEF Me
<1>2. /\ pc' = [pc EXCEPT ![t] = "pick"]
      /\ frame' = [frame EXCEPT ![t] = f]
  BY <1>1 DEF Block, Goto
<1>3. f \in BarrierFrame /\ f.ret = ret
  BY <1>1 DEF NewFrame, BarrierFrame
<1>4. Within(t) <=> ret \in Syncing
  BY DEF Within, Where, InBlock, Labels, Outside, Syncing, Monitor
<1> HIDE DEF t, f
<1>5. Going(t, "pick", f)
  BY <1>2, <1>3, <1>4 DEF Going, Monitor, InBlock, t
<1>6. handler' \in [Core -> BarrierCall] /\ "pick" \in InBlock
  BY DEF StackTypes, InBlock
<1> QED BY <1>1, <1>3, <1>5, <1>6, EffectGo DEF t

(* yield(), stop() and a timer interrupt. *)
LEMMA EffectCallers ==
    ASSUME StackTypes, MonitorOff, NEW P, T!IInv(P), NEW c \in Core,
           ReaperYield(c) \/ Stop(c) \/ Tick(c)
    PROVE Effect(c)
<1> DEFINE t == onCore[c]
           l == pc[t]
<1>1. t \in TCB /\ Me(c) = t
  BY RealCores DEF Me
<1>2. onCore' = onCore /\ handler' = handler
  BY DEF ReaperYield, Stop, Tick, cpu
<1>3. PICK b \in BOOLEAN : b = interrupts[c]
  BY DEF StackTypes
<1>4. b = interrupts[c] => interrupts = [interrupts EXCEPT ![c] = b]
  BY DEF StackTypes
<1>5. {"yield", "reap", "stop"} \subseteq Labels \ Monitor
      /\ \A x \in {"yield", "reap", "stop"} : x \notin Syncing
  BY DEF Labels, Outside, Syncing, Monitor
<1> HIDE DEF t, l
<1>6. CASE ReaperYield(c)
  <2>1. Block(c, "CanReturn", "yield", "reap", b) /\ l = "yield" /\ interrupts' = interrupts
    BY <1>1, <1>3, <1>6 DEF ReaperYield, At, cpu, l
  <2> QED BY <2>1, <1>1, <1>2, <1>3, <1>4, <1>5, EffectBlock DEF t, l
<1>7. CASE Stop(c)
  <2>1. Block(c, "MustBlock", "stop", "stop", b) /\ l = "stop" /\ interrupts' = interrupts
    BY <1>1, <1>3, <1>7 DEF Stop, At, cpu, l
  <2> QED BY <2>1, <1>1, <1>2, <1>3, <1>4, <1>5, EffectBlock DEF t, l
<1>8. CASE Tick(c)
  <2>1. l \in Labels \ Monitor
    BY <1>8, SeenTick DEF t, l
  <2>2. /\ Block(c, "CanReturn", "yield", l, TRUE)
        /\ interrupts' = [interrupts EXCEPT ![c] = FALSE]
    BY <1>1, <1>8 DEF Tick, l
  <2> QED BY <2>1, <2>2, <1>2, EffectBlock DEF t, l
<1> QED BY <1>6, <1>7, <1>8

(* The other steps, from a label outside sync() to another. *)
LEMMA EffectWork ==
    ASSUME StackTypes, MonitorOff, NEW P, T!IInv(P), NEW c \in Core,
           Boot(c) \/ RemoveZombie(c) \/ NoZombie(c) \/ CallThread(c)
    PROVE Effect(c)
<1> DEFINE t == onCore[c]
           f == frame[t]
<1>1. t \in TCB /\ Me(c) = t /\ onCore \in [Core -> TCB] /\ f \in BarrierFrame
  BY RealCores DEF Me, StackTypes
<1>2. /\ onCore' = onCore /\ handler' = handler /\ interrupts' = interrupts /\ frame' = frame
      /\ pc[t] \in {"boot", "reap", "work"}
  BY <1>1 DEF Boot, RemoveZombie, NoZombie, CallThread, At, cpu
<1>3. PICK m \in {"reap", "stop", "delete", "yield", "spawn"} : pc' = [pc EXCEPT ![t] = m]
  BY <1>1 DEF Boot, RemoveZombie, NoZombie, CallThread, Goto
<1>4. frame' = [frame EXCEPT ![t] = f]
  BY <1>1, <1>2 DEF StackTypes
<1> HIDE DEF t, f
<1>5. m \in Labels \ Monitor /\ Going(t, m, f)
  BY <1>2, <1>3, <1>4 DEF Going, Within, Where, InBlock, Labels, Outside, Syncing, Monitor
<1>6. PICK b \in BOOLEAN : interrupts' = [interrupts EXCEPT ![c] = b]
  BY <1>2 DEF StackTypes
<1>7. handler' \in [Core -> BarrierCall]
  BY <1>2 DEF StackTypes
<1> QED BY <1>1, <1>2, <1>5, <1>6, <1>7, EffectGo DEF t

(* delete makes the TCB of a thread free that was in stop(). *)
LEMMA EffectDelete ==
    ASSUME StackTypes, MonitorOff, NEW P, T!IInv(P), NEW c \in Core, DeleteZombie(c)
    PROVE Effect(c)
<1> DEFINE t == onCore[c]
<1>1. t \in TCB /\ Me(c) = t /\ onCore \in [Core -> TCB] /\ corpse \in [TCB -> SUBSET TCB]
  BY RealCores DEF Me
<1>2. /\ pc[t] = "delete"
      /\ pc' = [x \in TCB |-> IF x = t THEN "reap" ELSE IF x \in corpse[t] THEN "free" ELSE pc[x]]
      /\ UNCHANGED <<onCore, interrupts, frame, handler>>
  BY <1>1 DEF DeleteZombie, DeleteZombieAt, At, cpu
<1>3. \A x \in corpse[t] : pc[x] = "away" /\ frame[x].ret = "stop"
  BY <1>1, RealElsewhere
<1> HIDE DEF t
<1>4. Kept
  <2> SUFFICES ASSUME NEW u \in TCB
               PROVE  /\ pc[u] \in Monitor \/ pc'[u] \in Monitor => pc'[u] = pc[u]
                      /\ Within(u)' <=> Within(u)
    BY DEF Kept
  <2> QED BY <1>2, <1>3 DEF Within, Where, InBlock, Syncing, Monitor
<1>5. StackTypes'
  <2>1. \A x \in TCB : pc'[x] \in Labels \cup InBlock \cup {"away", "free"}
    BY <1>2 DEF StackTypes, Labels, Outside
  <2> QED BY <2>1, <1>2 DEF StackTypes
<1>6. \A u \in TCB : pc'[u] \in Monitor => pc[u] = pc'[u]
  BY <1>4 DEF Kept
<1>7. pc'[onCore'[c]] = "reap"
  BY <1>1, <1>2 DEF t
<1>8. Others(c)
  BY <1>2 DEF Others
<1>9. MonitorOff'
  BY <1>1, <1>6, <1>7, <1>8, OffStays DEF Monitor
<1> QED BY <1>4, <1>5, <1>9 DEF Effect

(* thread() makes one that is to begin outside sync(). *)
LEMMA EffectSpawn ==
    ASSUME StackTypes, MonitorOff, NEW P, T!IInv(P), NEW c \in Core, Spawn(c)
    PROVE Effect(c)
<1> DEFINE t == onCore[c]
           m == IF t \in Idle THEN "stop" ELSE "work"
<1>1. t \in TCB /\ Me(c) = t /\ onCore \in [Core -> TCB]
  BY RealCores DEF Me
<1>2. PICK x \in Thread :
        /\ pc[x] = "free"
        /\ pc' = [pc EXCEPT ![x] = "away", ![t] = m]
        /\ frame' = [frame EXCEPT ![x] = FirstFrame(x, "work")]
  BY <1>1 DEF Spawn, SpawnAt
<1>3. pc[t] = "spawn" /\ UNCHANGED <<onCore, interrupts, handler>>
  BY <1>1 DEF Spawn, SpawnAt, At, cpu
<1>4. x \in TCB /\ x # t /\ m \in {"stop", "work"}
  BY <1>2, <1>3 DEF TCB
<1>5. FirstFrame(x, "work") \in BarrierFrame /\ FirstFrame(x, "work").ret = "work"
  <2>1. AnyCore \in Core
    BY CoreAssumption DEF AnyCore
  <2> QED BY <2>1, <1>4 DEF FirstFrame, NewFrame, BarrierFrame, Labels, Outside, Monitor
<1>6. PICK g \in BarrierFrame : g.ret = "work" /\ frame' = [frame EXCEPT ![x] = g]
  BY <1>2, <1>5
<1> HIDE DEF t, m
<1>7. \A u \in TCB : /\ pc'[u] = IF u = t THEN m ELSE IF u = x THEN "away" ELSE pc[u]
                     /\ frame'[u] = IF u = x THEN g ELSE frame[u]
  BY <1>1, <1>2, <1>4, <1>6 DEF StackTypes
<1>8. Kept
  <2> SUFFICES ASSUME NEW u \in TCB
               PROVE  /\ pc[u] \in Monitor \/ pc'[u] \in Monitor => pc'[u] = pc[u]
                      /\ Within(u)' <=> Within(u)
    BY DEF Kept
  <2>1. CASE u = t
    BY <2>1, <1>3, <1>4, <1>7 DEF Within, Where, InBlock, Syncing, Monitor
  <2>2. CASE u = x
    <3>1. pc[u] = "free" /\ pc'[u] = "away" /\ frame'[u].ret = "work"
      BY <2>2, <1>2, <1>4, <1>6, <1>7
    <3>2. ~Within(u) /\ ~Within(u)'
      BY <3>1 DEF Within, Where, InBlock, Syncing, Monitor
    <3> QED BY <3>1, <3>2 DEF Monitor
  <2>3. CASE u # t /\ u # x
    BY <2>3, <1>7 DEF Within, Where
  <2> QED BY <2>1, <2>2, <2>3
<1>9. StackTypes'
  <2>1. pc' \in [TCB -> Labels \cup InBlock \cup {"away", "free"}]
    BY <1>2, <1>4 DEF StackTypes, Labels, Outside
  <2> QED BY <2>1, <1>3, <1>6 DEF StackTypes
<1>10. \A u \in TCB : pc'[u] \in Monitor => pc[u] = pc'[u]
  BY <1>8 DEF Kept
<1>11. pc'[onCore'[c]] = m
  BY <1>1, <1>3, <1>7 DEF t
<1>12. Others(c)
  BY <1>3 DEF Others
<1>13. MonitorOff'
  BY <1>1, <1>4, <1>10, <1>11, <1>12, OffStays DEF Monitor
<1> QED BY <1>8, <1>9, <1>13 DEF Effect

(* All of them. *)
LEMMA EffectStep ==
    ASSUME StackTypes, MonitorOff, NEW P, T!IInv(P), NEW c \in Core,
           KernelStep(c) \/ Tick(c) \/ CallThread(c)
    PROVE Effect(c)
<1>1. CASE PickReady(c) \/ PickIdle(c) \/ Mark(c) \/ Activate(c)
  BY <1>1, EffectInBlock
<1>2. CASE PickReturn(c) \/ ContextSwitch(c)
  BY <1>2, EffectReturn, EffectSwitch
<1>3. CASE YieldHandler(c) \/ StopHandler(c)
  <2>1. handler[c] # NoCall /\ Resume(c) /\ UNCHANGED <<onCore, frame>>
    BY <1>3 DEF YieldHandler, StopHandler, NoCall
  <2> QED BY <2>1, EffectResume
<1>4. CASE ReaperYield(c) \/ Stop(c) \/ Tick(c)
  BY <1>4, EffectCallers
<1>5. CASE Boot(c) \/ RemoveZombie(c) \/ NoZombie(c) \/ CallThread(c)
  BY <1>5, EffectWork
<1>6. CASE DeleteZombie(c) \/ Spawn(c)
  BY <1>6, EffectDelete, EffectSpawn
<1> QED BY <1>1, <1>2, <1>3, <1>4, <1>5, <1>6 DEF KernelStep, InBlockStep

-----------------------------------------------------------------------------
(* The barrier's own steps, as they are seen. *)

(* In sync() a thread is seen to do nothing ... *)
LEMMA SeenSyncing ==
    ASSUME StackTypes, NEW P, T!IInv(P), NEW c \in Core, handler[c] = NoCall,
           pc[onCore[c]] \in Syncing \cup {"work"}, NEW m \in Syncing \cup {"work"},
           pc' = [pc EXCEPT ![onCore[c]] = m],
           NEW b \in BOOLEAN, interrupts' = [interrupts EXCEPT ![c] = b], m \in Monitor \/ b,
           UNCHANGED <<onCore, handler, frame>>
    PROVE UNCHANGED <<seenPc, seenFrame, seenHandler, seenInterrupts>>
<1> DEFINE t == onCore[c]
<1>1. t \in TCB /\ \A d \in Core : d # c => onCore[d] \in TCB /\ onCore[d] # t
  BY RealCores
<1>2. pc[t] \in Labels /\ pc[t] \notin InBlock /\ m \notin InBlock
  BY DEF Labels, Outside, Syncing, Monitor, InBlock
<1>3. SeenFlag(c)
  BY <1>2, RealFlags DEF SeenFlag
<1> HIDE DEF t
<1>4. seenPc' = seenPc
  <2>1. seenPc' = [seenPc EXCEPT ![t] = SeenLabel(m)]
    BY <1>1, SeenGoto DEF t
  <2>2. seenPc[t] = SeenLabel(m)
    BY <1>1, SeenFields DEF SeenLabel, t
  <2> QED BY <2>1, <2>2, <1>1 DEF seenPc
<1>5. seenFrame' = seenFrame /\ seenHandler' = seenHandler
  BY DEF seenFrame, seenHandler
<1>6. seenInterrupts' = seenInterrupts
  <2>1. \A d \in Core : d # c =>
            /\ onCore'[d] = onCore[d] /\ handler'[d] = handler[d]
            /\ interrupts'[d] = interrupts[d]
            /\ pc'[onCore[d]] = pc[onCore[d]]
            /\ frame'[onCore[d]] = frame[onCore[d]]
    BY <1>1 DEF StackTypes, t
  <2>2. pc'[t] = m /\ onCore'[c] = t /\ interrupts'[c] = b
    BY <1>1 DEF StackTypes, t
  <2>3. SeenFlag(c)' = SeenFlag(c)
    BY <1>2, <1>3, <2>2 DEF SeenFlag
  <2> QED BY <2>1, <2>3, SeenFlags
<1> QED BY <1>4, <1>5, <1>6

(* A step within sync() is not seen at all ... *)
LEMMA SyncingJInv ==
    ASSUME StackTypes, NEW P, T!JInv(P),
           UNCHANGED <<seenPc, seenFrame, seenHandler, seenInterrupts>>,
           UNCHANGED <<onCore, activeThreads, tss, no_preempt, corpse, queues>>
    PROVE T!JInv(P)'
<1>1. UNCHANGED T!vars
  BY DEF T!vars, T!cpu, T!queues, queues
<1> QED BY <1>1, SeenAssumptions, T!StutterJInv

(* ... but for down() ... *)
LEMMA WorkToWork == T!Move("work", "work")
  BY DEF T!Move, T!Labels, T!Deleting, T!Loop, T!Works

(* A wait() that blocks is seen as a down() that blocks. *)
LEMMA SeenWaitBlock ==
    ASSUME StackTypes, NEW P, T!JInv(P), NEW c \in Core, WaitBlock(c, "released", "relock")
    PROVE T!JInv(P)'
<1> DEFINE t == onCore[c]
<1>1. T!IInv(P) /\ T!IdleOK
  BY DEF T!JInv
<1>2. t \in TCB /\ Me(c) = t /\ T!Me(c) = t
  BY <1>1, RealCores DEF Me, T!Me
<1>3. handler[c] = NoCall /\ pc[t] = "released"
  BY <1>2 DEF WaitBlock, At
<1>4. pc[t] \in Labels \ Monitor /\ "relock" \in Labels \ Monitor /\ pc[t] \notin InBlock
      /\ SeenLabel("relock") = "work" /\ SeenLabel(pc[t]) = "work" /\ SeenAct("wait") = "down"
  BY <1>3 DEF Labels, Syncing, Monitor, SeenLabel, SeenAct, InBlock
<1> HIDE DEF t
<1>5. seenHandler[c] = T!NoCall /\ seenPc[t] = "work" /\ seenInterrupts[c] = interrupts[c]
  BY <1>2, <1>3, <1>4, SeenPending, SeenSame, SeenFields DEF SeenFlag, t
<1>6. t \notin T!Idle
  BY <1>1, <1>5 DEF T!IdleOK
<1>7. PICK b : b = interrupts[c] /\ interrupts' = [interrupts EXCEPT ![c] = b]
  BY DEF WaitBlock, cpu, StackTypes
<1>8. Block(c, "MustBlock", "wait", "relock", b) /\ UNCHANGED <<onCore, handler>>
  BY <1>7 DEF WaitBlock, cpu
<1>9. /\ T!Block(c, "MustBlock", SeenAct("wait"), SeenLabel("relock"), b)
      /\ seenHandler' = seenHandler
      /\ seenInterrupts' = [seenInterrupts EXCEPT ![c] = FALSE]
  <2>1. /\ T!Block(c, "MustBlock", SeenAct("wait"), SeenLabel("relock"), b)
        /\ seenHandler' = seenHandler
        /\ seenInterrupts' = [seenInterrupts EXCEPT ![c] = IF "wait" = "wait" THEN FALSE ELSE b]
    BY <1>1, <1>3, <1>4, <1>7, <1>8, SeenBlock DEF t
  <2> QED BY <2>1
<1>10. /\ T!Block(c, "MustBlock", "down", "work", seenInterrupts[c])
       /\ T!At(c, "work") /\ T!Me(c) \notin T!Idle
       /\ UNCHANGED <<onCore, activeThreads, tss, corpse, seenHandler, T!queues>>
  BY <1>2, <1>4, <1>5, <1>6, <1>7, <1>9 DEF T!At, WaitBlock, cpu, queues, T!queues
<1> QED BY <1>9, <1>10, WorkToWork, SeenAssumptions, T!DownBlockJInv

(* ... and its lambda, which may leave the thread waiting ... *)
LEMMA SeenWaitHandler ==
    ASSUME StackTypes, NEW P, T!JInv(P), NEW c \in Core, WaitHandler(c),
           NEW x, x = handler[c].prev
    PROVE /\ \/ /\ queue' = Append(queue, x) /\ epoch = old_epoch[x]
                /\ T!JInv(P \cup {x})' /\ x \in Thread /\ x \notin P
             \/ queue' = queue /\ T!JInv(P)'
          /\ MonitorOff => Effect(c)
          /\ pc[x] = "away" /\ frame[x].act = "wait" /\ x \in TCB
<1>1. T!IInv(P)
  BY DEF T!JInv
<1>2. handler[c].act = "wait" /\ handler[c] # NoCall /\ Resume(c) /\ UNCHANGED <<onCore, frame>>
  BY DEF WaitHandler, NoCall
<1>3. T!Resume(c) /\ UNCHANGED seenFrame
  BY <1>1, <1>2, SeenResume
<1>4. seenHandler[c].prev = x /\ seenHandler[c].act = "down"
  BY <1>2, SeenFields DEF SeenAct
<1>5. pc[x] = "away" /\ frame[x].act = "wait" /\ x \in TCB
  BY <1>1, <1>2, RealElsewhere
<1>6. UNCHANGED <<onCore, activeThreads, tss, no_preempt, corpse, zombies>>
  BY DEF WaitHandler
<1>7. MonitorOff => Effect(c)
  BY <1>1, <1>2, EffectResume
<1>8. CASE epoch = old_epoch[x]
  <2>1. queue' = Append(queue, x) /\ UNCHANGED T!queues
    BY <1>8, <1>6 DEF WaitHandler, T!queues
  <2>2. T!JInv(P \cup {x})' /\ x \in Thread /\ x \notin P
    BY <2>1, <1>3, <1>4, <1>6, SeenAssumptions, T!DownHandlerJInv
  <2> QED BY <2>1, <2>2, <1>5, <1>7, <1>8
<1>9. CASE epoch # old_epoch[x]
  <2>1. queue' = queue /\ Schedule(x)
    BY <1>9 DEF WaitHandler
  <2>2. T!Schedule(seenHandler[c].prev)
    BY <2>1, <1>4, SeenSame DEF Schedule, T!Schedule
  <2>3. T!JInv(P)'
    BY <2>2, <1>3, <1>4, <1>6, SeenAssumptions, T!LateHandlerJInv
  <2> QED BY <2>1, <2>3, <1>5, <1>7
<1> QED BY <1>8, <1>9

(* ... and for up(), as often as notifyAll() wakes somebody. *)
LEMMA SeenNotify ==
    ASSUME StackTypes, NEW P, T!JInv(P), NEW c \in Core, NotifyNext(c, "notify", "leave"),
           NEW x \in P, x = Head(queue)
    PROVE T!JInv(P \ {x})'
<1> DEFINE t == onCore[c]
<1>1. T!IInv(P)
  BY DEF T!JInv
<1>2. t \in TCB /\ Me(c) = t /\ T!Me(c) = t
  BY <1>1, RealCores DEF Me, T!Me
<1>3. handler[c] = NoCall /\ pc[t] = "notify"
      /\ UNCHANGED <<onCore, activeThreads, tss, interrupts, no_preempt, pc, frame, corpse, handler, zombies>>
  BY <1>2 DEF NotifyNext, At, cpu
<1>4. seenHandler[c] = T!NoCall /\ seenPc[t] = "work"
  BY <1>2, <1>3, SeenPending, SeenSame, SeenFields DEF SeenLabel, Syncing, Monitor
<1>5. UNCHANGED <<seenPc, seenFrame, seenHandler>>
  BY <1>3 DEF seenPc, seenFrame, seenHandler
<1>6. seenInterrupts' = seenInterrupts
  BY <1>3 DEF seenInterrupts, SeenFlag
<1>7. T!Goto(T!Me(c), "work")
  BY <1>2, <1>4, <1>5 DEF T!Goto, seenPc
<1>8. T!Schedule(x)
  BY SeenSame DEF NotifyNext, Schedule, T!Schedule
<1>9. T!At(c, "work") /\ UNCHANGED <<T!cpu, no_preempt, seenFrame, corpse, seenHandler, zombies>>
  BY <1>2, <1>3, <1>4, <1>5, <1>6 DEF T!At, T!cpu
<1> QED BY <1>7, <1>8, <1>9, WorkToWork, SeenAssumptions, T!WakeJInv

-----------------------------------------------------------------------------
(* The invariant *)

(* The threads that wait in the condition's queue. *)
Waiters == {queue[i] : i \in 1 .. Len(queue)}

CountTypes ==
    /\ held \in BOOLEAN /\ epoch \in Nat /\ queue \in Seq(Thread)
    /\ old_epoch \in [TCB -> Nat]
    /\ count \in Nat /\ round \in Nat
    /\ t_ \in [TCB -> Nat] /\ began \in [TCB -> Nat] /\ done \in [TCB -> Nat]

(* The monitor has one thread at a time, the holder of its lock. *)
MonitorOK ==
    /\ held <=> \E u \in TCB : pc[u] \in Monitor
    /\ \A u, v \in TCB : pc[u] \in Monitor /\ pc[v] \in Monitor => u = v

(* A thread waits in the queue once, and for the epoch that has begun but  *)
(* while notifyAll() wakes those of the one before.                        *)
WaitersOK ==
    /\ \A i, j \in 1 .. Len(queue) : queue[i] = queue[j] => i = j
    /\ (\A u \in TCB : pc[u] # "notify") => \A i \in 1 .. Len(queue) : old_epoch[queue[i]] = epoch

(* Who is in a round, how far everybody is, and what the barrier counts. *)
RoundsOK ==
    /\ \A u \in TCB : IF Within(u)
                      THEN u \in Party /\ began[u] = t_[u] + 1 /\ done[u] = t_[u]
                      ELSE began[u] = done[u]
    /\ \A u \in Party : done[u] <= round /\ round <= began[u] /\ began[u] <= round + 1
    /\ count = Cardinality({u \in Party : began[u] = round})
    /\ \A u \in TCB : pc[u] = "last" => count = 0 /\ t_[u] = round
    /\ \A u \in TCB : pc[u] \in {"notify", "leave"} => t_[u] < round

BInv ==
    /\ StackTypes /\ MonitorOff /\ CountTypes /\ MonitorOK /\ WaitersOK /\ RoundsOK
    /\ \E P : P = Waiters /\ T!JInv(P)

(* It holds at the start. *)
LEMMA BarrierInitInv == BarrierInit => BInv
<1> SUFFICES ASSUME BarrierInit PROVE BInv
  OBVIOUS
<1> USE DEF BarrierInit, ConditionInit
<1>1. /\ onCore = idleThreads /\ interrupts = [c \in Core |-> TRUE]
      /\ pc = [t \in TCB |-> IF t = Reaper THEN "away" ELSE IF t \in Idle THEN "boot" ELSE "free"]
      /\ frame = [t \in TCB |-> FirstFrame(t, "reap")]
      /\ handler = [c \in Core |-> NoCall]
  BY DEF Init
<1>2. \A t \in TCB : /\ pc[t] \in {"away", "boot", "free"} /\ frame[t] = FirstFrame(t, "reap")
                     /\ frame[t].ret = "reap"
  BY <1>1 DEF FirstFrame, NewFrame
<1>3. StackTypes
  <2>1. AnyCore \in Core
    BY CoreAssumption DEF AnyCore
  <2>2. \A t \in TCB : FirstFrame(t, "reap") \in BarrierFrame
    BY <2>1 DEF FirstFrame, NewFrame, BarrierFrame, Labels, Outside, Monitor
  <2>3. NoCall \in BarrierCall
    BY ThreadAssumption DEF NoCall, BarrierCall, TCB
  <2>4. \A t \in TCB : pc[t] \in Labels \cup InBlock \cup {"away", "free"}
    BY <1>2 DEF Labels, Outside
  <2> QED BY <1>1, <2>2, <2>3, <2>4 DEF StackTypes
<1>4. \A t \in TCB : ~Within(t) /\ pc[t] \notin Monitor
  BY <1>2 DEF Within, Where, InBlock, Syncing, Monitor
<1>5. MonitorOff
  <2>1. \A c \in Core : onCore[c] \in TCB
    BY <1>1, IdleAssumption DEF TCB
  <2> QED BY <2>1, <1>4 DEF MonitorOff
<1>6. IsFiniteSet(Party) /\ {u \in Party : began[u] = round} = Party
  <2>1. IsFiniteSet(Party)
    BY PartyAssumption, FS_Difference DEF Party
  <2> QED BY <2>1 DEF Party, TCB
<1>7. CountTypes
  <2>1. Cardinality(Party) \in Nat
    BY <1>6, FS_CardinalityType
  <2>2. count \in Nat
    BY <2>1 DEF initial_count
  <2>3. queue \in Seq(Thread)
    OBVIOUS
  <2>4. held \in BOOLEAN /\ epoch \in Nat /\ round \in Nat
    OBVIOUS
  <2>5. old_epoch \in [TCB -> Nat] /\ t_ \in [TCB -> Nat] /\ began \in [TCB -> Nat]
        /\ done \in [TCB -> Nat]
    OBVIOUS
  <2> QED BY <2>2, <2>3, <2>4, <2>5 DEF CountTypes
<1>8. MonitorOK /\ WaitersOK
  BY <1>4 DEF MonitorOK, WaitersOK
<1>9. RoundsOK
  <2>1. \A u \in TCB : pc[u] # "last" /\ pc[u] \notin {"notify", "leave"}
    BY <1>4 DEF Monitor
  <2>2. count = Cardinality({u \in Party : began[u] = round})
    BY <1>6 DEF initial_count
  <2>3. \A u \in TCB : began[u] = 0 /\ done[u] = 0
    OBVIOUS
  <2>4. round = 0 /\ Party \subseteq TCB
    BY DEF Party, TCB
  <2> QED BY <2>1, <2>2, <2>3, <2>4, <1>4 DEF RoundsOK
<1>10. Waiters = {}
  BY DEF Waiters
<1>11. T!JInv({})
  <2>1. T!Init
    <3>1. SeenLabel("away") = "away" /\ SeenLabel("boot") = "boot" /\ SeenLabel("free") = "free"
          /\ SeenLabel("reap") = "reap" /\ SeenAct("yield") = "yield"
      BY DEF SeenLabel, SeenAct, Syncing, Monitor
    <3>2. seenPc = [t \in TCB |-> IF t = Reaper THEN "away" ELSE IF t \in Idle THEN "boot" ELSE "free"]
      BY <1>1, <3>1 DEF seenPc
    <3>3. T!AnyCore = AnyCore
      BY DEF T!AnyCore, AnyCore
    <3>4. \A t \in TCB : SeenFrame(FirstFrame(t, "reap")) = T!FirstFrame(t, "reap")
      BY <3>1, <3>3 DEF SeenFrame, FirstFrame, NewFrame, T!FirstFrame, T!NewFrame
    <3>5. seenFrame = [t \in TCB |-> T!FirstFrame(t, "reap")]
      BY <1>1, <3>4 DEF seenFrame
    <3>6. SeenCall(NoCall) = T!NoCall
      BY DEF SeenCall, SeenAct, NoCall, T!NoCall
    <3>7. seenHandler = [c \in Core |-> T!NoCall]
      BY <1>1, <3>6 DEF seenHandler
    <3>8. \A c \in Core : SeenFlag(c)
      <4>1. \A c \in Core : onCore[c] \in TCB
        BY <1>1, IdleAssumption DEF TCB
      <4>2. \A c \in Core : pc[onCore[c]] \notin InBlock
        BY <4>1, <1>2 DEF InBlock
      <4> QED BY <4>2, <1>1 DEF SeenFlag
    <3>9. seenInterrupts = [c \in Core |-> TRUE]
      BY <3>8 DEF seenInterrupts
    <3> QED BY <3>2, <3>5, <3>7, <3>9, SeenSame DEF Init, T!Init
  <2> QED BY <2>1, SeenAssumptions, T!InitJInv
<1> QED BY <1>3, <1>5, <1>7, <1>8, <1>9, <1>10, <1>11 DEF BInv

-----------------------------------------------------------------------------
(* The steps *)

(* What is left of the invariant when nobody moves in sync(). *)
LEMMA KeptMonitor == ASSUME MonitorOK, Kept, held' = held PROVE MonitorOK'
<1>1. \A u \in TCB : pc'[u] \in Monitor <=> pc[u] \in Monitor
  BY DEF Kept
<1> QED BY <1>1 DEF MonitorOK

LEMMA KeptWaiters == ASSUME WaitersOK, Kept, UNCHANGED condition PROVE WaitersOK'
<1>1. \A u \in TCB : pc'[u] = "notify" <=> pc[u] = "notify"
  BY DEF Kept, Monitor
<1>2. UNCHANGED <<epoch, queue, old_epoch>>
  BY DEF condition
<1> QED BY <1>1, <1>2 DEF WaitersOK

LEMMA KeptRounds == ASSUME RoundsOK, Kept, UNCHANGED barrier PROVE RoundsOK'
<1>1. \A u \in TCB : /\ Within(u)' <=> Within(u)
                     /\ pc'[u] = "last" <=> pc[u] = "last"
                     /\ pc'[u] \in {"notify", "leave"} <=> pc[u] \in {"notify", "leave"}
  BY DEF Kept, Monitor
<1>2. UNCHANGED <<count, round, t_, began, done>>
  BY DEF barrier
<1>3. \A u \in TCB : IF Within(u)'
                     THEN u \in Party /\ began'[u] = t_'[u] + 1 /\ done'[u] = t_'[u]
                     ELSE began'[u] = done'[u]
  BY <1>1, <1>2 DEF RoundsOK
<1> QED BY <1>1, <1>2, <1>3 DEF RoundsOK

(* The scheduler's steps preserve the invariant. *)
LEMMA KernelBInv ==
    ASSUME BInv, NEW c \in Core, KernelStep(c) \/ Tick(c) \/ CallThread(c),
           UNCHANGED <<condition, barrier>>
    PROVE BInv'
<1>1. PICK P : P = Waiters /\ T!JInv(P)
  BY DEF BInv
<1>2. T!IInv(P)
  BY <1>1 DEF T!JInv
<1>3. Effect(c)
  BY <1>2, EffectStep DEF BInv
<1>4. T!JInv(P)'
  <2>1. T!ThreadStep(c)
    BY <1>2, SeenStep DEF BInv
  <2> QED BY <2>1, <1>1, SeenAssumptions, T!StepJInv
<1>5. P = Waiters'
  BY <1>1 DEF Waiters, condition
<1>6. CountTypes'
  BY DEF BInv, CountTypes, condition, barrier
<1>7. MonitorOK' /\ WaitersOK' /\ RoundsOK'
  BY <1>3, KeptMonitor, KeptWaiters, KeptRounds DEF BInv, Effect, condition
<1> QED BY <1>3, <1>4, <1>5, <1>6, <1>7 DEF BInv, Effect

(* The lambda of wait(). *)
LEMMA HandlerBInv ==
    ASSUME BInv, NEW c \in Core, WaitHandler(c), UNCHANGED barrier
    PROVE BInv'
<1>1. PICK P : P = Waiters /\ T!JInv(P)
  BY DEF BInv
<1>2. PICK x : x = handler[c].prev
  OBVIOUS
<1>3. StackTypes /\ MonitorOff /\ CountTypes /\ MonitorOK /\ WaitersOK /\ RoundsOK
  BY DEF BInv
<1>4. /\ \/ /\ queue' = Append(queue, x) /\ epoch = old_epoch[x]
            /\ T!JInv(P \cup {x})' /\ x \in Thread /\ x \notin P
         \/ queue' = queue /\ T!JInv(P)'
      /\ Effect(c)
  BY <1>1, <1>2, <1>3, SeenWaitHandler
<1>5. Kept
  BY <1>4 DEF Effect
<1>6. ~held /\ UNCHANGED <<held, epoch, old_epoch>>
  BY DEF WaitHandler
<1>7. MonitorOK' /\ RoundsOK'
  BY <1>3, <1>5, <1>6, KeptMonitor, KeptRounds
<1>8. CASE queue' = queue /\ T!JInv(P)'
  <2>1. UNCHANGED condition
    BY <1>6, <1>8 DEF condition
  <2>2. WaitersOK' /\ P = Waiters'
    BY <2>1, <1>1, <1>3, <1>5, KeptWaiters DEF Waiters, condition
  <2>3. CountTypes'
    BY <2>1, <1>3 DEF CountTypes, condition, barrier
  <2> QED BY <2>2, <2>3, <1>4, <1>7, <1>8 DEF BInv, Effect
<1>9. CASE /\ queue' = Append(queue, x) /\ epoch = old_epoch[x]
           /\ T!JInv(P \cup {x})' /\ x \in Thread /\ x \notin P
  <2>1. queue \in Seq(Thread)
    BY <1>3 DEF CountTypes
  <2>2. /\ queue' \in Seq(Thread) /\ Len(queue') = Len(queue) + 1
        /\ \A i \in 1 .. Len(queue') : queue'[i] = IF i <= Len(queue) THEN queue[i] ELSE x
    BY <2>1, <1>9
  <2>3. \A i \in 1 .. Len(queue) : queue[i] \in P
    BY <1>1 DEF Waiters
  <2>4. Waiters' = P \cup {x}
    <3>1. ASSUME NEW y \in P PROVE \E i \in 1 .. Len(queue') : queue'[i] = y
      <4>1. PICK i \in 1 .. Len(queue) : queue[i] = y
        BY <3>1, <1>1 DEF Waiters
      <4>2. i \in 1 .. Len(queue') /\ queue'[i] = y
        BY <4>1, <2>1, <2>2
      <4> QED BY <4>2
    <3>2. Len(queue') \in 1 .. Len(queue') /\ queue'[Len(queue')] = x
      BY <2>1, <2>2
    <3>3. \A i \in 1 .. Len(queue') : queue'[i] \in P \cup {x}
      BY <2>1, <2>2, <2>3
    <3> QED BY <3>1, <3>2, <3>3 DEF Waiters
  <2>5. WaitersOK'
    <3>1. ASSUME NEW i \in 1 .. Len(queue'), NEW j \in 1 .. Len(queue'), queue'[i] = queue'[j]
          PROVE  i = j
      <4>1. i <= Len(queue) => i \in 1 .. Len(queue) /\ queue'[i] = queue[i] /\ queue[i] \in P
        BY <2>1, <2>2, <2>3
      <4>2. j <= Len(queue) => j \in 1 .. Len(queue) /\ queue'[j] = queue[j] /\ queue[j] \in P
        BY <2>1, <2>2, <2>3
      <4>3. ~(i <= Len(queue)) => i = Len(queue) + 1 /\ queue'[i] = x
        BY <2>1, <2>2
      <4>4. ~(j <= Len(queue)) => j = Len(queue) + 1 /\ queue'[j] = x
        BY <2>1, <2>2
      <4> QED BY <3>1, <4>1, <4>2, <4>3, <4>4, <1>3, <1>9 DEF WaitersOK
    <3>2. \A u \in TCB : pc[u] # "notify"
      BY <1>3, <1>6 DEF MonitorOK, Monitor
    <3>3. \A i \in 1 .. Len(queue) : old_epoch[queue[i]] = epoch
      BY <3>2, <1>3 DEF WaitersOK
    <3>4. \A i \in 1 .. Len(queue') : old_epoch'[queue'[i]] = epoch'
      BY <3>3, <2>1, <2>2, <1>6, <1>9
    <3> QED BY <3>1, <3>4 DEF WaitersOK
  <2>6. CountTypes'
    BY <2>2, <1>3, <1>6 DEF CountTypes, barrier
  <2> QED BY <2>4, <2>5, <2>6, <1>4, <1>7, <1>9 DEF BInv, Effect
<1> QED BY <1>4, <1>8, <1>9

(* The call of block() in wait(). *)
LEMMA WaitBlockBInv ==
    ASSUME BInv, NEW c \in Core, WaitBlock(c, "released", "relock"), UNCHANGED barrier
    PROVE BInv'
<1>1. PICK P : P = Waiters /\ T!JInv(P)
  BY DEF BInv
<1>2. StackTypes /\ MonitorOff /\ CountTypes /\ MonitorOK /\ WaitersOK /\ RoundsOK /\ T!IInv(P)
  BY <1>1 DEF BInv, T!JInv
<1>3. Effect(c)
  <2>1. pc[onCore[c]] = "released" /\ UNCHANGED <<onCore, handler>> /\ interrupts' = interrupts
    BY DEF WaitBlock, At, Me, cpu
  <2>2. pc[onCore[c]] \in Labels \ Monitor /\ "relock" \in Labels \ Monitor
        /\ (pc[onCore[c]] \in Syncing <=> "relock" \in Syncing)
    BY <2>1 DEF Labels, Syncing, Monitor
  <2>3. PICK b \in BOOLEAN : b = interrupts[c]
    BY <1>2 DEF StackTypes
  <2>4. Block(c, "MustBlock", "wait", "relock", b) /\ interrupts' = [interrupts EXCEPT ![c] = b]
    BY <1>2, <2>1, <2>3 DEF WaitBlock, StackTypes
  <2> QED BY <1>2, <2>1, <2>2, <2>4, EffectBlock
<1>4. T!JInv(P)'
  BY <1>1, <1>2, SeenWaitBlock
<1>5. UNCHANGED condition
  BY DEF WaitBlock
<1>6. P = Waiters'
  BY <1>1, <1>5 DEF Waiters, condition
<1>7. CountTypes'
  BY <1>2, <1>5 DEF CountTypes, condition, barrier
<1>8. MonitorOK' /\ WaitersOK' /\ RoundsOK'
  BY <1>2, <1>3, <1>5, KeptMonitor, KeptWaiters, KeptRounds DEF Effect, condition
<1> QED BY <1>3, <1>4, <1>6, <1>7, <1>8 DEF BInv, Effect

(* A step of core c's thread to label m of sync(), or out of it, after     *)
(* which its interrupts are b.                                             *)
Own(c, m, b) ==
    /\ handler[c] = NoCall
    /\ pc[onCore[c]] \in Syncing \cup {"work"} /\ m \in Syncing \cup {"work"}
    /\ b \in BOOLEAN /\ (b <=> m \notin Monitor)
    /\ pc' = [pc EXCEPT ![onCore[c]] = m]
    /\ interrupts' = [interrupts EXCEPT ![c] = b]
    /\ UNCHANGED <<onCore, activeThreads, tss, no_preempt, frame, corpse, handler, queues, queue>>

(* What everybody else sees of it. *)
Moved(t, l, m) ==
    /\ t \in TCB /\ pc[t] = l /\ (Within(t) <=> l \in Syncing)
    /\ \A u \in TCB : /\ pc'[u] = IF u = t THEN m ELSE pc[u]
                      /\ Within(u)' <=> IF u = t THEN m \in Syncing ELSE Within(u)

(* A step of sync()'s own changes nothing that the scheduler sees. *)
LEMMA OwnInv ==
    ASSUME BInv, NEW c \in Core, NEW m, NEW b, Own(c, m, b)
    PROVE /\ StackTypes' /\ MonitorOff'
          /\ (\E P : P = Waiters /\ T!JInv(P))'
          /\ Moved(Me(c), pc[Me(c)], m)
<1> DEFINE t == onCore[c]
           l == pc[t]
<1>1. PICK P : P = Waiters /\ T!JInv(P)
  BY DEF BInv
<1>2. StackTypes /\ MonitorOff /\ T!IInv(P)
  BY <1>1 DEF BInv, T!JInv
<1>3. t \in TCB /\ Me(c) = t /\ \A d \in Core : d # c => onCore[d] \in TCB /\ onCore[d] # t
  BY <1>2, RealCores DEF Me
<1> USE DEF Own
<1>4. l \in Labels /\ m \in Labels /\ l \notin InBlock \cup {"away"} /\ m \notin InBlock \cup {"away"}
  BY DEF Labels, Outside, Syncing, Monitor, InBlock
<1> HIDE DEF t, l
<1>5. \A u \in TCB : pc'[u] = IF u = t THEN m ELSE pc[u]
  BY <1>2, <1>3 DEF StackTypes, t
<1>6. Moved(Me(c), pc[Me(c)], m)
  <2>1. Within(t) <=> l \in Syncing
    BY <1>4 DEF Within, Where, l
  <2>2. ASSUME NEW u \in TCB PROVE Within(u)' <=> IF u = t THEN m \in Syncing ELSE Within(u)
    BY <1>4, <1>5 DEF Within, Where
  <2> QED BY <1>3, <1>5, <2>1, <2>2 DEF Moved, l
<1>7. StackTypes'
  BY <1>2, <1>4 DEF StackTypes
<1>8. MonitorOff'
  <2> SUFFICES ASSUME NEW d \in Core, handler'[d] = NoCall, pc'[onCore'[d]] \in Monitor
               PROVE  ~interrupts'[d]
    BY DEF MonitorOff
  <2>1. CASE d = c
    BY <2>1, <1>2, <1>3, <1>5 DEF t, StackTypes
  <2>2. CASE d # c
    <3>1. pc'[onCore[d]] = pc[onCore[d]]
      BY <2>2, <1>3, <1>5
    <3> QED BY <2>2, <3>1, <1>2 DEF MonitorOff, StackTypes
  <2> QED BY <2>1, <2>2
<1>9. T!JInv(P)'
  <2>1. UNCHANGED <<seenPc, seenFrame, seenHandler, seenInterrupts>>
    BY <1>2, SeenSyncing
  <2> QED BY <2>1, <1>1, <1>2, SyncingJInv
<1>10. P = Waiters'
  BY <1>1 DEF Waiters
<1> QED BY <1>6, <1>7, <1>8, <1>9, <1>10

(* A thread goes into the empty monitor, within it, or out of it. *)
LEMMA OwnMonitor ==
    ASSUME MonitorOK, NEW t, NEW l, NEW m, Moved(t, l, m),
           \/ l \notin Monitor /\ m \in Monitor /\ ~held /\ held' = TRUE
           \/ l \in Monitor /\ m \in Monitor /\ held' = held
           \/ l \in Monitor /\ m \notin Monitor /\ held' = FALSE
    PROVE MonitorOK'
  BY DEF MonitorOK, Moved

(* The condition stays as it is. *)
LEMMA OwnWaiters ==
    ASSUME MonitorOK, WaitersOK, NEW t \in TCB, held => pc[t] \in Monitor \ {"notify"},
           epoch' = epoch, queue' = queue,
           \A i \in 1 .. Len(queue) : old_epoch'[queue[i]] = old_epoch[queue[i]]
    PROVE WaitersOK'
<1>1. \A u \in TCB : pc[u] # "notify"
  BY DEF MonitorOK, Monitor
<1>2. \A i \in 1 .. Len(queue) : old_epoch[queue[i]] = epoch
  BY <1>1 DEF WaitersOK
<1> QED BY <1>2 DEF WaitersOK

(* The rounds stay as they are. *)
LEMMA OwnRounds ==
    ASSUME RoundsOK, NEW t, NEW l \in Syncing, NEW m \in Syncing \ {"last", "notify"},
           Moved(t, l, m), m = "leave" => t_[t] < round, UNCHANGED barrier
    PROVE RoundsOK'
<1>1. UNCHANGED <<count, round, t_, began, done>>
  BY DEF barrier
<1>2. ASSUME NEW u \in TCB
      PROVE  /\ Within(u)' <=> Within(u)
             /\ pc'[u] = "last" => pc[u] = "last"
             /\ pc'[u] \in {"notify", "leave"} =>
                   pc[u] \in {"notify", "leave"} \/ (u = t /\ m = "leave")
  <2>1. Within(u)' <=> Within(u)
    <3>1. CASE u = t
      <4>1. (Within(t) <=> l \in Syncing) /\ (Within(t)' <=> m \in Syncing)
        BY DEF Moved
      <4> QED BY <3>1, <4>1
    <3>2. CASE u # t
      BY <3>2 DEF Moved
    <3> QED BY <3>1, <3>2
  <2>2. pc'[u] = IF u = t THEN m ELSE pc[u]
    BY DEF Moved
  <2>3. m # "last" /\ m # "notify"
    OBVIOUS
  <2>4. pc'[u] = "last" => pc[u] = "last"
    BY <2>2, <2>3
  <2>5. pc'[u] \in {"notify", "leave"} => pc[u] \in {"notify", "leave"} \/ (u = t /\ m = "leave")
    BY <2>2, <2>3
  <2> QED BY <2>1, <2>4, <2>5
<1>3. \A u \in TCB : IF Within(u)'
                     THEN u \in Party /\ began'[u] = t_'[u] + 1 /\ done'[u] = t_'[u]
                     ELSE began'[u] = done'[u]
  BY <1>1, <1>2 DEF RoundsOK
<1>4. \A u \in TCB : pc'[u] = "last" => count' = 0 /\ t_'[u] = round'
  BY <1>1, <1>2 DEF RoundsOK
<1>5. \A u \in TCB : pc'[u] \in {"notify", "leave"} => t_'[u] < round'
  BY <1>1, <1>2 DEF RoundsOK
<1> QED BY <1>1, <1>3, <1>4, <1>5 DEF RoundsOK

(* epoch and count of the barrier are read and written by the holder. *)
LEMMA EnterBInv == ASSUME BInv, NEW c \in Core, Enter(c) PROVE BInv'
<1> DEFINE t == Me(c)
<1>1. StackTypes /\ CountTypes /\ MonitorOK /\ WaitersOK /\ RoundsOK
  BY DEF BInv
<1>2. PICK m \in {"last", "check"} : m = (IF count = 1 THEN "last" ELSE "check") /\ pc' = [pc EXCEPT ![t] = m]
  BY DEF Enter, Goto
<1>3. /\ handler[c] = NoCall /\ pc[t] = "work" /\ ~held /\ held' = TRUE
      /\ interrupts' = [interrupts EXCEPT ![c] = FALSE]
      /\ t_' = [t_ EXCEPT ![t] = round] /\ count' = count - 1
      /\ began' = [began EXCEPT ![t] = began[t] + 1]
      /\ UNCHANGED <<onCore, activeThreads, tss, no_preempt, frame, corpse, handler, queues>>
      /\ UNCHANGED <<epoch, queue, old_epoch, round, done>>
  BY DEF Enter, Acquire, At
<1>4. Own(c, m, FALSE)
  BY <1>2, <1>3 DEF Own, Syncing, Monitor, Me
<1>5. /\ StackTypes' /\ MonitorOff' /\ (\E P : P = Waiters /\ T!JInv(P))'
      /\ Moved(t, "work", m)
  BY <1>3, <1>4, OwnInv
<1>6. t \in Party
  <2>1. PICK P : T!JInv(P)
    BY DEF BInv
  <2>2. T!IdleOK /\ T!ReaperOK
    BY <2>1 DEF T!JInv
  <2>3. t \in TCB /\ seenPc[t] = "work"
    BY <1>1, <1>3, <1>5, SeenAt DEF Moved
  <2>4. t \notin Idle
    BY <2>2, <2>3, SeenSame DEF T!IdleOK
  <2>5. t # Reaper
    BY <2>2, <2>3 DEF T!ReaperOK, T!Loop, T!Blocked, T!InBlock
  <2> QED BY <2>3, <2>4, <2>5 DEF Party, TCB
<1> HIDE DEF t
<1>7. MonitorOK'
  BY <1>1, <1>2, <1>3, <1>5, OwnMonitor DEF Monitor
<1>8. WaitersOK'
  BY <1>1, <1>3, <1>5, OwnWaiters DEF Moved
<1>9. ~Within(t) /\ began[t] = done[t] /\ t \in TCB
  BY <1>1, <1>5 DEF Moved, RoundsOK, Syncing, Monitor
<1>10. /\ round \in Nat /\ began[t] = round /\ done[t] = round
       /\ \A u \in TCB : began[u] \in Nat /\ done[u] \in Nat /\ t_[u] \in Nat
  BY <1>1, <1>6, <1>9 DEF CountTypes, RoundsOK
<1>11. \A u \in TCB : /\ began'[u] = IF u = t THEN round + 1 ELSE began[u]
                      /\ t_'[u] = IF u = t THEN round ELSE t_[u]
                      /\ done'[u] = done[u]
  BY <1>1, <1>3, <1>9, <1>10 DEF CountTypes
<1>12. count' \in Nat /\ count' = Cardinality({u \in Party : began'[u] = round})
       /\ (count = 1 => count' = 0)
  <2> DEFINE S == {u \in Party : began[u] = round}
  <2>1. IsFiniteSet(S)
    BY PartyAssumption, FS_Subset DEF Party
  <2>2. t \in S
    BY <1>6, <1>10
  <2>3. Party \subseteq TCB
    BY DEF Party, TCB
  <2>4. {u \in Party : began'[u] = round} = S \ {t}
    BY <2>3, <1>10, <1>11
  <2>5. count = Cardinality(S) /\ count \in Nat
    BY <1>1 DEF RoundsOK, CountTypes
  <2> HIDE DEF S
  <2>6. Cardinality(S \ {t}) = Cardinality(S) - 1
    BY <2>1, <2>2, FS_RemoveElement
  <2>7. Cardinality(S \ {t}) \in Nat
    <3>1. IsFiniteSet(S \ {t})
      BY <2>1, FS_Difference
    <3> QED BY <3>1, FS_CardinalityType
  <2>8. Cardinality({u \in Party : began'[u] = round}) = Cardinality(S \ {t})
    BY <2>4
  <2> QED BY <2>5, <2>6, <2>7, <2>8, <1>3
<1>13. RoundsOK'
  <2>1. ASSUME NEW u \in TCB
        PROVE  IF Within(u)' THEN u \in Party /\ began'[u] = t_'[u] + 1 /\ done'[u] = t_'[u]
                             ELSE began'[u] = done'[u]
    <3>1. CASE u = t
      <4>1. Within(u)'
        BY <3>1, <1>2, <1>5 DEF Moved, Syncing, Monitor
      <4> QED BY <3>1, <4>1, <1>6, <1>10, <1>11
    <3>2. CASE u # t
      <4>1. Within(u)' <=> Within(u)
        BY <3>2, <1>5 DEF Moved
      <4> QED BY <3>2, <4>1, <1>1, <1>11 DEF RoundsOK
    <3> QED BY <3>1, <3>2
  <2>2. \A u \in Party : done'[u] <= round' /\ round' <= began'[u] /\ began'[u] <= round' + 1
    <3>1. Party \subseteq TCB
      BY DEF Party, TCB
    <3> QED BY <3>1, <1>1, <1>3, <1>10, <1>11 DEF RoundsOK
  <2>3. \A u \in TCB : u # t => pc'[u] \notin Monitor
    BY <1>1, <1>3, <1>5 DEF MonitorOK, Moved
  <2>4. pc'[t] = m
    BY <1>5, <1>9 DEF Moved
  <2>5. \A u \in TCB : pc'[u] = "last" => count' = 0 /\ t_'[u] = round'
    BY <2>3, <2>4, <1>2, <1>3, <1>9, <1>11, <1>12 DEF Monitor
  <2>6. \A u \in TCB : pc'[u] \in {"notify", "leave"} => t_'[u] < round'
    BY <2>3, <2>4, <1>2 DEF Monitor
  <2> QED BY <2>1, <2>2, <2>5, <2>6, <1>3, <1>12 DEF RoundsOK
<1>14. CountTypes'
  BY <1>1, <1>3, <1>9, <1>10, <1>12 DEF CountTypes
<1> QED BY <1>5, <1>7, <1>8, <1>13, <1>14 DEF BInv

(* The last to come begins a new round. *)
LEMMA LastBInv == ASSUME BInv, NEW c \in Core, Last(c) PROVE BInv'
<1> DEFINE t == Me(c)
<1>1. StackTypes /\ MonitorOff /\ CountTypes /\ MonitorOK /\ WaitersOK /\ RoundsOK
  BY DEF BInv
<1>2. /\ handler[c] = NoCall /\ pc[t] = "last"
      /\ pc' = [pc EXCEPT ![t] = "notify"]
      /\ round' = round + 1 /\ count' = initial_count /\ epoch' = epoch + 1
      /\ UNCHANGED <<onCore, activeThreads, tss, interrupts, no_preempt, frame, corpse, handler, queues>>
      /\ UNCHANGED <<held, queue, old_epoch, t_, began, done>>
  BY DEF Last, At, Goto, cpu
<1>3. interrupts' = [interrupts EXCEPT ![c] = FALSE]
  <2>1. interrupts[c] = FALSE
    BY <1>1, <1>2 DEF MonitorOff, Me, Monitor, StackTypes
  <2> QED BY <2>1, <1>1, <1>2 DEF StackTypes
<1>4. Own(c, "notify", FALSE)
  BY <1>2, <1>3 DEF Own, Syncing, Monitor, Me
<1>5. /\ StackTypes' /\ MonitorOff' /\ (\E P : P = Waiters /\ T!JInv(P))'
      /\ Moved(t, "last", "notify")
  BY <1>2, <1>4, OwnInv
<1> HIDE DEF t
<1>6. MonitorOK'
  BY <1>1, <1>2, <1>5, OwnMonitor DEF Monitor
<1>7. t \in TCB /\ pc'[t] = "notify"
  BY <1>5 DEF Moved
<1>8. WaitersOK'
  BY <1>1, <1>2, <1>7 DEF WaitersOK
<1>9. IsFiniteSet(Party) /\ Cardinality(Party) \in Nat /\ Party \subseteq TCB
  BY PartyAssumption, FS_Difference, FS_CardinalityType DEF Party, TCB
<1>10. CountTypes'
  BY <1>1, <1>2, <1>9 DEF CountTypes, initial_count
<1>11. count = 0 /\ t_[t] = round
  BY <1>1, <1>2, <1>7 DEF RoundsOK
<1>12. round \in Nat /\ \A u \in TCB : began[u] \in Nat /\ done[u] \in Nat
  BY <1>1 DEF CountTypes
<1>13. \A u \in Party : began[u] = round + 1 /\ done[u] <= round
  <2>1. {u \in Party : began[u] = round} = {}
    <3>1. IsFiniteSet({u \in Party : began[u] = round})
      BY <1>9, FS_Subset
    <3>2. Cardinality({u \in Party : began[u] = round}) = 0
      BY <1>1, <1>11 DEF RoundsOK
    <3> QED BY <3>1, <3>2, FS_EmptySet
  <2> QED BY <2>1, <1>1, <1>9, <1>12 DEF RoundsOK
<1>14. RoundsOK'
  <2>1. \A u \in TCB : Within(u)' <=> Within(u)
    BY <1>5 DEF Moved, Syncing, Monitor
  <2>2. \A u \in TCB : u # t => pc'[u] \notin Monitor
    BY <1>1, <1>2, <1>5 DEF MonitorOK, Moved, Monitor
  <2>3. \A u \in TCB : IF Within(u)'
                       THEN u \in Party /\ began'[u] = t_'[u] + 1 /\ done'[u] = t_'[u]
                       ELSE began'[u] = done'[u]
    BY <2>1, <1>1, <1>2 DEF RoundsOK
  <2>4. \A u \in Party : done'[u] <= round' /\ round' <= began'[u] /\ began'[u] <= round' + 1
    BY <1>2, <1>9, <1>12, <1>13
  <2>5. {u \in Party : began'[u] = round'} = Party
    BY <1>2, <1>13
  <2>6. \A u \in TCB : pc'[u] # "last"
    BY <2>2, <1>7 DEF Monitor
  <2>7. \A u \in TCB : pc'[u] \in {"notify", "leave"} => t_'[u] < round'
    BY <2>2, <1>2, <1>7, <1>11, <1>12 DEF Monitor
  <2> QED BY <2>3, <2>4, <2>5, <2>6, <2>7, <1>2 DEF RoundsOK, initial_count
<1> QED BY <1>5, <1>6, <1>8, <1>10, <1>14 DEF BInv

(* The loop of notifyAll() removes a thread from the queue. *)
LEMMA NotifyNextBInv ==
    ASSUME BInv, NEW c \in Core, NotifyNext(c, "notify", "leave"), UNCHANGED barrier
    PROVE BInv'
<1>1. PICK P : P = Waiters /\ T!JInv(P)
  BY DEF BInv
<1>2. StackTypes /\ MonitorOff /\ CountTypes /\ MonitorOK /\ WaitersOK /\ RoundsOK
  BY DEF BInv
<1>3. PICK x : x = Head(queue)
  OBVIOUS
<1>4. /\ queue # <<>> /\ queue' = Tail(queue) /\ UNCHANGED <<held, epoch, old_epoch>>
      /\ UNCHANGED <<onCore, interrupts, pc, frame, handler>>
      /\ pc[Me(c)] = "notify"
  BY DEF NotifyNext, At, cpu
<1>5. /\ queue \in Seq(Thread) /\ queue' \in Seq(Thread) /\ Len(queue) > 0
      /\ Len(queue') = Len(queue) - 1 /\ Len(queue) \in Nat /\ x = queue[1]
      /\ \A i \in 1 .. Len(queue') : queue'[i] = queue[i + 1]
  BY <1>2, <1>3, <1>4 DEF CountTypes
<1>6. Waiters' = P \ {x}
  <2>1. ASSUME NEW i \in 1 .. Len(queue')
        PROVE  queue'[i] \in P \ {x}
    <3>1. i + 1 \in 1 .. Len(queue) /\ 1 \in 1 .. Len(queue) /\ i + 1 # 1
      BY <1>5
    <3>2. queue[i + 1] \in P /\ queue[i + 1] # x
      BY <3>1, <1>1, <1>2, <1>5 DEF Waiters, WaitersOK
    <3> QED BY <3>2, <1>5
  <2>2. ASSUME NEW y \in P \ {x}
        PROVE  \E i \in 1 .. Len(queue') : queue'[i] = y
    <3>1. PICK j \in 1 .. Len(queue) : queue[j] = y
      BY <1>1 DEF Waiters
    <3>2. j # 1
      BY <3>1, <1>5
    <3>3. j - 1 \in 1 .. Len(queue') /\ (j - 1) + 1 = j
      BY <3>2, <1>5
    <3>4. queue'[j - 1] = y
      BY <3>1, <3>3, <1>5
    <3> QED BY <3>3, <3>4
  <2> QED BY <2>1, <2>2 DEF Waiters
<1>7. T!JInv(P \ {x})'
  <2>1. x \in P
    BY <1>1, <1>5 DEF Waiters
  <2> QED BY <2>1, <1>1, <1>2, <1>3, SeenNotify
<1>8. Kept
  BY <1>4 DEF Kept, Within, Where
<1>9. StackTypes' /\ MonitorOff'
  BY <1>2, <1>4 DEF StackTypes, MonitorOff
<1>10. MonitorOK' /\ RoundsOK'
  BY <1>2, <1>4, <1>8, KeptMonitor, KeptRounds
<1>11. WaitersOK'
  <2>1. ASSUME NEW i \in 1 .. Len(queue'), NEW j \in 1 .. Len(queue'), queue'[i] = queue'[j]
        PROVE  i = j
    <3>1. i + 1 \in 1 .. Len(queue) /\ j + 1 \in 1 .. Len(queue)
          /\ queue'[i] = queue[i + 1] /\ queue'[j] = queue[j + 1]
      BY <1>5
    <3>2. i + 1 = j + 1
      BY <2>1, <3>1, <1>2 DEF WaitersOK
    <3> QED BY <3>2
  <2>2. Me(c) \in TCB /\ pc'[Me(c)] = "notify"
    <3>1. T!IInv(P)
      BY <1>1 DEF T!JInv
    <3> QED BY <3>1, <1>2, <1>4, RealCores DEF Me
  <2> QED BY <2>1, <2>2 DEF WaitersOK
<1>12. CountTypes'
  BY <1>2, <1>4, <1>5 DEF CountTypes, barrier
<1> QED BY <1>6, <1>7, <1>9, <1>10, <1>11, <1>12 DEF BInv

(* ... until it is empty; and the rest of sync(). *)
LEMMA InsideBInv ==
    ASSUME BInv, NEW c \in Core, NEW m, NEW b, Own(c, m, b),
           pc[Me(c)] \in Syncing, m \in Syncing \ {"last", "notify"},
           m = "leave" => t_[Me(c)] < round,
           UNCHANGED <<epoch, queue>>, UNCHANGED barrier,
           \/ pc[Me(c)] \notin Monitor /\ m \in Monitor /\ ~held /\ held' = TRUE
           \/ pc[Me(c)] \in Monitor /\ m \in Monitor /\ held' = held
           \/ pc[Me(c)] \in Monitor /\ m \notin Monitor /\ held' = FALSE,
           queue = <<>> \/ pc[Me(c)] # "notify",
           old_epoch' \in [TCB -> Nat],
           \A u \in TCB : u # Me(c) => old_epoch'[u] = old_epoch[u]
    PROVE BInv'
<1> DEFINE t == Me(c)
           l == pc[t]
<1>1. CountTypes /\ MonitorOK /\ WaitersOK /\ RoundsOK
  BY DEF BInv
<1>2. /\ StackTypes' /\ MonitorOff' /\ (\E P : P = Waiters /\ T!JInv(P))'
      /\ Moved(t, l, m)
  BY OwnInv
<1>3. \A i \in 1 .. Len(queue) : queue[i] # t /\ queue[i] \in TCB
  <2>1. PICK P : P = Waiters /\ T!JInv(P)
    BY DEF BInv
  <2>2. T!IInv(P) /\ T!ParkedOK(P)
    BY <2>1 DEF T!JInv, T!IInv
  <2>3. ASSUME NEW i \in 1 .. Len(queue) PROVE queue[i] # t /\ queue[i] \in TCB
    <3>1. queue[i] \in TCB /\ T!Away(queue[i])
      BY <2>1, <2>2, <1>1 DEF T!ParkedOK, Waiters, TCB
    <3>2. pc[queue[i]] = "away"
      BY <3>1, <2>2, RealAway DEF BInv
    <3> QED BY <3>1, <3>2 DEF Syncing, Monitor
  <2> QED BY <2>3
<1> HIDE DEF t, l
<1>4. MonitorOK'
  BY <1>1, <1>2, OwnMonitor DEF t, l
<1>5. WaitersOK'
  <2>1. CASE queue = <<>>
    BY <2>1 DEF WaitersOK
  <2>2. CASE l # "notify"
    <3>1. held => pc[t] \in Monitor \ {"notify"}
      BY <2>2 DEF l, t
    <3>2. \A i \in 1 .. Len(queue) : old_epoch'[queue[i]] = old_epoch[queue[i]]
      BY <1>3 DEF t
    <3> QED BY <3>1, <3>2, <1>1, <1>2, OwnWaiters DEF Moved
  <2> QED BY <2>1, <2>2 DEF l, t
<1>6. RoundsOK'
  BY <1>1, <1>2, OwnRounds DEF t, l
<1>7. CountTypes'
  BY <1>1, <1>4 DEF CountTypes, barrier
<1> QED BY <1>2, <1>4, <1>5, <1>6, <1>7 DEF BInv

(* A thread finds its round over. *)
LEMMA PassBInv == ASSUME BInv, NEW c \in Core, Pass(c) PROVE BInv'
<1> DEFINE t == Me(c)
<1>1. /\ handler[c] = NoCall /\ pc[t] = "check" /\ round > t_[t]
      /\ pc' = [pc EXCEPT ![t] = "leave"]
      /\ UNCHANGED <<onCore, activeThreads, tss, interrupts, no_preempt, frame, corpse, handler, queues>>
      /\ UNCHANGED <<held, epoch, queue, old_epoch>> /\ UNCHANGED barrier
  BY DEF Pass, At, Goto, cpu, condition
<1>2. StackTypes /\ MonitorOff /\ CountTypes
  BY DEF BInv
<1>3. Own(c, "leave", FALSE)
  <2>1. interrupts[c] = FALSE
    BY <1>1, <1>2 DEF MonitorOff, Me, Monitor, StackTypes
  <2>2. interrupts' = [interrupts EXCEPT ![c] = FALSE]
    BY <2>1, <1>1, <1>2 DEF StackTypes
  <2> QED BY <2>2, <1>1 DEF Own, Syncing, Monitor, Me
<1>4. t_[t] < round
  <2>1. t \in TCB
    BY <1>1, <1>3, OwnInv DEF Moved
  <2> QED BY <2>1, <1>1, <1>2 DEF CountTypes
<1>5. /\ "check" \in Syncing /\ "check" \in Monitor /\ "leave" \in Monitor
      /\ "leave" \in Syncing \ {"last", "notify"}
  BY DEF Syncing, Monitor
<1> QED BY <1>1, <1>2, <1>3, <1>4, <1>5, InsideBInv DEF CountTypes

(* notifyAll() with nobody left to wake. *)
LEMMA NotifyDoneBInv ==
    ASSUME BInv, NEW c \in Core, NotifyDone(c, "notify", "leave"), UNCHANGED barrier
    PROVE BInv'
<1> DEFINE t == Me(c)
<1>1. /\ handler[c] = NoCall /\ pc[t] = "notify" /\ queue = <<>>
      /\ pc' = [pc EXCEPT ![t] = "leave"]
      /\ UNCHANGED <<onCore, activeThreads, tss, interrupts, no_preempt, frame, corpse, handler, queues>>
      /\ UNCHANGED <<held, epoch, queue, old_epoch>>
  BY DEF NotifyDone, At, Goto, cpu, condition
<1>2. StackTypes /\ MonitorOff /\ CountTypes /\ RoundsOK
  BY DEF BInv
<1>3. Own(c, "leave", FALSE)
  <2>1. interrupts[c] = FALSE
    BY <1>1, <1>2 DEF MonitorOff, Me, Monitor, StackTypes
  <2>2. interrupts' = [interrupts EXCEPT ![c] = FALSE]
    BY <2>1, <1>1, <1>2 DEF StackTypes
  <2> QED BY <2>2, <1>1 DEF Own, Syncing, Monitor, Me
<1>4. t_[t] < round
  <2>1. t \in TCB
    BY <1>1, <1>3, OwnInv DEF Moved
  <2> QED BY <2>1, <1>1, <1>2 DEF RoundsOK
<1>5. /\ "notify" \in Syncing /\ "notify" \in Monitor /\ "leave" \in Monitor
      /\ "leave" \in Syncing \ {"last", "notify"}
  BY DEF Syncing, Monitor
<1> QED BY <1>1, <1>2, <1>3, <1>4, <1>5, InsideBInv DEF CountTypes

(* wait() leaves the monitor and comes back to it. *)
LEMMA ReleaseBInv ==
    ASSUME BInv, NEW c \in Core, WaitRelease(c, "check", "released"), UNCHANGED barrier
    PROVE BInv'
<1> DEFINE t == Me(c)
<1>1. /\ handler[c] = NoCall /\ pc[t] = "check" /\ held' = FALSE
      /\ pc' = [pc EXCEPT ![t] = "released"]
      /\ interrupts' = [interrupts EXCEPT ![c] = TRUE]
      /\ old_epoch' = [old_epoch EXCEPT ![t] = epoch]
      /\ UNCHANGED <<onCore, activeThreads, tss, no_preempt, frame, corpse, handler, queues>>
      /\ UNCHANGED <<epoch, queue>>
  BY DEF WaitRelease, At, Goto, Release
<1>2. old_epoch \in [TCB -> Nat] /\ epoch \in Nat
  BY DEF BInv, CountTypes
<1>3. Own(c, "released", TRUE)
  BY <1>1 DEF Own, Syncing, Monitor, Me
<1>4. old_epoch' \in [TCB -> Nat] /\ \A u \in TCB : u # t => old_epoch'[u] = old_epoch[u]
  BY <1>1, <1>2
<1>5. /\ "check" \in Syncing /\ "check" \in Monitor /\ "released" \notin Monitor
      /\ "released" \in Syncing \ {"last", "notify"}
  BY DEF Syncing, Monitor
<1> QED BY <1>1, <1>3, <1>4, <1>5, InsideBInv

(* A thread that was woken takes the lock again. *)
LEMMA RelockBInv ==
    ASSUME BInv, NEW c \in Core, Acquire(c, "relock"), Goto(Me(c), "check"),
           UNCHANGED <<onCore, activeThreads, tss, no_preempt, frame, corpse, handler, queues,
                       epoch, queue, old_epoch>>,
           UNCHANGED barrier
    PROVE BInv'
<1> DEFINE t == Me(c)
<1>1. /\ handler[c] = NoCall /\ pc[t] = "relock" /\ ~held /\ held' = TRUE
      /\ pc' = [pc EXCEPT ![t] = "check"]
      /\ interrupts' = [interrupts EXCEPT ![c] = FALSE]
  BY DEF Acquire, At, Goto
<1>2. old_epoch \in [TCB -> Nat]
  BY DEF BInv, CountTypes
<1>3. Own(c, "check", FALSE)
  BY <1>1 DEF Own, Syncing, Monitor, Me
<1>4. /\ "relock" \in Syncing /\ "relock" \notin Monitor /\ "check" \in Monitor
      /\ "check" \in Syncing \ {"last", "notify"}
  BY DEF Syncing, Monitor
<1> QED BY <1>1, <1>2, <1>3, <1>4, InsideBInv

(* A thread leaves the monitor, and its round. *)
LEMMA LeaveBInv == ASSUME BInv, NEW c \in Core, Leave(c) PROVE BInv'
<1> DEFINE t == Me(c)
<1>1. StackTypes /\ CountTypes /\ MonitorOK /\ WaitersOK /\ RoundsOK
  BY DEF BInv
<1>2. /\ handler[c] = NoCall /\ pc[t] = "leave" /\ held' = FALSE
      /\ pc' = [pc EXCEPT ![t] = "work"]
      /\ interrupts' = [interrupts EXCEPT ![c] = TRUE]
      /\ done' = [done EXCEPT ![t] = done[t] + 1]
      /\ UNCHANGED <<onCore, activeThreads, tss, no_preempt, frame, corpse, handler, queues>>
      /\ UNCHANGED <<epoch, queue, old_epoch, count, round, t_, began>>
  BY DEF Leave, At, Goto, Release
<1>3. Own(c, "work", TRUE)
  BY <1>2 DEF Own, Syncing, Monitor, Me
<1>4. /\ StackTypes' /\ MonitorOff' /\ (\E P : P = Waiters /\ T!JInv(P))'
      /\ Moved(t, "leave", "work")
  BY <1>2, <1>3, OwnInv
<1> HIDE DEF t
<1>5. MonitorOK'
  BY <1>1, <1>2, <1>4, OwnMonitor DEF Monitor
<1>6. WaitersOK'
  <2>1. t \in TCB /\ pc[t] \in Monitor \ {"notify"}
    BY <1>2, <1>4 DEF Moved, Monitor
  <2> QED BY <2>1, <1>1, <1>2, OwnWaiters
<1>7. t \in TCB /\ Within(t) /\ \A u \in TCB : u = t => ~Within(u)'
  BY <1>4 DEF Moved, Syncing, Monitor
<1>8. t \in Party /\ began[t] = t_[t] + 1 /\ done[t] = t_[t] /\ t_[t] < round
  BY <1>1, <1>2, <1>7 DEF RoundsOK
<1>9. /\ round \in Nat
      /\ \A u \in TCB : began[u] \in Nat /\ done[u] \in Nat /\ t_[u] \in Nat
      /\ \A u \in TCB : done'[u] = IF u = t THEN t_[t] + 1 ELSE done[u]
  BY <1>1, <1>2, <1>8 DEF CountTypes
<1>10. CountTypes'
  <2>1. done[t] + 1 \in Nat /\ done \in [TCB -> Nat]
    BY <1>1, <1>7 DEF CountTypes
  <2>2. done' \in [TCB -> Nat]
    BY <2>1, <1>2
  <2> QED BY <2>2, <1>1, <1>2 DEF CountTypes
<1>11. RoundsOK'
  <2>1. ASSUME NEW u \in TCB
        PROVE  IF Within(u)' THEN u \in Party /\ began'[u] = t_'[u] + 1 /\ done'[u] = t_'[u]
                             ELSE began'[u] = done'[u]
    <3>1. CASE u = t
      <4>1. began'[t] = t_[t] + 1 /\ done'[t] = t_[t] + 1
        BY <1>2, <1>7, <1>8, <1>9
      <4> QED BY <3>1, <4>1, <1>7
    <3>2. CASE u # t
      <4>1. Within(u)' <=> Within(u)
        BY <3>2, <1>4 DEF Moved
      <4> QED BY <3>2, <4>1, <1>1, <1>2, <1>9 DEF RoundsOK
    <3> QED BY <3>1, <3>2
  <2>2. \A u \in Party : done'[u] <= round' /\ round' <= began'[u] /\ began'[u] <= round' + 1
    <3>1. Party \subseteq TCB
      BY DEF Party, TCB
    <3> QED BY <3>1, <1>1, <1>2, <1>8, <1>9 DEF RoundsOK
  <2>3. \A u \in TCB : pc'[u] = IF u = t THEN "work" ELSE pc[u]
    BY <1>4 DEF Moved
  <2>4. \A u \in TCB : pc'[u] = "last" => count' = 0 /\ t_'[u] = round'
    BY <2>3, <1>1, <1>2 DEF RoundsOK
  <2>5. \A u \in TCB : pc'[u] \in {"notify", "leave"} => t_'[u] < round'
    BY <2>3, <1>1, <1>2 DEF RoundsOK
  <2>6. count' = Cardinality({u \in Party : began'[u] = round'})
    BY <1>1, <1>2 DEF RoundsOK
  <2> QED BY <2>1, <2>2, <2>4, <2>5, <2>6 DEF RoundsOK
<1> QED BY <1>4, <1>5, <1>6, <1>10, <1>11 DEF BInv

(* Nothing happens. *)
LEMMA StutterBInv == ASSUME BInv, UNCHANGED barrierVars PROVE BInv'
<1> USE DEF barrierVars, condVars, vars, cpu, queues, condition, barrier
<1>1. PICK P : P = Waiters /\ T!JInv(P)
  BY DEF BInv
<1>2. UNCHANGED T!vars
  BY DEF T!vars, T!cpu, T!queues, seenPc, seenFrame, seenHandler, seenInterrupts, SeenFlag
<1>3. T!JInv(P)'
  BY <1>1, <1>2, SeenAssumptions, T!StutterJInv
<1>4. P = Waiters'
  BY <1>1 DEF Waiters
<1>5. Kept
  BY DEF Kept, Within, Where
<1>6. MonitorOK' /\ WaitersOK' /\ RoundsOK'
  BY <1>5, KeptMonitor, KeptWaiters, KeptRounds DEF BInv
<1>7. StackTypes' /\ MonitorOff' /\ CountTypes'
  BY DEF BInv, StackTypes, MonitorOff, CountTypes
<1> QED BY <1>3, <1>4, <1>6, <1>7 DEF BInv

(* Every step preserves the invariant ... *)
LEMMA BarrierNextInv == BInv /\ [BarrierNext]_barrierVars => BInv'
<1> SUFFICES ASSUME BInv, [BarrierNext]_barrierVars PROVE BInv'
  OBVIOUS
<1>1. CASE UNCHANGED barrierVars
  BY <1>1, StutterBInv
<1>2. ASSUME NEW c \in Core,
             \/ CoreStep(c) \/ Enter(c)
             \/ (Tick(c) \/ CallThread(c)) /\ UNCHANGED <<condition, barrier>>
      PROVE  BInv'
  <2>1. CASE /\ KernelStep(c) \/ Tick(c) \/ CallThread(c)
             /\ UNCHANGED <<condition, barrier>>
    BY <2>1, KernelBInv
  <2>2. CASE WaitHandler(c) /\ UNCHANGED barrier
    BY <2>2, HandlerBInv
  <2>3. CASE Last(c) \/ Pass(c) \/ Leave(c) \/ Enter(c)
    BY <2>3, LastBInv, PassBInv, LeaveBInv, EnterBInv
  <2>4. CASE Notify(c)
    BY <2>4, NotifyNextBInv, NotifyDoneBInv DEF Notify
  <2>5. CASE Wait(c)
    BY <2>5, ReleaseBInv, WaitBlockBInv, RelockBInv DEF Wait
  <2> QED BY <1>2, <2>1, <2>2, <2>3, <2>4, <2>5 DEF CoreStep
<1> QED BY <1>1, <1>2 DEF BarrierNext

(* ... so that it always holds. *)
LEMMA BarrierInductive == BarrierSpec => []BInv
<1>1. BarrierInit => BInv
  BY BarrierInitInv
<1>2. BInv /\ [BarrierNext]_barrierVars => BInv'
  BY BarrierNextInv
<1> QED BY <1>1, <1>2, PTL DEF BarrierSpec

(* What the invariant says of the properties. *)
LEMMA RoundsInStep == BInv => InStep
<1> SUFFICES ASSUME BInv PROVE InStep
  OBVIOUS
<1>1. CountTypes /\ RoundsOK /\ Party \subseteq TCB
  BY DEF BInv, Party, TCB
<1> QED BY <1>1 DEF RoundsOK, CountTypes, InStep

(* Nobody leaves a round of the barrier before everybody has entered it.   *)
THEOREM BarrierInStep == BarrierSpec => []InStep
  BY RoundsInStep, BarrierInductive, PTL

(* A thread is seen in the places where it is. *)
LEMMA SamePlaces ==
    ASSUME StackTypes, NEW P, T!IInv(P), NEW x \in TCB
    PROVE T!Places(x) = Places(x)
<1>1. \A t \in TCB : /\ seenPc[t] \in Chosen <=> pc[t] \in Chosen
                     /\ seenFrame[t].next = frame[t].next
  BY SeenFields DEF SeenLabel, Chosen, Syncing, Monitor
<1>2. \A d \in Core : /\ seenHandler[d].act # "none" <=> handler[d].act # "none"
                      /\ seenHandler[d].prev = handler[d].prev
  BY SeenFields DEF SeenAct
<1>3. T!Chosen = Chosen /\ T!TCB = TCB
  BY SeenSame
<1>4. {u \in TCB : seenPc[u] \in Chosen /\ seenFrame[u].next = x}
        = {u \in TCB : pc[u] \in Chosen /\ frame[u].next = x}
  BY <1>1
<1>5. {d \in Core : seenHandler[d].act # "none" /\ seenHandler[d].prev = x}
        = {d \in Core : handler[d].act # "none" /\ handler[d].prev = x}
  BY <1>2
<1> QED BY <1>3, <1>4, <1>5 DEF T!Places, Places

(* A thread waits in the queue or is in one other place. *)
LEMMA PlacesSignal == BInv => NoMissedSignal
<1> SUFFICES ASSUME BInv PROVE NoMissedSignal
  OBVIOUS
<1>1. PICK P : P = Waiters /\ T!JInv(P)
  BY DEF BInv
<1>2. T!IInv(P) /\ StackTypes /\ MonitorOK /\ WaitersOK /\ queue \in Seq(Thread)
  BY <1>1 DEF BInv, T!JInv, CountTypes
<1>3. \A i \in 1 .. Len(queue) : ~held => old_epoch[queue[i]] = epoch
  BY <1>2 DEF MonitorOK, WaitersOK, Monitor
<1>4. ASSUME NEW x \in TCB
      PROVE  /\ \A p, q \in CondPlaces(x) : p = q
             /\ x \in P => pc[x] = "away" /\ CondPlaces(x) # {}
             /\ x \notin P => CondPlaces(x) = Places(x)
  <2> DEFINE W == {<<"condition", i>> : i \in {j \in 1 .. Len(queue) : queue[j] = x}}
  <2>1. CondPlaces(x) = Places(x) \cup W
    BY DEF CondPlaces
  <2>2. W # {} <=> x \in P
    BY <1>1, <1>2 DEF Waiters
  <2>3. \A p, q \in W : p = q
    BY <1>2 DEF WaitersOK
  <2> HIDE DEF W
  <2>4. T!Places(x) = Places(x)
    BY <1>2, SamePlaces
  <2>5. \A p, q \in Places(x) : p = q
    BY <2>4, <1>2, SeenAssumptions, SeenSame, T!PlacesApart
  <2>6. x \in P => Places(x) = {} /\ seenPc[x] = "away"
    BY <2>4, <1>2, SeenAssumptions, T!ParkedNowhere
  <2>7. seenPc[x] = "away" => pc[x] = "away"
    BY <1>2, SeenAt DEF Syncing, Monitor
  <2> QED BY <2>1, <2>2, <2>3, <2>5, <2>6, <2>7
<1>5. ASSUME NEW x \in Thread PROVE pc[x] = "free" <=> CondPlaces(x) = {}
  <2>1. x \in TCB
    BY DEF TCB
  <2>2. T!Places(x) = Places(x)
    BY <2>1, <1>2, SamePlaces
  <2>3. seenPc[x] = "free" <=> pc[x] = "free"
    BY <2>1, <1>2, SeenAt DEF Syncing, Monitor
  <2>4. CASE x \in P
    BY <2>1, <2>4, <1>4
  <2>5. CASE x \notin P
    BY <2>1, <2>2, <2>3, <2>5, <1>2, <1>4, SeenAssumptions, T!FreeNowhere, T!NowhereFree
  <2> QED BY <2>4, <2>5
<1> QED BY <1>3, <1>4, <1>5 DEF NoMissedSignal

(* No signal of the condition is missed: a thread waits in the queue only  *)
(* for a notify() that is yet to come, it is nowhere else, and it is not   *)
(* lost on its way in or out.                                              *)
THEOREM BarrierMissesNoSignal == BarrierSpec => []NoMissedSignal
  BY PlacesSignal, BarrierInductive, PTL
=============================================================================
