------------------------------ MODULE Startup -------------------------------
(***************************************************************************)
(* From reset to the first process: kernel/mbr.S, init.cc and smp.cc.      *)
(*                                                                         *)
(* Core 0 sets up the kernel and wakes the other cores, one at a time; all *)
(* cores set up their own registers, and the last one makes the init       *)
(* process.  Cores run at any speed, so the second half of one core's      *)
(* start overlaps with the first half of another's.                        *)
(***************************************************************************)
EXTENDS Config

CONSTANTS Core,      \* 0 .. MAX_PROCS - 1, the local APIC ids there can be
          Firmware   \* what the machine may be like: see Config

CONSTANT Present(_)  \* external: the cores a machine really has

ASSUME CoreAssumption == IsFiniteSet(Core) /\ Core \subseteq Nat /\ 0 \in Core

VARIABLES
    fw,                \* the firmware of this machine
    kConfig,           \* <<>> or <<ConfigInit(fw)>>
    pc,                \* [Core -> label]
    stack,             \* [Core -> stack in use]
    tools,             \* [Core -> what it has set up of its own registers]
    smpInitDone, running, howManyAreHere,
    apitCounter,       \* how far a jiffy of the local APIC's timer counts
    waking,            \* `id' of the loop that wakes the other cores
    initMade, initBegan \* how often the init thread was made and picked up

shared == <<fw, kConfig, smpInitDone, running, howManyAreHere, apitCounter, waking, initMade, initBegan>>
startVars == <<shared, pc, stack, tools>>

HZ == 1000

NoStack   == <<"none", 0>>
TempStack == <<"temp", 0>>      \* tempStack of mbr.S, one for all cores
Own(k)    == <<"stacks", k>>    \* stacks.forCPU(k) of init.cc

(* What a core sets up for itself. *)
OwnTools == {"lapic", "paging", "timer", "tss", "interrupts"}

StartInit ==
    /\ fw \in Firmware
    /\ kConfig = <<>>
    /\ pc = [c \in Core |-> IF c = 0 THEN "reset" ELSE "off"]
    /\ stack = [c \in Core |-> NoStack]
    /\ tools = [c \in Core |-> {}]
    /\ smpInitDone = FALSE
    /\ running = 0
    /\ howManyAreHere = 0
    /\ apitCounter = 0
    /\ waking = 1
    /\ initMade = 0
    /\ initBegan = 0

CoreAt(c, l) == pc[c] = l
CoreGoes(c, l) == pc' = [pc EXCEPT ![c] = l]

(* Core c gets tool t, on its way from label l to label m. *)
SetUp(c, t, l, m) ==
    /\ CoreAt(c, l)
    /\ tools' = [tools EXCEPT ![c] = @ \cup {t}]
    /\ CoreGoes(c, m)
    /\ UNCHANGED <<shared, stack>>

-----------------------------------------------------------------------------
(* mbr.S, where core 0 comes from the BIOS and the others from the second  *)
(* IPI: a stack is picked while the core is on the one all cores share.    *)

Reset(c) ==
    /\ CoreAt(c, "reset")
    /\ stack' = [stack EXCEPT ![c] = TempStack]
    /\ CoreGoes(c, "pick")
    /\ UNCHANGED <<shared, tools>>

(* MUTATION of PickStack: smpInitDone is not asked. *)
PickStack_Zero(c) ==
    /\ CoreAt(c, "pick")
    /\ stack' = [stack EXCEPT ![c] = Own(0)]
    /\ CoreGoes(c, "kernelInit")
    /\ UNCHANGED <<shared, tools>>

PickStack(c) ==
    /\ CoreAt(c, "pick")
    /\ stack' = [stack EXCEPT ![c] = Own(IF smpInitDone THEN c ELSE 0)]
    /\ CoreGoes(c, "kernelInit")
    /\ UNCHANGED <<shared, tools>>

KernelInit(c) ==
    /\ CoreAt(c, "kernelInit")
    /\ CoreGoes(c, IF smpInitDone THEN "join" ELSE "discover")
    /\ UNCHANGED <<shared, stack, tools>>

-----------------------------------------------------------------------------
(* The first core *)

Discover(c) ==
    /\ CoreAt(c, "discover")
    /\ MemInfoMakesSense(fw.memInfo)
    /\ kConfig' = <<ConfigInit(fw)>>
    /\ CoreGoes(c, "tools")
    /\ UNCHANGED <<fw, stack, tools, smpInitDone, running, howManyAreHere, apitCounter, waking, initMade, initBegan>>

(* From the heap to threadsInit(), and SMP::init(true). *)
MakeTools(c) ==
    /\ CoreAt(c, "tools")
    /\ tools' = [tools EXCEPT ![c] = @ \cup {"lapic"}]
    /\ smpInitDone' = TRUE
    /\ CoreGoes(c, "calibrate")
    /\ UNCHANGED <<fw, kConfig, stack, running, howManyAreHere, apitCounter, waking, initMade, initBegan>>

(* Pit::calibrate(hz): how far the APIC's timer counts while the PIT's      *)
(* output changes 40 times, which should be a second.                      *)
Calibrate(c) ==
    /\ CoreAt(c, "calibrate")
    /\ apitCounter' = (40 * fw.ticks - fw.phase) \div HZ
    /\ CoreGoes(c, "first")
    /\ UNCHANGED <<fw, kConfig, stack, tools, smpInitDone, running, howManyAreHere, waking, initMade, initBegan>>

CountFirst(c) ==
    /\ CoreAt(c, "first")
    /\ running' = running + 1
    /\ CoreGoes(c, "wake")
    /\ UNCHANGED <<fw, kConfig, stack, tools, smpInitDone, howManyAreHere, apitCounter, waking, initMade, initBegan>>

(* SMP::ipi(id, INIT), SMP::ipi(id, startup): a core that is there and off *)
(* starts at resetEIP.                                                     *)
Wake(c) ==
    /\ CoreAt(c, "wake")
    /\ waking < kConfig[1].totalProcs
    /\ pc' = [d \in Core |-> IF d = c THEN "waking"
                             ELSE IF d = waking /\ d \in Present(fw) /\ CoreAt(d, "off")
                                  THEN "reset" ELSE pc[d]]
    /\ UNCHANGED <<shared, stack, tools>>

(* MUTATION of Woken: the loop waits while running < id. *)
Woken_OffByOne(c) ==
    /\ CoreAt(c, "waking")
    /\ ~(running < waking)
    /\ waking' = waking + 1
    /\ CoreGoes(c, "wake")
    /\ UNCHANGED <<fw, kConfig, stack, tools, smpInitDone, running, howManyAreHere, apitCounter, initMade, initBegan>>

Woken(c) ==
    /\ CoreAt(c, "waking")
    /\ ~(running <= waking)
    /\ waking' = waking + 1
    /\ CoreGoes(c, "wake")
    /\ UNCHANGED <<fw, kConfig, stack, tools, smpInitDone, running, howManyAreHere, apitCounter, initMade, initBegan>>

AllWoken(c) ==
    /\ CoreAt(c, "wake")
    /\ ~(waking < kConfig[1].totalProcs)
    /\ CoreGoes(c, "paging")
    /\ UNCHANGED <<shared, stack, tools>>

(* Any other core.  The next one is woken while this one goes on. *)

Join(c) ==
    /\ CoreAt(c, "join")
    /\ running' = running + 1
    /\ CoreGoes(c, "lapic")
    /\ UNCHANGED <<fw, kConfig, stack, tools, smpInitDone, howManyAreHere, apitCounter, waking, initMade, initBegan>>

EnableLapic(c) == SetUp(c, "lapic", "lapic", "paging")

-----------------------------------------------------------------------------
(* All cores *)

PerCoreInit(c)      == SetUp(c, "paging", "paging", "timer")
StartTimer(c)       == apitCounter # 0 /\ SetUp(c, "timer", "timer", "tss")
LoadTss(c)          == SetUp(c, "tss", "tss", "sti")
EnableInterrupts(c) == SetUp(c, "interrupts", "sti", "arrive")

(* MUTATION of Arrive: it counts from the value before add_fetch(). *)
Arrive_Early(c) ==
    /\ CoreAt(c, "arrive")
    /\ howManyAreHere' = howManyAreHere + 1
    /\ CoreGoes(c, IF howManyAreHere' >= kConfig[1].totalProcs - 1 THEN "make" ELSE "stop")
    /\ UNCHANGED <<fw, kConfig, stack, tools, smpInitDone, running, apitCounter, waking, initMade, initBegan>>

Arrive(c) ==
    /\ CoreAt(c, "arrive")
    /\ howManyAreHere' = howManyAreHere + 1
    /\ CoreGoes(c, IF howManyAreHere' = kConfig[1].totalProcs THEN "make" ELSE "stop")
    /\ UNCHANGED <<fw, kConfig, stack, tools, smpInitDone, running, apitCounter, waking, initMade, initBegan>>

(* thread(initProc, ...) puts it in the ready queue. *)
MakeInit(c) ==
    /\ CoreAt(c, "make")
    /\ initMade' = initMade + 1
    /\ CoreGoes(c, "stop")
    /\ UNCHANGED <<fw, kConfig, stack, tools, smpInitDone, running, howManyAreHere, apitCounter, waking, initBegan>>

(* A core in stop() takes it from there: kernelMain() calls SYS::exec().   *)
BeginInit(c) ==
    /\ CoreAt(c, "stop")
    /\ initBegan < initMade
    /\ initBegan' = initBegan + 1
    /\ UNCHANGED <<fw, kConfig, pc, stack, tools, smpInitDone, running, howManyAreHere, apitCounter, waking, initMade>>

BootStep(c) ==
    \/ Reset(c) \/ PickStack(c) \/ KernelInit(c)
    \/ Discover(c) \/ MakeTools(c) \/ Calibrate(c) \/ CountFirst(c)
    \/ Wake(c) \/ Woken(c) \/ AllWoken(c)
    \/ Join(c) \/ EnableLapic(c)
    \/ PerCoreInit(c) \/ StartTimer(c) \/ LoadTss(c) \/ EnableInterrupts(c)
    \/ Arrive(c) \/ MakeInit(c)

StartNext == \E c \in Core : BootStep(c) \/ BeginInit(c)

StartSpec == StartInit /\ [][StartNext]_startVars

-----------------------------------------------------------------------------
(* Properties *)

(* No two cores are ever on one stack, though mbr.S has a single one for   *)
(* all to begin on and stacks[0] is picked by whoever comes before         *)
(* smpInitDone: the next core is only woken when the one before has left   *)
(* tempStack.                                                              *)
StacksApart ==
    \A c, d \in Core : c # d /\ stack[c] = stack[d] => stack[c] = NoStack

(* There is one init process, and it starts only when every processor that *)
(* the machine has, and not just configInit() believes it has, has set up  *)
(* its own registers, so that any of them may run it; and when the memory  *)
(* and the I/O APIC are those of the machine, whatever way the firmware    *)
(* has of telling: entries of the table are skipped, or read behind it;    *)
(* and jiffies are at most a fortieth and a tick shorter than asked for.   *)
MachineReady ==
    initMade > 0 =>
        /\ initMade = 1
        /\ \A c \in Present(fw) : tools[c] = OwnTools
        /\ kConfig[1].memSize = MB + fw.lowKB * KB + fw.blocks * 64 * KB
        /\ kConfig[1].ioAPIC = fw.ioAddress
        /\ HZ * apitCounter \in (39 * fw.ticks - HZ) .. (40 * fw.ticks)
=============================================================================
