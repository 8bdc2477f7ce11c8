--------------------------- MODULE StartupProofs ---------------------------
(***************************************************************************)
(* What TLAPS proves of System, for any number of cores and processes, any *)
(* machine and any lines typed: no two cores share a stack, init is made   *)
(* once, when all is ready, and from then on one process at a time runs.   *)
(*                                                                         *)
(* The invariant orders the cores by core 0's loop: those below `waking'   *)
(* are past tempStack, those above it are off, and the one in between is   *)
(* not past it while core 0 waits.  That core 0 waits long enough is a     *)
(* matter of counting: `running' counts the cores past Join, which are     *)
(* among the 0 .. waking.                                                  *)
(***************************************************************************)
EXTENDS System, FiniteSetTheorems, TLAPS

Rising     == {"reset", "pick", "kernelInit"}             \* any core
Alone      == {"discover", "tools", "calibrate", "first"} \* core 0
Loop       == {"wake", "waking"}
Arming     == {"paging", "timer", "tss", "sti", "arrive"}
There      == {"make", "stop"}
Running    == Loop \cup {"lapic"} \cup Arming \cup There
Label      == {"off", "join"} \cup Rising \cup Alone \cup Running

NotYetOn   == {"off", "reset"}
BeforeSmp  == Rising \cup {"discover", "tools"}
BeforeLoop == Rising \cup Alone
BeforeJoin == Rising \cup {"join"}

StartTypeOK ==
    /\ pc \in [Core -> Label]
    /\ DOMAIN stack = Core
    /\ tools \in [Core -> SUBSET OwnTools]
    /\ smpInitDone \in BOOLEAN
    /\ running \in Nat
    /\ howManyAreHere \in Nat
    /\ waking \in Nat \ {0}
    /\ initMade \in Nat

(* Core 0 goes its own way, alone until it wakes the others. *)
FirstOK ==
    /\ pc[0] \notin {"off", "join", "lapic"}
    /\ smpInitDone <=> pc[0] \notin BeforeSmp
    /\ \A c \in Core \ {0} : pc[c] \notin Alone \cup Loop
    /\ pc[0] \in BeforeLoop => \A c \in Core \ {0} : pc[c] = "off"

(* The others come one by one. *)
WakingOK ==
    /\ \A c \in Core \ {0} : pc[c] # "off" => c <= waking
    /\ \A c \in Core \ {0} : pc[c] # "off" /\ pc[0] # "waking" => c < waking
    /\ \A c \in Core \ {0} : pc[c] \in BeforeJoin => pc[0] = "waking" /\ c = waking
    /\ \A c \in Core \ {0} : pc[c] # "off" => c \in Present(fw)

StacksOK ==
    \A c \in Core : stack[c] = IF pc[c] \in NotYetOn THEN NoStack
                               ELSE IF pc[c] = "pick" THEN TempStack ELSE Own(c)

CountOK ==
    /\ running = Cardinality({c \in Core : pc[c] \in Running})
    /\ howManyAreHere = Cardinality({c \in Core : pc[c] \in There})

Inv == StartTypeOK /\ FirstOK /\ WakingOK /\ StacksOK /\ CountOK

USE DEF Rising, Alone, Loop, Arming, There, Running, Label, NotYetOn, BeforeSmp, BeforeLoop, BeforeJoin

-----------------------------------------------------------------------------
(* Counting *)

(* A set of cores that gains one counts one more. *)
LEMMA OneMore ==
    ASSUME NEW P, NEW Q, P \subseteq Core, NEW c \in Core, c \notin P, Q = P \cup {c}
    PROVE  /\ IsFiniteSet(Q) /\ Cardinality(P) \in Nat
           /\ Cardinality(Q) = Cardinality(P) + 1
BY CoreAssumption, FS_Subset, FS_AddElement, FS_CardinalityType

(* A core that is counted, and whose lower ones are at most all counted,   *)
(* makes the count no more than its number.                                *)
LEMMA AtMost ==
    ASSUME NEW P, NEW k \in Nat, P \subseteq 0 .. k
    PROVE  Cardinality(P) <= k + 1
<1>1. IsFiniteSet(0 .. k) /\ Cardinality(0 .. k) = k + 1
  BY FS_Interval
<1> QED BY <1>1, FS_Subset, FS_CardinalityType

(* Cores move without being counted or uncounted. *)
LEMMA CountsStay ==
    ASSUME CountOK, UNCHANGED <<running, howManyAreHere>>,
           \A c \in Core : pc[c] \in Running <=> pc'[c] \in Running,
           \A c \in Core : pc[c] \in There <=> pc'[c] \in There
    PROVE  CountOK'
<1>1. {c \in Core : pc[c] \in Running} = {c \in Core : pc'[c] \in Running}
  OBVIOUS
<1>2. {c \in Core : pc[c] \in There} = {c \in Core : pc'[c] \in There}
  OBVIOUS
<1> QED BY <1>1, <1>2 DEF CountOK

(* A core that goes from one label to the next. *)
LEMMA Goes ==
    ASSUME StartTypeOK, NEW c \in Core, NEW l \in Label, CoreGoes(c, l)
    PROVE  pc'[c] = l /\ pc' \in [Core -> Label] /\ \A d \in Core \ {c} : pc'[d] = pc[d]
BY DEF StartTypeOK, CoreGoes

-----------------------------------------------------------------------------
LEMMA InvInit == StartInit => Inv
<1> SUFFICES ASSUME StartInit PROVE Inv
  OBVIOUS
<1> USE CoreAssumption DEF StartInit
<1>1. StartTypeOK /\ FirstOK /\ WakingOK /\ StacksOK
  BY DEF StartTypeOK, FirstOK, WakingOK, StacksOK
<1>2. /\ {c \in Core : pc[c] \in Running} = {}
      /\ {c \in Core : pc[c] \in There} = {}
  OBVIOUS
<1>3. CountOK
  BY <1>2, FS_EmptySet DEF CountOK
<1> QED BY <1>1, <1>3 DEF Inv

(* A core sets up something of its own, inside a phase. *)
LEMMA SetUpStep ==
    ASSUME Inv, NEW c \in Core, NEW t \in OwnTools,
           NEW l \in Arming \cup {"lapic"}, NEW m \in Arming, SetUp(c, t, l, m)
    PROVE  Inv'
<1> USE CoreAssumption DEF Inv, SetUp, CoreAt, shared
<1>1. /\ pc'[c] = m /\ pc' \in [Core -> Label] /\ \A d \in Core \ {c} : pc'[d] = pc[d]
      /\ c # 0 \/ l # "lapic"
  BY Goes DEF FirstOK
<1>2. StartTypeOK'
  BY <1>1 DEF StartTypeOK
<1>3. FirstOK'
  BY <1>1 DEF FirstOK
<1>4. WakingOK'
  BY <1>1 DEF WakingOK
<1>5. StacksOK'
  BY <1>1 DEF StacksOK
<1>6. CountOK'
  BY <1>1, CountsStay
<1> QED BY <1>2, <1>3, <1>4, <1>5, <1>6

LEMMA ResetStep == ASSUME Inv, NEW c \in Core, Reset(c) PROVE Inv'
<1> USE CoreAssumption DEF Inv, Reset, CoreAt, shared
<1>1. pc'[c] = "pick" /\ pc' \in [Core -> Label] /\ \A d \in Core \ {c} : pc'[d] = pc[d]
  BY Goes
<1>2. StartTypeOK'
  BY <1>1 DEF StartTypeOK
<1>3. FirstOK'
  BY <1>1 DEF FirstOK
<1>4. WakingOK'
  BY <1>1 DEF WakingOK
<1>5. StacksOK'
  BY <1>1 DEF StacksOK, StartTypeOK
<1>6. CountOK'
  BY <1>1, CountsStay
<1> QED BY <1>2, <1>3, <1>4, <1>5, <1>6

LEMMA PickStackStep == ASSUME Inv, NEW c \in Core, PickStack(c) PROVE Inv'
<1> USE CoreAssumption DEF Inv, PickStack, CoreAt, shared
<1>1. pc'[c] = "kernelInit" /\ pc' \in [Core -> Label] /\ \A d \in Core \ {c} : pc'[d] = pc[d]
  BY Goes
<1>2. StartTypeOK'
  BY <1>1 DEF StartTypeOK
<1>3. FirstOK'
  BY <1>1 DEF FirstOK
<1>4. WakingOK'
  BY <1>1 DEF WakingOK
<1>5. StacksOK'
  BY <1>1 DEF StacksOK, StartTypeOK, FirstOK
<1>6. CountOK'
  BY <1>1, CountsStay
<1> QED BY <1>2, <1>3, <1>4, <1>5, <1>6

LEMMA KernelInitStep == ASSUME Inv, NEW c \in Core, KernelInit(c) PROVE Inv'
<1> USE CoreAssumption DEF Inv, KernelInit, CoreAt, shared
<1>1. smpInitDone <=> c # 0
  BY DEF FirstOK
<1> DEFINE m == IF c # 0 THEN "join" ELSE "discover"
<1>2. CoreGoes(c, m) /\ m \in Label
  BY <1>1
<1>3. pc'[c] = m /\ pc' \in [Core -> Label] /\ \A d \in Core \ {c} : pc'[d] = pc[d]
  BY <1>2, Goes
<1>4. StartTypeOK'
  BY <1>3 DEF StartTypeOK
<1>5. FirstOK'
  BY <1>3 DEF FirstOK
<1>6. WakingOK'
  BY <1>3 DEF WakingOK, FirstOK
<1>7. StacksOK'
  BY <1>3 DEF StacksOK
<1>8. CountOK'
  BY <1>3, CountsStay
<1> QED BY <1>4, <1>5, <1>6, <1>7, <1>8

LEMMA DiscoverStep == ASSUME Inv, NEW c \in Core, Discover(c) PROVE Inv'
<1> USE CoreAssumption DEF Inv, Discover, CoreAt, shared
<1>1. pc'[c] = "tools" /\ pc' \in [Core -> Label] /\ \A d \in Core \ {c} : pc'[d] = pc[d]
  BY Goes
<1>2. StartTypeOK'
  BY <1>1 DEF StartTypeOK
<1>3. FirstOK'
  BY <1>1 DEF FirstOK
<1>4. WakingOK'
  BY <1>1 DEF WakingOK, FirstOK
<1>5. StacksOK'
  BY <1>1 DEF StacksOK
<1>6. CountOK'
  BY <1>1, CountsStay
<1> QED BY <1>2, <1>3, <1>4, <1>5, <1>6

LEMMA MakeToolsStep == ASSUME Inv, NEW c \in Core, MakeTools(c) PROVE Inv'
<1> USE CoreAssumption DEF Inv, MakeTools, CoreAt, shared
<1>1. pc'[c] = "calibrate" /\ pc' \in [Core -> Label] /\ \A d \in Core \ {c} : pc'[d] = pc[d]
  BY Goes
<1>2. StartTypeOK'
  BY <1>1 DEF StartTypeOK, OwnTools
<1>3. FirstOK'
  BY <1>1 DEF FirstOK
<1>4. WakingOK'
  BY <1>1 DEF WakingOK, FirstOK
<1>5. StacksOK'
  BY <1>1 DEF StacksOK
<1>6. CountOK'
  BY <1>1, CountsStay
<1> QED BY <1>2, <1>3, <1>4, <1>5, <1>6

LEMMA CalibrateStep == ASSUME Inv, NEW c \in Core, Calibrate(c) PROVE Inv'
<1> USE CoreAssumption DEF Inv, Calibrate, CoreAt, shared
<1>1. pc'[c] = "first" /\ pc' \in [Core -> Label] /\ \A d \in Core \ {c} : pc'[d] = pc[d]
  BY Goes
<1>2. StartTypeOK'
  BY <1>1 DEF StartTypeOK
<1>3. FirstOK'
  BY <1>1 DEF FirstOK
<1>4. WakingOK'
  BY <1>1 DEF WakingOK, FirstOK
<1>5. StacksOK'
  BY <1>1 DEF StacksOK
<1>6. CountOK'
  BY <1>1, CountsStay
<1> QED BY <1>2, <1>3, <1>4, <1>5, <1>6

LEMMA AllWokenStep == ASSUME Inv, NEW c \in Core, AllWoken(c) PROVE Inv'
<1> USE CoreAssumption DEF Inv, AllWoken, CoreAt, shared
<1>1. pc'[c] = "paging" /\ pc' \in [Core -> Label] /\ \A d \in Core \ {c} : pc'[d] = pc[d]
  BY Goes
<1>2. StartTypeOK'
  BY <1>1 DEF StartTypeOK
<1>3. FirstOK'
  BY <1>1 DEF FirstOK
<1>4. WakingOK'
  BY <1>1 DEF WakingOK, FirstOK
<1>5. StacksOK'
  BY <1>1 DEF StacksOK
<1>6. CountOK'
  BY <1>1, CountsStay
<1> QED BY <1>2, <1>3, <1>4, <1>5, <1>6

LEMMA MakeInitStep == ASSUME Inv, NEW c \in Core, MakeInit(c) PROVE Inv'
<1> USE CoreAssumption DEF Inv, MakeInit, CoreAt, shared
<1>1. pc'[c] = "stop" /\ pc' \in [Core -> Label] /\ \A d \in Core \ {c} : pc'[d] = pc[d]
  BY Goes
<1>2. StartTypeOK'
  BY <1>1 DEF StartTypeOK
<1>3. FirstOK'
  BY <1>1 DEF FirstOK
<1>4. WakingOK'
  BY <1>1 DEF WakingOK, FirstOK
<1>5. StacksOK'
  BY <1>1 DEF StacksOK
<1>6. CountOK'
  BY <1>1, CountsStay
<1> QED BY <1>2, <1>3, <1>4, <1>5, <1>6

LEMMA CountFirstStep == ASSUME Inv, NEW c \in Core, CountFirst(c) PROVE Inv'
<1> USE CoreAssumption DEF Inv, CountFirst, CoreAt, shared
<1>1. pc'[c] = "wake" /\ pc' \in [Core -> Label] /\ \A d \in Core \ {c} : pc'[d] = pc[d]
  BY Goes
<1>2. StartTypeOK'
  BY <1>1 DEF StartTypeOK
<1>3. FirstOK'
  BY <1>1 DEF FirstOK
<1>4. WakingOK'
  BY <1>1 DEF WakingOK, FirstOK
<1>5. StacksOK'
  BY <1>1 DEF StacksOK
<1>6. CountOK'
  <2>1. {d \in Core : pc'[d] \in Running} = {d \in Core : pc[d] \in Running} \cup {c}
    BY <1>1
  <2>2. {d \in Core : pc'[d] \in There} = {d \in Core : pc[d] \in There}
    BY <1>1
  <2>3. Cardinality({d \in Core : pc'[d] \in Running}) = Cardinality({d \in Core : pc[d] \in Running}) + 1
    BY <2>1, OneMore
  <2> QED BY <2>2, <2>3 DEF CountOK
<1> QED BY <1>2, <1>3, <1>4, <1>5, <1>6

LEMMA JoinStep == ASSUME Inv, NEW c \in Core, Join(c) PROVE Inv'
<1> USE CoreAssumption DEF Inv, Join, CoreAt, shared
<1>1. pc'[c] = "lapic" /\ pc' \in [Core -> Label] /\ \A d \in Core \ {c} : pc'[d] = pc[d]
  BY Goes
<1>2. StartTypeOK'
  BY <1>1 DEF StartTypeOK
<1>3. FirstOK'
  BY <1>1 DEF FirstOK
<1>4. WakingOK'
  BY <1>1 DEF WakingOK, FirstOK
<1>5. StacksOK'
  BY <1>1 DEF StacksOK
<1>6. CountOK'
  <2>1. {d \in Core : pc'[d] \in Running} = {d \in Core : pc[d] \in Running} \cup {c}
    BY <1>1
  <2>2. {d \in Core : pc'[d] \in There} = {d \in Core : pc[d] \in There}
    BY <1>1
  <2>3. Cardinality({d \in Core : pc'[d] \in Running}) = Cardinality({d \in Core : pc[d] \in Running}) + 1
    BY <2>1, OneMore
  <2> QED BY <2>2, <2>3 DEF CountOK
<1> QED BY <1>2, <1>3, <1>4, <1>5, <1>6

LEMMA ArriveStep == ASSUME Inv, NEW c \in Core, Arrive(c) PROVE Inv'
<1> USE CoreAssumption DEF Inv, Arrive, CoreAt, shared
<1>1. pc'[c] \in There /\ pc' \in [Core -> Label] /\ \A d \in Core \ {c} : pc'[d] = pc[d]
  BY Goes
<1>2. StartTypeOK'
  BY <1>1 DEF StartTypeOK
<1>3. FirstOK'
  BY <1>1 DEF FirstOK
<1>4. WakingOK'
  BY <1>1 DEF WakingOK, FirstOK
<1>5. StacksOK'
  BY <1>1 DEF StacksOK
<1>6. CountOK'
  <2>1. {d \in Core : pc'[d] \in There} = {d \in Core : pc[d] \in There} \cup {c}
    BY <1>1
  <2>2. {d \in Core : pc'[d] \in Running} = {d \in Core : pc[d] \in Running}
    BY <1>1
  <2>3. Cardinality({d \in Core : pc'[d] \in There}) = Cardinality({d \in Core : pc[d] \in There}) + 1
    BY <2>1, OneMore
  <2> QED BY <2>2, <2>3 DEF CountOK
<1> QED BY <1>2, <1>3, <1>4, <1>5, <1>6

(* The core that is waked was off, as all above it are. *)
LEMMA WakeStep == ASSUME Inv, NEW c \in Core, Wake(c) PROVE Inv'
<1> USE CoreAssumption DEF Inv, Wake, CoreAt, shared
<1>1. c = 0
  BY DEF FirstOK
<1>2. \A d \in Core : pc'[d] = IF d = 0 THEN "waking"
                               ELSE IF d = waking /\ d \in Present(fw) /\ pc[d] = "off"
                                    THEN "reset" ELSE pc[d]
  BY <1>1
<1>3. StartTypeOK'
  BY <1>2 DEF StartTypeOK
<1>4. FirstOK'
  BY <1>2 DEF FirstOK
<1>5. WakingOK'
  BY <1>2, <1>1 DEF WakingOK, StartTypeOK
<1>6. StacksOK'
  BY <1>2, <1>1 DEF StacksOK
<1>7. CountOK'
  BY <1>2, <1>1, CountsStay
<1> QED BY <1>3, <1>4, <1>5, <1>6, <1>7

(* When more than `waking' cores run, the last one waked is one of them. *)
LEMMA WokenStep == ASSUME Inv, NEW c \in Core, Woken(c) PROVE Inv'
<1> USE CoreAssumption DEF Inv, Woken, CoreAt, shared
<1>1. pc'[c] = "wake" /\ pc' \in [Core -> Label] /\ \A d \in Core \ {c} : pc'[d] = pc[d]
  BY Goes
<1>2. c = 0
  BY DEF FirstOK
<1>3. waking \in Core => pc[waking] \notin BeforeJoin
  <2> SUFFICES ASSUME waking \in Core, pc[waking] \in BeforeJoin PROVE FALSE
    OBVIOUS
  <2> DEFINE P == {d \in Core : pc[d] \in Running}
  <2>1. P \subseteq 0 .. waking - 1
    <3> SUFFICES ASSUME NEW d \in Core, pc[d] \in Running PROVE d \in 0 .. waking - 1
      OBVIOUS
    <3>1. d # 0 => d <= waking /\ d # waking
      BY DEF WakingOK
    <3> QED BY <3>1 DEF StartTypeOK
  <2>2. waking - 1 \in Nat
    BY DEF StartTypeOK
  <2>3. Cardinality(P) <= waking
    BY <2>1, <2>2, AtMost DEF StartTypeOK
  <2> QED BY <2>3 DEF CountOK, StartTypeOK
<1>4. StartTypeOK'
  BY <1>1 DEF StartTypeOK
<1>5. FirstOK'
  BY <1>1 DEF FirstOK
<1>6. WakingOK'
  BY <1>1, <1>2, <1>3 DEF WakingOK, FirstOK, StartTypeOK
<1>7. StacksOK'
  BY <1>1 DEF StacksOK
<1>8. CountOK'
  BY <1>1, CountsStay
<1> QED BY <1>4, <1>5, <1>6, <1>7, <1>8

LEMMA InvNext == Inv /\ [StartNext]_startVars => Inv'
<1> SUFFICES ASSUME Inv, [StartNext]_startVars PROVE Inv'
  OBVIOUS
<1>1. CASE UNCHANGED startVars
  BY <1>1 DEF Inv, startVars, shared, StartTypeOK, FirstOK, WakingOK, StacksOK, CountOK
<1>2. ASSUME NEW c \in Core, BeginInit(c) PROVE Inv'
  BY <1>2 DEF BeginInit, Inv, StartTypeOK, FirstOK, WakingOK, StacksOK, CountOK
<1>3. ASSUME NEW c \in Core, BootStep(c) PROVE Inv'
  <2>1. ASSUME NEW t \in OwnTools, NEW l \in Arming \cup {"lapic"}, NEW m \in Arming, SetUp(c, t, l, m)
        PROVE  Inv'
    BY <2>1, SetUpStep
  <2>2. CASE EnableLapic(c) \/ PerCoreInit(c) \/ StartTimer(c) \/ LoadTss(c) \/ EnableInterrupts(c)
    BY <2>1, <2>2 DEF EnableLapic, PerCoreInit, StartTimer, LoadTss, EnableInterrupts, OwnTools
  <2> QED BY <1>3, <2>2, ResetStep, PickStackStep, KernelInitStep, DiscoverStep, MakeToolsStep,
             CalibrateStep, CountFirstStep, WakeStep, WokenStep, AllWokenStep, JoinStep,
             ArriveStep, MakeInitStep
          DEF BootStep
<1> QED BY <1>1, <1>2, <1>3 DEF StartNext

(* The cores' steps are those of Startup, whatever the processes do. *)
LEMMA SpecOfStartup == Spec => StartInit /\ [][StartNext]_startVars
<1>1. Init => StartInit
  BY DEF Init
<1>2. [Next]_vars => [StartNext]_startVars
  BY DEF Next, vars, startVars, StartNext, Boots, Begins, Begin, Runs, Typed
<1> QED BY <1>1, <1>2, PTL DEF Spec

LEMMA Invariant == Spec => []Inv
BY InvInit, InvNext, SpecOfStartup, PTL

(* Cores that rise share tempStack one after the other, and stacks[0] is   *)
(* core 0's alone (mbr.S:159, init.cc:31, init.cc:139).                    *)
THEOREM NoSharedStack == Spec => []StacksApart
<1>1. ASSUME Inv, NEW c \in Core, NEW d \in Core, c # d, stack[c] = stack[d], stack[c] # NoStack
      PROVE  FALSE
  <2> USE <1>1 DEF Inv
  <2>1. NoStack # TempStack /\ (\A k : Own(k) # NoStack /\ Own(k) # TempStack)
    BY DEF NoStack, TempStack, Own
  <2>2. \A k, l : Own(k) = Own(l) => k = l
    BY DEF Own
  <2>3. pc[c] \notin NotYetOn /\ pc[d] \notin NotYetOn
    BY <2>1 DEF StacksOK
  <2>4. CASE pc[c] = "pick" /\ pc[d] = "pick"
    <3>1. \A k \in Core \ {0} : pc[k] = "pick" => pc[0] = "waking" /\ k = waking
      BY DEF WakingOK
    <3> QED BY <2>4, <3>1, CoreAssumption
  <2>5. CASE pc[c] # "pick" /\ pc[d] # "pick"
    BY <2>2, <2>3, <2>5 DEF StacksOK
  <2>6. CASE (pc[c] = "pick") # (pc[d] = "pick")
    BY <2>1, <2>3, <2>6 DEF StacksOK
  <2> QED BY <2>4, <2>5, <2>6
<1>2. Inv => StacksApart
  BY <1>1 DEF StacksApart
<1> QED BY <1>2, Invariant, PTL

-----------------------------------------------------------------------------
(* Init is made once, when all is ready: of any firmware that describes    *)
(* the machine it is in.  The lemmas up to Readiness assume this of all.   *)

DescribesMachine(f) ==
    /\ 0 \in Present(f) /\ Present(f) \subseteq Core
    /\ ConfigInit(f).totalProcs = Cardinality(Present(f))
    /\ ConfigInit(f).memSize = MB + f.lowKB * KB + f.blocks * 64 * KB
    /\ ConfigInit(f).ioAPIC = f.ioAddress
    /\ f.ticks \in Nat /\ f.phase \in 0 .. f.ticks

Discovered == pc[0] \notin Rising \cup {"discover"}

KnownOK ==
    /\ fw \in Firmware
    /\ Discovered => kConfig = <<ConfigInit(fw)>>
    /\ pc[0] \notin BeforeSmp \cup {"calibrate"} =>
          HZ * apitCounter \in (39 * fw.ticks - HZ) .. (40 * fw.ticks)

(* What a core has set up shows in how far it is. *)
ToolsOK ==
    /\ smpInitDone => "lapic" \in tools[0]
    /\ \A c \in Core :
          /\ pc[c] \in Arming \cup There => "lapic" \in tools[c]
          /\ pc[c] \in (Arming \ {"paging"}) \cup There => "paging" \in tools[c]
          /\ pc[c] \in {"tss", "sti", "arrive"} \cup There => "timer" \in tools[c]
          /\ pc[c] \in {"sti", "arrive"} \cup There => "tss" \in tools[c]
          /\ pc[c] \in {"arrive"} \cup There => "interrupts" \in tools[c]

(* One core makes init: that whose arrival makes the count full. *)
MakeOK ==
    /\ initMade <= 1
    /\ \A c \in Core : pc[c] = "make" =>
          /\ initMade = 0
          /\ howManyAreHere >= kConfig[1].totalProcs
          /\ \A d \in Core : pc[d] = "make" => d = c
    /\ initMade = 1 => pc[0] \notin BeforeLoop /\ howManyAreHere >= kConfig[1].totalProcs

Ready == Inv /\ KnownOK /\ ToolsOK /\ MakeOK

LEMMA ReadyInit == StartInit => Ready
<1> SUFFICES ASSUME StartInit PROVE Ready
  OBVIOUS
<1>1. Inv
  BY InvInit
<1> QED BY <1>1, CoreAssumption DEF StartInit, Ready, KnownOK, Discovered, ToolsOK, MakeOK

(* A step that makes no init and changes neither counts nor settings. *)
LEMMA MakeStays ==
    ASSUME Ready, UNCHANGED <<kConfig, howManyAreHere, initMade>>,
           \A c \in Core : pc'[c] = "make" => pc[c] = "make",
           pc'[0] \in BeforeLoop => pc[0] \in BeforeLoop
    PROVE  MakeOK'
BY DEF Ready, MakeOK

LEMMA SetUpReady ==
    ASSUME Ready, NEW c \in Core, NEW t \in OwnTools, NEW l \in Arming \cup {"lapic"}, NEW m \in Arming,
           SetUp(c, t, l, m),
           <<l, t, m>> \in {<<"lapic", "lapic", "paging">>, <<"paging", "paging", "timer">>,
                            <<"timer", "timer", "tss">>, <<"tss", "tss", "sti">>,
                            <<"sti", "interrupts", "arrive">>}
    PROVE  KnownOK' /\ ToolsOK' /\ MakeOK'
<1> USE CoreAssumption DEF SetUp, CoreAt, shared
<1>1. pc'[c] = m /\ pc' \in [Core -> Label] /\ \A d \in Core \ {c} : pc'[d] = pc[d]
  BY Goes DEF Ready, Inv
<1>2. KnownOK'
  BY <1>1 DEF Ready, KnownOK, Discovered
<1>3. /\ tools'[c] = tools[c] \cup {t} /\ \A d \in Core \ {c} : tools'[d] = tools[d]
  BY DEF Ready, Inv, StartTypeOK
<1>4. ToolsOK'
  BY <1>1, <1>3 DEF Ready, ToolsOK
<1>5. MakeOK'
  BY <1>1, MakeStays
<1> QED BY <1>2, <1>4, <1>5

LEMMA DiscoverReady == ASSUME Ready, NEW c \in Core, Discover(c) PROVE KnownOK' /\ ToolsOK' /\ MakeOK'
<1> USE CoreAssumption DEF Discover, CoreAt, Ready, Inv
<1>1. pc'[c] = "tools" /\ pc' \in [Core -> Label] /\ \A d \in Core \ {c} : pc'[d] = pc[d]
  BY Goes
<1>2. c = 0 /\ \A d \in Core : pc[d] \notin There
  BY DEF FirstOK
<1>3. KnownOK'
  BY <1>1, <1>2 DEF KnownOK, Discovered
<1>4. ToolsOK'
  BY <1>1 DEF ToolsOK
<1>5. MakeOK'
  BY <1>1, <1>2 DEF MakeOK, StartTypeOK
<1> QED BY <1>3, <1>4, <1>5

LEMMA MakeToolsReady == ASSUME Ready, NEW c \in Core, MakeTools(c) PROVE KnownOK' /\ ToolsOK' /\ MakeOK'
<1>1. pc'[c] = "calibrate" /\ pc' \in [Core -> Label] /\ \A d \in Core \ {c} : pc'[d] = pc[d]
  BY Goes DEF MakeTools, Ready, Inv
<1> USE CoreAssumption DEF MakeTools, CoreAt, Ready, Inv
<1>2. c = 0
  BY DEF FirstOK
<1>3. KnownOK'
  BY <1>1, <1>2 DEF KnownOK, Discovered
<1>4. ToolsOK'
  BY <1>1, <1>2 DEF ToolsOK, StartTypeOK
<1>5. MakeOK'
  BY <1>1, MakeStays
<1> QED BY <1>3, <1>4, <1>5

LEMMA Quotient ==
    ASSUME NEW x \in Int, NEW q, q = x \div 1000
    PROVE  q \in Int /\ 1000 * q <= x /\ x < 1000 * q + 1000
OBVIOUS

(* Pit::calibrate() counts at most half a period too few. *)
LEMMA CalibrateReady ==
    ASSUME \A f \in Firmware : DescribesMachine(f), Ready, NEW c \in Core, Calibrate(c)
    PROVE  KnownOK' /\ ToolsOK' /\ MakeOK'
<1>1. pc'[c] = "first" /\ pc' \in [Core -> Label] /\ \A d \in Core \ {c} : pc'[d] = pc[d]
  BY Goes DEF Calibrate, Ready, Inv
<1>2. HZ * apitCounter' \in (39 * fw.ticks - HZ) .. (40 * fw.ticks)
  <2>0. DescribesMachine(fw)
    BY DEF Ready, KnownOK
  <2>1. PICK t \in Nat, f \in Nat : f <= t /\ t = fw.ticks /\ f = fw.phase
    BY <2>0 DEF DescribesMachine
  <2>2. apitCounter' = (40 * t - f) \div 1000
    BY <2>1 DEF Calibrate, HZ
  <2>3. 1000 * apitCounter' \in (39 * t - 1000) .. (40 * t)
    <3>1. 40 * t - f \in Int /\ 40 * t - f <= 40 * t /\ 40 * t - f >= 39 * t
      BY <2>1
    <3> QED BY <2>2, <3>1, Quotient
  <2> QED BY <2>1, <2>3 DEF HZ
<1> USE CoreAssumption DEF Calibrate, CoreAt, Ready, Inv
<1>3. c = 0
  BY DEF FirstOK
<1>4. KnownOK'
  BY <1>1, <1>2, <1>3 DEF KnownOK, Discovered
<1>5. ToolsOK'
  BY <1>1 DEF ToolsOK
<1>6. MakeOK'
  BY <1>1, MakeStays
<1> QED BY <1>4, <1>5, <1>6

LEMMA ArriveReady ==
    ASSUME \A f \in Firmware : DescribesMachine(f), Ready, NEW c \in Core, Arrive(c)
    PROVE  KnownOK' /\ ToolsOK' /\ MakeOK'
<1> USE CoreAssumption DEF Arrive, CoreAt, Ready, Inv
<1>1. /\ pc'[c] = IF howManyAreHere' = kConfig[1].totalProcs THEN "make" ELSE "stop"
      /\ pc' \in [Core -> Label] /\ \A d \in Core \ {c} : pc'[d] = pc[d]
  BY Goes
<1>2. KnownOK'
  BY <1>1 DEF KnownOK, Discovered
<1>3. ToolsOK'
  BY <1>1 DEF ToolsOK
<1>4. pc[0] \notin BeforeLoop
  BY DEF FirstOK
<1>5. kConfig[1].totalProcs \in Nat
  <2>1. kConfig[1].totalProcs = Cardinality(Present(fw)) /\ Present(fw) \subseteq Core
    BY <1>4 DEF KnownOK, Discovered, DescribesMachine
  <2> QED BY <2>1, FS_Subset, FS_CardinalityType
<1>6. CASE howManyAreHere' = kConfig[1].totalProcs
  <2>1. howManyAreHere < kConfig[1].totalProcs
    BY <1>5, <1>6 DEF StartTypeOK
  <2>2. initMade = 0 /\ \A d \in Core : pc[d] # "make"
    BY <1>5, <2>1 DEF MakeOK, StartTypeOK
  <2>3. MakeOK'
    BY <1>1, <1>5, <1>6, <2>2 DEF MakeOK
  <2> QED BY <1>2, <1>3, <2>3
<1>7. CASE howManyAreHere' # kConfig[1].totalProcs
  <2>1. \A d \in Core : pc'[d] = "make" => pc[d] = "make" /\ d # c
    BY <1>1, <1>7
  <2>2. howManyAreHere >= kConfig[1].totalProcs => howManyAreHere' >= kConfig[1].totalProcs
    BY <1>5 DEF StartTypeOK
  <2>3. pc'[0] \notin BeforeLoop
    BY <1>1, <1>4
  <2>4. MakeOK'
    BY <2>1, <2>2, <2>3 DEF MakeOK
  <2> QED BY <1>2, <1>3, <2>4
<1> QED BY <1>6, <1>7

LEMMA MakeInitReady == ASSUME Ready, NEW c \in Core, MakeInit(c) PROVE KnownOK' /\ ToolsOK' /\ MakeOK'
<1>1. pc'[c] = "stop" /\ pc' \in [Core -> Label] /\ \A d \in Core \ {c} : pc'[d] = pc[d]
  BY Goes DEF MakeInit, Ready, Inv
<1> USE CoreAssumption DEF MakeInit, CoreAt, Ready, Inv
<1>2. KnownOK'
  BY <1>1 DEF KnownOK, Discovered
<1>3. ToolsOK'
  BY <1>1 DEF ToolsOK
<1>4. pc'[0] \notin BeforeLoop
  BY <1>1 DEF FirstOK
<1>5. MakeOK'
  BY <1>1, <1>4 DEF MakeOK
<1> QED BY <1>2, <1>3, <1>5

(* A core goes on that sets up, counts and makes nothing of these. *)
LEMMA MoveReady ==
    ASSUME Ready, UNCHANGED <<fw, kConfig, tools, apitCounter, smpInitDone, initMade, howManyAreHere>>,
           Discovered' => Discovered,
           pc'[0] \notin BeforeSmp \cup {"calibrate"} => pc[0] \notin BeforeSmp \cup {"calibrate"},
           pc'[0] \in BeforeLoop => pc[0] \in BeforeLoop,
           \A c \in Core : pc'[c] \in Arming \cup There =>
               pc'[c] = pc[c] \/ (pc'[c] = "paging" /\ "lapic" \in tools[c])
    PROVE  KnownOK' /\ ToolsOK' /\ MakeOK'
<1>1. KnownOK'
  BY DEF Ready, KnownOK, Discovered
<1>2. ToolsOK'
  BY DEF Ready, ToolsOK
<1>3. MakeOK'
  BY MakeStays
<1> QED BY <1>1, <1>2, <1>3

LEMMA MovesReady ==
    ASSUME Ready, NEW c \in Core,
           \/ Reset(c) \/ PickStack(c) \/ KernelInit(c) \/ CountFirst(c)
           \/ Wake(c) \/ Woken(c) \/ AllWoken(c) \/ Join(c)
    PROVE  KnownOK' /\ ToolsOK' /\ MakeOK'
<1> USE CoreAssumption DEF CoreAt, CoreGoes, shared, Ready, Inv, StartTypeOK, FirstOK, Discovered
<1>1. CASE Reset(c)
  BY <1>1, MoveReady DEF Reset
<1>2. CASE PickStack(c)
  BY <1>2, MoveReady DEF PickStack
<1>3. CASE KernelInit(c)
  BY <1>3, MoveReady DEF KernelInit
<1>4. CASE CountFirst(c)
  BY <1>4, MoveReady DEF CountFirst
<1>5. CASE Wake(c)
  BY <1>5, MoveReady DEF Wake
<1>6. CASE Woken(c)
  BY <1>6, MoveReady DEF Woken
<1>7. CASE AllWoken(c)
  BY <1>7, MoveReady DEF AllWoken, ToolsOK
<1>8. CASE Join(c)
  BY <1>8, MoveReady DEF Join
<1> QED BY <1>1, <1>2, <1>3, <1>4, <1>5, <1>6, <1>7, <1>8

LEMMA ReadyNext ==
    ASSUME \A f \in Firmware : DescribesMachine(f), Ready, [StartNext]_startVars
    PROVE  Ready'
<1>1. Inv'
  BY InvNext DEF Ready
<1>2. CASE UNCHANGED startVars
  BY <1>1, <1>2 DEF Ready, KnownOK, Discovered, ToolsOK, MakeOK, startVars, shared
<1>3. ASSUME NEW c \in Core, BeginInit(c) PROVE KnownOK' /\ ToolsOK' /\ MakeOK'
  BY <1>3 DEF BeginInit, Ready, KnownOK, Discovered, ToolsOK, MakeOK
<1>4. ASSUME NEW c \in Core, BootStep(c) PROVE KnownOK' /\ ToolsOK' /\ MakeOK'
  <2>1. CASE EnableLapic(c) \/ PerCoreInit(c) \/ StartTimer(c) \/ LoadTss(c) \/ EnableInterrupts(c)
    BY <2>1, SetUpReady DEF EnableLapic, PerCoreInit, StartTimer, LoadTss, EnableInterrupts, OwnTools
  <2> QED BY <1>4, <2>1, DiscoverReady, MakeToolsReady, CalibrateReady, ArriveReady, MakeInitReady,
             MovesReady
          DEF BootStep
<1> QED BY <1>1, <1>2, <1>3, <1>4 DEF StartNext, Ready

(* When as many cores are there as the machine has, all are. *)
LEMMA Readiness ==
    ASSUME \A f \in Firmware : DescribesMachine(f), Ready
    PROVE  MachineReady
<1> SUFFICES ASSUME initMade > 0 PROVE MachineReady
  BY DEF MachineReady
<1> USE CoreAssumption DEF Ready, Inv
<1>1. initMade = 1 /\ pc[0] \notin BeforeLoop /\ howManyAreHere >= kConfig[1].totalProcs
  BY DEF MakeOK, StartTypeOK
<1>2. kConfig = <<ConfigInit(fw)>> /\ DescribesMachine(fw)
  BY <1>1 DEF KnownOK, Discovered
<1> DEFINE P == {c \in Core : pc[c] \in There}
<1>3. P = Present(fw)
  <2>1. P \subseteq Present(fw)
    BY <1>2 DEF WakingOK, DescribesMachine
  <2>2. IsFiniteSet(Present(fw))
    BY <1>2, FS_Subset DEF DescribesMachine
  <2>3. Cardinality(P) >= Cardinality(Present(fw))
    BY <1>1, <1>2 DEF CountOK, DescribesMachine
  <2>4. Cardinality(P) \in Nat /\ Cardinality(Present(fw)) \in Nat
    BY <2>1, <2>2, FS_Subset, FS_CardinalityType
  <2> HIDE DEF P
  <2> QED BY <2>1, <2>2, <2>3, <2>4, FS_Subset
<1>4. \A c \in Present(fw) : tools[c] = OwnTools
  <2> SUFFICES ASSUME NEW c \in Present(fw) PROVE tools[c] = OwnTools
    OBVIOUS
  <2>1. c \in Core /\ pc[c] \in There
    BY <1>3
  <2>2. OwnTools \subseteq tools[c]
    BY <2>1 DEF ToolsOK, OwnTools
  <2> QED BY <2>1, <2>2 DEF StartTypeOK
<1>5. pc[0] \in There
  BY <1>2, <1>3 DEF DescribesMachine
<1>6. HZ * apitCounter \in (39 * fw.ticks - HZ) .. (40 * fw.ticks)
  BY <1>5 DEF KnownOK
<1>7. kConfig[1].memSize = MB + fw.lowKB * KB + fw.blocks * 64 * KB /\ kConfig[1].ioAPIC = fw.ioAddress
  BY <1>2 DEF DescribesMachine
<1> QED BY <1>1, <1>4, <1>6, <1>7 DEF MachineReady

(* One init process, and all cores ready for it: that totalProcs, counted  *)
(* by configInit(), is met by howManyAreHere (init.cc:155) for the last    *)
(* of them and no other.                                                   *)
THEOREM InitWhenReady ==
    ASSUME \A f \in Firmware : DescribesMachine(f)
    PROVE  Spec => []MachineReady
<1>1. StartInit => Ready
  BY ReadyInit
<1>2. Ready /\ [StartNext]_startVars => Ready'
  BY ReadyNext
<1>3. Ready => MachineReady
  BY Readiness
<1> QED BY <1>1, <1>2, <1>3, SpecOfStartup, PTL

-----------------------------------------------------------------------------
(* The turn: one process at a time has something to do, from the step in   *)
(* which the first one is made.  fork() passes the turn to the child,      *)
(* because every program of these calls wait() behind it, and wait() takes *)
(* it back from a child that has ended; a program that becomes another     *)
(* keeps it, and so does one whose exec() failed.                          *)

(* p has the turn; to end is the last it does with it. *)
Moves(p) == proc[p].pc \notin Waiting \cup {"none"}

(* The programs that wait for a command, and not as a shell for a pipeline. *)
Forkers == {"init", "login", "our_shell", "pipe"}

(* A process has the fields that say whose turn it is. *)
Whole(r) == {"pc", "prog", "child"} \subseteq DOMAIN r

(* A process as it goes on, with the turn. *)
GoesOn(r) == Whole(r) /\ r.pc \notin Waiting \cup {"none"}

TurnOK ==
    /\ DOMAIN proc = Pid
    /\ \A p \in Pid : Whole(proc[p])
    /\ \A p \in Pid : proc[p].pc \in Waiting =>
          /\ proc[p].child \in Pid
          /\ proc[p].pc = "wait" => proc[p].prog \in Forkers
    /\ \A p, q \in Pid : Moves(p) /\ Moves(q) => p = q
    /\ initBegan \in Nat
    /\ initBegan = 0 => \A p \in Pid : proc[p].pc = "none"

LEMMA NoneWhole == Whole(NoProcess) /\ NoProcess.pc = "none"
BY DEF Whole, NoProcess

(* p goes on as r. *)
LEMMA BecomeTurn ==
    ASSUME TurnOK, NEW p \in Pid, Moves(p), NEW r, GoesOn(r), Become(p, r), UNCHANGED startVars
    PROVE  TurnOK'
<1>1. initBegan' = initBegan /\ initBegan # 0
  BY DEF TurnOK, Moves, startVars, shared
<1>2. DOMAIN proc' = Pid /\ \A q \in Pid : proc'[q] = IF q = p THEN r ELSE proc[q]
  BY DEF Become, TurnOK
<1> QED BY <1>1, <1>2 DEF TurnOK, GoesOn, Moves

(* What the programs do to their own data leaves a process at its label. *)
LEMMA EditedGoes ==
    ASSUME NEW r, Whole(r), NEW key
    PROVE  Whole(Edited(r, key)) /\ Edited(r, key).pc = r.pc
<1>1. CASE key = ENTER
  BY <1>1 DEF Edited, Whole
<1>2. CASE key # ENTER /\ key = TAB
  BY <1>2 DEF Edited, Whole
<1>3. CASE key # ENTER /\ key # TAB /\ key = BACKSPACE
  BY <1>3 DEF Edited, Whole
<1>4. CASE key # ENTER /\ key # TAB /\ key # BACKSPACE
  BY <1>4 DEF Edited, Whole
<1> QED BY <1>1, <1>2, <1>3, <1>4

LEMMA ParsedGoes == ASSUME NEW r, Whole(r) PROVE Whole(Parsed(r)) /\ Parsed(r).pc = r.pc
<1> DEFINE s == ArgumentEnded(r)
           u == CommandEnded(s)
<1>1. Whole(s) /\ s.pc = r.pc
  BY DEF ArgumentEnded, Whole
<1> HIDE DEF s
<1>2. Whole(u) /\ u.pc = s.pc
  BY <1>1 DEF CommandEnded, Whole
<1> HIDE DEF u
<1>3. Whole([u EXCEPT !.i = @ + 1]) /\ [u EXCEPT !.i = @ + 1].pc = u.pc
  BY <1>2 DEF Whole
<1> QED BY <1>1, <1>2, <1>3 DEF Parsed, u, s

LEMMA OpenedGoes ==
    ASSUME NEW r, Whole(r), NEW name
    PROVE  Whole(Opened(r, name)) /\ Opened(r, name).pc = r.pc
BY DEF Opened, Whole

LEMMA PipeMadeGoes == ASSUME NEW r, Whole(r) PROVE Whole(PipeMade(r)) /\ PipeMade(r).pc = r.pc
BY DEF PipeMade, Whole

LEMMA HandleTabGoes == ASSUME NEW r, Whole(r) PROVE Whole(HandleTab(r)) /\ HandleTab(r).pc = r.pc
BY DEF HandleTab, Whole

LEMMA RedirectedGoes ==
    ASSUME NEW r, Whole(r), NEW end, NEW fd
    PROVE  Whole(Redirected(r, end, fd)) /\ Redirected(r, end, fd).pc = r.pc
BY DEF Redirected, Whole

LEMMA RenamedGoes ==
    ASSUME NEW r, Whole(r), NEW k
    PROVE  Whole(Renamed(r, k)) /\ Renamed(r, k).pc = "main"
BY DEF Renamed, Whole

(* A program begins with the turn, and who cannot exec() keeps it. *)
LEMMA ProgramGoes == ASSUME NEW r, NEW prog, NEW args PROVE GoesOn(Program(r, prog, args))
<1>1. Whole(Program(r, prog, args)) /\ Program(r, prog, args).pc = "start"
  BY DEF Program, NoProcess, Whole
<1> QED BY <1>1 DEF GoesOn, Waiting

LEMMA ExecsTurn ==
    ASSUME TurnOK, NEW p \in Pid, Moves(p), NEW r, GoesOn(r), NEW tail, NEW args, NEW text,
           Execs(p, r, tail, args, text), UNCHANGED startVars
    PROVE  TurnOK'
<1> DEFINE s == IF ExecResult(tail) = 0 THEN Program(r, Disk[tail], args) ELSE r
<1>1. GoesOn(s)
  BY ProgramGoes
<1>2. Become(p, s)
  BY DEF Execs
<1> HIDE DEF s
<1> QED BY <1>1, <1>2, BecomeTurn

(* fork(): the child has the turn. *)
LEMMA ForkTurn ==
    ASSUME TurnOK, NEW p \in Pid, Moves(p), NEW l \in Waiting,
           NEW m, m \notin Waiting \cup {"none"}, l = "wait" => proc[p].prog \in Forkers,
           Fork(p, l, m), UNCHANGED startVars
    PROVE  TurnOK'
<1>1. initBegan' = initBegan /\ initBegan # 0
  BY DEF TurnOK, Moves, startVars, shared
<1>2. PICK c \in Pid :
          /\ proc[c].pc = "none"
          /\ proc' = [proc EXCEPT ![c] = [proc[p] EXCEPT !.pc = m, !.parent = p],
                                  ![p].pc = l, ![p].child = c]
  BY DEF Fork
<1>3. c # p
  BY <1>2 DEF Moves
<1> DEFINE r == [proc[p] EXCEPT !.pc = m, !.parent = p]
           s == [proc[p] EXCEPT !.pc = l, !.child = c]
<1>4. Whole(proc[p])
  BY DEF TurnOK
<1>5. Whole(r) /\ r.pc = m
  BY <1>4 DEF Whole
<1>6. Whole(s) /\ s.pc = l /\ s.child = c /\ s.prog = proc[p].prog
  BY <1>4 DEF Whole
<1>7. /\ DOMAIN proc' = Pid
      /\ proc'[c] = r /\ proc'[p] = s /\ \A q \in Pid : q # c /\ q # p => proc'[q] = proc[q]
  BY <1>2, <1>3 DEF TurnOK
<1> HIDE DEF r, s
<1>8. \A q \in Pid : Moves(q)' => q = c
  BY <1>6, <1>7 DEF TurnOK, Moves
<1>9. \A q \in Pid : Whole(proc'[q])
  BY <1>5, <1>6, <1>7 DEF TurnOK
<1>10. \A q \in Pid : proc'[q].pc \in Waiting =>
          proc'[q].child \in Pid /\ (proc'[q].pc = "wait" => proc'[q].prog \in Forkers)
  BY <1>5, <1>6, <1>7 DEF TurnOK
<1> QED BY <1>1, <1>7, <1>8, <1>9, <1>10 DEF TurnOK

(* wait(): the child that ended had the turn, and is gone. *)
LEMMA WaitTurn ==
    ASSUME TurnOK, NEW p \in Pid, Wait(p), UNCHANGED startVars
    PROVE  TurnOK'
<1> DEFINE c == proc[p].child
           r == AfterWait(proc[p])
<1>1. proc[p].pc \in Waiting /\ c \in Pid /\ proc[c].pc = "ended" /\ Whole(proc[p])
  BY DEF Wait, TurnOK
<1>2. c # p /\ Moves(c)
  BY <1>1 DEF Moves, Waiting
<1>3. Whole(r) /\ r.pc \notin Waiting \cup {"none"}
  <2> DEFINE a == proc[p]
  <2>1. Whole(a) /\ a.pc \in Waiting
    BY <1>1
  <2>2. a.pc = "wait" => a.prog \in Forkers
    BY <1>1 DEF TurnOK
  <2> HIDE DEF a
  <2>3. Whole(AfterWait(a)) /\ AfterWait(a).pc \notin Waiting \cup {"none"}
    <3>1. CASE a.pc = "wait1"
      BY <2>1, <3>1 DEF Whole, AfterWait, Waiting
    <3>2. CASE a.pc = "wait2"
      BY <2>1, <3>2 DEF Whole, AfterWait, Waiting
    <3>3. CASE a.pc = "wait" /\ a.prog = "login"
      BY <2>1, <3>3 DEF Whole, AfterWait, Waiting
    <3>4. CASE a.pc = "wait" /\ a.prog = "our_shell"
      BY <2>1, <3>4 DEF Whole, AfterWait, Waiting
    <3>5. CASE a.pc = "wait" /\ a.prog = "init"
      BY <2>1, <3>5 DEF Whole, AfterWait, Waiting
    <3>6. CASE a.pc = "wait" /\ a.prog = "pipe"
      BY <2>1, <3>6 DEF Whole, AfterWait, Waiting
    <3> QED BY <2>1, <2>2, <3>1, <3>2, <3>3, <3>4, <3>5, <3>6 DEF Waiting, Forkers
  <2> QED BY <2>3 DEF a
<1>4. /\ DOMAIN proc' = Pid
      /\ proc'[c] = NoProcess /\ proc'[p] = r /\ \A q \in Pid : q # c /\ q # p => proc'[q] = proc[q]
  BY <1>1, <1>2 DEF TurnOK, Wait
<1>5. initBegan' = initBegan /\ initBegan # 0
  BY <1>1, <1>2 DEF TurnOK, Moves, startVars, shared
<1>6. \A q \in Pid : Moves(q) => q = c
  BY <1>1, <1>2 DEF TurnOK
<1> HIDE DEF c, r
<1>7. \A q \in Pid : Moves(q)' => q = p
  BY <1>4, <1>6, NoneWhole DEF Moves
<1>8. \A q \in Pid : Whole(proc'[q])
  BY <1>3, <1>4, NoneWhole DEF TurnOK
<1>9. \A q \in Pid : proc'[q].pc \in Waiting =>
          proc'[q].child \in Pid /\ (proc'[q].pc = "wait" => proc'[q].prog \in Forkers)
  BY <1>3, <1>4, NoneWhole DEF TurnOK, Waiting
<1> QED BY <1>4, <1>5, <1>7, <1>8, <1>9 DEF TurnOK

(* A process at a label where it does not wait has the turn. *)
LEMMA AtMoves ==
    ASSUME NEW p \in Pid, NEW prog, NEW l, At(p, prog, l), l \notin Waiting \cup {"none"}
    PROVE  Moves(p) /\ proc[p].prog = prog
BY DEF At, Moves

LEMMA PrintsTurn ==
    ASSUME TurnOK, NEW p \in Pid, Moves(p), NEW text, NEW r, GoesOn(r), Prints(p, text, r),
           UNCHANGED startVars
    PROVE  TurnOK'
BY BecomeTurn DEF Prints

LEMMA ForksTurn ==
    ASSUME TurnOK, NEW p \in Pid, NEW prog \in Forkers, NEW l, l \notin Waiting \cup {"none"},
           Forks(p, prog, l), UNCHANGED startVars
    PROVE  TurnOK'
<1>1. Moves(p) /\ proc[p].prog = prog /\ Fork(p, "wait", "exec")
  BY AtMoves DEF Forks
<1>2. "wait" \in Waiting /\ "exec" \notin Waiting \cup {"none"}
  BY DEF Waiting
<1> QED BY <1>1, <1>2, ForkTurn

LEMMA ExecsAloneTurn ==
    ASSUME TurnOK, NEW p \in Pid, NEW prog, NEW name, ExecsAlone(p, prog, name), UNCHANGED startVars
    PROVE  TurnOK'
<1> DEFINE r == [proc[p] EXCEPT !.pc = "exit"]
<1>1. Moves(p) /\ Execs(p, r, name, <<>>, <<>>)
  BY AtMoves DEF ExecsAlone, Waiting
<1>2. GoesOn(r)
  BY DEF TurnOK, Whole, GoesOn, Waiting
<1> HIDE DEF r
<1> QED BY <1>1, <1>2, ExecsTurn

(* Any program *)
LEMMA AnyTurn ==
    ASSUME TurnOK, NEW p \in Pid, Start(p) \/ Exit(p), UNCHANGED startVars
    PROVE  TurnOK'
<1>1. CASE Start(p)
  <2> DEFINE r == [proc[p] EXCEPT !.pc = "main", !.stack = <<>>, !.argv = MainArgs(proc[p].stack)]
  <2>1. Moves(p) /\ Become(p, r)
    BY <1>1 DEF Start, Moves, Waiting
  <2>2. GoesOn(r)
    BY DEF TurnOK, Whole, GoesOn, Waiting
  <2> HIDE DEF r
  <2> QED BY <2>1, <2>2, BecomeTurn
<1>2. CASE Exit(p)
  <2> DEFINE r == [proc[p] EXCEPT !.pc = "ended"]
  <2>1. Moves(p) /\ Become(p, r)
    BY <1>2 DEF Exit, Goto, Moves, Waiting
  <2>2. GoesOn(r)
    BY DEF TurnOK, Whole, GoesOn, Waiting
  <2> HIDE DEF r
  <2> QED BY <2>1, <2>2, BecomeTurn
<1> QED BY <1>1, <1>2

(* init and login *)
LEMMA LoginTurn ==
    ASSUME TurnOK, NEW p \in Pid, UNCHANGED startVars,
           InitForks(p) \/ InitExecs(p) \/ LoginAsks(p) \/ LoginName(p) \/ LoginPassword(p)
           \/ LoginForks(p) \/ LoginExecs(p)
    PROVE  TurnOK'
<1> DEFINE e == Edited(proc[p], ENTER)
<1>1. Whole(proc[p])
  BY DEF TurnOK
<1>2. Whole(e)
  BY <1>1, EditedGoes
<1>3. CASE InitForks(p) \/ LoginForks(p)
  BY <1>3, ForksTurn DEF InitForks, LoginForks, Forkers, Waiting
<1>4. CASE InitExecs(p) \/ LoginExecs(p)
  BY <1>4, ExecsAloneTurn DEF InitExecs, LoginExecs
<1>5. CASE LoginAsks(p)
  <2> DEFINE r == [proc[p] EXCEPT !.pc = "name"]
  <2>1. At(p, "login", "main") /\ \E text : Prints(p, text, r)
    BY <1>5, Zenon DEF LoginAsks
  <2>2. Moves(p)
    BY <2>1, AtMoves DEF Waiting
  <2>3. GoesOn(r)
    BY <1>1 DEF Whole, GoesOn, Waiting
  <2> HIDE DEF r
  <2> QED BY <2>1, <2>2, <2>3, PrintsTurn
<1>6. CASE LoginName(p)
  <2> DEFINE r == [[e EXCEPT !.name = CString(e.buf, 0), !.pc = "pass"] EXCEPT !.n = 0]
  <2>1. At(p, "login", "name") /\ Become(p, r)
    BY <1>6, Zenon DEF LoginName, Entered
  <2>2. Moves(p)
    BY <2>1, AtMoves DEF Waiting
  <2> HIDE DEF e
  <2>3. GoesOn(r)
    BY <1>2 DEF Whole, GoesOn, Waiting
  <2> HIDE DEF r
  <2> QED BY <2>1, <2>2, <2>3, BecomeTurn
<1>7. CASE LoginPassword(p)
  <2> DEFINE l == IF <<e.name, CString(e.buf, 0)>> \in Users THEN "fork" ELSE "name"
             r == [[e EXCEPT !.pc = l] EXCEPT !.n = 0]
  <2>1. At(p, "login", "pass") /\ Become(p, r)
    BY <1>7, Zenon DEF LoginPassword, Entered
  <2>2. Moves(p)
    BY <2>1, AtMoves DEF Waiting
  <2>3. l \notin Waiting \cup {"none"}
    BY DEF Waiting
  <2> HIDE DEF e, l
  <2>4. GoesOn(r)
    BY <1>2, <2>3 DEF Whole, GoesOn
  <2> HIDE DEF r
  <2> QED BY <2>1, <2>2, <2>4, BecomeTurn
<1> QED BY <1>3, <1>4, <1>5, <1>6, <1>7

(* A key, in login and our_shell *)
LEMMA ReadsKeyTurn ==
    ASSUME TurnOK, NEW p \in Pid, ReadsKey(p), UNCHANGED startVars
    PROVE  TurnOK'
<1> DEFINE e == Edited(proc[p], Head(keys))
           r == IF Head(keys) = TAB THEN HandleTab(e) ELSE e
<1>1. Moves(p) /\ Become(p, r)
  BY DEF ReadsKey, Reading, Moves, Waiting
<1>2. Whole(e) /\ e.pc = proc[p].pc
  BY EditedGoes DEF TurnOK
<1> HIDE DEF e
<1>3. GoesOn(r)
  BY <1>1, <1>2, HandleTabGoes DEF Moves, GoesOn
<1> HIDE DEF r
<1> QED BY <1>1, <1>3, BecomeTurn

(* our_shell: a line *)
LEMMA ShellLineTurn ==
    ASSUME TurnOK, NEW p \in Pid, UNCHANGED startVars,
           ShellPrompts(p) \/ ShellReads(p) \/ ShellParses(p) \/ ShellParsed(p)
    PROVE  TurnOK'
<1>1. Whole(proc[p])
  BY DEF TurnOK
<1>2. CASE ShellPrompts(p)
  <2> DEFINE r == [proc[p] EXCEPT !.pc = "read", !.n = 0]
  <2>1. Moves(p) /\ Prints(p, <<"$">>, r)
    BY <1>2, AtMoves DEF ShellPrompts, Waiting
  <2>2. GoesOn(r)
    BY <1>1 DEF Whole, GoesOn, Waiting
  <2> HIDE DEF r
  <2> QED BY <2>1, <2>2, PrintsTurn
<1>3. CASE ShellReads(p)
  <2> DEFINE e == Edited(proc[p], ENTER)
             r == [e EXCEPT !.pc = "parse", !.i = 0, !.arg_start = 0, !.arguments = <<<<>>>>]
  <2>1. Moves(p) /\ Become(p, r)
    BY <1>3, AtMoves DEF ShellReads, Waiting
  <2>2. Whole(e)
    BY <1>1, EditedGoes
  <2> HIDE DEF e
  <2>3. GoesOn(r)
    BY <2>2 DEF Whole, GoesOn, Waiting
  <2> HIDE DEF r
  <2> QED BY <2>1, <2>3, BecomeTurn
<1>4. CASE ShellParses(p)
  <2>1. Moves(p) /\ Become(p, Parsed(proc[p]))
    BY <1>4, AtMoves DEF ShellParses, Waiting
  <2>2. GoesOn(Parsed(proc[p]))
    BY <1>1, <2>1, ParsedGoes DEF GoesOn, Moves
  <2> QED BY <2>1, <2>2, BecomeTurn
<1>5. CASE ShellParsed(p)
  <2> DEFINE l == IF Len(proc[p].arguments) > 1 THEN "pipe" ELSE "fork"
             r == [proc[p] EXCEPT !.pc = l]
  <2>1. Moves(p) /\ Prints(p, <<NL>>, r)
    BY <1>5, AtMoves DEF ShellParsed, Waiting
  <2>2. l \notin Waiting \cup {"none"}
    BY DEF Waiting
  <2> HIDE DEF l
  <2>3. GoesOn(r)
    BY <1>1, <2>2 DEF Whole, GoesOn
  <2> HIDE DEF r
  <2> QED BY <2>1, <2>3, PrintsTurn
<1> QED BY <1>2, <1>3, <1>4, <1>5

(* our_shell: the processes it makes for a line *)
LEMMA ShellForkTurn ==
    ASSUME TurnOK, NEW p \in Pid, UNCHANGED startVars,
           ShellForks(p) \/ ShellForksFirst(p) \/ ShellForksSecond(p)
    PROVE  TurnOK'
<1>1. "our_shell" \in Forkers /\ {"wait", "wait1", "wait2"} \subseteq Waiting
      /\ {"fork", "fork1", "fork2", "run", "run1", "run2"} \cap (Waiting \cup {"none"}) = {}
  BY DEF Forkers, Waiting
<1>2. CASE ShellForks(p)
  <2>1. Moves(p) /\ proc[p].prog = "our_shell" /\ Fork(p, "wait", "run")
    BY <1>1, <1>2, AtMoves DEF ShellForks
  <2> QED BY <1>1, <2>1, ForkTurn
<1>3. CASE ShellForksFirst(p)
  <2>1. Moves(p) /\ proc[p].prog = "our_shell" /\ Fork(p, "wait1", "run1")
    BY <1>1, <1>3, AtMoves DEF ShellForksFirst
  <2> QED BY <1>1, <2>1, ForkTurn
<1>4. CASE ShellForksSecond(p)
  <2>1. Moves(p) /\ proc[p].prog = "our_shell" /\ Fork(p, "wait2", "run2")
    BY <1>1, <1>4, AtMoves DEF ShellForksSecond
  <2> QED BY <1>1, <2>1, ForkTurn
<1> QED BY <1>2, <1>3, <1>4

LEMMA ShellRunTurn ==
    ASSUME TurnOK, NEW p \in Pid, UNCHANGED startVars,
           RunSimple(p) \/ ShellPipes(p) \/ RunFirst(p) \/ RunSecond(p)
    PROVE  TurnOK'
<1>1. Whole(proc[p])
  BY DEF TurnOK
<1>2. CASE RunSimple(p)
  <2> DEFINE args == Strings(proc[p], 1)
             r    == [proc[p] EXCEPT !.starting_path = Copied(@, args[1]), !.pc = "main"]
  <2>1. /\ At(p, "our_shell", "run")
        /\ Execs(p, r, CString(r.starting_path, 0), args, Invalid(args[1]))
    BY <1>2, Zenon DEF RunSimple
  <2>2. Moves(p)
    BY <2>1, AtMoves DEF Waiting
  <2> HIDE DEF args
  <2>3. GoesOn(r)
    BY <1>1 DEF Whole, GoesOn, Waiting
  <2> HIDE DEF r
  <2> QED BY <2>1, <2>2, <2>3, ExecsTurn
<1>3. CASE ShellPipes(p)
  <2> DEFINE e == PipeMade(proc[p])
             r == [e EXCEPT !.pc = "fork1"]
  <2>1. Moves(p) /\ Become(p, r)
    BY <1>3, AtMoves DEF ShellPipes, Waiting
  <2>2. Whole(e)
    BY <1>1, PipeMadeGoes
  <2> HIDE DEF e
  <2>3. GoesOn(r)
    BY <2>2 DEF Whole, GoesOn, Waiting
  <2> HIDE DEF r
  <2> QED BY <2>1, <2>3, BecomeTurn
<1>4. CASE RunFirst(p)
  <2> DEFINE r == Redirected(Renamed(proc[p], 1), proc[p].pipefd[2], 1)
  <2>1. Moves(p) /\ Execs(p, r, CString(r.starting_path, 0), Strings(proc[p], 1), <<>>)
    BY <1>4, AtMoves DEF RunFirst, Waiting
  <2>2. GoesOn(r)
    BY <1>1, RenamedGoes, RedirectedGoes DEF GoesOn, Waiting
  <2> HIDE DEF r
  <2> QED BY <2>1, <2>2, ExecsTurn
<1>5. CASE RunSecond(p)
  <2> DEFINE r    == Redirected(Renamed(proc[p], 2), proc[p].pipefd[1], 0)
             args == Strings(proc[p], 2)
  <2>1. Moves(p) /\ Execs(p, r, CString(r.starting_path, 0), SubSeq(args, 1, Min({2, Len(args)})), <<>>)
    BY <1>5, AtMoves DEF RunSecond, Waiting
  <2>2. GoesOn(r)
    BY <1>1, RenamedGoes, RedirectedGoes DEF GoesOn, Waiting
  <2> HIDE DEF r
  <2> QED BY <2>1, <2>2, ExecsTurn
<1> QED BY <1>2, <1>3, <1>4, <1>5

(* A command that prints what it has to, and has not more to do. *)
LEMMA EchoTurn ==
    ASSUME TurnOK, NEW p \in Pid, UNCHANGED startVars, Echo(p) \/ Clear(p)
    PROVE  TurnOK'
<1> DEFINE r == [proc[p] EXCEPT !.pc = "exit"]
<1>1. Moves(p) /\ \E text : Prints(p, text, r)
  <2>1. CASE Echo(p)
    BY <2>1, AtMoves DEF Echo, Waiting
  <2>2. CASE Clear(p)
    BY <2>2, AtMoves DEF Clear, Waiting
  <2> QED BY <2>1, <2>2
<1>2. GoesOn(r)
  BY DEF TurnOK, Whole, GoesOn, Waiting
<1> HIDE DEF r
<1> QED BY <1>1, <1>2, PrintsTurn

(* cat *)
LEMMA CatTurn ==
    ASSUME TurnOK, NEW p \in Pid, UNCHANGED startVars, CatNext(p) \/ CopyReads(p) \/ CopyWrites(p)
    PROVE  TurnOK'
<1> DEFINE a == proc[p]
<1>1. Whole(a)
  BY DEF TurnOK
<1>2. CASE CatNext(p)
  <2> DEFINE o == Opened(a, a.argv[a.arg + 1])
             done    == [a EXCEPT !.pc = "exit"]
             missing == [o EXCEPT !.arg = @ + 1]
             opened  == [o EXCEPT !.arg = @ + 1, !.pc = "copy"]
  <2>1. /\ At(p, "cat", "main")
        /\ \E text : Prints(p, text, done) \/ Prints(p, text, missing) \/ Prints(p, text, opened)
    BY <1>2, Zenon DEF CatNext
  <2>2. Moves(p) /\ a.pc = "main"
    BY <2>1, AtMoves DEF At, Waiting
  <2>3. Whole(o) /\ o.pc = a.pc
    BY <1>1, OpenedGoes
  <2> HIDE DEF o
  <2>4. GoesOn(done)
    BY <1>1 DEF Whole, GoesOn, Waiting
  <2> HIDE DEF a
  <2>5. GoesOn(missing)
    BY <2>2, <2>3 DEF Whole, GoesOn, Waiting
  <2>6. GoesOn(opened)
    BY <2>3 DEF Whole, GoesOn, Waiting
  <2> HIDE DEF done, missing, opened
  <2> QED BY <2>1, <2>2, <2>4, <2>5, <2>6, PrintsTurn
<1>3. CASE CopyReads(p)
  <2> DEFINE k == Min({CopyBytes, Len(Unread(p, a.fd))})
             done == [a EXCEPT !.pc = "main"]
             more == [a EXCEPT !.pc = "write", !.offset = Past(p, a.fd, k),
                               !.chunk = SubSeq(Unread(p, a.fd), 1, k)]
  <2>1. At(p, "cat", "copy") /\ \E text : Prints(p, text, done) \/ Prints(p, text, more)
    BY <1>3, Zenon DEF CopyReads
  <2>2. Moves(p)
    BY <2>1, AtMoves DEF Waiting
  <2> HIDE DEF a, k
  <2>3. GoesOn(done) /\ GoesOn(more)
    BY <1>1 DEF Whole, GoesOn, Waiting
  <2> HIDE DEF done, more
  <2> QED BY <2>1, <2>2, <2>3, PrintsTurn
<1>4. CASE CopyWrites(p)
  <2> DEFINE rest == SubSeq(a.chunk, Accepted(p, FileOf(p, 1), a.chunk) + 1, Len(a.chunk))
             l == IF rest = <<>> THEN "copy" ELSE "write"
             r == [a EXCEPT !.chunk = rest, !.pc = l]
  <2>1. At(p, "cat", "write") /\ \E text : Prints(p, text, r)
    BY <1>4, Zenon DEF CopyWrites
  <2>2. Moves(p)
    BY <2>1, AtMoves DEF Waiting
  <2>3. l \notin Waiting \cup {"none"}
    BY DEF Waiting
  <2> HIDE DEF a, rest, l
  <2>4. GoesOn(r)
    BY <1>1, <2>3 DEF Whole, GoesOn
  <2> HIDE DEF r
  <2> QED BY <2>1, <2>2, <2>4, PrintsTurn
<1> QED BY <1>2, <1>3, <1>4

(* grep *)
LEMMA GrepTurn ==
    ASSUME TurnOK, NEW p \in Pid, UNCHANGED startVars, GrepOpens(p) \/ GrepLine(p)
    PROVE  TurnOK'
<1> DEFINE a == proc[p]
<1>1. Whole(a)
  BY DEF TurnOK
<1>2. CASE GrepOpens(p)
  <2> DEFINE o == IF Len(a.argv) > 2 THEN Opened(a, a.argv[3]) ELSE [a EXCEPT !.fd = 0]
             r == [o EXCEPT !.pc = "search"]
  <2>1. At(p, "grep", "main") /\ \E text : Prints(p, text, r)
    BY <1>2, Zenon DEF GrepOpens
  <2>2. Moves(p)
    BY <2>1, AtMoves DEF Waiting
  <2> HIDE DEF a
  <2>3. Whole(o)
    BY <1>1, OpenedGoes DEF Whole
  <2> HIDE DEF o
  <2>4. GoesOn(r)
    BY <2>3 DEF Whole, GoesOn, Waiting
  <2> HIDE DEF r
  <2> QED BY <2>1, <2>2, <2>4, PrintsTurn
<1>3. CASE GrepLine(p)
  <2> DEFINE line == NextLine(Unread(p, a.fd))
             l == IF line = <<>> THEN "exit" ELSE "search"
             r == [a EXCEPT !.offset = Past(p, a.fd, Len(line)), !.pc = l]
  <2>1. At(p, "grep", "search") /\ Become(p, r)
    BY <1>3, Zenon DEF GrepLine
  <2>2. Moves(p)
    BY <2>1, AtMoves DEF Waiting
  <2>3. l \notin Waiting \cup {"none"}
    BY DEF Waiting
  <2> HIDE DEF a, line, l
  <2>4. GoesOn(r)
    BY <1>1, <2>3 DEF Whole, GoesOn
  <2> HIDE DEF r
  <2> QED BY <2>1, <2>2, <2>4, BecomeTurn
<1> QED BY <1>2, <1>3

(* pipe *)
LEMMA PipeTurn ==
    ASSUME TurnOK, NEW p \in Pid, UNCHANGED startVars,
           PipeMakes(p) \/ PipeForks(p) \/ PipeSends(p) \/ PipeReceives(p)
    PROVE  TurnOK'
<1> DEFINE a == proc[p]
<1>1. Whole(a)
  BY DEF TurnOK
<1>2. CASE PipeMakes(p)
  <2> DEFINE o == PipeMade(a)
             l == IF o.pipefd # a.pipefd THEN "fork" ELSE "exit"
             r == [o EXCEPT !.pc = l]
  <2>1. At(p, "pipe", "main") /\ Become(p, r)
    BY <1>2, Zenon DEF PipeMakes
  <2>2. Moves(p)
    BY <2>1, AtMoves DEF Waiting
  <2>3. l \notin Waiting \cup {"none"}
    BY DEF Waiting
  <2>4. Whole(o)
    BY <1>1, PipeMadeGoes
  <2> HIDE DEF a, o, l
  <2>5. GoesOn(r)
    BY <2>3, <2>4 DEF Whole, GoesOn
  <2> HIDE DEF r
  <2> QED BY <2>1, <2>2, <2>5, BecomeTurn
<1>3. CASE PipeForks(p)
  <2>1. Moves(p) /\ proc[p].prog = "pipe" /\ Fork(p, "wait", "send")
    BY <1>3, AtMoves DEF PipeForks, Waiting
  <2>2. "wait" \in Waiting /\ "send" \notin Waiting \cup {"none"} /\ "pipe" \in Forkers
    BY DEF Waiting, Forkers
  <2> QED BY <2>1, <2>2, ForkTurn
<1>4. CASE PipeSends(p)
  <2> DEFINE r == [a EXCEPT !.fds = Closed(Closed(@, a.pipefd[1]), a.pipefd[2]), !.pc = "exit"]
  <2>1. At(p, "pipe", "send") /\ Become(p, r)
    BY <1>4, Zenon DEF PipeSends
  <2>2. Moves(p)
    BY <2>1, AtMoves DEF Waiting
  <2> HIDE DEF a
  <2>3. GoesOn(r)
    BY <1>1 DEF Whole, GoesOn, Waiting
  <2> HIDE DEF r
  <2> QED BY <2>1, <2>2, <2>3, BecomeTurn
<1>5. CASE PipeReceives(p)
  <2> DEFINE r == [a EXCEPT !.fds = Closed(@, a.pipefd[1]), !.pc = "exit"]
  <2>1. At(p, "pipe", "received") /\ Become(p, r)
    BY <1>5, Zenon DEF PipeReceives
  <2>2. Moves(p)
    BY <2>1, AtMoves DEF Waiting
  <2> HIDE DEF a
  <2>3. GoesOn(r)
    BY <1>1 DEF Whole, GoesOn, Waiting
  <2> HIDE DEF r
  <2> QED BY <2>1, <2>2, <2>3, BecomeTurn
<1> QED BY <1>2, <1>3, <1>4, <1>5

(* Nobody moves. *)
LEMMA SameTurn ==
    ASSUME TurnOK, UNCHANGED <<proc, initBegan>>
    PROVE  TurnOK'
BY DEF TurnOK, Moves

LEMMA ProcessTurn ==
    ASSUME TurnOK, NEW p \in Pid, ProcessStep(p), UNCHANGED startVars
    PROVE  TurnOK'
<1>1. CASE ExitProgram(p)
  <2>1. UNCHANGED <<proc, initBegan>>
    BY <1>1, Zenon DEF ExitProgram, startVars, shared
  <2> QED BY <2>1, SameTurn
<1>2. CASE CommandStep(p)
  BY <1>1, <1>2, EchoTurn, CatTurn, GrepTurn, PipeTurn DEF CommandStep
<1> QED BY <1>2, AnyTurn, LoginTurn, ReadsKeyTurn, ShellLineTurn, ShellForkTurn, ShellRunTurn,
           WaitTurn
        DEF ProcessStep

(* kernelMain(): the first process has the turn, and there is no other. *)
LEMMA BeginTurn ==
    ASSUME TurnOK, initMade <= 1, initMade \in Nat, NEW c \in Core, Begin(c)
    PROVE  TurnOK'
<1>1. initBegan = 0 /\ initBegan' = 1
  BY DEF Begin, BeginInit, TurnOK
<1> DEFINE z == [NoProcess EXCEPT !.fds = [f \in Fd |-> IF f <= 2 THEN Console ELSE NoFile]]
           r == Program(z, "init", <<<<"i", "n", "i", "t">>>>)
<1>2. proc' = [proc EXCEPT ![1] = r]
  BY DEF Begin, KernelMain
<1>3. GoesOn(r)
  BY ProgramGoes
<1> HIDE DEF r
<1>4. DOMAIN proc' = Pid /\ \A q \in Pid : proc'[q] = IF q = 1 THEN r ELSE proc[q]
  BY <1>2 DEF TurnOK
<1>5. \A q \in Pid : proc[q].pc = "none"
  BY <1>1 DEF TurnOK
<1>6. \A q \in Pid : Whole(proc'[q]) /\ proc'[q].pc \notin Waiting
  BY <1>3, <1>4, <1>5 DEF TurnOK, GoesOn, Waiting
<1>7. \A q \in Pid : Moves(q)' => q = 1
  BY <1>4, <1>5 DEF Moves
<1> QED BY <1>1, <1>4, <1>6, <1>7 DEF TurnOK

LEMMA TurnInit == Init => TurnOK
<1> SUFFICES ASSUME Init PROVE TurnOK
  OBVIOUS
<1>1. proc = [p \in Pid |-> NoProcess] /\ initBegan = 0
  BY DEF Init, ProgInit, StartInit
<1> QED BY <1>1, NoneWhole DEF TurnOK, Moves, Waiting

LEMMA TurnNext ==
    ASSUME TurnOK, MakeOK, initMade \in Nat, [Next]_vars
    PROVE  TurnOK'
<1>1. CASE Boots
  <2>1. PICK c \in Core : BootStep(c)
    BY <1>1 DEF Boots
  <2>2. initBegan' = initBegan
    BY <2>1 DEF BootStep, Reset, PickStack, KernelInit, Discover, MakeTools, Calibrate,
                CountFirst, Wake, Woken, AllWoken, Join, EnableLapic, PerCoreInit, StartTimer,
                LoadTss, EnableInterrupts, Arrive, MakeInit, SetUp, shared
  <2>3. proc' = proc
    BY <1>1 DEF Boots, progVars
  <2> QED BY <2>2, <2>3, SameTurn
<1>2. CASE Begins
  BY <1>2, BeginTurn DEF Begins, MakeOK
<1>3. CASE Runs
  BY <1>3, ProcessTurn DEF Runs
<1>4. CASE Typed
  <2>1. UNCHANGED <<proc, initBegan>>
    BY <1>4 DEF Typed, Types, startVars, shared
  <2> QED BY <2>1, SameTurn
<1>5. CASE UNCHANGED vars
  <2>1. UNCHANGED <<proc, initBegan>>
    BY <1>5 DEF vars, startVars, shared, progVars
  <2> QED BY <2>1, SameTurn
<1> QED BY <1>1, <1>2, <1>3, <1>4, <1>5 DEF Next

(* One process at a time is not waiting: a key goes to the program that    *)
(* prompted, and no two programs print at once, though the kernel runs     *)
(* processes in any order and has no idea of a foreground.  It is the      *)
(* wait() behind every fork() of init.c, login.c, our_shell.c and pipe.c   *)
(* that makes it so, with the one init thread of InitWhenReady.            *)
THEOREM OneReaderAtATime ==
    ASSUME \A f \in Firmware : DescribesMachine(f)
    PROVE  Spec => []OneReader
<1>1. Init => TurnOK
  BY TurnInit
<1>2. StartInit => Ready
  BY ReadyInit
<1>3. Ready /\ [StartNext]_startVars => Ready'
  BY ReadyNext
<1>4. TurnOK /\ Ready /\ [Next]_vars => TurnOK'
  BY TurnNext DEF Ready, Inv, StartTypeOK
<1>5. TurnOK => OneReader
  BY DEF TurnOK, Moves, OneReader
<1> QED BY <1>1, <1>2, <1>3, <1>4, <1>5, SpecOfStartup, PTL DEF Spec
=============================================================================
