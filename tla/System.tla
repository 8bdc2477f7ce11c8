------------------------------ MODULE System -------------------------------
(***************************************************************************)
(* The whole way from reset to a shell's prompt and around it: the cores   *)
(* start as in Startup, and the core that takes the init thread calls      *)
(* kernelMain(), from which on processes run as in Shell.                  *)
(***************************************************************************)
EXTENDS Startup, Shell

vars == <<startVars, progVars>>

Init == StartInit /\ ProgInit

(* The first process begins with the thread that the last core made. *)
Begin(c) == BeginInit(c) /\ KernelMain

Boots    == (\E c \in Core : BootStep(c)) /\ UNCHANGED progVars
Begins   == \E c \in Core : Begin(c)
Runs     == (\E p \in Pid : ProcessStep(p)) /\ UNCHANGED startVars

Typed    == (\E p \in Pid : Types(p)) /\ UNCHANGED startVars

Next == Boots \/ Begins \/ Runs \/ Typed

(* Some core that can go on does, and some process that is ready: cores    *)
(* have no reason to stop, and the scheduler's queue is first in, first    *)
(* out.  The user may stop.                                                *)
Spec ==
    /\ Init /\ [][Next]_vars
    /\ WF_vars(Boots) /\ WF_vars(Begins) /\ WF_vars(Runs)
=============================================================================
