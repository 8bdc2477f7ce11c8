------------------------- MODULE InterruptSafeLock -------------------------
(***************************************************************************)
(* InterruptSafeLock of kernel/atomic.h, instruction by instruction.       *)
(*                                                                         *)
(* A core executes a thread or, on top of it, the handler of an interrupt  *)
(* that came while its interrupts were on.  Both call lock() and unlock()  *)
(* of the same lock: the timer handler yields, and yield() uses readyQ.    *)
(* The lock keeps what unlock() has to restore in its field `was', which   *)
(* all cores share.                                                        *)
(***************************************************************************)
EXTENDS Naturals, FiniteSets

CONSTANT Core

Level == {"thread", "handler"}
Context == Core \X Level

VARIABLES
    interrupts,     \* [Core -> BOOLEAN]: the IF flag
    inHandler,      \* [Core -> BOOLEAN]: an interrupt handler runs on the core
    taken, was,     \* the lock's fields
    pc,             \* [Context -> Label]
    wasDisabled,    \* [Context -> BOOLEAN]: the local of lock() and unlock()
    wanted          \* [Core -> BOOLEAN]: the IF flag the thread's own code set

cpu == <<interrupts, inHandler, wanted>>
lockVars == <<cpu, taken, was, pc, wasDisabled>>

(* The context whose instructions core c executes. *)
Me(c) == <<c, IF inHandler[c] THEN "handler" ELSE "thread">>

At(c, l) == pc[Me(c)] = l
Goto(c, l) == pc' = [pc EXCEPT ![Me(c)] = l]

LockInit ==
    /\ \E b \in BOOLEAN : interrupts = [c \in Core |-> b]
    /\ inHandler = [c \in Core |-> FALSE]
    /\ taken = FALSE
    /\ was = FALSE
    /\ pc = [x \in Context |-> "out"]
    /\ wasDisabled = [x \in Context |-> FALSE]
    /\ wanted = interrupts

-----------------------------------------------------------------------------
(* MUTATION of Disable: the flag is read but not changed. *)
Disable_NoCli(c) ==
    /\ At(c, "disable")
    /\ wasDisabled' = [wasDisabled EXCEPT ![Me(c)] = ~interrupts[c]]
    /\ Goto(c, "exchange")
    /\ UNCHANGED <<cpu, taken, was>>

(* lock(): Interrupts::disable().  An interrupt between its read of the    *)
(* flag and its cli returns with the flag as it was: one step.             *)
Disable(c) ==
    /\ At(c, "disable")
    /\ wasDisabled' = [wasDisabled EXCEPT ![Me(c)] = ~interrupts[c]]
    /\ interrupts' = [interrupts EXCEPT ![c] = FALSE]
    /\ Goto(c, "exchange")
    /\ UNCHANGED <<inHandler, wanted, taken, was>>

(* MUTATION of Exchange: the lock is not looked at. *)
Exchange_Blind(c) ==
    /\ At(c, "exchange")
    /\ taken' = TRUE
    /\ Goto(c, "store")
    /\ UNCHANGED <<cpu, was, wasDisabled>>

(* taken.exchange(true) *)
Exchange(c) ==
    /\ At(c, "exchange")
    /\ taken' = TRUE
    /\ Goto(c, IF taken THEN "spin" ELSE "store")
    /\ UNCHANGED <<cpu, was, wasDisabled>>

(* It failed: restore the flag, and again. *)
Spin(c) ==
    /\ At(c, "spin")
    /\ interrupts' = [interrupts EXCEPT ![c] = @ \/ ~wasDisabled[Me(c)]]
    /\ Goto(c, "disable")
    /\ UNCHANGED <<inHandler, wanted, taken, was, wasDisabled>>

(* It succeeded: was = wasDisabled. *)
Store(c) ==
    /\ At(c, "store")
    /\ was' = wasDisabled[Me(c)]
    /\ Goto(c, "in")
    /\ UNCHANGED <<cpu, taken, wasDisabled>>

(* unlock(): its copy of `was'. *)
Fetch(c) ==
    /\ At(c, "unlock")
    /\ wasDisabled' = [wasDisabled EXCEPT ![Me(c)] = was]
    /\ Goto(c, "release")
    /\ UNCHANGED <<cpu, taken, was>>

(* taken.set(false) *)
Release(c) ==
    /\ At(c, "release")
    /\ taken' = FALSE
    /\ Goto(c, "restore")
    /\ UNCHANGED <<cpu, was, wasDisabled>>

(* MUTATION of Restore: unlock() reads `was' after the release. *)
Restore_Late(c) ==
    /\ At(c, "restore")
    /\ interrupts' = [interrupts EXCEPT ![c] = @ \/ ~was]
    /\ Goto(c, "out")
    /\ UNCHANGED <<inHandler, wanted, taken, was, wasDisabled>>

(* Interrupts::restore *)
Restore(c) ==
    /\ At(c, "restore")
    /\ interrupts' = [interrupts EXCEPT ![c] = @ \/ ~wasDisabled[Me(c)]]
    /\ Goto(c, "out")
    /\ UNCHANGED <<inHandler, wanted, taken, was, wasDisabled>>

LockStep(c) ==
    \/ Disable(c) \/ Exchange(c) \/ Spin(c) \/ Store(c)
    \/ Fetch(c) \/ Release(c) \/ Restore(c)

-----------------------------------------------------------------------------
(* The code around the lock *)

(* An interrupt comes; its gate turns interrupts off (idt.cc:18). *)
Interrupt(c) ==
    /\ interrupts[c]
    /\ ~inHandler[c]
    /\ inHandler' = [inHandler EXCEPT ![c] = TRUE]
    /\ interrupts' = [interrupts EXCEPT ![c] = FALSE]
    /\ UNCHANGED <<wanted, taken, was, pc, wasDisabled>>

(* The iret of the handler: they were on. *)
Return(c) ==
    /\ inHandler[c]
    /\ At(c, "out")
    /\ inHandler' = [inHandler EXCEPT ![c] = FALSE]
    /\ interrupts' = [interrupts EXCEPT ![c] = TRUE]
    /\ UNCHANGED <<wanted, taken, was, pc, wasDisabled>>

(* A thread turns interrupts off or on itself, around a context switch. *)
Toggle(c) ==
    /\ ~inHandler[c]
    /\ At(c, "out")
    /\ interrupts' = [interrupts EXCEPT ![c] = ~@]
    /\ wanted' = [wanted EXCEPT ![c] = ~interrupts[c]]
    /\ UNCHANGED <<inHandler, taken, was, pc, wasDisabled>>

Environment(c) == Interrupt(c) \/ Return(c) \/ Toggle(c)

(* What a core does with the lock is up to the module that extends this    *)
(* one: it goes from label "in" to label "unlock".                         *)
Call(c) ==
    /\ At(c, "out")
    /\ Goto(c, "disable")
    /\ UNCHANGED <<cpu, taken, was, wasDisabled>>

-----------------------------------------------------------------------------
(* Properties *)

Holds(x) == pc[x] \notin {"out", "disable", "exchange", "spin", "restore"}

(* One context holds the lock, counting the thread under a handler on the  *)
(* same core, and it is marked taken exactly then; and the holder cannot   *)
(* be interrupted: a handler never waits for the thread under it.          *)
MutualExclusion ==
    /\ \A x, y \in Context : Holds(x) /\ Holds(y) => x = y
    /\ taken <=> \E x \in Context : Holds(x)
    /\ \A c \in Core : Holds(<<c, "thread">>) => ~inHandler[c]

(* unlock() leaves the IF flag as the caller of lock() had it, although    *)
(* `was' is one field for all cores: off in a handler.                     *)
RestoresInterrupts ==
    \A c \in Core : At(c, "out") => interrupts[c] = (wanted[c] /\ ~inHandler[c])
=============================================================================
