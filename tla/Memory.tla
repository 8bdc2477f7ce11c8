------------------------------- MODULE Memory -------------------------------
(***************************************************************************)
(* Physical frames (kernel/physmem.cc) and the private part of address     *)
(* spaces (kernel/vmm.cc): page faults, fork(), exec() and the deletion of *)
(* a process, each in the steps between which other processes allocate and *)
(* free frames.  A process has one thread, and while that is in the kernel *)
(* nobody else reads or writes its tables.                                 *)
(***************************************************************************)
EXTENDS Naturals, FiniteSets

CONSTANTS
    Process,        \* page directories there may be at a time
    Initial,        \* kernelProcess
    Dirs, Entries,  \* the private page tables, and the entries of each
    Frame,          \* the physical frames of alloc_frame()
    Device,         \* the frame of the APICs, which is none of them
    None,           \* neither
    Value, Zero,    \* what a page may hold
    Linked,         \* what a frame that is free reads as: its `next'
    Choice(_)       \* of a set of free frames, those alloc_frame() may return

ASSUME MemoryAssumption ==
    /\ Initial \in Process
    /\ Dirs \in Nat \ {0} /\ Entries \in Nat \ {0}
    /\ Device \notin Frame /\ None \notin Frame \cup {Device}
    /\ Zero \in Value /\ Linked \in Value
    /\ \A S \in SUBSET Frame : Choice(S) \subseteq S /\ (S # {} => Choice(S) # {})

Dir == 1 .. Dirs
Address == Dir \X (1 .. Entries)
Special == <<Dirs, Entries>>        \* the I/O and local APIC: one page here

(* The region of the APICs: make_pd() has map() make its page table, and   *)
(* for them without the bit that lets programs in (0x3, not 0x7).  That    *)
(* entry of the directory stays until it is deleted, whatever map() writes *)
(* into the table.                                                         *)
Supervisor(a) == a[1] = Special[1]
Page == {a \in Address : ~Supervisor(a)}    \* what programs can use

VARIABLES
    free,       \* SUBSET Frame: the free list, and what lies above `avail'
    content,    \* [Frame -> Value]
    pd,         \* [Process -> Frame \cup {None}]
    pde,        \* [Process -> [Dir -> Frame \cup {None}]]: its page tables
    pte,        \* [Process -> [Address -> Frame \cup {Device, None}]]
    pc,         \* [Process -> Label]: what its thread does, or a fork() of it
    at,         \* [Process -> Address]: the entry of the loop it is in
    frame,      \* [Process -> Frame \cup {None}]: `pa' of vmm_pageFault
    child,      \* [Process -> Process]: `child' of fork()
    panic       \* BOOLEAN: the kernel has panicked

tables == <<pd, pde, pte>>
locals == <<at, frame, child>>
vars == <<free, content, tables, pc, locals, panic>>

First == <<1, 1>>
Following(a) == IF a[2] < Entries THEN <<a[1], a[2] + 1>> ELSE <<a[1] + 1, 1>>

Goto(p, l) == pc' = [pc EXCEPT ![p] = l]

(* MUTATION of AllocFrame: the frame is not cleared. *)
AllocFrame_Dirty(f) ==
    /\ f \in Choice(free)
    /\ free' = free \ {f}
    /\ UNCHANGED content

(* alloc_frame(), under the lock of physmem.cc. *)
AllocFrame(f) ==
    /\ f \in Choice(free)
    /\ free' = free \ {f}
    /\ content' = [content EXCEPT ![f] = Zero]

DeallocFrame(f) ==
    /\ free' = free \cup {f}
    /\ content' = [content EXCEPT ![f] = Linked]

NoTables == [d \in Dir |-> None]
NoEntries == [a \in Address |-> None]

Init ==
    \E f \in Choice(Frame) : \E g \in Choice(Frame \ {f}) :
        /\ free = Frame \ {f, g}
        /\ content = [x \in Frame |-> IF x \in {f, g} THEN Zero ELSE Linked]
        /\ pd = [p \in Process |-> IF p = Initial THEN f ELSE None]
        /\ pde = [p \in Process |->
                    IF p = Initial THEN [NoTables EXCEPT ![Dirs] = g] ELSE NoTables]
        /\ pte = [p \in Process |->
                    IF p = Initial THEN [NoEntries EXCEPT ![Special] = Device]
                    ELSE NoEntries]
        /\ pc = [p \in Process |-> IF p = Initial THEN "user" ELSE "none"]
        /\ at = [p \in Process |-> First]
        /\ frame = [p \in Process |-> None]
        /\ child = [p \in Process |-> p]
        /\ panic = FALSE

-----------------------------------------------------------------------------
(* A program, and vmm_pageFault *)

(* What the kernel stores for a program in the APICs' region no program    *)
(* can read: left out.                                                     *)
Store(p, a, v) ==
    /\ pc[p] = "user"
    /\ pte[p][a] # None /\ ~Supervisor(a)
    /\ content' = [content EXCEPT ![pte[p][a]] = v]
    /\ UNCHANGED <<free, tables, pc, locals>>

(* A page that is not present is touched, or one that is out of the        *)
(* program's reach: vmm_pageFault, which does not look at the error code,  *)
(* takes a frame for it.                                                   *)
Faults(p, a) == pte[p][a] = None \/ Supervisor(a)

Fault(p, a) ==
    /\ pc[p] = "user"
    /\ Faults(p, a)
    /\ \E f \in Frame :
          /\ AllocFrame(f)
          /\ frame' = [frame EXCEPT ![p] = f]
    /\ at' = [at EXCEPT ![p] = a]
    /\ Goto(p, "map")
    /\ UNCHANGED <<tables, child>>

(* map(): without a page table, it first takes a frame for one. *)
MapTable(p) ==
    /\ pc[p] = "map"
    /\ pde[p][at[p][1]] = None
    /\ \E f \in Frame :
          /\ AllocFrame(f)
          /\ pde' = [pde EXCEPT ![p][at[p][1]] = f]
    /\ UNCHANGED <<pd, pte, pc, locals>>

(* What the entry held is forgotten.  In the APICs' region the program     *)
(* faults again, and again, until there is no frame left.                  *)
Map(p) ==
    /\ pc[p] = "map"
    /\ pde[p][at[p][1]] # None
    /\ pte' = [pte EXCEPT ![p][at[p]] = frame[p]]
    /\ frame' = [frame EXCEPT ![p] = None]
    /\ Goto(p, "user")
    /\ UNCHANGED <<free, content, pd, pde, at, child>>

-----------------------------------------------------------------------------
(* Process::fork *)

(* make_pd(): the directory, a copy of the shared half of it ... *)
Fork(p, q) ==
    /\ pc[p] = "user"
    /\ pc[q] = "none"
    /\ \E f \in Frame :
          /\ AllocFrame(f)
          /\ pd' = [pd EXCEPT ![q] = f]
    /\ pc' = [pc EXCEPT ![p] = "make_pd", ![q] = "new"]
    /\ child' = [child EXCEPT ![p] = q]
    /\ UNCHANGED <<pde, pte, at, frame>>

(* ... and the APICs, with a page table for them. *)
MakePd(p) ==
    /\ pc[p] = "make_pd"
    /\ \E f \in Frame :
          /\ AllocFrame(f)
          /\ pde' = [pde EXCEPT ![child[p]][Dirs] = f]
    /\ pte' = [pte EXCEPT ![child[p]][Special] = Device]
    /\ at' = [at EXCEPT ![p] = First]
    /\ Goto(p, "fork")
    /\ UNCHANGED <<pd, frame, child>>

(* The entries the loop passes over, and the page tables it lacks. *)
Missing(p) == pde[p][at[p][1]] # None /\ pde[child[p]][at[p][1]] = None
ToCopy(p) ==
    /\ pde[p][at[p][1]] # None
    /\ pte[child[p]][at[p]] = None
    /\ pte[p][at[p]] # None

ForkTable(p) ==
    /\ pc[p] = "fork"
    /\ at[p][1] \in Dir
    /\ Missing(p)
    /\ \E f \in Frame :
          /\ AllocFrame(f)
          /\ pde' = [pde EXCEPT ![child[p]][at[p][1]] = f]
    /\ UNCHANGED <<pd, pte, pc, locals>>

(* MUTATION of ForkPage: the child gets the page itself. *)
ForkPage_Shares(p) ==
    /\ pc[p] = "fork"
    /\ at[p][1] \in Dir
    /\ ~Missing(p) /\ ToCopy(p)
    /\ pte' = [pte EXCEPT ![child[p]][at[p]] = pte[p][at[p]]]
    /\ at' = [at EXCEPT ![p] = Following(@)]
    /\ UNCHANGED <<free, content, pd, pde, pc, frame, child>>

ForkPage(p) ==
    /\ pc[p] = "fork"
    /\ at[p][1] \in Dir
    /\ ~Missing(p) /\ ToCopy(p)
    /\ \E f \in Choice(free) :
          /\ free' = free \ {f}
          /\ content' = [content EXCEPT ![f] = content[pte[p][at[p]]]]
          /\ pte' = [pte EXCEPT ![child[p]][at[p]] = f]
    /\ at' = [at EXCEPT ![p] = Following(@)]
    /\ UNCHANGED <<pd, pde, pc, frame, child>>

ForkSkip(p) ==
    /\ pc[p] = "fork"
    /\ at[p][1] \in Dir
    /\ ~Missing(p) /\ ~ToCopy(p)
    /\ at' = [at EXCEPT ![p] = Following(@)]
    /\ UNCHANGED <<free, content, tables, pc, frame, child>>

(* The child's thread is scheduled. *)
Forked(p) ==
    /\ pc[p] = "fork"
    /\ at[p][1] \notin Dir
    /\ pc' = [pc EXCEPT ![p] = "user", ![child[p]] = "user"]
    /\ at' = [at EXCEPT ![p] = First]
    /\ child' = [child EXCEPT ![p] = p]
    /\ UNCHANGED <<free, content, tables, frame>>

-----------------------------------------------------------------------------
(* delete_private, in exec(); delete_pd, when the last reference to the    *)
(* process goes: after the end of its thread, and never for kernelProcess. *)

Exec(p) ==
    /\ pc[p] = "user"
    /\ at' = [at EXCEPT ![p] = First]
    /\ Goto(p, "clear")
    /\ UNCHANGED <<free, content, tables, frame, child>>

Exit(p) ==
    /\ p # Initial
    /\ pc[p] = "user"
    /\ at' = [at EXCEPT ![p] = First]
    /\ Goto(p, "delete")
    /\ UNCHANGED <<free, content, tables, frame, child>>

Deletes(p) == pc[p] \in {"clear", "delete"} /\ at[p][1] \in Dir

IsSpecial(a) == a = Special

(* Without a page table there is nothing to do. *)
PassTable(p) ==
    /\ Deletes(p)
    /\ pde[p][at[p][1]] = None
    /\ at' = [at EXCEPT ![p] = <<@[1] + 1, 1>>]
    /\ UNCHANGED <<free, content, tables, pc, frame, child>>

DropPage(p) ==
    LET a == at[p] IN
    /\ Deletes(p)
    /\ pde[p][a[1]] # None
    /\ a[2] <= Entries
    /\ IF IsSpecial(a) \/ pte[p][a] = None
       THEN UNCHANGED <<free, content, pte>>
       ELSE DeallocFrame(pte[p][a]) /\ pte' = [pte EXCEPT ![p][a] = None]
    /\ at' = [at EXCEPT ![p] = <<a[1], a[2] + 1>>]
    /\ UNCHANGED <<pd, pde, pc, frame, child>>

(* MUTATION of KeepsTable: delete_private gives every page table back. *)
KeepsTable_No(p, d) == FALSE

(* MUTATION of KeepsTable: delete_pd keeps one, as delete_private does. *)
KeepsTable_Always(p, d) == \E i \in 1 .. Entries : IsSpecial(<<d, i>>)

KeepsTable(p, d) == pc[p] = "clear" /\ \E i \in 1 .. Entries : IsSpecial(<<d, i>>)

DropTable(p) ==
    LET d == at[p][1] IN
    /\ Deletes(p)
    /\ pde[p][d] # None
    /\ at[p][2] > Entries
    /\ IF KeepsTable(p, d)
       THEN UNCHANGED <<free, content, pde, pte>>
       ELSE /\ DeallocFrame(pde[p][d])
            /\ pde' = [pde EXCEPT ![p][d] = None]
            /\ pte' = [pte EXCEPT ![p] = [a \in Address |-> IF a[1] = d THEN None ELSE @[a]]]
    /\ at' = [at EXCEPT ![p] = <<d + 1, 1>>]
    /\ UNCHANGED <<pd, pc, frame, child>>

(* exec() goes on to load the new program, which faults like any other. *)
Cleared(p) ==
    /\ pc[p] = "clear"
    /\ at[p][1] \notin Dir
    /\ at' = [at EXCEPT ![p] = First]
    /\ Goto(p, "user")
    /\ UNCHANGED <<free, content, tables, frame, child>>

Deleted(p) ==
    /\ pc[p] = "delete"
    /\ at[p][1] \notin Dir
    /\ DeallocFrame(pd[p])
    /\ pd' = [pd EXCEPT ![p] = None]
    /\ at' = [at EXCEPT ![p] = First]
    /\ Goto(p, "none")
    /\ UNCHANGED <<pde, pte, frame, child>>

-----------------------------------------------------------------------------
(* "no more frames": the kernel panics, and nobody does anything. *)
WantsFrame(p) ==
    \/ pc[p] = "user" /\ \E a \in Address : Faults(p, a)
    \/ pc[p] = "user" /\ \E q \in Process : pc[q] = "none"
    \/ pc[p] = "map" /\ pde[p][at[p][1]] = None
    \/ pc[p] = "make_pd"
    \/ pc[p] = "fork" /\ at[p][1] \in Dir /\ (Missing(p) \/ ToCopy(p))

NoMoreFrames(p) ==
    /\ WantsFrame(p)
    /\ free = {}
    /\ panic' = TRUE
    /\ UNCHANGED <<free, content, tables, pc, locals>>

Step(p) ==
    \/ \E a \in Address : Fault(p, a) \/ \E v \in Value : Store(p, a, v)
    \/ MapTable(p) \/ Map(p)
    \/ \E q \in Process : Fork(p, q)
    \/ MakePd(p) \/ ForkTable(p) \/ ForkPage(p) \/ ForkSkip(p) \/ Forked(p)
    \/ Exec(p) \/ Exit(p)
    \/ PassTable(p) \/ DropPage(p) \/ DropTable(p) \/ Cleared(p) \/ Deleted(p)

Next ==
    /\ ~panic
    /\ \E p \in Process :
          \/ Step(p) /\ UNCHANGED panic
          \/ NoMoreFrames(p)

Spec == Init /\ [][Next]_vars

-----------------------------------------------------------------------------
(* Properties *)

(* What a frame may be used for: a page directory, a page table, a page,   *)
(* or the page a fault is about to map.                                    *)
Use ==
    ({"pd", "fault"} \X Process) \cup ({"pt"} \X Process \X Dir)
    \cup ({"page"} \X Process \X Address)

FrameOf(u) ==
    CASE u[1] = "pd"    -> pd[u[2]]
      [] u[1] = "fault" -> frame[u[2]]
      [] u[1] = "pt"    -> pde[u[2]][u[3]]
      [] u[1] = "page"  -> pte[u[2]][u[3]]

Used(f) == \E u \in Use : FrameOf(u) = f
OfRegion(f) == \E p \in Process, a \in Address : Supervisor(a) /\ pte[p][a] = f

(* One use at most, and none while free. *)
UsedOnce ==
    \A f \in Frame : Cardinality({u \in Use : FrameOf(u) = f}) <= IF f \in free THEN 0 ELSE 1

(* Neither free nor of any use only after the APICs' region had it, where  *)
(* map() forgets what it overwrites, and delete_pd what is at the APICs'   *)
(* own address.                                                            *)
NoneLost == \A f \in Frame : f \in free \/ Used(f) => f \in free' \/ Used(f)' \/ OfRegion(f)

(* No two processes have a frame in common, no page is a page table too,   *)
(* none is freed while in use or freed twice, and every frame that fork,   *)
(* exec, a fault or an exit takes is given back, but those of the APICs'   *)
(* region.                                                                 *)
FramesAccounted == []UsedOnce /\ [][NoneLost]_vars

(* A process whose memory a program may see, or see again. *)
Shown(p) == pc[p] \notin {"none", "new", "delete"}

Devices(p) == pde[p][Dirs] # None /\ pte[p][Special] = Device

(* The APICs, where the next interrupt is acknowledged, are mapped in a    *)
(* process from its first instruction on, be its parent's mapped or not,   *)
(* and stay so over exec() and all that others do: only the process's own  *)
(* touch of their address takes them away.                                 *)
NoneUnmapped ==
    \A p \in Process : Shown(p)' /\ ~Devices(p)' =>
        \/ Shown(p) /\ ~Devices(p)
        \/ pc[p] = "map" /\ at[p] = Special
OnlyOwnTouchUnmapsDevices == [][NoneUnmapped]_vars

Mode(p) ==
    CASE pc[p] = "user" -> "user"
      [] pc[p] = "clear" -> "exec"
      [] pc[p] \in {"map", "make_pd", "fork"} -> "kernel"
      [] OTHER -> "none"

Read(p, a) == IF pte[p][a] = None THEN Zero ELSE content[pte[p][a]]

Modes == [p \in Process |-> Mode(p)]
Views == [p \in Process |-> IF Shown(p) THEN [a \in Page |-> Read(p, a)] ELSE <<>>]

Spaces == INSTANCE AddressSpaces WITH mode <- Modes, view <- Views

(* Programs see memory of their own, zero at first, copied by fork() and   *)
(* emptied by exec(), although frames pass from process to process.        *)
ImplementsAddressSpaces == Spaces!Spec
=============================================================================
