----------------------------- MODULE Processes -----------------------------
(***************************************************************************)
(* Processes and their system calls (kernel/process.h, process.cc, sys.cc):*)
(* the tables of files, semaphores and children, which fork() copies and   *)
(* the other calls change, with the reference counts of Shared<T> that     *)
(* decide when an object goes.  Every process has one thread.              *)
(*                                                                         *)
(* An id of the system calls is its kind and its index; here it is the     *)
(* slot itself.                                                            *)
(***************************************************************************)
EXTENDS Semaphores, FiniteSets

CONSTANTS
    Process,                \* the Process objects there may be at a time
    Initial,                \* the process that kernelInit makes
    NFILE, NSEM, NCHILD,    \* slots of each kind
    File, SemObject, Future,    \* bounds: the objects there may be at a time
    Console,                \* the file of the console
    MaxCount,               \* bound: the value of a semaphore
    Choice(_),              \* of the objects there may be, those `new' may return
    null

ASSUME ProcessesAssumption ==
    /\ IsFiniteSet(Process)
    /\ Initial \in Process /\ Console \in File
    /\ NFILE \in Nat \ {0} /\ NSEM \in Nat /\ NCHILD \in Nat /\ MaxCount \in Nat
    /\ File \cap Future = {}
    /\ null \notin File \cup SemObject \cup Future
    /\ \A S \in (SUBSET Process) \cup SUBSET (File \cup SemObject \cup Future) :
           Choice(S) \subseteq S

Object == File \cup SemObject \cup Future

FileSlot == {"file"} \X (0 .. NFILE - 1)
SemSlot == {"sem"} \X (0 .. NSEM - 1)
ChildSlot == {"child"} \X (0 .. NCHILD - 1)
Slot == FileSlot \cup SemSlot \cup ChildSlot
BadId == <<"bad", 0>>       \* any id that names no slot
Id == Slot \cup {BadId}

VARIABLES
    table,      \* [Process -> [Slot -> Object \cup {null}]]: files, sems, children
    output,     \* [Process -> Future \cup {null}]
    ref_count,  \* [Object -> Nat]
    made,       \* SUBSET Object: those that are allocated
    sem,        \* [SemObject -> Semaphore]
    isReady,    \* SUBSET Future: those that are set
    proc_refs,  \* [Process -> Nat]: the process's own ref_count
    pc,         \* [Process -> Label]: where its thread is
    held,       \* [Process -> Object \cup {null}]: a Shared<> local of its call
    todo,       \* [Process -> SUBSET Slot]: what a loop has yet to visit
    child,      \* [Process -> Process]: `child' of the system call fork
    initProc    \* SUBSET Process: the one that kernelInit's local refers to

objects == <<ref_count, made>>
threads == <<pc, held, todo, child>>
vars == <<table, output, objects, sem, isReady, proc_refs, threads, initProc>>

Empty == [s \in Slot |-> null]

(* The last core to start has made the first process and its thread, and  *)
(* is still in kernelInit.                                                 *)
Init ==
    /\ table = [p \in Process |->
                  [s \in Slot |-> IF p = Initial /\ s \in {"file"} \X (0 .. 2)
                                  THEN Console ELSE null]]
    /\ \E f \in Future :
          /\ output = [p \in Process |-> IF p = Initial THEN f ELSE null]
          /\ made = {Console, f}
          /\ ref_count = [o \in Object |->
                IF o = f THEN 1
                ELSE IF o = Console THEN Cardinality(FileSlot \cap ({"file"} \X (0 .. 2)))
                ELSE 0]
    /\ sem = [s \in SemObject |-> Sem(0)]
    /\ isReady = {}
    /\ proc_refs = [p \in Process |-> IF p = Initial THEN 2 ELSE 0]
    /\ pc = [p \in Process |-> IF p = Initial THEN "user" ELSE "none"]
    /\ held = [p \in Process |-> null]
    /\ todo = [p \in Process |-> {}]
    /\ child = [p \in Process |-> p]
    /\ initProc = {Initial}

-----------------------------------------------------------------------------
(* Shared<T>: add() and drop(), which deletes the object at zero. *)

Add(count, o) == IF o = null THEN count ELSE [count EXCEPT ![o] = @ + 1]
Drop(count, o) == IF o = null THEN count ELSE [count EXCEPT ![o] = @ - 1]

(* The counts after a step that allocates the objects of fresh. *)
Recount(count, fresh) ==
    /\ ref_count' = count
    /\ made' = {o \in made \cup fresh : ~(ref_count[o] > 0 /\ count[o] = 0)}

(* A step of p's thread from label l to label m. *)
Step(p, l, m) ==
    /\ pc[p] = l
    /\ pc' = [pc EXCEPT ![p] = m]

FirstFree(p, kind, n) ==
    {<<kind, i>> : i \in {j \in 0 .. n - 1 :
        /\ table[p][<<kind, j>>] = null
        /\ \A k \in 0 .. j - 1 : table[p][<<kind, k>>] # null}}

-----------------------------------------------------------------------------
(* The calls that work on p's own tables at once *)

(* sem(initial): with all slots taken it makes nothing. *)
NewSemaphore(p) ==
    /\ Step(p, "user", "user")
    /\ \E s \in FirstFree(p, "sem", NSEM), o \in Choice(SemObject \ made), n \in 0 .. MaxCount :
          /\ table' = [table EXCEPT ![p][s] = o]
          /\ sem' = [sem EXCEPT ![o] = Sem(n)]
          /\ Recount(Add(ref_count, o), {o})
    /\ UNCHANGED <<output, isReady, proc_refs, held, todo, child, initProc>>

(* up(id): it takes the semaphore from its slot three times over. *)
Up(p, id) ==
    /\ Step(p, "user", "user")
    /\ id \in SemSlot /\ table[p][id] # null
    /\ sem[table[p][id]].value < MaxCount
    /\ sem' = [sem EXCEPT ![table[p][id]] = Upped(@)]
    /\ UNCHANGED <<table, output, objects, isReady, proc_refs, held, todo, child, initProc>>

(* close(id): a file, a semaphore or a child, and -1 for anything else. *)
Close(p, id) ==
    /\ Step(p, "user", "user")
    /\ id \in Slot /\ table[p][id] # null
    /\ table' = [table EXCEPT ![p][id] = null]
    /\ Recount(Drop(ref_count, table[p][id]), {})
    /\ UNCHANGED <<output, sem, isReady, proc_refs, held, todo, child, initProc>>

(* open(): a new ActualFile, in the first free slot if there is one. *)
Open(p) ==
    /\ Step(p, "user", "user")
    /\ \E s \in FirstFree(p, "file", NFILE), o \in Choice(File \ made) :
          /\ table' = [table EXCEPT ![p][s] = o]
          /\ Recount(Add(ref_count, o), {o})
    /\ UNCHANGED <<output, sem, isReady, proc_refs, held, todo, child, initProc>>

(* dup2(old, new) with different slots, the new one closed before. *)
Dup2(p, old, new) ==
    /\ Step(p, "user", "user")
    /\ old # new
    /\ old \in FileSlot /\ new \in FileSlot /\ table[p][old] # null
    /\ table' = [table EXCEPT ![p][new] = table[p][old]]
    /\ Recount(Add(Drop(ref_count, table[p][new]), table[p][old]), {})
    /\ UNCHANGED <<output, sem, isReady, proc_refs, held, todo, child, initProc>>

(* pipe(): a file for each end.  If only the first finds a slot it stays.  *)
Pipe(p) ==
    /\ Step(p, "user", "user")
    /\ \E r \in Choice(File \ made), s \in FirstFree(p, "file", NFILE) :
       \E w \in Choice(File \ (made \cup {r})) :
          LET ends == {i \in 0 .. NFILE - 1 : i > s[2] /\ table[p][<<"file", i>>] = null}
          IN  IF ends = {}
              THEN /\ table' = [table EXCEPT ![p][s] = r]
                   /\ Recount(Add(ref_count, r), {r})
              ELSE \E i \in ends :
                      /\ \A j \in ends : i <= j
                      /\ table' = [table EXCEPT ![p][s] = r, ![p][<<"file", i>>] = w]
                      /\ Recount(Add(Add(ref_count, r), w), {r, w})
    /\ UNCHANGED <<output, sem, isReady, proc_refs, held, todo, child, initProc>>

-----------------------------------------------------------------------------
(* The calls that may wait hold a reference of their own meanwhile *)

Hold(p, o) ==
    /\ held' = [held EXCEPT ![p] = o]
    /\ Recount(Add(ref_count, o), {})

Release(p) ==
    /\ held' = [held EXCEPT ![p] = null]
    /\ Recount(Drop(ref_count, held[p]), {})

(* read(), write(), len(), seek(): the file may make them wait. *)
UseFile(p, id) ==
    /\ Step(p, "user", "file")
    /\ id \in FileSlot /\ table[p][id] # null
    /\ Hold(p, table[p][id])
    /\ UNCHANGED <<table, output, sem, isReady, proc_refs, todo, child, initProc>>

UsedFile(p) ==
    /\ Step(p, "file", "user")
    /\ Release(p)
    /\ UNCHANGED <<table, output, sem, isReady, proc_refs, todo, child, initProc>>

Down(p, id) ==
    /\ Step(p, "user", "down")
    /\ id \in SemSlot /\ table[p][id] # null
    /\ sem' = [sem EXCEPT ![table[p][id]] = Downed(@, p)]
    /\ Hold(p, table[p][id])
    /\ UNCHANGED <<table, output, isReady, proc_refs, todo, child, initProc>>

DownReturn(p) ==
    /\ Step(p, "down", "user")
    /\ ~BlockedOn(sem[held[p]], p)
    /\ Release(p)
    /\ UNCHANGED <<table, output, sem, isReady, proc_refs, todo, child, initProc>>

(* wait(id): Future::get, and the child is forgotten. *)
Wait(p, id) ==
    /\ Step(p, "user", "wait")
    /\ id \in ChildSlot /\ table[p][id] # null
    /\ Hold(p, table[p][id])
    /\ todo' = [todo EXCEPT ![p] = {id}]
    /\ UNCHANGED <<table, output, sem, isReady, proc_refs, child, initProc>>

WaitReturn(p) ==
    /\ Step(p, "wait", "user")
    /\ held[p] \in isReady
    /\ \E id \in todo[p] :
          /\ table' = [table EXCEPT ![p][id] = null]
          /\ Recount(Drop(Drop(ref_count, table[p][id]), held[p]), {})
    /\ held' = [held EXCEPT ![p] = null]
    /\ todo' = [todo EXCEPT ![p] = {}]
    /\ UNCHANGED <<output, sem, isReady, proc_refs, child, initProc>>

-----------------------------------------------------------------------------
(* fork() *)

(* No object yet, nor one that a call of another process still knows. *)
Unused == {q \in Process : pc[q] = "none" /\ \A r \in Process : child[r] = q => r = q}

(* With a slot for the child: a new Process, with a Future. *)
Fork(p, q) ==
    /\ Step(p, "user", "fork")
    /\ FirstFree(p, "child", NCHILD) # {}
    /\ q \in Unused
    /\ proc_refs' = [proc_refs EXCEPT ![q] = 1]
    /\ \E f \in Choice(Future \ made) :
          /\ output' = [output EXCEPT ![q] = f]
          /\ Recount(Add(ref_count, f), {f})
          /\ isReady' = isReady \ {f}
    /\ child' = [child EXCEPT ![p] = q]
    /\ todo' = [todo EXCEPT ![p] = SemSlot \cup FileSlot]
    /\ UNCHANGED <<table, sem, held, initProc>>

(* The loops over the two tables, in a fixed order. *)

(* MUTATION of ForkCopy: the tables are copied like plain memory. *)
ForkCopy_Plain(p) ==
    LET s == CHOOSE s \in todo[p] : TRUE IN
    /\ pc[p] = "fork"
    /\ todo[p] # {}
    /\ table' = [table EXCEPT ![child[p]][s] = table[p][s]]
    /\ todo' = [todo EXCEPT ![p] = @ \ {s}]
    /\ UNCHANGED <<output, objects, sem, isReady, proc_refs, pc, held, child, initProc>>

ForkCopy(p) ==
    LET s == CHOOSE s \in todo[p] : TRUE IN
    /\ pc[p] = "fork"
    /\ todo[p] # {}
    /\ table' = [table EXCEPT ![child[p]][s] = table[p][s]]
    /\ Recount(Add(ref_count, table[p][s]), {})
    /\ todo' = [todo EXCEPT ![p] = @ \ {s}]
    /\ UNCHANGED <<output, sem, isReady, proc_refs, pc, held, child, initProc>>

(* The parent keeps the child's future; thread() makes the child's thread, *)
(* which has a reference to the process.                                   *)
Forked(p) ==
    /\ pc[p] = "fork" /\ todo[p] = {}
    /\ pc' = [pc EXCEPT ![p] = "forked", ![child[p]] = "user"]
    /\ \E s \in FirstFree(p, "child", NCHILD) :
          table' = [table EXCEPT ![p][s] = output[child[p]]]
    /\ Recount(Add(ref_count, output[child[p]]), {})
    /\ proc_refs' = [proc_refs EXCEPT ![child[p]] = @ + 1]
    /\ UNCHANGED <<output, sem, isReady, held, todo, child, initProc>>

(* MUTATION of ForkReturn: the parent's reference is forgotten. *)
ForkReturn_Keeps(p) ==
    /\ Step(p, "forked", "user")
    /\ child' = [child EXCEPT ![p] = p]
    /\ UNCHANGED <<table, output, objects, sem, isReady, proc_refs, held, todo, initProc>>

(* The system call lets go of its reference to the child; if the child has *)
(* ended and its thread is gone, that deletes the process.                 *)
ForkReturn(p) ==
    LET q == child[p] IN
    /\ pc[p] = "forked"
    /\ proc_refs' = [proc_refs EXCEPT ![q] = @ - 1]
    /\ pc' = IF proc_refs[q] = 1
             THEN [pc EXCEPT ![p] = "deleting", ![q] = "destroy"]
             ELSE [pc EXCEPT ![p] = "user"]
    /\ child' = [child EXCEPT ![p] = IF proc_refs[q] = 1 THEN q ELSE p]
    /\ UNCHANGED <<table, output, objects, sem, isReady, held, todo, initProc>>

ForkDeleted(p) ==
    /\ pc[child[p]] = "none"
    /\ Step(p, "deleting", "user")
    /\ child' = [child EXCEPT ![p] = p]
    /\ UNCHANGED <<table, output, objects, sem, isReady, proc_refs, held, todo, initProc>>

(* kernelInit lets go of its reference to the first process, which may     *)
(* have ended by then as well.                                             *)
InitReturn(p) ==
    /\ p \in initProc
    /\ initProc' = initProc \ {p}
    /\ proc_refs' = [proc_refs EXCEPT ![p] = @ - 1]
    /\ pc' = IF proc_refs[p] = 1 THEN [pc EXCEPT ![p] = "destroy"] ELSE pc
    /\ UNCHANGED <<table, output, objects, sem, isReady, held, todo, child>>

-----------------------------------------------------------------------------
(* The end of a process *)

(* MUTATION of Exit: the parent is not told. *)
Exit_Silent(p) ==
    /\ Step(p, "user", "ended")
    /\ UNCHANGED <<table, output, objects, sem, isReady, proc_refs, held, todo, child, initProc>>

(* exit(), or a fault outside the program's part of the address space. *)
Exit(p) ==
    /\ Step(p, "user", "ended")
    /\ isReady' = isReady \cup {output[p]}
    /\ UNCHANGED <<table, output, objects, sem, proc_refs, held, todo, child, initProc>>

(* delete_zombies() deletes the thread and with it a reference. *)
Reap(p) ==
    /\ pc[p] = "ended"
    /\ proc_refs' = [proc_refs EXCEPT ![p] = @ - 1]
    /\ pc' = [pc EXCEPT ![p] = IF proc_refs[p] = 1 THEN "destroy" ELSE "gone"]
    /\ UNCHANGED <<table, output, objects, sem, isReady, held, todo, child, initProc>>

(* ~Process(): the members go one after the other, in a fixed order. *)
Occupied(p) == {s \in Slot : table[p][s] # null}

DropOutput(p) ==
    /\ pc[p] = "destroy"
    /\ output[p] # null
    /\ output' = [output EXCEPT ![p] = null]
    /\ Recount(Drop(ref_count, output[p]), {})
    /\ UNCHANGED <<table, sem, isReady, proc_refs, threads, initProc>>

DropSlot(p) ==
    /\ pc[p] = "destroy"
    /\ output[p] = null
    /\ Occupied(p) # {}
    /\ LET s == CHOOSE s \in Occupied(p) : TRUE
       IN  /\ table' = [table EXCEPT ![p][s] = null]
           /\ Recount(Drop(ref_count, table[p][s]), {})
    /\ UNCHANGED <<output, sem, isReady, proc_refs, threads, initProc>>

Destroyed(p) ==
    /\ output[p] = null /\ Occupied(p) = {}
    /\ Step(p, "destroy", "none")
    /\ UNCHANGED <<table, output, objects, sem, isReady, proc_refs, held, todo, child, initProc>>

-----------------------------------------------------------------------------
Call(p) ==
    \/ NewSemaphore(p) \/ Open(p) \/ Pipe(p) \/ Exit(p)
    \/ \E id \in Id : Up(p, id) \/ Close(p, id) \/ UseFile(p, id) \/ Down(p, id) \/ Wait(p, id)
    \/ \E a, b \in Id : Dup2(p, a, b)
    \/ \E q \in Choice(Unused) : Fork(p, q)

(* Deleting a thread or a process. *)
Delete(p) == Reap(p) \/ DropOutput(p) \/ DropSlot(p) \/ Destroyed(p)

KernelStep(p) ==
    \/ UsedFile(p) \/ DownReturn(p) \/ WaitReturn(p)
    \/ ForkCopy(p)
    \/ Forked(p) \/ ForkReturn(p) \/ ForkDeleted(p)
    \/ InitReturn(p)

Next == \E p \in Process : Call(p) \/ KernelStep(p) \/ Delete(p)

(* The scheduler keeps threads in the kernel going (ReadyRuns of Threads,  *)
(* as long as the reaper does not wait for the heap's lock).  Nothing is   *)
(* assumed of the deletion, which takes that lock.                         *)
Fairness == \A p \in Process : WF_vars(KernelStep(p))

Spec == Init /\ [][Next]_vars
FairSpec == Spec /\ Fairness

-----------------------------------------------------------------------------
(* Properties *)

(* Where a Shared<> may be: a slot, Process::output or a local of a call. *)
Place == Slot \cup {<<"output", 0>>, <<"held", 0>>}

At(p, w) ==
    IF w = <<"output", 0>> THEN output[p]
    ELSE IF w = <<"held", 0>> THEN held[p]
    ELSE table[p][w]

References(o) == {u \in Process \X Place : At(u[1], u[2]) = o}

(* The system calls fork that have the new process p. *)
Forking(p) == {q \in Process : pc[q] \in {"fork", "forked"} /\ child[q] = p}

(* A parent is in the loops of fork() for p. *)
Copied(p) == \E q \in Process : pc[q] = "fork" /\ child[q] = p

(* The process p has a thread. *)
HasThread(p) == pc[p] \notin {"none", "gone", "destroy"} /\ ~Copied(p)

(* The counts are right: an object is there exactly as long as a table, a  *)
(* process or a call under way refers to it, however the calls of several  *)
(* processes and the deletion of others come together; and a process is    *)
(* not deleted while it has a thread or its parent is still in fork() (the *)
(* first one: kernelInit has not returned), and not left after that.       *)
Counted ==
    /\ \A o \in Object :
           /\ ref_count[o] = Cardinality(References(o))
           /\ o \in made <=> ref_count[o] > 0
    /\ \A p \in Process :
           /\ proc_refs[p] = (IF HasThread(p) THEN 1 ELSE 0) + Cardinality(Forking(p))
                             + (IF p \in initProc THEN 1 ELSE 0)
           /\ pc[p] = "destroy" => proc_refs[p] = 0
           /\ pc[p] = "gone" => proc_refs[p] > 0

(* The reaper gets to every thread that has ended, and a deletion that has *)
(* begun comes to its end: both need the heap's lock again and again, for  *)
(* which they may wait for ever (module HeapLock).                         *)
DeletionsFinish == \A p \in Process : []<>(pc[p] \notin {"ended", "destroy"})

(* As far as that is so, a process that has ended is deleted in the end,   *)
(* with all it refers to, whoever's reference is the last to go.           *)
EndedIsDestroyed ==
    DeletionsFinish => \A p \in Process : pc[p] = "ended" ~> pc[p] = "none"

(* wait() returns once the child has ended, by exit() or by a fault, also  *)
(* when the child is long deleted.                                         *)
Ended(f) ==
    ~\E q \in Process : output[q] = f /\ pc[q] \notin {"ended", "gone", "destroy"}

WaitReturns ==
    \A p \in Process : pc[p] = "wait" /\ Ended(held[p]) ~> pc[p] = "user"
=============================================================================
