------------------------------- MODULE Queue -------------------------------
(***************************************************************************)
(* Queue<T, InterruptSafeLock> of kernel/queue.h: a list linked by the     *)
(* items' own `next' field, changed field by field under the lock, from    *)
(* threads and interrupt handlers of every core.                           *)
(***************************************************************************)
EXTENDS InterruptSafeLock, Sequences

CONSTANTS Item,     \* the objects that have a `next' field: TCBs
          null

(* There are finitely many TCBs, and nullptr is none of them. *)
ASSUME QueueAssumption == IsFiniteSet(Item) /\ null \notin Item

VARIABLES
    first, last,    \* the queue's fields
    next_,          \* [Item -> Item \cup {null}]: the items' next
    it              \* [Context -> Item \cup {null}]: `t' of add(), `it' of remove()

listVars == <<first, last, next_>>
queueVars == <<lockVars, listVars, it>>

QueueInit ==
    /\ LockInit
    /\ first = null
    /\ last = null
    /\ next_ \in [Item -> {null}]
    /\ it = [x \in Context |-> null]

(* The first n items from i on, in the order of their links. *)
ChainFrom[n \in 0 .. Cardinality(Item)] ==
    [i \in Item \cup {null} |->
        IF i = null \/ n = 0 THEN <<>> ELSE <<i>> \o ChainFrom[n - 1][next_[i]]]
Chain == ChainFrom[Cardinality(Item)][first]

Queued(t) == \E k \in 1 .. Len(Chain) : Chain[k] = t

-----------------------------------------------------------------------------
(* A line of add() or remove(), from label l to label m. *)
Line(c, l, m) ==
    /\ At(c, l)
    /\ Goto(c, m)
    /\ UNCHANGED <<cpu, taken, was, wasDisabled>>

(* MUTATION of AddUnlink: the link that remove() left is kept. *)
AddUnlink_Keeps(c) ==
    /\ Line(c, "in", "link")
    /\ \E t \in Item : ~Queued(t) /\ it' = [it EXCEPT ![Me(c)] = t]
    /\ UNCHANGED listVars

(* add(t): t->next = nullptr.  t is chosen here, its first use.  Nobody    *)
(* adds what is queued: a TCB belongs to one core, or to the queue.        *)
AddUnlink(c) ==
    /\ Line(c, "in", "link")
    /\ \E t \in Item :
          /\ ~Queued(t)
          /\ it' = [it EXCEPT ![Me(c)] = t]
          /\ next_' = [next_ EXCEPT ![t] = null]
    /\ UNCHANGED <<first, last>>

(* first = t or last->next = t *)
AddLink(c) ==
    /\ Line(c, "link", "last")
    /\ IF first = null
       THEN first' = it[Me(c)] /\ UNCHANGED next_
       ELSE next_' = [next_ EXCEPT ![last] = it[Me(c)]] /\ UNCHANGED first
    /\ UNCHANGED <<last, it>>

(* last = t *)
AddLast(c) ==
    /\ Line(c, "last", "unlock")
    /\ last' = it[Me(c)]
    /\ it' = [it EXCEPT ![Me(c)] = null]
    /\ UNCHANGED <<first, next_>>

(* remove(): null if first == nullptr, or it = first. *)
RemoveFirst(c) ==
    /\ Line(c, "in", IF first = null THEN "unlock" ELSE "advance")
    /\ it' = [it EXCEPT ![Me(c)] = first]
    /\ UNCHANGED listVars

(* first = it->next *)
RemoveAdvance(c) ==
    /\ Line(c, "advance", "empty")
    /\ first' = next_[it[Me(c)]]
    /\ it' = [it EXCEPT ![Me(c)] = null]
    /\ UNCHANGED <<last, next_>>

(* if (first == nullptr) last = nullptr *)
RemoveEmpty(c) ==
    /\ Line(c, "empty", "unlock")
    /\ last' = IF first = null THEN null ELSE last
    /\ UNCHANGED <<first, next_, it>>

QueueStep(c) ==
    \/ AddUnlink(c) \/ AddLink(c) \/ AddLast(c)
    \/ RemoveFirst(c) \/ RemoveAdvance(c) \/ RemoveEmpty(c)

QueueNext ==
    \E c \in Core :
        \/ QueueStep(c)
        \/ (LockStep(c) \/ Environment(c) \/ Call(c)) /\ UNCHANGED <<listVars, it>>

QueueSpec == QueueInit /\ [][QueueNext]_queueVars

-----------------------------------------------------------------------------
(* Properties *)

(* Whatever the cores and their interrupts do, the list changes as a queue *)
(* does: each add() and each remove() takes effect at one write.           *)
Abstract == INSTANCE Fifo WITH items <- Chain, Capacity <- Cardinality(Item)
ImplementsFifo == Abstract!DistinctSpec
=============================================================================
