---------------------------- MODULE ListsProofs ----------------------------
(***************************************************************************)
(* What TLAPS proves of the two linked lists: Queue's under its lock, and  *)
(* the heap's.                                                             *)
(*                                                                         *)
(* InterruptSafeLock, as Queue uses it, excludes for any number of cores,  *)
(* threads and handlers alike, and unlock() gives each of them its own IF  *)
(* flag back.  The invariant follows the flag that lock() found: while a   *)
(* context is on its way through the lock, interrupts are off on its core, *)
(* and what it found is in its local, or, from "in" to "unlock", in the    *)
(* lock's `was'.  As only one context is there, nobody else writes `was'   *)
(* meanwhile.                                                              *)
(*                                                                         *)
(* What the links of Queue make is a Fifo of distinct items.  The          *)
(* invariant says what the one inside the lock has in hand at each label,  *)
(* and that `last' is right but for one moment of add().  Chain is a       *)
(* recursive function: that it has a value, and which, is shown by looking *)
(* at the least number of items for which it would be wrong.               *)
(*                                                                         *)
(* Of the kernel's heap and of the programs': whatever is allocated, freed *)
(* and reallocated, the heap stays sound and its blocks keep their owners' *)
(* words (heap.cc, sbin/heap.c), for any length of the heap and any sizes  *)
(* asked for.  HeapSound speaks of the blocks one finds by walking over    *)
(* the heap and of the list one finds by following the links.  The         *)
(* invariant names both instead: State(h, g, L, u) says that g, a function *)
(* from the blocks to their sizes, positive for the available ones, tiles  *)
(* the heap, that the tags agree with it, that L is the list `avail' and   *)
(* has the available blocks, and that u has the others.  Each of the       *)
(* code's steps (remove from the list, split, join, mark as taken) is then *)
(* a lemma about how g, L and u change.  That walking and following find g *)
(* and L again is an argument by the least block, or the least length,     *)
(* that it fails for.                                                      *)
(***************************************************************************)
EXTENDS Queue, Heap, FiniteSetTheorems, TLAPS

Idle     == {"out", "disable"}
Taking   == {"exchange", "spin", "store"}
Inside   == {"in", "link", "last", "advance", "empty", "unlock"}
Leaving  == {"release", "restore"}
Label    == Idle \cup Taking \cup Inside \cup Leaving

(* The IF flag of whoever calls lock() on core c. *)
Caller(c) == wanted[c] /\ ~inHandler[c]

LockTypeOK ==
    /\ interrupts \in [Core -> BOOLEAN]
    /\ inHandler \in [Core -> BOOLEAN]
    /\ wanted \in [Core -> BOOLEAN]
    /\ taken \in BOOLEAN
    /\ was \in BOOLEAN
    /\ pc \in [Context -> Label]
    /\ wasDisabled \in [Context -> BOOLEAN]

(* A handler runs over a thread that is not inside the lock and has        *)
(* interrupts on; when none runs, its context is idle.                     *)
HandlersOK ==
    \A c \in Core :
        IF inHandler[c] THEN pc[<<c, "thread">>] \in Idle /\ wanted[c]
                        ELSE pc[<<c, "handler">>] = "out"

(* Where the flag of lock()'s caller is. *)
FlagsOK ==
    \A c \in Core :
        LET l == pc[Me(c)] IN
        /\ interrupts[c] = (l \in Idle /\ Caller(c))
        /\ l \in Taking \cup Leaving => wasDisabled[Me(c)] = ~Caller(c)
        /\ l \in Inside => was = ~Caller(c)

OneHolder ==
    /\ \A x, y \in Context : Holds(x) /\ Holds(y) => x = y
    /\ taken <=> \E x \in Context : Holds(x)

Inv == LockTypeOK /\ HandlersOK /\ FlagsOK /\ OneHolder

(* On a core, the context that runs is the only one inside the lock.       *)
LEMMA RunsInside ==
    ASSUME LockTypeOK, HandlersOK, NEW c \in Core, NEW l \in Level, pc[<<c, l>>] \notin Idle
    PROVE  Me(c) = <<c, l>>
BY DEF LockTypeOK, HandlersOK, Me, Level, Idle

(* The context that runs is a context. *)
LEMMA MeIsContext == \A c \in Core : Me(c) \in Context /\ (\A d \in Core : Me(c) = Me(d) => c = d)
BY DEF Me, Context, Level

(* A step of a core's running context leaves HandlersOK. *)
LEMMA HandlersKept ==
    ASSUME LockTypeOK, HandlersOK, NEW c \in Core, NEW m,
           Goto(c, m), UNCHANGED <<inHandler, wanted>>
    PROVE  HandlersOK'
<1> SUFFICES ASSUME NEW d \in Core
             PROVE  IF inHandler[d] THEN pc'[<<d, "thread">>] \in Idle /\ wanted[d]
                                    ELSE pc'[<<d, "handler">>] = "out"
  BY DEF HandlersOK
<1>1. <<d, "thread">> \in Context /\ <<d, "handler">> \in Context
  BY DEF Context, Level
<1>2. IF inHandler[d] THEN pc[<<d, "thread">>] \in Idle /\ wanted[d]
                      ELSE pc[<<d, "handler">>] = "out"
  BY DEF HandlersOK
<1>3. IF inHandler[d] THEN <<d, "thread">> # Me(c) ELSE <<d, "handler">> # Me(c)
  BY DEF Me
<1> QED BY <1>1, <1>2, <1>3 DEF LockTypeOK, Goto

(* Whoever holds the lock runs. *)
LEMMA HolderIsMe ==
    ASSUME LockTypeOK, HandlersOK, NEW c \in Core, NEW x \in Context, Holds(x)
    PROVE  \E d \in Core : x = Me(d)
<1>1. PICK d \in Core, l \in Level : x = <<d, l>>
  BY DEF Context
<1>2. pc[<<d, l>>] \notin Idle
  BY <1>1 DEF Holds, Idle
<1> QED BY <1>1, <1>2, RunsInside

(* A core moves on at a label outside or inside of the lock, and changes   *)
(* nothing of the lock's.                                                  *)
LEMMA MovesAlong ==
    ASSUME Inv, NEW c \in Core, NEW l \in Label, NEW m \in Label,
           At(c, l), Goto(c, m), UNCHANGED <<cpu, taken, was, wasDisabled>>,
           {l, m} \subseteq Idle \/ {l, m} \subseteq Inside
    PROVE  Inv'
<1> USE DEF Inv, At, cpu
<1>1. Me(c) \in Context /\ pc' = [pc EXCEPT ![Me(c)] = m]
  BY MeIsContext DEF Goto
<1>2. \A d \in Core : Me(d)' = Me(d)
  BY DEF Me
<1>3. LockTypeOK'
  BY <1>1 DEF LockTypeOK
<1>4. HandlersOK'
  BY HandlersKept
<1>5. FlagsOK'
  BY <1>1, <1>2, MeIsContext DEF FlagsOK, LockTypeOK, Caller, Idle, Taking, Inside, Leaving
<1>6. \A x \in Context : Holds(x)' <=> Holds(x)
  BY <1>1 DEF Holds, LockTypeOK, Idle, Inside
<1>7. OneHolder'
  BY <1>6 DEF OneHolder
<1> QED BY <1>3, <1>4, <1>5, <1>7

LEMMA DisableStep == ASSUME Inv, NEW c \in Core, Disable(c) PROVE Inv'
<1> USE DEF Inv, Disable, At
<1>1. Me(c) \in Context /\ pc' = [pc EXCEPT ![Me(c)] = "exchange"]
  BY MeIsContext DEF Goto
<1>2. \A d \in Core : Me(d)' = Me(d)
  BY DEF Me
<1>3. LockTypeOK'
  BY <1>1 DEF LockTypeOK, Label, Taking
<1>4. HandlersOK'
  BY HandlersKept
<1>5. FlagsOK'
  BY <1>1, <1>2, MeIsContext, ZenonT(60)
     DEF FlagsOK, LockTypeOK, Caller, Idle, Taking, Inside, Leaving
<1>6. \A x \in Context : Holds(x)' <=> Holds(x)
  BY <1>1 DEF Holds, LockTypeOK
<1>7. OneHolder'
  BY <1>6 DEF OneHolder
<1> QED BY <1>3, <1>4, <1>5, <1>7

LEMMA ExchangeStep == ASSUME Inv, NEW c \in Core, Exchange(c) PROVE Inv'
<1> USE DEF Inv, Exchange, At, cpu
<1>1. /\ Me(c) \in Context
      /\ pc' = [pc EXCEPT ![Me(c)] = IF taken THEN "spin" ELSE "store"]
  BY MeIsContext DEF Goto
<1>2. \A d \in Core : Me(d)' = Me(d)
  BY DEF Me
<1>3. LockTypeOK'
  BY <1>1 DEF LockTypeOK, Label, Taking
<1>4. HandlersOK'
  BY HandlersKept
<1>5. FlagsOK'
  BY <1>1, <1>2, MeIsContext DEF FlagsOK, LockTypeOK, Caller, Idle, Taking, Inside, Leaving
<1>6. OneHolder'
  <2>1. CASE taken
    <3>1. \A x \in Context : Holds(x)' <=> Holds(x)
      BY <1>1, <2>1 DEF Holds, LockTypeOK
    <3> QED BY <2>1, <3>1 DEF OneHolder
  <2>2. CASE ~taken
    <3>1. \A x \in Context : ~Holds(x)
      BY <2>2 DEF OneHolder
    <3>2. \A x \in Context : Holds(x)' <=> x = Me(c)
      BY <1>1, <2>2, <3>1 DEF Holds, LockTypeOK
    <3> QED BY <1>1, <3>2 DEF OneHolder
  <2> QED BY <2>1, <2>2
<1> QED BY <1>3, <1>4, <1>5, <1>6

LEMMA SpinStep == ASSUME Inv, NEW c \in Core, Spin(c) PROVE Inv'
<1> USE DEF Inv, Spin, At
<1>1. Me(c) \in Context /\ pc' = [pc EXCEPT ![Me(c)] = "disable"]
  BY MeIsContext DEF Goto
<1>2. \A d \in Core : Me(d)' = Me(d)
  BY DEF Me
<1>3. LockTypeOK'
  BY <1>1 DEF LockTypeOK, Label, Idle
<1>4. HandlersOK'
  BY HandlersKept
<1>5. FlagsOK'
  BY <1>1, <1>2, MeIsContext DEF FlagsOK, LockTypeOK, Caller, Idle, Taking, Inside, Leaving
<1>6. \A x \in Context : Holds(x)' <=> Holds(x)
  BY <1>1 DEF Holds, LockTypeOK
<1>7. OneHolder'
  BY <1>6 DEF OneHolder
<1> QED BY <1>3, <1>4, <1>5, <1>7

(* Nobody else's flag is in `was'. *)
LEMMA StoreStep == ASSUME Inv, NEW c \in Core, Store(c) PROVE Inv'
<1> USE DEF Inv, Store, At, cpu
<1>1. Me(c) \in Context /\ pc' = [pc EXCEPT ![Me(c)] = "in"]
  BY MeIsContext DEF Goto
<1>2. \A d \in Core : Me(d)' = Me(d)
  BY DEF Me
<1>3. LockTypeOK'
  BY <1>1 DEF LockTypeOK, Label, Inside
<1>4. HandlersOK'
  BY HandlersKept
<1>5. \A d \in Core : d # c => pc[Me(d)] \notin Inside
  BY MeIsContext DEF OneHolder, Holds, Inside
<1>6. FlagsOK'
  BY <1>1, <1>2, <1>5, MeIsContext DEF FlagsOK, LockTypeOK, Caller, Idle, Taking, Inside, Leaving
<1>7. \A x \in Context : Holds(x)' <=> Holds(x)
  BY <1>1 DEF Holds, LockTypeOK
<1>8. OneHolder'
  BY <1>7 DEF OneHolder
<1> QED BY <1>3, <1>4, <1>6, <1>8

LEMMA FetchStep == ASSUME Inv, NEW c \in Core, Fetch(c) PROVE Inv'
<1> USE DEF Inv, Fetch, At, cpu
<1>1. Me(c) \in Context /\ pc' = [pc EXCEPT ![Me(c)] = "release"]
  BY MeIsContext DEF Goto
<1>2. \A d \in Core : Me(d)' = Me(d)
  BY DEF Me
<1>3. LockTypeOK'
  BY <1>1 DEF LockTypeOK, Label, Leaving
<1>4. HandlersOK'
  BY HandlersKept
<1>5. FlagsOK'
  BY <1>1, <1>2, MeIsContext DEF FlagsOK, LockTypeOK, Caller, Idle, Taking, Inside, Leaving
<1>6. \A x \in Context : Holds(x)' <=> Holds(x)
  BY <1>1 DEF Holds, LockTypeOK
<1>7. OneHolder'
  BY <1>6 DEF OneHolder
<1> QED BY <1>3, <1>4, <1>5, <1>7

LEMMA ReleaseStep == ASSUME Inv, NEW c \in Core, Release(c) PROVE Inv'
<1> USE DEF Inv, Release, At, cpu
<1>1. Me(c) \in Context /\ pc' = [pc EXCEPT ![Me(c)] = "restore"]
  BY MeIsContext DEF Goto
<1>2. \A d \in Core : Me(d)' = Me(d)
  BY DEF Me
<1>3. LockTypeOK'
  BY <1>1 DEF LockTypeOK, Label, Leaving
<1>4. HandlersOK'
  BY HandlersKept
<1>5. FlagsOK'
  BY <1>1, <1>2, MeIsContext DEF FlagsOK, LockTypeOK, Caller, Idle, Taking, Inside, Leaving
<1>6. \A x \in Context : ~Holds(x)'
  BY <1>1 DEF Holds, LockTypeOK, OneHolder
<1>7. OneHolder'
  BY <1>6 DEF OneHolder
<1> QED BY <1>3, <1>4, <1>5, <1>7

LEMMA RestoreStep == ASSUME Inv, NEW c \in Core, Restore(c) PROVE Inv'
<1> USE DEF Inv, Restore, At
<1>1. Me(c) \in Context /\ pc' = [pc EXCEPT ![Me(c)] = "out"]
  BY MeIsContext DEF Goto
<1>2. \A d \in Core : Me(d)' = Me(d)
  BY DEF Me
<1>3. LockTypeOK'
  BY <1>1 DEF LockTypeOK, Label, Idle
<1>4. HandlersOK'
  BY HandlersKept
<1>5. FlagsOK'
  BY <1>1, <1>2, MeIsContext DEF FlagsOK, LockTypeOK, Caller, Idle, Taking, Inside, Leaving
<1>6. \A x \in Context : Holds(x)' <=> Holds(x)
  BY <1>1 DEF Holds, LockTypeOK
<1>7. OneHolder'
  BY <1>6 DEF OneHolder
<1> QED BY <1>3, <1>4, <1>5, <1>7

-----------------------------------------------------------------------------
(* Interrupts come and go, and change which context runs. *)

(* When no context moves, the lock is held by who held it. *)
LEMMA HolderStays ==
    ASSUME OneHolder, UNCHANGED <<pc, taken>> PROVE OneHolder'
BY DEF OneHolder, Holds

LEMMA InterruptStep == ASSUME Inv, NEW c \in Core, Interrupt(c) PROVE Inv'
<1> USE DEF Inv, Interrupt
<1>1. /\ Me(c) = <<c, "thread">> /\ Me(c)' = <<c, "handler">>
      /\ \A d \in Core \ {c} : Me(d)' = Me(d)
  BY DEF Me, LockTypeOK
<1>2. pc[Me(c)] \in Idle /\ wanted[c] /\ pc[<<c, "handler">>] = "out"
  BY DEF FlagsOK, HandlersOK, Caller
<1>3. LockTypeOK'
  BY DEF LockTypeOK
<1>4. HandlersOK'
  BY <1>1, <1>2 DEF HandlersOK, LockTypeOK
<1>5. FlagsOK'
  BY <1>1, <1>2, ZenonT(60) DEF FlagsOK, LockTypeOK, Caller, Idle, Taking, Inside, Leaving
<1> QED BY <1>3, <1>4, <1>5, HolderStays

LEMMA ReturnStep == ASSUME Inv, NEW c \in Core, Return(c) PROVE Inv'
<1> USE DEF Inv, Return, At
<1>1. /\ Me(c) = <<c, "handler">> /\ Me(c)' = <<c, "thread">>
      /\ \A d \in Core \ {c} : Me(d)' = Me(d)
  BY DEF Me, LockTypeOK
<1>2. pc[<<c, "handler">>] = "out" /\ wanted[c] /\ pc[<<c, "thread">>] \in Idle
  BY <1>1 DEF HandlersOK
<1>3. LockTypeOK'
  BY DEF LockTypeOK
<1>4. HandlersOK'
  BY <1>2 DEF HandlersOK, LockTypeOK
<1>5. FlagsOK'
  BY <1>1, <1>2, ZenonT(60) DEF FlagsOK, LockTypeOK, Caller, Idle, Taking, Inside, Leaving
<1> QED BY <1>3, <1>4, <1>5, HolderStays

LEMMA ToggleStep == ASSUME Inv, NEW c \in Core, Toggle(c) PROVE Inv'
<1> USE DEF Inv, Toggle, At
<1>1. \A d \in Core : Me(d)' = Me(d)
  BY DEF Me
<1>2. LockTypeOK'
  BY DEF LockTypeOK
<1>3. HandlersOK'
  BY DEF HandlersOK, LockTypeOK
<1>4. FlagsOK'
  BY <1>1 DEF FlagsOK, LockTypeOK, Caller, Idle, Taking, Inside, Leaving
<1> QED BY <1>2, <1>3, <1>4, HolderStays

(* The lines of add() and remove() move on inside the lock. *)
LEMMA QueueMoves == ASSUME Inv, NEW c \in Core, QueueStep(c) PROVE Inv'
<1>1. PICK l, m \in Inside : Line(c, l, m)
  BY DEF QueueStep, AddUnlink, AddLink, AddLast, RemoveFirst, RemoveAdvance, RemoveEmpty, Inside
<1> QED BY <1>1, MovesAlong DEF Line, Label, cpu

LEMMA CallStep == ASSUME Inv, NEW c \in Core, Call(c) PROVE Inv'
<1>1. PICK l, m \in Idle : Line(c, l, m)
  BY DEF Call, Line, Idle
<1> QED BY <1>1, MovesAlong DEF Line, Label, cpu

LEMMA InvNext == Inv /\ [QueueNext]_queueVars => Inv'
<1> SUFFICES ASSUME Inv, [QueueNext]_queueVars PROVE Inv'
  OBVIOUS
<1>1. CASE UNCHANGED queueVars
  BY <1>1, HolderStays DEF Inv, queueVars, lockVars, cpu, LockTypeOK, HandlersOK, FlagsOK, Me, Caller
<1>2. ASSUME NEW c \in Core, QueueStep(c) PROVE Inv'
  BY <1>2, QueueMoves
<1>3. ASSUME NEW c \in Core, LockStep(c) PROVE Inv'
  BY <1>3, DisableStep, ExchangeStep, SpinStep, StoreStep, FetchStep, ReleaseStep, RestoreStep
     DEF LockStep
<1>4. ASSUME NEW c \in Core, Environment(c) PROVE Inv'
  BY <1>4, InterruptStep, ReturnStep, ToggleStep DEF Environment
<1>5. ASSUME NEW c \in Core, Call(c) PROVE Inv'
  BY <1>5, CallStep
<1> QED BY <1>1, <1>2, <1>3, <1>4, <1>5 DEF QueueNext

LEMMA InvInit == QueueInit => Inv
BY ZenonT(60)
   DEF QueueInit, LockInit, Inv, LockTypeOK, HandlersOK, FlagsOK, OneHolder, Holds, Caller, Me,
       Context, Level, Label, Idle, Taking, Inside, Leaving

LEMMA Invariant == QueueSpec => []Inv
<1>1. QueueInit => Inv
  BY InvInit
<1>2. Inv /\ [QueueNext]_queueVars => Inv'
  BY InvNext
<1> QED BY <1>1, <1>2, PTL DEF QueueSpec

(* The lock excludes: one context is inside it, marked by taken, and no    *)
(* handler runs over a thread that is (atomic.h:214-231).                  *)
THEOREM Excludes == QueueSpec => []MutualExclusion
<1>1. Inv => MutualExclusion
  BY DEF Inv, OneHolder, MutualExclusion, HandlersOK, Holds, Idle
<1> QED BY <1>1, Invariant, PTL

(* unlock() restores the flag of its own caller, from a field that every   *)
(* core writes (atomic.h:219, atomic.h:228).                               *)
THEOREM GivesFlagsBack == QueueSpec => []RestoresInterrupts
<1>1. Inv => RestoresInterrupts
  BY DEF Inv, FlagsOK, RestoresInterrupts, At, Caller, Idle
<1> QED BY <1>1, Invariant, PTL

-----------------------------------------------------------------------------
(* A set of numbers has a least one. *)
LEMMA LeastNat == ASSUME NEW S, S \subseteq Nat, S # {}
                  PROVE \E n \in S : \A m \in S : n <= m
<1> DEFINE T == {0 .. n : n \in S}
<1>1. T \subseteq FiniteSubsetsOf(Nat) /\ T # {}
  <2>1. \A n \in S : IsFiniteSet(0 .. n) /\ 0 .. n \in SUBSET Nat
    BY FS_Interval
  <2>2. \A x \in T : x \in FiniteSubsetsOf(Nat)
    BY <2>1 DEF FiniteSubsetsOf
  <2> QED BY <2>2
<1>2. PICK x \in T : \A y \in T : ~ (<<y, x>> \in StrictSubsetOrdering(Nat))
  BY <1>1, FS_StrictSubsetOrderingWellFounded, WFMin
<1>3. PICK n \in S : x = 0 .. n
  BY <1>2
<1>4. ASSUME NEW m \in S, m < n PROVE FALSE
  <2>1. 0 .. m \in T
    OBVIOUS
  <2>2. 0 .. m \subseteq 0 .. n /\ 0 .. m # 0 .. n
    BY <1>3, <1>4
  <2>3. 0 .. m \in SUBSET Nat /\ 0 .. n \in SUBSET Nat
    BY <1>3, <1>4
  <2>4. <<0 .. m, 0 .. n>> \in StrictSubsetOrdering(Nat)
    BY <2>2, <2>3 DEF StrictSubsetOrdering
  <2> QED BY <1>2, <1>3, <2>1, <2>4
<1> QED BY <1>4

Link == [Item -> Item \cup {null}]

(* f gives the chains of up to c items along the links nx. *)
Follows(nx, c, f) ==
    f = [n \in 0 .. c |-> [i \in Item \cup {null} |->
            IF i = null \/ n = 0 THEN <<>> ELSE <<i>> \o f[n - 1][nx[i]]]]

(* Chains of up to c items exist: there is no least c of which it is wrong. *)
LEMMA ChainsExist == ASSUME NEW nx \in Link, NEW c \in Nat PROVE \E f : Follows(nx, c, f)
<1> DEFINE Bad == {k \in Nat : ~ \E f : Follows(nx, k, f)}
<1> SUFFICES ASSUME Bad # {} PROVE FALSE
  OBVIOUS
<1>1. PICK k \in Bad : \A m \in Bad : k <= m
  BY LeastNat
<1>2. CASE k = 0
  <2> DEFINE f == [n \in 0 .. 0 |-> [i \in Item \cup {null} |-> <<>>]]
  <2>1. f = [n \in 0 .. 0 |-> [i \in Item \cup {null} |->
                IF i = null \/ n = 0 THEN <<>> ELSE <<i>> \o f[n - 1][nx[i]]]]
    OBVIOUS
  <2>2. Follows(nx, 0, f)
    BY <2>1 DEF Follows
  <2> QED BY <1>1, <1>2, <2>2
<1>3. CASE k # 0
  <2>1. k - 1 \in Nat /\ k - 1 \notin Bad
    BY <1>1, <1>3
  <2>2. PICK g : Follows(nx, k - 1, g)
    BY <2>1
  <2> DEFINE Step(h, n) == [i \in Item \cup {null} |->
                               IF i = null \/ n = 0 THEN <<>> ELSE <<i>> \o h[n - 1][nx[i]]]
             f == [n \in 0 .. k |-> Step(g, n)]
  <2>3. g = [n \in 0 .. k - 1 |-> Step(g, n)]
    BY <2>2 DEF Follows
  <2>4. \A n \in 0 .. k - 1 : f[n] = g[n]
    <3> HIDE DEF Step
    <3> QED BY <2>3, <1>1
  <2>5. \A n \in 0 .. k : n # 0 => n - 1 \in 0 .. k - 1
    BY <1>1
  <2>6. \A n \in 0 .. k : Step(f, n) = Step(g, n)
    <3> SUFFICES ASSUME NEW n \in 0 .. k PROVE Step(f, n) = Step(g, n)
      OBVIOUS
    <3>1. CASE n = 0
      BY <3>1
    <3>2. CASE n # 0
      <4>1. f[n - 1] = g[n - 1]
        BY <2>4, <2>5, <3>2
      <4> HIDE DEF f
      <4> QED BY <4>1
    <3> QED BY <3>1, <3>2
  <2>7. f = [n \in 0 .. k |-> Step(f, n)]
    <3> HIDE DEF Step
    <3> QED BY <2>6
  <2>8. Follows(nx, k, f)
    <3> HIDE DEF f
    <3> QED BY <2>7 DEF Follows
  <2> QED BY <1>1, <2>8
<1> QED BY <1>2, <1>3

(* The chains along the links nx, as Queue's Chain is of next_. *)
Chains(nx) == CHOOSE f : Follows(nx, Cardinality(Item), f)

LEMMA ChainIsChains == Chain = Chains(next_)[Cardinality(Item)][first]
BY DEF Chain, ChainFrom, Chains, Follows

LEMMA ChainsUnfold ==
    ASSUME NEW nx \in Link, NEW n \in 0 .. Cardinality(Item), NEW i \in Item \cup {null}
    PROVE  Chains(nx)[n][i] = IF i = null \/ n = 0 THEN <<>>
                              ELSE <<i>> \o Chains(nx)[n - 1][nx[i]]
<1>1. Cardinality(Item) \in Nat
  BY QueueAssumption, FS_CardinalityType
<1>2. PICK f : f = Chains(nx) /\ Follows(nx, Cardinality(Item), f)
  BY <1>1, ChainsExist DEF Chains
<1>3. f[n][i] = IF i = null \/ n = 0 THEN <<>> ELSE <<i>> \o f[n - 1][nx[i]]
  <2> DEFINE Step(m) == [j \in Item \cup {null} |->
                            IF j = null \/ m = 0 THEN <<>> ELSE <<j>> \o f[m - 1][nx[j]]]
  <2>1. f = [m \in 0 .. Cardinality(Item) |-> Step(m)]
    BY <1>2 DEF Follows
  <2>2. f[n] = Step(n)
    <3> HIDE DEF Step
    <3> QED BY <2>1
  <2> QED BY <2>2
<1> QED BY <1>2, <1>3

(* s is the list that starts at f and follows the links nx. *)
Entry(s, k) == IF k \in 1 .. Len(s) THEN s[k] ELSE null
IsList(s, f, nx) ==
    /\ s \in Seq(Item)
    /\ \A j, k \in 1 .. Len(s) : s[j] = s[k] => j = k
    /\ f = Entry(s, 1)
    /\ \A k \in 1 .. Len(s) : nx[s[k]] = Entry(s, k + 1)

(* The last m items of s. *)
LastOf(s, m) == [j \in 1 .. m |-> s[Len(s) - m + j]]

LEMMA ListFits == ASSUME NEW s, NEW f, NEW nx, IsList(s, f, nx)
                  PROVE  Len(s) <= Cardinality(Item)
<1>1. s \in Injection(1 .. Len(s), Item) /\ Len(s) \in Nat
  BY DEF IsList, Injection, IsInjective
<1>2. Cardinality(1 .. Len(s)) = Len(s)
  <2>1. 1 \in Int /\ Len(s) \in Int
    BY <1>1
  <2>2. Cardinality(1 .. Len(s)) = IF 1 > Len(s) THEN 0 ELSE Len(s) - 1 + 1
    BY <2>1, FS_Interval, Zenon
  <2> QED BY <1>1, <2>2
<1> QED BY <1>1, <1>2, FS_Injection, QueueAssumption

(* What follows the links from the item at m from the end is the rest.      *)
LEMMA RestOfChain ==
    ASSUME NEW nx \in Link, NEW s, NEW f, IsList(s, f, nx), NEW m \in 0 .. Len(s)
    PROVE  \A n \in m .. Cardinality(Item) :
              Chains(nx)[n][Entry(s, Len(s) - m + 1)] = LastOf(s, m)
<1> DEFINE P(q) == \A n \in q .. Cardinality(Item) :
                      Chains(nx)[n][Entry(s, Len(s) - q + 1)] = LastOf(s, q)
           Bad == {q \in 0 .. Len(s) : ~P(q)}
<1> SUFFICES ASSUME Bad # {} PROVE FALSE
  OBVIOUS
<1>0. Len(s) \in Nat /\ Cardinality(Item) \in Nat
  BY QueueAssumption, FS_CardinalityType DEF IsList
<1>1. PICK q \in Bad : \A r \in Bad : q <= r
  BY LeastNat, Bad \subseteq Nat
<1>a. q \in 0 .. Len(s) /\ q - 1 \notin Bad
  <2>1. q \in 0 .. Len(s)
    OBVIOUS
  <2> HIDE DEF Bad
  <2> QED BY <1>0, <1>1, <2>1
<1> SUFFICES ASSUME NEW n \in q .. Cardinality(Item)
             PROVE  Chains(nx)[n][Entry(s, Len(s) - q + 1)] = LastOf(s, q)
  BY <1>1
<1>2. CASE q = 0
  <2>1. Entry(s, Len(s) - q + 1) = null
    BY <1>0, <1>2 DEF Entry
  <2>2. LastOf(s, q) = <<>>
    BY <1>2 DEF LastOf
  <2> QED BY <1>0, <1>2, <2>1, <2>2, ChainsUnfold
<1>3. CASE q # 0
  <2> DEFINE k == Len(s) - q + 1
  <2>1. k \in 1 .. Len(s) /\ n - 1 \in 0 .. Cardinality(Item) /\ n # 0
        /\ n - 1 \in q - 1 .. Cardinality(Item) /\ n \in 0 .. Cardinality(Item)
    BY <1>0, <1>1, <1>3
  <2>2. Entry(s, k) = s[k] /\ s[k] \in Item /\ s[k] # null /\ nx[s[k]] = Entry(s, k + 1)
    BY <2>1, QueueAssumption DEF IsList, Entry
  <2>3. q - 1 \in 0 .. Len(s) /\ q - 1 \notin Bad
    <3>1. q - 1 \in 0 .. Len(s)
      BY <1>0, <1>a, <1>3
    <3> QED BY <1>a, <3>1
  <2>4. Chains(nx)[n - 1][Entry(s, Len(s) - (q - 1) + 1)] = LastOf(s, q - 1)
    BY <2>1, <2>3
  <2>5. Len(s) - (q - 1) + 1 = k + 1
    BY <1>0, <1>1
  <2>6. Chains(nx)[n][s[k]] = <<s[k]>> \o Chains(nx)[n - 1][nx[s[k]]]
    BY <2>1, <2>2, ChainsUnfold
  <2>7. Chains(nx)[n][s[k]] = <<s[k]>> \o LastOf(s, q - 1)
    BY <2>2, <2>4, <2>5, <2>6
  <2>8. <<s[k]>> \o LastOf(s, q - 1) = LastOf(s, q)
    <3>1. LastOf(s, q - 1) \in Seq(Item) /\ Len(LastOf(s, q - 1)) = q - 1
      BY <1>0, <1>1, <2>3 DEF LastOf, IsList
    <3>2. LastOf(s, q) \in Seq(Item) /\ Len(LastOf(s, q)) = q
      BY <1>0, <1>1 DEF LastOf, IsList
    <3>3. \A j \in 1 .. q : LastOf(s, q)[j] = IF j = 1 THEN s[k] ELSE LastOf(s, q - 1)[j - 1]
      <4> SUFFICES ASSUME NEW j \in 1 .. q
                   PROVE  LastOf(s, q)[j] = IF j = 1 THEN s[k] ELSE LastOf(s, q - 1)[j - 1]
        OBVIOUS
      <4>1. LastOf(s, q)[j] = s[Len(s) - q + j]
        BY DEF LastOf
      <4>2. j # 1 => LastOf(s, q - 1)[j - 1] = s[Len(s) - (q - 1) + (j - 1)]
        BY <1>1, <1>0 DEF LastOf
      <4>3. Len(s) - (q - 1) + (j - 1) = Len(s) - q + j
        BY <1>0, <1>1
      <4> QED BY <4>1, <4>2, <4>3
    <3> HIDE DEF k
    <3>4. <<s[k]>> \o LastOf(s, q - 1) \in Seq(Item) /\ Len(<<s[k]>> \o LastOf(s, q - 1)) = q
      BY <1>0, <1>1, <2>2, <3>1
    <3>5. ASSUME NEW j \in 1 .. q
          PROVE  (<<s[k]>> \o LastOf(s, q - 1))[j] = LastOf(s, q)[j]
      <4>1. q \in Nat /\ <<s[k]>> \in Seq(Item) /\ Len(<<s[k]>>) = 1 /\ <<s[k]>>[1] = s[k]
        BY <1>0, <1>1, <2>2
      <4>2. CASE j = 1
        <5>1. (<<s[k]>> \o LastOf(s, q - 1))[j] = s[k]
          BY <3>1, <4>1, <4>2
        <5> QED BY <3>3, <4>2, <5>1
      <4>3. CASE j # 1
        <5>1. j - 1 \in 1 .. Len(LastOf(s, q - 1)) /\ j = 1 + (j - 1)
          BY <3>1, <4>1, <4>3
        <5>2. (<<s[k]>> \o LastOf(s, q - 1))[j] = LastOf(s, q - 1)[j - 1]
          BY <3>1, <4>1, <4>3, <5>1
        <5> QED BY <3>3, <4>3, <5>2
      <4> QED BY <4>2, <4>3
    <3> QED BY <3>2, <3>4, <3>5
  <2> QED BY <2>2, <2>7, <2>8
<1> QED BY <1>2, <1>3

(* The list that the links make is the chain of them. *)
LEMMA ListIsChain ==
    ASSUME NEW nx \in Link, NEW s, NEW f, IsList(s, f, nx)
    PROVE  Chains(nx)[Cardinality(Item)][f] = s
<1>1. Len(s) \in Nat /\ Cardinality(Item) \in Nat /\ Len(s) <= Cardinality(Item)
  BY ListFits, QueueAssumption, FS_CardinalityType DEF IsList
<1>2. Len(s) \in 0 .. Len(s) /\ Cardinality(Item) \in Len(s) .. Cardinality(Item)
  BY <1>1
<1>3. Chains(nx)[Cardinality(Item)][Entry(s, Len(s) - Len(s) + 1)] = LastOf(s, Len(s))
  BY <1>2, RestOfChain
<1>4. Len(s) - Len(s) + 1 = 1 /\ LastOf(s, Len(s)) = s
  BY <1>1 DEF LastOf, IsList
<1> QED BY <1>3, <1>4 DEF IsList

-----------------------------------------------------------------------------
(* What the list is like while it is changed field by field.               *)

ListTypeOK == next_ \in Link /\ it \in [Context -> Item \cup {null}]

(* What the one inside the lock has in hand. *)
HandOK ==
    \A x \in Context :
        /\ pc[x] = "link" => it[x] \in Item /\ ~Queued(it[x]) /\ next_[it[x]] = null
        /\ pc[x] = "last" => Chain # <<>> /\ it[x] = Chain[Len(Chain)]
        /\ pc[x] = "advance" => Chain # <<>> /\ it[x] = Chain[1]

(* `last' is right, but for the moment between the two writes of add().    *)
LastOK ==
    Chain # <<>> /\ (\A x \in Context : pc[x] # "last") => last = Chain[Len(Chain)]

ListInv == ListTypeOK /\ IsList(Chain, first, next_) /\ HandOK /\ LastOK

LEMMA ChainAfter ==
    ASSUME NEW s, next_' \in Link, IsList(s, first', next_') PROVE Chain' = s
<1>1. Chain' = Chains(next_')[Cardinality(Item)][first']
  BY DEF Chain, ChainFrom, Chains, Follows
<1> QED BY <1>1, ListIsChain

(* The running context of core c moves on from label l inside the lock,    *)
(* and no other context is inside.                                         *)
LEMMA InsideMoves ==
    ASSUME Inv, NEW c \in Core, NEW l \in Inside, NEW m, Line(c, l, m)
    PROVE  /\ Me(c) \in Context /\ pc[Me(c)] = l /\ pc'[Me(c)] = m
           /\ \A x \in Context \ {Me(c)} : pc[x] \notin Inside /\ pc'[x] = pc[x]
<1>1. Me(c) \in Context /\ pc[Me(c)] = l
  BY MeIsContext DEF Line, At
<1>2. Holds(Me(c)) /\ \A x \in Context : pc[x] \in Inside => Holds(x)
  BY <1>1 DEF Holds, Inside
<1> QED BY <1>1, <1>2 DEF Inv, LockTypeOK, OneHolder, Line, Goto

LEMMA UnlinkList ==
    ASSUME Inv, ListInv, NEW c \in Core, AddUnlink(c) PROVE ListInv' /\ Chain' = Chain
<1>1. /\ Me(c) \in Context /\ pc[Me(c)] = "in" /\ pc'[Me(c)] = "link"
      /\ \A x \in Context \ {Me(c)} : pc[x] \notin Inside /\ pc'[x] = pc[x]
  BY InsideMoves, "in" \in Inside DEF AddUnlink, Inside
<1>2. PICK t \in Item : /\ ~Queued(t)
                        /\ it' = [it EXCEPT ![Me(c)] = t]
                        /\ next_' = [next_ EXCEPT ![t] = null]
  BY DEF AddUnlink
<1>3. first' = first /\ last' = last
  BY DEF AddUnlink
<1>4. ListTypeOK'
  BY <1>1, <1>2 DEF ListInv, ListTypeOK, Link
<1>5. IsList(Chain, first', next_')
  BY <1>2, <1>3 DEF ListInv, ListTypeOK, Link, IsList, Queued
<1>6. Chain' = Chain
  BY <1>4, <1>5, ChainAfter DEF ListTypeOK
<1>7. \A u : Queued(u)' <=> Queued(u)
  BY <1>6 DEF Queued
<1>8. HandOK'
  BY <1>1, <1>2, <1>6, <1>7 DEF ListInv, ListTypeOK, HandOK, Inside, Link
<1>9. LastOK'
  BY <1>1, <1>3, <1>6 DEF ListInv, LastOK, Inside
<1> QED BY <1>3, <1>4, <1>5, <1>6, <1>8, <1>9 DEF ListInv

LEMMA LinkList ==
    ASSUME Inv, ListInv, NEW c \in Core, AddLink(c)
    PROVE  /\ ListInv'
           /\ it[Me(c)] \in Item /\ ~Queued(it[Me(c)])
           /\ Chain' = Append(Chain, it[Me(c)])
<1>1. /\ Me(c) \in Context /\ pc[Me(c)] = "link" /\ pc'[Me(c)] = "last"
      /\ \A x \in Context \ {Me(c)} : pc[x] \notin Inside /\ pc'[x] = pc[x]
  BY InsideMoves, "link" \in Inside DEF AddLink, Inside
<1> DEFINE t == it[Me(c)]
           s == Append(Chain, t)
<1>2. t \in Item /\ ~Queued(t) /\ next_[t] = null
  BY <1>1 DEF ListInv, HandOK
<1> HIDE DEF t
<1>3. Chain \in Seq(Item) /\ Len(Chain) \in Nat
  BY DEF ListInv, IsList
<1>4. s \in Seq(Item) /\ Len(s) = Len(Chain) + 1 /\ s # <<>> /\ s[Len(s)] = t
      /\ \A k \in 1 .. Len(Chain) : s[k] = Chain[k]
  BY <1>2, <1>3
<1>5. last' = last /\ it' = it
  BY DEF AddLink
<1>6. first' = Entry(s, 1) /\ next_' \in Link /\ \A k \in 1 .. Len(s) : next_'[s[k]] = Entry(s, k + 1)
  <2>1. CASE Chain = <<>>
    <3>1. first = null
      BY <2>1 DEF ListInv, IsList, Entry
    <3>2. first' = t /\ next_' = next_
      BY <3>1 DEF AddLink, t
    <3>3. Len(s) = 1
      BY <1>4, <2>1
    <3> HIDE DEF s
    <3>4. Entry(s, 1) = t /\ s[1] = t /\ Entry(s, 1 + 1) = null
      <4>1. s[1] = t
        BY <1>4, <3>3
      <4>2. 1 \in 1 .. Len(s) /\ 1 + 1 \notin 1 .. Len(s)
        BY <3>3
      <4> QED BY <4>1, <4>2 DEF Entry
    <3>5. \A k \in 1 .. Len(s) : k = 1
      BY <3>3
    <3>6. next_' \in Link
      BY <3>2 DEF ListInv, ListTypeOK
    <3> QED BY <1>2, <3>2, <3>4, <3>5, <3>6
  <2>2. CASE Chain # <<>>
    <3>1. first = Chain[1] /\ first \in Item /\ first # null /\ Len(Chain) >= 1
      BY <1>3, <2>2, QueueAssumption DEF ListInv, IsList, Entry
    <3>2. last = Chain[Len(Chain)] /\ last \in Item
      BY <1>1, <1>3, <2>2, <3>1 DEF ListInv, LastOK, Inside
    <3>3. first' = first /\ next_' = [next_ EXCEPT ![last] = t]
      BY <3>1 DEF AddLink, t
    <3>4. next_' \in Link
      BY <1>2, <3>2, <3>3 DEF ListInv, ListTypeOK, Link
    <3>5. first' = Entry(s, 1)
      <4> HIDE DEF s
      <4> QED BY <1>3, <1>4, <3>1, <3>3 DEF Entry
    <3>6. ASSUME NEW k \in 1 .. Len(s) PROVE next_'[s[k]] = Entry(s, k + 1)
      <4> HIDE DEF s
      <4>1. CASE k = Len(s)
        <5>1. Entry(s, k + 1) = null /\ t # last
          BY <4>1, <1>3, <1>4, <1>2, <3>1, <3>2 DEF Entry, Queued
        <5> QED BY <4>1, <5>1, <1>2, <1>4, <3>3, <3>2 DEF ListInv, ListTypeOK, Link
      <4>2. CASE k = Len(Chain)
        BY <4>2, <1>3, <1>4, <3>2, <3>3, <3>1 DEF Entry, ListInv, ListTypeOK, Link
      <4>3. CASE k \notin {Len(s), Len(Chain)}
        <5>1. k \in 1 .. Len(Chain) /\ k + 1 \in 1 .. Len(Chain) /\ k + 1 \in 1 .. Len(s)
          BY <4>3, <1>3, <1>4
        <5>2. Chain[k] # last /\ Chain[k] \in Item
          BY <4>3, <5>1, <1>3, <3>1, <3>2 DEF ListInv, IsList
        <5>3. next_[Chain[k]] = Chain[k + 1]
          BY <5>1 DEF ListInv, IsList, Entry
        <5>4. next_'[s[k]] = Chain[k + 1]
          BY <5>1, <5>2, <5>3, <1>4, <3>3 DEF ListInv, ListTypeOK, Link
        <5> QED BY <5>1, <5>4, <1>4 DEF Entry
      <4> QED BY <4>1, <4>2, <4>3
    <3> QED BY <3>4, <3>5, <3>6
  <2> QED BY <2>1, <2>2
<1>7. \A j, k \in 1 .. Len(s) : s[j] = s[k] => j = k
  <2> HIDE DEF s
  <2>1. \A k \in 1 .. Len(s) : k = Len(s) \/ k \in 1 .. Len(Chain)
    BY <1>3, <1>4
  <2>2. \A k \in 1 .. Len(Chain) : Chain[k] # t /\ s[k] = Chain[k]
    BY <1>2, <1>4 DEF Queued
  <2>3. s[Len(s)] = t
    BY <1>4
  <2>4. \A j, k \in 1 .. Len(Chain) : Chain[j] = Chain[k] => j = k
    BY DEF ListInv, IsList
  <2> SUFFICES ASSUME NEW j \in 1 .. Len(s), NEW k \in 1 .. Len(s), s[j] = s[k] PROVE j = k
    OBVIOUS
  <2> QED BY <2>1, <2>2, <2>3, <2>4
<1> HIDE DEF s
<1>8. IsList(s, first', next_') /\ Chain' = s
  BY <1>4, <1>6, <1>7, ChainAfter DEF IsList
<1>9. ListTypeOK'
  BY <1>5, <1>6 DEF ListInv, ListTypeOK
<1>10. HandOK'
  BY <1>1, <1>4, <1>5, <1>8 DEF HandOK, Inside, t
<1>11. LastOK'
  BY <1>1 DEF LastOK
<1> QED BY <1>2, <1>8, <1>9, <1>10, <1>11 DEF ListInv, s, t

LEMMA LastList ==
    ASSUME Inv, ListInv, NEW c \in Core, AddLast(c) PROVE ListInv' /\ Chain' = Chain
<1>1. /\ Me(c) \in Context /\ pc[Me(c)] = "last" /\ pc'[Me(c)] = "unlock"
      /\ \A x \in Context \ {Me(c)} : pc[x] \notin Inside /\ pc'[x] = pc[x]
  BY InsideMoves, "last" \in Inside DEF AddLast, Inside
<1>2. /\ first' = first /\ next_' = next_ /\ last' = it[Me(c)]
      /\ it' = [it EXCEPT ![Me(c)] = null]
  BY DEF AddLast
<1>3. ListTypeOK'
  BY <1>1, <1>2 DEF ListInv, ListTypeOK
<1>4. Chain' = Chain /\ IsList(Chain', first', next_')
  BY <1>2, <1>3, ChainAfter DEF ListInv, ListTypeOK
<1>5. HandOK'
  BY <1>1 DEF HandOK, Inside
<1>6. LastOK'
  BY <1>1, <1>2, <1>4 DEF ListInv, HandOK, LastOK
<1> QED BY <1>3, <1>4, <1>5, <1>6 DEF ListInv

LEMMA FirstList ==
    ASSUME Inv, ListInv, NEW c \in Core, RemoveFirst(c) PROVE ListInv' /\ Chain' = Chain
<1> DEFINE m == IF first = null THEN "unlock" ELSE "advance"
<1>1. /\ Me(c) \in Context /\ pc[Me(c)] = "in" /\ pc'[Me(c)] = m
      /\ \A x \in Context \ {Me(c)} : pc[x] \notin Inside /\ pc'[x] = pc[x]
  BY InsideMoves, "in" \in Inside DEF RemoveFirst, Inside
<1>2. /\ first' = first /\ next_' = next_ /\ last' = last
      /\ it' = [it EXCEPT ![Me(c)] = first]
  BY DEF RemoveFirst, listVars
<1>3. first \in Item \cup {null} /\ (first # null => Chain # <<>> /\ first = Chain[1])
  BY DEF ListInv, IsList, Entry
<1>4. ListTypeOK'
  BY <1>1, <1>2, <1>3 DEF ListInv, ListTypeOK
<1>5. Chain' = Chain /\ IsList(Chain', first', next_')
  BY <1>2, <1>4, ChainAfter DEF ListInv, ListTypeOK
<1>6. HandOK'
  BY <1>1, <1>2, <1>3, <1>5 DEF ListInv, ListTypeOK, HandOK, Inside
<1>7. LastOK'
  BY <1>1, <1>2, <1>5 DEF ListInv, LastOK, Inside
<1> QED BY <1>4, <1>5, <1>6, <1>7 DEF ListInv

LEMMA AdvanceList ==
    ASSUME Inv, ListInv, NEW c \in Core, RemoveAdvance(c)
    PROVE  ListInv' /\ Chain # <<>> /\ Chain' = Tail(Chain)
<1>1. /\ Me(c) \in Context /\ pc[Me(c)] = "advance" /\ pc'[Me(c)] = "empty"
      /\ \A x \in Context \ {Me(c)} : pc[x] \notin Inside /\ pc'[x] = pc[x]
  BY InsideMoves, "advance" \in Inside DEF RemoveAdvance, Inside
<1>2. /\ first' = next_[it[Me(c)]] /\ next_' = next_ /\ last' = last
      /\ it' = [it EXCEPT ![Me(c)] = null]
  BY DEF RemoveAdvance
<1>3. Chain # <<>> /\ it[Me(c)] = Chain[1] /\ Chain \in Seq(Item)
  BY <1>1 DEF ListInv, HandOK, IsList
<1> DEFINE s == Tail(Chain)
<1>4. /\ s \in Seq(Item) /\ Len(s) = Len(Chain) - 1 /\ Len(Chain) \in Nat /\ Len(Chain) >= 1
      /\ \A k \in 1 .. Len(s) : s[k] = Chain[k + 1]
  BY <1>3
<1> HIDE DEF s
<1>5. first' = Entry(s, 1)
  <2>1. 1 \in 1 .. Len(Chain) /\ first' = Entry(Chain, 2)
    BY <1>2, <1>3, <1>4 DEF ListInv, IsList
  <2> QED BY <1>4, <2>1 DEF Entry
<1>6. ASSUME NEW k \in 1 .. Len(s) PROVE next_'[s[k]] = Entry(s, k + 1)
  <2>1. k + 1 \in 1 .. Len(Chain) /\ s[k] = Chain[k + 1]
    BY <1>4
  <2>2. next_[s[k]] = Entry(Chain, k + 2)
    <3>1. next_[Chain[k + 1]] = Entry(Chain, (k + 1) + 1)
      BY <2>1 DEF ListInv, IsList
    <3>2. (k + 1) + 1 = k + 2
      BY <2>1
    <3> QED BY <2>1, <3>1, <3>2
  <2>3. k + 1 \in 1 .. Len(s) <=> k + 2 \in 1 .. Len(Chain)
    BY <1>4
  <2>4. k + 1 \in 1 .. Len(s) => s[k + 1] = Chain[k + 2]
    <3>1. (k + 1) + 1 = k + 2
      BY <2>1
    <3> QED BY <1>4, <3>1
  <2> QED BY <1>2, <2>2, <2>3, <2>4 DEF Entry
<1>7. \A j, k \in 1 .. Len(s) : s[j] = s[k] => j = k
  <2>1. \A k \in 1 .. Len(s) : k + 1 \in 1 .. Len(Chain)
    BY <1>4
  <2>2. \A j, k \in 1 .. Len(s) : s[j] = s[k] => j + 1 = k + 1
    BY <1>4, <2>1 DEF ListInv, IsList
  <2> QED BY <1>4, <2>2
<1>8. ListTypeOK'
  BY <1>1, <1>2 DEF ListInv, ListTypeOK
<1>9. IsList(s, first', next_') /\ Chain' = s
  BY <1>4, <1>5, <1>6, <1>7, <1>8, ChainAfter DEF IsList, ListTypeOK
<1>10. HandOK'
  BY <1>1 DEF HandOK, Inside
<1>11. LastOK'
  <2> SUFFICES ASSUME s # <<>> PROVE last' = s[Len(s)]
    BY <1>9 DEF LastOK
  <2>1. Len(s) \in 1 .. Len(s) /\ Len(s) + 1 = Len(Chain)
    BY <1>4
  <2>2. s[Len(s)] = Chain[Len(Chain)]
    BY <1>4, <2>1
  <2>3. last = Chain[Len(Chain)]
    BY <1>1, <1>3 DEF ListInv, LastOK, Inside
  <2> QED BY <1>2, <2>2, <2>3
<1> QED BY <1>3, <1>8, <1>9, <1>10, <1>11 DEF ListInv, s

LEMMA EmptyList ==
    ASSUME Inv, ListInv, NEW c \in Core, RemoveEmpty(c) PROVE ListInv' /\ Chain' = Chain
<1>1. /\ Me(c) \in Context /\ pc[Me(c)] = "empty" /\ pc'[Me(c)] = "unlock"
      /\ \A x \in Context \ {Me(c)} : pc[x] \notin Inside /\ pc'[x] = pc[x]
  BY InsideMoves, "empty" \in Inside DEF RemoveEmpty, Inside
<1>2. /\ first' = first /\ next_' = next_ /\ it' = it
      /\ last' = IF first = null THEN null ELSE last
  BY DEF RemoveEmpty
<1>3. first = null => Chain = <<>>
  BY QueueAssumption DEF ListInv, IsList, Entry
<1>4. ListTypeOK'
  BY <1>2 DEF ListInv, ListTypeOK
<1>5. Chain' = Chain /\ IsList(Chain', first', next_')
  BY <1>2, <1>4, ChainAfter DEF ListInv, ListTypeOK
<1>6. HandOK'
  BY <1>1 DEF HandOK, Inside
<1>7. LastOK'
  BY <1>1, <1>2, <1>3, <1>5 DEF ListInv, LastOK, Inside
<1> QED BY <1>4, <1>5, <1>6, <1>7 DEF ListInv

(* Taking the lock and giving it back leaves the list alone. *)
LEMMA LockList ==
    ASSUME Inv, ListInv, UNCHANGED <<listVars, it>>,
           \A x \in Context : pc'[x] = pc[x] \/ {pc[x], pc'[x]} \cap {"link", "last", "advance"} = {}
    PROVE  ListInv' /\ Chain' = Chain
<1>1. first' = first /\ next_' = next_ /\ last' = last /\ it' = it
  BY DEF listVars
<1>2. ListTypeOK'
  BY <1>1 DEF ListInv, ListTypeOK
<1>3. Chain' = Chain /\ IsList(Chain', first', next_')
  BY <1>1, <1>2, ChainAfter DEF ListInv, ListTypeOK
<1>4. \A u : Queued(u)' <=> Queued(u)
  BY <1>3 DEF Queued
<1>5. \A x \in Context, l \in {"link", "last", "advance"} : pc'[x] = l <=> pc[x] = l
  OBVIOUS
<1>6. HandOK'
  BY <1>1, <1>3, <1>4, <1>5 DEF ListInv, HandOK
<1>7. LastOK'
  BY <1>1, <1>3, <1>5 DEF ListInv, LastOK
<1> QED BY <1>2, <1>3, <1>6, <1>7 DEF ListInv

LEMMA OtherSteps ==
    ASSUME Inv, ListInv, NEW c \in Core, LockStep(c) \/ Environment(c) \/ Call(c),
           UNCHANGED <<listVars, it>>
    PROVE  ListInv' /\ Chain' = Chain
<1>1. CASE UNCHANGED pc
  BY <1>1, LockList
<1>2. CASE \E l, m \in Label \ {"link", "last", "advance"} : At(c, l) /\ Goto(c, m)
  BY <1>2, LockList DEF At, Goto, Inv, LockTypeOK
<1> QED BY <1>1, <1>2
        DEF LockStep, Environment, Call, Disable, Exchange, Spin, Store, Fetch, Release, Restore,
            Interrupt, Return, Toggle, Label, Idle, Taking, Inside, Leaving

LEMMA ListSteps ==
    ASSUME Inv, ListInv, [QueueNext]_queueVars
    PROVE  /\ ListInv'
           /\ \/ Chain' = Chain
              \/ \E t \in Item : ~Queued(t) /\ Chain' = Append(Chain, t)
              \/ Chain # <<>> /\ Chain' = Tail(Chain)
<1>1. CASE UNCHANGED queueVars
  BY <1>1, LockList DEF queueVars, lockVars
<1>2. ASSUME NEW c \in Core, QueueStep(c)
      PROVE  /\ ListInv'
             /\ \/ Chain' = Chain
                \/ \E t \in Item : ~Queued(t) /\ Chain' = Append(Chain, t)
                \/ Chain # <<>> /\ Chain' = Tail(Chain)
  BY <1>2, UnlinkList, LinkList, LastList, FirstList, AdvanceList, EmptyList DEF QueueStep
<1>3. ASSUME NEW c \in Core, LockStep(c) \/ Environment(c) \/ Call(c), UNCHANGED <<listVars, it>>
      PROVE  ListInv' /\ Chain' = Chain
  BY <1>3, OtherSteps
<1> QED BY <1>1, <1>2, <1>3 DEF QueueNext

LEMMA ListInit == QueueInit => ListInv /\ Chain = <<>>
<1> SUFFICES ASSUME QueueInit PROVE ListInv /\ Chain = <<>>
  OBVIOUS
<1>1. ListTypeOK
  BY DEF QueueInit, ListTypeOK, Link
<1>2. IsList(<<>>, first, next_)
  BY DEF QueueInit, IsList, Entry
<1>3. Chain = <<>>
  BY <1>1, <1>2, ListIsChain, ChainIsChains DEF ListTypeOK
<1>4. HandOK
  BY DEF QueueInit, LockInit, HandOK
<1> QED BY <1>1, <1>2, <1>3, <1>4 DEF ListInv, LastOK

(* The queue that add() and remove() change field by field, each under the *)
(* lock, is first in, first out: an add() takes effect when it links the   *)
(* item, a remove() when it advances `first' (queue.h:27-62).              *)
THEOREM QueueIsFifo == QueueSpec => ImplementsFifo
<1>1. QueueInit => ListInv /\ Abstract!Init
  BY ListInit DEF Abstract!Init
<1>2. Inv /\ ListInv /\ [QueueNext]_queueVars =>
      ListInv' /\ [Abstract!AddOther \/ Abstract!Remove]_Chain
  BY ListSteps DEF Abstract!AddOther, Abstract!Add, Abstract!Remove, Queued
<1> QED BY <1>1, <1>2, Invariant, PTL DEF QueueSpec, ImplementsFifo, Abstract!DistinctSpec

-----------------------------------------------------------------------------
(* The heap *)

(* The length of the heap, without the bound that the solvers stumble over. *)
LEMMA HeapSize == HeapLen \in Nat /\ HeapLen >= 8
BY HeapAssumption, Zenon

Word == 0 .. HeapLen - 1

(* The k-th of the list L, 0 before the first and after the last. *)
ItemAt(L, k) == IF k \in 1 .. Len(L) THEN L[k] ELSE 0

Members(L) == {L[k] : k \in 1 .. Len(L)}

HeapType(h) == /\ h = [array |-> h.array, avail |-> h.avail]
               /\ h.array \in [Word -> Int]

(* L is the list `avail': of blocks that do not overlap, linked both ways. *)
Linked(h, L) ==
    /\ L \in Seq(Int)
    /\ \A j, k \in 1 .. Len(L) : L[j] = L[k] => j = k
    /\ h.avail = ItemAt(L, 1)
    /\ \A k \in 1 .. Len(L) : next(h, L[k]) = ItemAt(L, k + 1) /\ prev(h, L[k]) = ItemAt(L, k - 1)

(* The blocks of S have room for their links, apart from each other's. *)
Spread(S) ==
    /\ S \subseteq 1 .. HeapLen - 4
    /\ \A x, y \in S : x < y => x + 4 <= y

LinkWords(S) == {x + 1 : x \in S} \cup {x + 2 : x \in S}

(* L without its k-th. *)
Dropped(L, k) == [j \in 1 .. Len(L) - 1 |-> IF j < k THEN L[j] ELSE L[j + 1]]

(* Words outside of the set W are the same in a and b. *)
SameBut(a, b, W) == \A j \in Word \ W : b[j] = a[j]

(* The list without its k-th. *)
LEMMA DroppedList ==
    ASSUME NEW L \in Seq(Int), \A j, k \in 1 .. Len(L) : L[j] = L[k] => j = k,
           NEW k \in 1 .. Len(L)
    PROVE  /\ Dropped(L, k) \in Seq(Int)
           /\ Len(Dropped(L, k)) = Len(L) - 1
           /\ \A j \in 1 .. Len(L) - 1 :
                 /\ j < k => j \in 1 .. Len(L) /\ Dropped(L, k)[j] = L[j]
                 /\ j >= k => j + 1 \in 1 .. Len(L) /\ Dropped(L, k)[j] = L[j + 1]
           /\ \A i, j \in 1 .. Len(Dropped(L, k)) : Dropped(L, k)[i] = Dropped(L, k)[j] => i = j
           /\ Members(Dropped(L, k)) = Members(L) \ {L[k]}
<1> DEFINE D == Dropped(L, k)
<1>1. Len(L) \in Nat /\ Len(L) - 1 \in Nat /\ k \in Int /\ 1 <= k /\ k <= Len(L)
  OBVIOUS
<1>2. D \in Seq(Int) /\ Len(D) = Len(L) - 1
  BY <1>1 DEF Dropped
<1>3. \A j \in 1 .. Len(L) - 1 : D[j] = IF j < k THEN L[j] ELSE L[j + 1]
  BY DEF Dropped
<1> HIDE DEF D
<1>4. ASSUME NEW j \in 1 .. Len(L) - 1
      PROVE  /\ j < k => j \in 1 .. Len(L) /\ D[j] = L[j]
             /\ j >= k => j + 1 \in 1 .. Len(L) /\ D[j] = L[j + 1]
  BY <1>1, <1>3
<1>5. ASSUME NEW m \in 1 .. Len(L)
      PROVE  /\ m < k => m \in 1 .. Len(D) /\ D[m] = L[m]
             /\ m > k => m - 1 \in 1 .. Len(D) /\ D[m - 1] = L[m]
  <2>1. CASE m < k
    <3>1. m \in 1 .. Len(L) - 1 /\ m \in 1 .. Len(D)
      BY <1>1, <1>2, <2>1
    <3> QED BY <1>3, <2>1, <3>1, <1>1
  <2>2. CASE m > k
    <3>1. m - 1 \in 1 .. Len(L) - 1 /\ ~(m - 1 < k) /\ (m - 1) + 1 = m
      BY <1>1, <2>2
    <3>2. D[m - 1] = IF m - 1 < k THEN L[m - 1] ELSE L[(m - 1) + 1]
      BY <1>3, <3>1
    <3>3. D[m - 1] = L[m] /\ m - 1 \in 1 .. Len(D)
      BY <1>2, <3>1, <3>2
    <3> QED BY <2>2, <3>3, <1>1
  <2> QED BY <1>1, <2>1, <2>2
<1>6. ASSUME NEW j \in 1 .. Len(D)
      PROVE  \E m \in 1 .. Len(L) : m # k /\ D[j] = L[m] /\ j = IF m < k THEN m ELSE m - 1
  <2>1. j \in 1 .. Len(L) - 1
    BY <1>2
  <2>2. CASE j < k
    BY <1>1, <1>4, <2>1, <2>2
  <2>3. CASE j >= k
    <3>1. j + 1 \in 1 .. Len(L) /\ D[j] = L[j + 1] /\ j + 1 # k /\ ~(j + 1 < k) /\ (j + 1) - 1 = j
      BY <1>1, <1>4, <2>1, <2>3
    <3>2. j = IF j + 1 < k THEN j + 1 ELSE (j + 1) - 1
      BY <3>1
    <3> QED BY <3>1, <3>2, Zenon
  <2>4. j < k \/ j >= k
    BY <1>1, <2>1
  <2> QED BY <2>2, <2>3, <2>4
<1>7. \A i, j \in 1 .. Len(D) : D[i] = D[j] => i = j
  <2> SUFFICES ASSUME NEW i \in 1 .. Len(D), NEW j \in 1 .. Len(D), D[i] = D[j]
               PROVE  i = j
    OBVIOUS
  <2>1. PICK p \in 1 .. Len(L) : D[i] = L[p] /\ i = IF p < k THEN p ELSE p - 1
    BY <1>6
  <2>2. PICK q \in 1 .. Len(L) : D[j] = L[q] /\ j = IF q < k THEN q ELSE q - 1
    BY <1>6
  <2>3. p = q
    BY <2>1, <2>2
  <2> QED BY <2>1, <2>2, <2>3
<1>8. Members(D) = Members(L) \ {L[k]}
  <2>1. ASSUME NEW x \in Members(D) PROVE x \in Members(L) \ {L[k]}
    <3>1. PICK i \in 1 .. Len(D) : x = D[i]
      BY DEF Members
    <3>2. PICK m \in 1 .. Len(L) : m # k /\ D[i] = L[m]
      BY <1>6
    <3>3. L[m] # L[k]
      BY <3>2
    <3> QED BY <3>1, <3>2, <3>3 DEF Members
  <2>2. ASSUME NEW x \in Members(L) \ {L[k]} PROVE x \in Members(D)
    <3>1. PICK m \in 1 .. Len(L) : x = L[m] /\ m # k
      BY DEF Members
    <3>2. m < k \/ m > k
      BY <1>1, <3>1
    <3>3. \E i \in 1 .. Len(D) : D[i] = L[m]
      BY <1>5, <3>2
    <3> QED BY <3>1, <3>3 DEF Members
  <2> QED BY <2>1, <2>2
<1> QED BY <1>2, <1>4, <1>7, <1>8 DEF D

(* The link words of different blocks are different. *)
LEMMA LinksApart ==
    ASSUME NEW S, Spread(S), NEW x \in S, NEW y \in S
    PROVE  /\ x + 1 \in Word /\ x + 2 \in Word /\ x \in Int
           /\ x + 1 # y + 2
           /\ x # y => x + 1 # y + 1 /\ x + 2 # y + 2
<1>1. /\ x \in Int /\ 1 <= x /\ x <= HeapLen - 4 /\ HeapLen \in Nat
      /\ y \in Int /\ 1 <= y /\ y <= HeapLen - 4
  BY HeapSize DEF Spread
<1>2. /\ x < y => x + 4 <= y
      /\ y < x => y + 4 <= x
  BY DEF Spread
<1>3. x + 1 \in Word /\ x + 2 \in Word
  BY <1>1 DEF Word
<1> QED BY <1>1, <1>2, <1>3

(* remove() unlinks one block, and writes to the links of others only. *)
LEMMA RemoveLinked ==
    ASSUME NEW h, HeapType(h), NEW L, Linked(h, L), Spread(Members(L)), NEW k \in 1 .. Len(L)
    PROVE  LET g == remove(h, L[k]) IN
           /\ HeapType(g) /\ Linked(g, Dropped(L, k))
           /\ SameBut(h.array, g.array, LinkWords(Members(L) \ {L[k]}))
<1> DEFINE i == L[k]
           p == prev(h, i)
           n == next(h, i)
           a == IF p = 0 THEN h.array ELSE [h.array EXCEPT ![p + 1] = n]
           b == IF n = 0 THEN a ELSE [a EXCEPT ![n + 2] = p]
           g == remove(h, i)
           D == Dropped(L, k)
<1>1. g = [array |-> b, avail |-> IF p = 0 THEN n ELSE h.avail]
  BY DEF remove
<1>2. L \in Seq(Int) /\ Len(L) \in Nat /\ k \in Int /\ k - 1 \in Int /\ k + 1 \in Int
  BY DEF Linked
<1>3. p = ItemAt(L, k - 1) /\ n = ItemAt(L, k + 1)
  BY DEF Linked
<1>4. \A m \in 1 .. Len(L) : L[m] \in Members(L) /\ L[m] \in Int /\ L[m] # 0 /\ L[m] > 0
  BY <1>2 DEF Members, Spread
<1>5. /\ p = 0 <=> k = 1
      /\ n = 0 <=> k = Len(L)
      /\ k # 1 => k - 1 \in 1 .. Len(L) /\ p = L[k - 1]
      /\ k # Len(L) => k + 1 \in 1 .. Len(L) /\ n = L[k + 1]
  BY <1>2, <1>3, <1>4 DEF ItemAt
<1>6. p \in Int /\ n \in Int
  BY <1>4, <1>5
<1>7. /\ p # 0 => p + 1 \in Word
      /\ n # 0 => n + 2 \in Word
  BY <1>4, <1>5, LinksApart
<1>8. a \in [Word -> Int] /\ b \in [Word -> Int]
  BY <1>6, <1>7 DEF HeapType
<1>9. \A j \in Word : b[j] = IF n # 0 /\ j = n + 2 THEN p ELSE IF p # 0 /\ j = p + 1 THEN n ELSE h.array[j]
  BY <1>7, <1>8 DEF HeapType
<1>10. HeapType(g) /\ g.array = b /\ g.avail = IF p = 0 THEN n ELSE h.avail
  BY <1>1, <1>8 DEF HeapType
<1> HIDE DEF a, b, g, i, p, n
<1>11. \A m \in 1 .. Len(L) :
          /\ L[m] + 1 \in Word /\ L[m] + 2 \in Word
          /\ next(g, L[m]) = IF k # 1 /\ m = k - 1 THEN n ELSE next(h, L[m])
          /\ prev(g, L[m]) = IF k # Len(L) /\ m = k + 1 THEN p ELSE prev(h, L[m])
  <2> SUFFICES ASSUME NEW m \in 1 .. Len(L)
               PROVE  /\ L[m] + 1 \in Word /\ L[m] + 2 \in Word
                      /\ next(g, L[m]) = IF k # 1 /\ m = k - 1 THEN n ELSE next(h, L[m])
                      /\ prev(g, L[m]) = IF k # Len(L) /\ m = k + 1 THEN p ELSE prev(h, L[m])
    OBVIOUS
  <2>1. L[m] + 1 \in Word /\ L[m] + 2 \in Word
    BY <1>4, LinksApart
  <2>2. /\ n # 0 => L[m] + 1 # n + 2
        /\ p # 0 => L[m] + 2 # p + 1
    BY <1>4, <1>5, LinksApart
  <2>3. p # 0 => (L[m] + 1 = p + 1 <=> m = k - 1)
    BY <1>4, <1>5, LinksApart DEF Linked
  <2>4. n # 0 => (L[m] + 2 = n + 2 <=> m = k + 1)
    <3> SUFFICES ASSUME n # 0 PROVE L[m] + 2 = n + 2 <=> m = k + 1
      OBVIOUS
    <3>1. k + 1 \in 1 .. Len(L) /\ n = L[k + 1]
      BY <1>5
    <3>2. L[m] \in Int /\ n \in Int /\ (L[m] = n <=> m = k + 1)
      BY <1>4, <3>1 DEF Linked
    <3> QED BY <3>2
  <2> QED BY <1>5, <1>9, <1>10, <2>1, <2>2, <2>3, <2>4 DEF next, prev
<1>12. /\ D \in Seq(Int) /\ Len(D) = Len(L) - 1
       /\ \A u, v \in 1 .. Len(D) : D[u] = D[v] => u = v
  BY DroppedList DEF Linked
<1>13. \A j \in 1 .. Len(D) : D[j] = IF j < k THEN L[j] ELSE L[j + 1]
  BY <1>12 DEF Dropped
<1> HIDE DEF D
<1>14. g.avail = ItemAt(D, 1)
  <2>1. h.avail = ItemAt(L, 1)
    BY DEF Linked
  <2> QED BY <1>2, <1>5, <1>10, <1>12, <1>13, <2>1 DEF ItemAt
<1>15. ASSUME NEW j \in 1 .. Len(D)
       PROVE  next(g, D[j]) = ItemAt(D, j + 1) /\ prev(g, D[j]) = ItemAt(D, j - 1)
  <2>1. \A m \in 1 .. Len(L) : next(h, L[m]) = ItemAt(L, m + 1) /\ prev(h, L[m]) = ItemAt(L, m - 1)
    BY DEF Linked
  <2>2. CASE j < k
    <3>1. j \in 1 .. Len(L) /\ D[j] = L[j]
      BY <1>2, <1>12, <1>13, <2>2
    <3>2. next(g, D[j]) = ItemAt(D, j + 1)
      <4>1. CASE j = k - 1
        <5>1. k # 1
          BY <4>1
        <5>2. next(g, L[j]) = n
          BY <1>11, <3>1, <4>1, <5>1
        <5>3. j + 1 = k
          BY <1>2, <4>1
        <5>4. CASE k = Len(L)
          BY <1>2, <1>5, <1>12, <3>1, <5>2, <5>3, <5>4 DEF ItemAt
        <5>5. CASE k # Len(L)
          <6>1. k \in 1 .. Len(D) /\ ~(k < k)
            <7>1. Len(D) = Len(L) - 1 /\ Len(L) \in Nat /\ k \in Int /\ 1 <= k /\ k <= Len(L)
              BY <1>2, <1>12
            <7> QED BY <5>5, <7>1
          <6> QED BY <1>5, <1>13, <3>1, <5>2, <5>3, <5>5, <6>1 DEF ItemAt
        <5> QED BY <5>4, <5>5
      <4>2. CASE j # k - 1
        <5>1. next(g, L[j]) = ItemAt(L, j + 1)
          BY <1>11, <2>1, <3>1, <4>2
        <5>2. j + 1 < k /\ j + 1 \in 1 .. Len(D) /\ j + 1 \in 1 .. Len(L)
          BY <1>2, <1>12, <2>2, <4>2
        <5> QED BY <1>13, <3>1, <5>1, <5>2 DEF ItemAt
      <4> QED BY <4>1, <4>2
    <3>3. prev(g, D[j]) = ItemAt(D, j - 1)
      <4>1. prev(g, L[j]) = ItemAt(L, j - 1)
        BY <1>2, <1>11, <2>1, <2>2, <3>1
      <4>2. j - 1 \in 1 .. Len(L) <=> j - 1 \in 1 .. Len(D)
        BY <1>2, <1>12, <2>2
      <4>3. j - 1 \in 1 .. Len(D) => D[j - 1] = L[j - 1]
        BY <1>2, <1>13, <2>2
      <4> QED BY <3>1, <4>1, <4>2, <4>3 DEF ItemAt
    <3> QED BY <3>2, <3>3
  <2>3. CASE ~(j < k)
    <3>1. j + 1 \in 1 .. Len(L) /\ D[j] = L[j + 1]
      <4>1. j + 1 \in 1 .. Len(L)
        BY <1>12
      <4> QED BY <1>13, <2>3, <4>1
    <3>2. next(g, D[j]) = ItemAt(D, j + 1)
      <4>1. next(g, L[j + 1]) = ItemAt(L, (j + 1) + 1)
        BY <1>2, <1>11, <2>1, <2>3, <3>1
      <4>2. j + 1 \in 1 .. Len(D) <=> (j + 1) + 1 \in 1 .. Len(L)
        BY <1>2, <1>12, <2>3
      <4>3. j + 1 \in 1 .. Len(D) => D[j + 1] = L[(j + 1) + 1]
        BY <1>2, <1>13, <2>3
      <4> QED BY <3>1, <4>1, <4>2, <4>3 DEF ItemAt
    <3>3. prev(g, D[j]) = ItemAt(D, j - 1)
      <4>1. CASE j = k
        <5>1. k # Len(L)
          BY <1>2, <1>12, <4>1
        <5>2. prev(g, L[j + 1]) = p
          BY <1>11, <3>1, <4>1, <5>1
        <5>3. CASE k = 1
          BY <1>2, <1>5, <1>12, <3>1, <4>1, <5>2, <5>3 DEF ItemAt
        <5>4. CASE k # 1
          <6>1. k - 1 \in 1 .. Len(D) /\ k - 1 < k
            BY <1>2, <1>12, <4>1, <5>4
          <6> QED BY <1>5, <1>13, <3>1, <4>1, <5>2, <5>4, <6>1 DEF ItemAt
        <5> QED BY <5>3, <5>4
      <4>2. CASE j # k
        <5>0. (j + 1) - 1 = j /\ j \in 1 .. Len(L) /\ j + 1 # k + 1
          BY <1>2, <3>1, <4>2
        <5>1. prev(g, L[j + 1]) = L[j]
          BY <1>11, <2>1, <3>1, <5>0 DEF ItemAt
        <5>2. j - 1 \in 1 .. Len(D) /\ ~(j - 1 < k) /\ (j - 1) + 1 = j
          BY <1>2, <1>12, <2>3, <4>2
        <5> QED BY <1>13, <3>1, <5>1, <5>2 DEF ItemAt
      <4> QED BY <4>1, <4>2
    <3> QED BY <3>2, <3>3
  <2> QED BY <2>2, <2>3
<1>16. SameBut(h.array, g.array, LinkWords(Members(L) \ {i}))
  <2>1. p # 0 => p \in Members(L) \ {i}
    BY <1>2, <1>4, <1>5 DEF i, Linked
  <2>2. n # 0 => n \in Members(L) \ {i}
    BY <1>2, <1>4, <1>5 DEF i, Linked
  <2> QED BY <1>9, <1>10, <2>1, <2>2 DEF SameBut, LinkWords
<1> QED BY <1>10, <1>12, <1>14, <1>15, <1>16 DEF Linked, g, i, D

-----------------------------------------------------------------------------
(* The list stays if its links do. *)
LEMMA LinksKept ==
    ASSUME NEW h, NEW g, NEW L, Linked(h, L), g.avail = h.avail,
           \A j \in LinkWords(Members(L)) : g.array[j] = h.array[j]
    PROVE  Linked(g, L)
<1>1. \A k \in 1 .. Len(L) : L[k] + 1 \in LinkWords(Members(L)) /\ L[k] + 2 \in LinkWords(Members(L))
  BY DEF LinkWords, Members
<1> QED BY <1>1 DEF Linked, next, prev

(* The words i .. i + n - 1 are none of the links of the blocks of S.      *)
Clear(S, i, n) == \A x \in S : x + 4 <= i \/ i + n <= x

(* Links of the list lie beside what is clear of its blocks. *)
LEMMA ClearLinks ==
    ASSUME NEW S, Spread(S), NEW i \in Int, NEW n \in Int, Clear(S, i, n)
    PROVE  \A j \in LinkWords(S) : j \in Word /\ j \in Int /\ (j < i \/ i + n <= j)
<1> SUFFICES ASSUME NEW x \in S, NEW j \in {x + 1, x + 2}
             PROVE  j \in Word /\ j \in Int /\ (j < i \/ i + n <= j)
  BY DEF LinkWords
<1>1. x \in Int /\ j \in Word /\ (x + 4 <= i \/ i + n <= x)
  BY LinksApart DEF Clear
<1> QED BY <1>1 DEF Word

(* makeTaken() writes tags and leaves the list alone. *)
LEMMA MakeTakenLinked ==
    ASSUME NEW h, HeapType(h), NEW L, Linked(h, L), Spread(Members(L)),
           NEW i \in Int, NEW n \in Int, 0 <= i, 2 <= n, i + n <= HeapLen,
           Clear(Members(L), i, n)
    PROVE  LET g == makeTaken(h, i, n) IN
           /\ HeapType(g) /\ Linked(g, L)
           /\ g.array[i] = -n /\ g.array[i + n - 1] = -n
           /\ SameBut(h.array, g.array, {i, i + n - 1})
<1> DEFINE g == makeTaken(h, i, n)
<1>1. i \in Word /\ i + n - 1 \in Word
  BY HeapSize DEF Word
<1>2. g = [array |-> [h.array EXCEPT ![i] = -n, ![i + n - 1] = -n], avail |-> h.avail]
  BY DEF makeTaken, HeapType
<1>3. HeapType(g) /\ g.avail = h.avail
  BY <1>1, <1>2 DEF HeapType
<1>4. g.array[i] = -n /\ g.array[i + n - 1] = -n
  BY <1>1, <1>2 DEF HeapType
<1>5. SameBut(h.array, g.array, {i, i + n - 1})
  BY <1>2 DEF HeapType, SameBut
<1> HIDE DEF g
<1>6. \A j \in LinkWords(Members(L)) : g.array[j] = h.array[j]
  <2> SUFFICES ASSUME NEW j \in LinkWords(Members(L)) PROVE j \in Word \ {i, i + n - 1}
    BY <1>5 DEF SameBut
  <2> QED BY ClearLinks
<1> QED BY <1>3, <1>4, <1>5, <1>6, LinksKept DEF g

(* The list with one more in front. *)
LEMMA PutFirst ==
    ASSUME NEW L \in Seq(Int), \A j, k \in 1 .. Len(L) : L[j] = L[k] => j = k,
           NEW i \in Int, i \notin Members(L)
    PROVE  LET P == <<i>> \o L IN
           /\ P \in Seq(Int) /\ Len(P) = Len(L) + 1 /\ P[1] = i
           /\ \A k \in 2 .. Len(P) : k - 1 \in 1 .. Len(L) /\ P[k] = L[k - 1]
           /\ \A j, k \in 1 .. Len(P) : P[j] = P[k] => j = k
           /\ Members(P) = Members(L) \cup {i}
<1> DEFINE P == <<i>> \o L
<1>1. /\ Len(L) \in Nat /\ P \in Seq(Int) /\ Len(P) = Len(L) + 1 /\ P[1] = i
  OBVIOUS
<1>2. \A k \in 2 .. Len(P) : k - 1 \in 1 .. Len(L) /\ P[k] = L[k - 1]
  OBVIOUS
<1> HIDE DEF P
<1>3. \A k \in 2 .. Len(P) : P[k] # i
  BY <1>2 DEF Members
<1>4. \A k \in 1 .. Len(P) : k = 1 \/ k \in 2 .. Len(P)
  BY <1>1
<1>5. \A j, k \in 1 .. Len(P) : P[j] = P[k] => j = k
  <2> SUFFICES ASSUME NEW j \in 1 .. Len(P), NEW k \in 1 .. Len(P), P[j] = P[k]
               PROVE  j = k
    OBVIOUS
  <2>1. CASE j \in 2 .. Len(P) /\ k \in 2 .. Len(P)
    <3>1. j - 1 = k - 1
      BY <1>2, <2>1
    <3> QED BY <2>1, <3>1
  <2> QED BY <1>1, <1>3, <1>4, <2>1
<1>6. Members(P) = Members(L) \cup {i}
  <2>1. ASSUME NEW x \in Members(L) PROVE x \in Members(P)
    <3>1. PICK k \in 1 .. Len(L) : x = L[k]
      BY DEF Members
    <3>2. k + 1 \in 2 .. Len(P) /\ (k + 1) - 1 = k /\ k + 1 \in 1 .. Len(P)
      BY <1>1
    <3>3. P[k + 1] = L[k]
      BY <1>2, <3>2
    <3> QED BY <3>1, <3>2, <3>3 DEF Members
  <2>2. i \in Members(P)
    <3>1. 1 \in 1 .. Len(P)
      BY <1>1
    <3> QED BY <1>1, <3>1 DEF Members
  <2>3. ASSUME NEW x \in Members(P) PROVE x \in Members(L) \cup {i}
    <3>1. PICK k \in 1 .. Len(P) : x = P[k]
      BY DEF Members
    <3>2. CASE k = 1
      BY <3>1, <3>2, <1>1
    <3>3. CASE k \in 2 .. Len(P)
      <4>1. k - 1 \in 1 .. Len(L) /\ x = L[k - 1]
        BY <1>2, <3>1, <3>3
      <4> QED BY <4>1 DEF Members
    <3> QED BY <1>4, <3>2, <3>3
  <2> QED BY <2>1, <2>2, <2>3
<1> QED BY <1>1, <1>2, <1>5, <1>6 DEF P

(* makeAvail() puts a block at the head of the list. *)
LEMMA MakeAvailLinked ==
    ASSUME NEW h, HeapType(h), NEW L, Linked(h, L), NEW i, i \notin Members(L),
           Spread(Members(L) \cup {i}),
           NEW n \in Int, 4 <= n, i + n <= HeapLen, Clear(Members(L), i, n)
    PROVE  LET g == makeAvail(h, i, n) IN
           /\ HeapType(g) /\ Linked(g, <<i>> \o L)
           /\ g.array[i] = n /\ g.array[i + n - 1] = n
           /\ SameBut(h.array, g.array, {i, i + n - 1} \cup LinkWords(Members(L) \cup {i}))
<1> DEFINE g == makeAvail(h, i, n)
           v == h.avail
           a == [h.array EXCEPT ![i] = n, ![i + n - 1] = n, ![i + 1] = v, ![i + 2] = 0]
           b == IF v = 0 THEN a ELSE [a EXCEPT ![v + 2] = i]
           P == <<i>> \o L
<1>1. g = [array |-> b, avail |-> i]
  BY DEF makeAvail
<1>2. L \in Seq(Int) /\ Len(L) \in Nat /\ \A j, k \in 1 .. Len(L) : L[j] = L[k] => j = k
  BY DEF Linked
<1>3. i \in Int /\ i >= 1 /\ i \in Word /\ i + n - 1 \in Word /\ i + 1 \in Word /\ i + 2 \in Word
  BY HeapSize DEF Spread, Word
<1>4. \A m \in 1 .. Len(L) : L[m] \in Members(L) /\ L[m] \in Int /\ L[m] > 0
                             /\ (L[m] + 4 <= i \/ i + n <= L[m])
  BY <1>2 DEF Members, Spread, Clear
<1>5. v = ItemAt(L, 1)
  BY DEF Linked
<1>6. v \in Int /\ (v = 0 <=> Len(L) = 0) /\ (v # 0 => 1 \in 1 .. Len(L) /\ v = L[1])
  BY <1>2, <1>4, <1>5 DEF ItemAt
<1>7. v # 0 => v + 2 \in Word /\ v + 1 \in Word
  BY <1>4, <1>6, LinksApart
<1>8. a \in [Word -> Int] /\ b \in [Word -> Int]
  <2> HIDE DEF v
  <2>1. a \in [Word -> Int]
    <3>1. h.array \in [Word -> Int] /\ v \in Int
      BY <1>6 DEF HeapType
    <3>2. \A z \in [Word -> Int], j, x \in Int : [z EXCEPT ![j] = x] \in [Word -> Int]
      OBVIOUS
    <3> DEFINE z1 == [h.array EXCEPT ![i] = n]
               z2 == [z1 EXCEPT ![i + n - 1] = n]
               z3 == [z2 EXCEPT ![i + 1] = v]
    <3>3. z1 \in [Word -> Int]
      BY <1>3, <3>1, <3>2
    <3>4. z2 \in [Word -> Int]
      <4> HIDE DEF z1
      <4> QED BY <1>3, <3>2, <3>3
    <3>5. z3 \in [Word -> Int]
      <4> HIDE DEF z2
      <4> QED BY <1>3, <3>1, <3>2, <3>4
    <3>6. a = [z3 EXCEPT ![i + 2] = 0]
      OBVIOUS
    <3> HIDE DEF z3, a
    <3> QED BY <1>3, <3>2, <3>5, <3>6
  <2> HIDE DEF a
  <2>2. [a EXCEPT ![v + 2] = i] \in [Word -> Int]
    BY <1>3, <2>1
  <2> QED BY <2>1, <2>2
<1>9. \A j \in Word :
         b[j] = IF v # 0 /\ j = v + 2 THEN i ELSE IF j = i + 2 THEN 0 ELSE IF j = i + 1 THEN v
                ELSE IF j \in {i, i + n - 1} THEN n ELSE h.array[j]
  BY <1>3, <1>7, <1>8 DEF HeapType
<1>10. HeapType(g) /\ g.array = b /\ g.avail = i
  BY <1>1, <1>8 DEF HeapType
<1> HIDE DEF a, b, g, v
<1>11. v # 0 => v + 2 \notin {i, i + 1, i + 2, i + n - 1}
  <2> SUFFICES ASSUME v # 0 PROVE v + 2 \notin {i, i + 1, i + 2, i + n - 1}
    OBVIOUS
  <2>1. v + 4 <= i \/ i + n <= v
    BY <1>4, <1>6
  <2> QED BY <1>3, <1>6, <2>1
<1>12. next(g, i) = v /\ prev(g, i) = 0 /\ g.array[i] = n /\ g.array[i + n - 1] = n
  BY <1>3, <1>9, <1>10, <1>11 DEF next, prev
<1>13. ASSUME NEW m \in 1 .. Len(L)
       PROVE  /\ next(g, L[m]) = next(h, L[m])
              /\ prev(g, L[m]) = IF m = 1 THEN i ELSE prev(h, L[m])
  <2>1. L[m] \in Int /\ (L[m] + 4 <= i \/ i + n <= L[m]) /\ L[m] + 1 \in Word /\ L[m] + 2 \in Word
    BY <1>4, LinksApart
  <2>2. L[m] + 1 \notin {i, i + 1, i + 2, i + n - 1} /\ L[m] + 2 \notin {i, i + 1, i + 2, i + n - 1}
    BY <1>3, <2>1
  <2>3. v # 0 => L[m] + 1 # v + 2
    <3>1. Spread(Members(L))
      BY DEF Spread
    <3> QED BY <1>4, <1>6, <3>1, LinksApart
  <2>4. v # 0 /\ (L[m] + 2 = v + 2 <=> m = 1)
    <3>1. v # 0 /\ v = L[1] /\ 1 \in 1 .. Len(L)
      BY <1>2, <1>6
    <3>2. L[m] = L[1] <=> m = 1
      BY <1>2, <3>1
    <3> QED BY <1>6, <2>1, <3>1, <3>2
  <2> QED BY <1>9, <1>10, <2>1, <2>2, <2>3, <2>4 DEF next, prev
<1>14. /\ P \in Seq(Int) /\ Len(P) = Len(L) + 1 /\ P[1] = i
       /\ \A k \in 2 .. Len(P) : k - 1 \in 1 .. Len(L) /\ P[k] = L[k - 1]
       /\ \A j, k \in 1 .. Len(P) : P[j] = P[k] => j = k
  BY <1>2, <1>3, PutFirst
<1> HIDE DEF P
<1>15. ItemAt(P, 1) = i /\ ItemAt(P, 2) = ItemAt(L, 1) /\ ItemAt(P, 0) = 0
  <2>1. 1 \in 1 .. Len(P) /\ 0 \notin 1 .. Len(P) /\ (2 \in 1 .. Len(P) <=> 1 \in 1 .. Len(L))
    BY <1>2, <1>14
  <2>2. 1 \in 1 .. Len(L) => 2 \in 2 .. Len(P) /\ 2 - 1 = 1
    BY <1>2, <1>14
  <2>3. 1 \in 1 .. Len(L) => P[2] = L[1]
    BY <1>14, <2>2
  <2> QED BY <1>14, <2>1, <2>3 DEF ItemAt
<1>16. ASSUME NEW k \in 1 .. Len(P)
       PROVE  next(g, P[k]) = ItemAt(P, k + 1) /\ prev(g, P[k]) = ItemAt(P, k - 1)
  <2>1. CASE k = 1
    BY <1>5, <1>12, <1>14, <1>15, <2>1
  <2>2. CASE k # 1
    <3>1. k \in 2 .. Len(P) /\ k - 1 \in 1 .. Len(L) /\ P[k] = L[k - 1] /\ (k - 1) + 1 = k
      BY <1>2, <1>14, <2>2
    <3>2. next(g, P[k]) = ItemAt(L, k) /\ prev(g, P[k]) = IF k - 1 = 1 THEN i ELSE ItemAt(L, (k - 1) - 1)
      BY <1>13, <3>1 DEF Linked
    <3>3. ItemAt(P, k + 1) = ItemAt(L, k)
      <4>1. k \in 1 .. Len(L) <=> k + 1 \in 1 .. Len(P)
        BY <1>2, <1>14, <3>1
      <4>2. k \in 1 .. Len(L) => k + 1 \in 2 .. Len(P) /\ (k + 1) - 1 = k
        BY <1>2, <1>14, <3>1
      <4>3. k \in 1 .. Len(L) => P[k + 1] = L[k]
        BY <1>14, <4>2
      <4> QED BY <4>1, <4>3 DEF ItemAt
    <3>4. k # 2 => ItemAt(P, k - 1) = ItemAt(L, (k - 1) - 1)
      <4> SUFFICES ASSUME k # 2 PROVE ItemAt(P, k - 1) = ItemAt(L, (k - 1) - 1)
        OBVIOUS
      <4>1. k - 1 \in 2 .. Len(P) /\ k - 1 \in 1 .. Len(P) /\ (k - 1) - 1 \in 1 .. Len(L)
        BY <1>2, <1>14, <3>1
      <4>2. P[k - 1] = L[(k - 1) - 1]
        BY <1>14, <4>1
      <4> QED BY <4>1, <4>2 DEF ItemAt
    <3>5. k = 2 => ItemAt(P, k - 1) = i /\ k - 1 = 1
      BY <1>15
    <3>6. k # 2 => k - 1 # 1
      BY <3>1
    <3> QED BY <3>2, <3>3, <3>4, <3>5, <3>6
  <2> QED BY <2>1, <2>2
<1>17. SameBut(h.array, g.array, {i, i + n - 1} \cup LinkWords(Members(L) \cup {i}))
  <2>1. v # 0 => v \in Members(L)
    BY <1>4, <1>6
  <2>2. i + 1 \in LinkWords(Members(L) \cup {i}) /\ i + 2 \in LinkWords(Members(L) \cup {i})
        /\ (v # 0 => v + 2 \in LinkWords(Members(L) \cup {i}))
    BY <2>1 DEF LinkWords
  <2> QED BY <1>9, <1>10, <2>2 DEF SameBut
<1> QED BY <1>10, <1>12, <1>14, <1>15, <1>16, <1>17 DEF Linked, g, P

-----------------------------------------------------------------------------
(* The size of a tag. *)
LEMMA AbsFacts == ASSUME NEW x \in Int
                  PROVE  /\ abs(x) \in Nat
                         /\ x > 0 => abs(x) = x
                         /\ abs(-x) = abs(x)
BY DEF abs

(* g gives the tags of the blocks, from their places: the blocks fill the  *)
(* heap from end to end, between two of two words.                         *)
Tiling(g) ==
    /\ 0 \in DOMAIN g /\ HeapLen - 2 \in DOMAIN g
    /\ g[0] = -2 /\ g[HeapLen - 2] = -2
    /\ \A i \in DOMAIN g : /\ i \in Int /\ 0 <= i /\ i <= HeapLen - 2 /\ g[i] \in Int
                           /\ i \in {0, HeapLen - 2} \/ abs(g[i]) >= 4
    /\ \A i \in DOMAIN g : i # HeapLen - 2 => i + abs(g[i]) \in DOMAIN g
    /\ \A i \in DOMAIN g : i # 0 => \E j \in DOMAIN g : j + abs(g[j]) = i
    /\ \A i, j \in DOMAIN g : i < j => i + abs(g[i]) <= j

(* Where a block lies. *)
LEMMA TileFacts ==
    ASSUME NEW g, Tiling(g), NEW b \in DOMAIN g
    PROVE  /\ b \in Int /\ 0 <= b /\ b <= HeapLen - 2
           /\ g[b] \in Int /\ abs(g[b]) \in Nat /\ abs(g[b]) >= 2 /\ b + abs(g[b]) <= HeapLen
           /\ b \notin {0, HeapLen - 2} =>
                 2 <= b /\ abs(g[b]) >= 4 /\ b + abs(g[b]) <= HeapLen - 2
<1>1. b \in Int /\ 0 <= b /\ b <= HeapLen - 2 /\ g[b] \in Int /\ abs(g[b]) \in Nat
  BY AbsFacts DEF Tiling
<1>2. HeapLen \in Nat /\ HeapLen >= 8
  BY HeapSize
<1>3. abs(-2) = 2
  <2>1. abs(2) = 2 /\ abs(-2) = abs(2)
    BY AbsFacts
  <2> QED BY <2>1
<1>4. CASE b \in {0, HeapLen - 2}
  BY <1>1, <1>2, <1>3, <1>4 DEF Tiling
<1>5. CASE b \notin {0, HeapLen - 2}
  <2>1. abs(g[b]) >= 4
    BY <1>5 DEF Tiling
  <2>2. 0 \in DOMAIN g /\ HeapLen - 2 \in DOMAIN g /\ 0 < b /\ b < HeapLen - 2
    BY <1>1, <1>2, <1>5 DEF Tiling
  <2>3. 0 + abs(g[0]) <= b /\ b + abs(g[b]) <= HeapLen - 2
    BY <2>2 DEF Tiling
  <2>4. abs(g[0]) = 2
    BY <1>3 DEF Tiling
  <2> QED BY <1>1, <1>2, <1>5, <2>1, <2>3, <2>4
<1> QED BY <1>4, <1>5

(* Different blocks have no word in common. *)
LEMMA TilesApart ==
    ASSUME NEW g, Tiling(g), NEW b \in DOMAIN g, NEW c \in DOMAIN g, b # c
    PROVE  b + abs(g[b]) <= c \/ c + abs(g[c]) <= b
<1>1. b \in Int /\ c \in Int
  BY TileFacts
<1>2. b < c \/ c < b
  BY <1>1
<1> QED BY <1>2 DEF Tiling

(* The block to the left of b, and the one to the right. *)
LEMMA OnlyLeft ==
    ASSUME NEW g, Tiling(g), NEW b \in DOMAIN g, NEW c \in DOMAIN g,
           b + abs(g[b]) = c + abs(g[c])
    PROVE  b = c
<1>1. /\ b \in Int /\ abs(g[b]) \in Nat /\ abs(g[b]) >= 2
      /\ c \in Int /\ abs(g[c]) \in Nat /\ abs(g[c]) >= 2
  BY TileFacts
<1> QED BY <1>1, TilesApart

(* The blocks from p to q become one, of tag v. *)
Joined(g, p, q, v) == [b \in {c \in DOMAIN g : c <= p \/ q <= c} |-> IF b = p THEN v ELSE g[b]]

(* The blocks from p to q joined into one. *)
LEMMA JoinTiling ==
    ASSUME NEW g, Tiling(g), NEW p \in DOMAIN g, NEW q \in DOMAIN g, p # 0, p < q,
           NEW v \in Int, abs(v) = q - p
    PROVE  Tiling(Joined(g, p, q, v))
<1> DEFINE D == {c \in DOMAIN g : c <= p \/ q <= c}
           k == Joined(g, p, q, v)
<1>1. DOMAIN k = D /\ k[p] = v /\ \A b \in D : b # p => k[b] = g[b]
  <2>1. p \in D
    BY TileFacts
  <2> QED BY <2>1 DEF Joined
<1>2. /\ p \in Int /\ q \in Int /\ q <= HeapLen - 2 /\ 0 < p /\ HeapLen \in Nat
      /\ p \notin {0, HeapLen - 2}
  BY TileFacts, HeapSize
<1>3. p \in D /\ q \in D /\ 0 \in D /\ HeapLen - 2 \in D /\ p # HeapLen - 2
  BY <1>2 DEF Tiling
<1>4. abs(v) >= 4
  <2>1. abs(g[p]) >= 4 /\ abs(g[p]) \in Nat /\ p + abs(g[p]) <= q
    BY <1>2, TileFacts DEF Tiling
  <2> QED BY <1>2, <2>1
<1> HIDE DEF k
<1>5. k[0] = -2 /\ k[HeapLen - 2] = -2
  BY <1>1, <1>3 DEF Tiling
<1>6. \A i \in D : /\ i \in Int /\ 0 <= i /\ i <= HeapLen - 2 /\ k[i] \in Int
                   /\ i \in {0, HeapLen - 2} \/ abs(k[i]) >= 4
  BY <1>1, <1>4 DEF Tiling
<1>7. ASSUME NEW i \in D, i # HeapLen - 2 PROVE i + abs(k[i]) \in D
  <2>1. CASE i = p
    <3>1. p + (q - p) = q
      BY <1>2
    <3> QED BY <1>1, <1>3, <2>1, <3>1
  <2>2. CASE i # p
    <3>1. k[i] = g[i] /\ i + abs(g[i]) \in DOMAIN g /\ i \in Int /\ abs(g[i]) \in Nat
      BY <1>1, <1>7, <2>2, TileFacts DEF Tiling
    <3>2. CASE i < p
      <4>1. i + abs(g[i]) <= p
        BY <3>2 DEF Tiling
      <4> QED BY <3>1, <4>1
    <3>3. CASE q <= i
      <4>1. q <= i + abs(g[i])
        BY <1>2, <3>1, <3>3
      <4> QED BY <3>1, <4>1
    <3> QED BY <1>2, <2>2, <3>1, <3>2, <3>3
  <2> QED BY <2>1, <2>2
<1>8. ASSUME NEW i \in D, i # 0 PROVE \E j \in D : j + abs(k[j]) = i
  <2>1. CASE i = q
    <3>1. p + (q - p) = q
      BY <1>2
    <3> QED BY <1>1, <1>3, <2>1, <3>1
  <2>2. CASE i # q
    <3>1. PICK j \in DOMAIN g : j + abs(g[j]) = i
      BY <1>8 DEF Tiling
    <3>2. j \in Int /\ abs(g[j]) \in Nat /\ abs(g[j]) >= 2 /\ i \in Int
      BY TileFacts
    <3>3. j \in D /\ j # p
      <4>1. CASE i <= p
        BY <1>2, <3>1, <3>2, <4>1
      <4>2. CASE q <= i
        <5>1. ~(j < q)
          <6> SUFFICES ASSUME j < q PROVE FALSE
            OBVIOUS
          <6>1. j + abs(g[j]) <= q
            BY DEF Tiling
          <6> QED BY <1>2, <2>2, <3>1, <3>2, <4>2, <6>1
        <5> QED BY <1>2, <3>2, <5>1
      <4> QED BY <4>1, <4>2
    <3> QED BY <1>1, <3>1, <3>3
  <2> QED BY <2>1, <2>2
<1>9. ASSUME NEW i \in D, NEW j \in D, i < j PROVE i + abs(k[i]) <= j
  <2>1. CASE i = p
    <3>1. q <= j /\ p + (q - p) = q
      BY <1>2, <1>6, <1>9, <2>1
    <3> QED BY <1>1, <2>1, <3>1
  <2>2. CASE i # p
    BY <1>1, <1>9, <2>2 DEF Tiling
  <2> QED BY <2>1, <2>2
<1> QED BY <1>1, <1>3, <1>5, <1>6, <1>7, <1>8, <1>9 DEF Tiling, k

(* The block i becomes two, of tags n and m. *)
Cut(g, i, n, m) ==
    [b \in DOMAIN g \cup {i + abs(n)} |-> IF b = i THEN n ELSE IF b = i + abs(n) THEN m ELSE g[b]]

(* A block cut in two. *)
LEMMA CutTiling ==
    ASSUME NEW g, Tiling(g), NEW i \in DOMAIN g \ {0, HeapLen - 2},
           NEW n \in Int, NEW m \in Int, abs(n) >= 4, abs(m) >= 4, abs(n) + abs(m) = abs(g[i])
    PROVE  /\ Tiling(Cut(g, i, n, m))
           /\ i + abs(n) \notin DOMAIN g
<1> DEFINE c == i + abs(n)
           k == Cut(g, i, n, m)
           e == i + abs(g[i])
<1>1. /\ i \in Int /\ 2 <= i /\ abs(g[i]) \in Nat /\ abs(g[i]) >= 4 /\ e <= HeapLen - 2
      /\ HeapLen \in Nat /\ abs(n) \in Nat /\ abs(m) \in Nat
  BY TileFacts, HeapSize, AbsFacts
<1>2. c \in Int /\ i < c /\ c < e /\ c + abs(m) = e /\ e \in Int /\ e \in DOMAIN g /\ 2 <= c
  BY <1>1 DEF Tiling
<1>3. c \notin DOMAIN g
  <2> SUFFICES ASSUME c \in DOMAIN g PROVE FALSE
    OBVIOUS
  <2>1. e <= c
    BY <1>2 DEF Tiling
  <2> QED BY <1>2, <2>1
<1>4. /\ DOMAIN k = DOMAIN g \cup {c} /\ k[i] = n /\ k[c] = m
      /\ \A b \in DOMAIN g : b # i => k[b] = g[b]
  BY <1>2, <1>3 DEF Cut
<1>5. \A b \in DOMAIN g : b # i => b + abs(g[b]) <= i \/ e <= b
  BY TilesApart
<1> HIDE DEF k, c, e
<1>6. k[0] = -2 /\ k[HeapLen - 2] = -2 /\ 0 \in DOMAIN k /\ HeapLen - 2 \in DOMAIN k
  BY <1>4 DEF Tiling
<1>7. \A b \in DOMAIN k : /\ b \in Int /\ 0 <= b /\ b <= HeapLen - 2 /\ k[b] \in Int
                          /\ b \in {0, HeapLen - 2} \/ abs(k[b]) >= 4
  BY <1>1, <1>2, <1>4 DEF Tiling
<1>8. ASSUME NEW b \in DOMAIN k, b # HeapLen - 2 PROVE b + abs(k[b]) \in DOMAIN k
  <2>1. b = i => b + abs(k[b]) = c
    BY <1>4 DEF c
  <2>2. b = c => b + abs(k[b]) = e
    BY <1>2, <1>4
  <2>3. b \notin {i, c} => b + abs(k[b]) \in DOMAIN g
    BY <1>4, <1>8 DEF Tiling
  <2> QED BY <1>2, <1>4, <2>1, <2>2, <2>3
<1>9. ASSUME NEW b \in DOMAIN k, b # 0 PROVE \E j \in DOMAIN k : j + abs(k[j]) = b
  <2>1. CASE b = c
    BY <1>4, <2>1 DEF c
  <2>2. CASE b = e
    BY <1>2, <1>4, <2>2
  <2>3. CASE b \notin {c, e}
    <3>1. PICK j \in DOMAIN g : j + abs(g[j]) = b
      BY <1>4, <1>9, <2>3 DEF Tiling
    <3>2. j # i
      BY <2>3, <3>1 DEF e
    <3> QED BY <1>4, <3>1, <3>2
  <2> QED BY <2>1, <2>2, <2>3
<1>10. ASSUME NEW b \in DOMAIN k, NEW j \in DOMAIN k, b < j PROVE b + abs(k[b]) <= j
  <2>0. b \in Int /\ j \in Int
    BY <1>7
  <2>1. CASE b = i
    <3>1. j = c \/ e <= j
      <4> SUFFICES ASSUME j # c PROVE e <= j
        OBVIOUS
      <4>1. j \in DOMAIN g /\ j # i
        BY <1>4, <1>10, <2>0, <2>1
      <4>2. i + abs(g[i]) <= j
        BY <1>10, <2>1, <4>1 DEF Tiling
      <4> QED BY <4>2 DEF e
    <3>2. b + abs(k[b]) = c
      BY <1>4, <2>1 DEF c
    <3> QED BY <1>2, <2>0, <3>1, <3>2
  <2>2. CASE b = c
    <3>1. j \in DOMAIN g /\ i < j
      BY <1>1, <1>2, <1>4, <1>10, <2>0, <2>2
    <3>2. e <= j
      BY <3>1 DEF Tiling, e
    <3> QED BY <1>2, <1>4, <2>2, <3>2
  <2>3. CASE b \notin {i, c}
    <3>1. b \in DOMAIN g /\ k[b] = g[b] /\ abs(g[b]) \in Nat
      BY <1>4, <2>3, TileFacts
    <3>2. CASE j = c
      <4>1. ~(e <= b)
        BY <1>2, <1>10, <2>0, <3>2
      <4>2. b + abs(g[b]) <= i
        BY <1>5, <2>3, <3>1, <4>1
      <4> QED BY <1>1, <1>2, <2>0, <3>1, <3>2, <4>2
    <3>3. CASE j # c
      BY <1>4, <1>10, <3>1, <3>3 DEF Tiling
    <3> QED BY <3>2, <3>3
  <2> QED BY <2>1, <2>2, <2>3
<1> QED BY <1>3, <1>6, <1>7, <1>8, <1>9, <1>10 DEF Tiling, k, c

-----------------------------------------------------------------------------
Avail(g) == {i \in DOMAIN g : g[i] > 0}

(* No two available blocks are neighbours. *)
NoNeighbours(g) == \A i \in DOMAIN g : g[i] > 0 => g[i + abs(g[i])] < 0

(* The array a has the tags g, on both sides of each block. *)
Tagged(a, g) == \A i \in DOMAIN g : a[i] = g[i] /\ a[i + abs(g[i]) - 1] = g[i]

(* u says of which of the blocks how many words are in use. *)
InUse(g, u) ==
    /\ DOMAIN u = DOMAIN g \ (Avail(g) \cup {0, HeapLen - 2})
    /\ \A i \in DOMAIN u : u[i] \in Nat /\ u[i] >= 1 /\ u[i] <= abs(g[i]) - 2

(* All that is to be known of a heap h between two calls. *)
State(h, g, L, u) ==
    /\ HeapType(h)
    /\ Tiling(g) /\ NoNeighbours(g) /\ Tagged(h.array, g)
    /\ Linked(h, L) /\ Members(L) = Avail(g)
    /\ InUse(g, u)

(* The words in use are the same in a and b, but for those of block i.     *)
Keeps(a, b, u, i) == \A c \in DOMAIN u \ {i} : \A j \in 1 .. u[c] : b[c + j] = a[c + j]

(* An available block lies between the two at the ends. *)
LEMMA AvailFacts ==
    ASSUME NEW g, Tiling(g), NEW x \in Avail(g)
    PROVE  /\ x \in DOMAIN g /\ x \notin {0, HeapLen - 2} /\ x \in Int /\ 2 <= x
           /\ g[x] \in Int /\ abs(g[x]) = g[x] /\ g[x] >= 4 /\ x + g[x] <= HeapLen - 2
           /\ x + g[x] \in DOMAIN g
<1>1. x \in DOMAIN g /\ g[x] > 0 /\ g[x] \in Int
  BY TileFacts DEF Avail
<1>2. x \notin {0, HeapLen - 2}
  BY <1>1 DEF Tiling
<1>3. abs(g[x]) = g[x]
  BY <1>1, AbsFacts
<1>4. x + abs(g[x]) \in DOMAIN g
  BY <1>1, <1>2 DEF Tiling
<1> QED BY <1>1, <1>2, <1>3, <1>4, TileFacts

(* The available blocks have room for their links. *)
LEMMA AvailSpread == ASSUME NEW g, Tiling(g) PROVE Spread(Avail(g))
<1>1. ASSUME NEW x \in Avail(g) PROVE x \in 1 .. HeapLen - 4
  BY AvailFacts, HeapSize
<1>2. ASSUME NEW x \in Avail(g), NEW y \in Avail(g), x < y PROVE x + 4 <= y
  <2>1. /\ x \in DOMAIN g /\ x \in Int /\ g[x] \in Int /\ abs(g[x]) = g[x] /\ g[x] >= 4
        /\ y \in DOMAIN g /\ y \in Int
    BY AvailFacts
  <2>2. x + abs(g[x]) <= y
    BY <1>2, <2>1 DEF Tiling
  <2> QED BY <2>1, <2>2
<1> QED BY <1>1, <1>2 DEF Spread

(* So have some of them. *)
LEMMA SpreadSubset == ASSUME NEW S, Spread(S), NEW T \in SUBSET S PROVE Spread(T)
BY DEF Spread

(* Tags are no links, and the words of a block in use are none either.     *)
LEMMA TagsNotLinks ==
    ASSUME NEW g, Tiling(g), NEW b \in DOMAIN g
    PROVE  /\ b \notin LinkWords(Avail(g)) /\ b + abs(g[b]) - 1 \notin LinkWords(Avail(g))
           /\ b \notin Avail(g) => \A j \in b .. b + abs(g[b]) - 1 : j \notin LinkWords(Avail(g))
<1>1. b \in Int /\ abs(g[b]) \in Nat /\ abs(g[b]) >= 2
  BY TileFacts
<1>2. ASSUME NEW x \in Avail(g), x # b, NEW j \in b .. b + abs(g[b]) - 1
      PROVE  j # x + 1 /\ j # x + 2
  <2>1. x \in DOMAIN g /\ x \in Int /\ g[x] \in Int /\ abs(g[x]) = g[x] /\ g[x] >= 4
    BY AvailFacts
  <2>2. b + abs(g[b]) <= x \/ x + abs(g[x]) <= b
    BY <1>2, <2>1, TilesApart
  <2> QED BY <1>1, <2>1, <2>2
<1>3. ASSUME b \in Avail(g), NEW j \in {b, b + abs(g[b]) - 1} PROVE j # b + 1 /\ j # b + 2
  BY <1>1, <1>3, AvailFacts
<1>4. b \in b .. b + abs(g[b]) - 1 /\ b + abs(g[b]) - 1 \in b .. b + abs(g[b]) - 1
  BY <1>1
<1> QED BY <1>2, <1>3, <1>4 DEF LinkWords

(* The words of block c, if it is not from p to q. *)
LEMMA RestOutside ==
    ASSUME NEW g, Tiling(g), NEW p \in DOMAIN g, NEW q \in DOMAIN g,
           NEW c \in DOMAIN g, c < p \/ q <= c
    PROVE  /\ \A j \in c .. c + abs(g[c]) - 1 : j \in Word /\ j \notin p .. q - 1
           /\ c \in c .. c + abs(g[c]) - 1 /\ c + abs(g[c]) - 1 \in c .. c + abs(g[c]) - 1
<1>1. /\ c \in Int /\ 0 <= c /\ abs(g[c]) \in Nat /\ abs(g[c]) >= 2 /\ c + abs(g[c]) <= HeapLen
      /\ p \in Int /\ q \in Int /\ HeapLen \in Nat
  BY TileFacts, HeapSize
<1>2. c < p => c + abs(g[c]) <= p
  BY DEF Tiling
<1> QED BY <1>1, <1>2 DEF Word

(* What writes to links, and to the blocks from p to q, leaves the other   *)
(* blocks' tags, and the words of those in use.                            *)
LEMMA TagsKept ==
    ASSUME NEW g, Tiling(g), NEW a, Tagged(a, g), NEW p \in DOMAIN g, NEW q \in DOMAIN g,
           NEW b, SameBut(a, b, LinkWords(Avail(g)) \cup (p .. q - 1))
    PROVE  \A c \in DOMAIN g : c < p \/ q <= c => b[c] = g[c] /\ b[c + abs(g[c]) - 1] = g[c]
<1> SUFFICES ASSUME NEW c \in DOMAIN g, c < p \/ q <= c
             PROVE  b[c] = g[c] /\ b[c + abs(g[c]) - 1] = g[c]
  OBVIOUS
<1>1. c \notin LinkWords(Avail(g)) /\ c + abs(g[c]) - 1 \notin LinkWords(Avail(g))
  BY TagsNotLinks
<1>2. b[c] = a[c] /\ b[c + abs(g[c]) - 1] = a[c + abs(g[c]) - 1]
  BY <1>1, RestOutside DEF SameBut
<1> QED BY <1>2 DEF Tagged

(* A block that is not available keeps its words and tags. *)
LEMMA WordsKept ==
    ASSUME NEW g, Tiling(g), NEW a, NEW p \in DOMAIN g, NEW q \in DOMAIN g,
           NEW b, SameBut(a, b, LinkWords(Avail(g)) \cup (p .. q - 1)),
           NEW c \in DOMAIN g \ Avail(g), c < p \/ q <= c
    PROVE  \A j \in c .. c + abs(g[c]) - 1 : b[j] = a[j]
<1>1. \A j \in c .. c + abs(g[c]) - 1 : j \notin LinkWords(Avail(g))
  BY TagsNotLinks
<1> QED BY <1>1, RestOutside DEF SameBut

(* The words in use lie between the tags of their blocks. *)
LEMMA UseFacts ==
    ASSUME NEW g, Tiling(g), NEW u, InUse(g, u), NEW c \in DOMAIN u
    PROVE  /\ c \in DOMAIN g /\ c \notin Avail(g) /\ c \notin {0, HeapLen - 2}
           /\ c \in Int /\ 2 <= c /\ u[c] \in Nat /\ u[c] >= 1 /\ u[c] <= abs(g[c]) - 2
           /\ abs(g[c]) \in Nat /\ c + abs(g[c]) <= HeapLen - 2 /\ g[c] < 0
           /\ \A j \in 1 .. u[c] : c + j \in c + 1 .. c + abs(g[c]) - 2
<1>1. c \in DOMAIN g /\ c \notin Avail(g) /\ c \notin {0, HeapLen - 2}
  BY DEF InUse
<1>2. /\ c \in Int /\ 2 <= c /\ u[c] \in Nat /\ u[c] >= 1 /\ u[c] <= abs(g[c]) - 2 /\ g[c] \in Int
      /\ abs(g[c]) \in Nat /\ c + abs(g[c]) <= HeapLen - 2 /\ abs(g[c]) >= 4
  BY <1>1, TileFacts DEF InUse
<1>3. g[c] < 0
  <2>1. ~(g[c] > 0)
    BY <1>1 DEF Avail
  <2>2. g[c] # 0
    BY <1>2 DEF abs
  <2> QED BY <1>2, <2>1, <2>2
<1>4. \A j \in 1 .. u[c] : c + j \in c + 1 .. c + abs(g[c]) - 2
  BY <1>2
<1> QED BY <1>1, <1>2, <1>3, <1>4

(* And so does each word in use. *)
LEMMA RestInUse ==
    ASSUME NEW g, Tiling(g), NEW a, NEW b, NEW u, InUse(g, u),
           NEW p \in DOMAIN g, NEW q \in DOMAIN g,
           SameBut(a, b, LinkWords(Avail(g)) \cup (p .. q - 1)),
           NEW i, \A c \in DOMAIN u \ {i} : c < p \/ q <= c
    PROVE  Keeps(a, b, u, i)
<1> SUFFICES ASSUME NEW c \in DOMAIN u \ {i}, NEW j \in 1 .. u[c] PROVE b[c + j] = a[c + j]
  BY DEF Keeps
<1>1. /\ c \in DOMAIN g /\ c \notin Avail(g) /\ c \in Int /\ abs(g[c]) \in Nat
      /\ c + j \in c + 1 .. c + abs(g[c]) - 2
  BY UseFacts
<1>2. \A k \in c .. c + abs(g[c]) - 1 : b[k] = a[k]
  BY <1>1, WordsKept
<1>3. c + j \in c .. c + abs(g[c]) - 1
  BY <1>1
<1> QED BY <1>2, <1>3

(* u with w words of block i in use. *)
Used(u, i, w) == [j \in DOMAIN u \cup {i} |-> IF j = i THEN w ELSE u[j]]

(* A block that fits is taken whole. *)
LEMMA TakeWhole ==
    ASSUME NEW h, NEW g, NEW L, NEW u, State(h, g, L, u), NEW i \in Avail(g),
           NEW w \in Nat, w >= 1, w <= g[i] - 2
    PROVE  LET k == makeTaken(remove(h, i), i, g[i]) IN
           /\ \E g2, L2 : /\ State(k, g2, L2, Used(u, i, w))
                          /\ i \in DOMAIN g2 /\ abs(g2[i]) = g[i]
                          /\ \A c \in DOMAIN u : g2[c] = g[c]
           /\ Keeps(h.array, k.array, u, i)
<1> DEFINE n == g[i]
           e == i + n
           h1 == remove(h, i)
           k == makeTaken(h1, i, n)
           g2 == Joined(g, i, e, -n)
<1>1. /\ HeapType(h) /\ Tiling(g) /\ NoNeighbours(g) /\ Tagged(h.array, g)
      /\ Linked(h, L) /\ Members(L) = Avail(g) /\ InUse(g, u)
  BY DEF State
<1>2. /\ i \in DOMAIN g /\ i \notin {0, HeapLen - 2} /\ i \in Int /\ 2 <= i
      /\ n \in Int /\ abs(n) = n /\ n >= 4 /\ e <= HeapLen - 2 /\ e \in DOMAIN g /\ e \in Int
  BY <1>1, AvailFacts
<1>3. PICK m \in 1 .. Len(L) : L[m] = i
  BY <1>1 DEF Members
<1> DEFINE D == Dropped(L, m)
<1>4. Spread(Avail(g)) /\ Spread(Avail(g) \ {i})
  BY <1>1, AvailSpread, SpreadSubset
<1>5. /\ HeapType(h1) /\ Linked(h1, D) /\ Members(D) = Avail(g) \ {i}
      /\ SameBut(h.array, h1.array, LinkWords(Avail(g) \ {i}))
  <2>1. Members(D) = Members(L) \ {i}
    BY <1>1, <1>3, DroppedList DEF Linked
  <2> QED BY <1>1, <1>3, <1>4, <2>1, RemoveLinked
<1>6. Clear(Members(D), i, n)
  <2> SUFFICES ASSUME NEW x \in Avail(g), x # i PROVE x + 4 <= i \/ i + n <= x
    BY <1>5 DEF Clear
  <2>1. x \in DOMAIN g /\ x \in Int /\ g[x] \in Int /\ abs(g[x]) = g[x] /\ g[x] >= 4
    BY <1>1, AvailFacts
  <2>2. x + abs(g[x]) <= i \/ i + abs(g[i]) <= x
    BY <1>1, <1>2, <2>1, TilesApart
  <2> QED BY <1>2, <2>1, <2>2
<1>7. /\ HeapType(k) /\ Linked(k, D) /\ k.array[i] = -n /\ k.array[i + n - 1] = -n
      /\ SameBut(h1.array, k.array, {i, i + n - 1})
  <2>1. 0 <= i /\ 2 <= n /\ i + n <= HeapLen
    BY <1>2, HeapSize
  <2>2. Spread(Members(D))
    BY <1>4, <1>5
  <2>3. n \in Int /\ i \in Int /\ HeapType(h1) /\ Linked(h1, D)
    BY <1>2, <1>5
  <2> HIDE DEF n, D, h1
  <2> QED BY <1>6, <2>1, <2>2, <2>3, MakeTakenLinked, Zenon
<1>8. SameBut(h.array, k.array, LinkWords(Avail(g)) \cup (i .. e - 1))
  <2>1. {i, i + n - 1} \subseteq i .. e - 1
    BY <1>2
  <2>2. LinkWords(Avail(g) \ {i}) \subseteq LinkWords(Avail(g))
    BY DEF LinkWords
  <2> HIDE DEF k, h1, n, e
  <2> QED BY <1>5, <1>7, <2>1, <2>2 DEF SameBut
<1>9. Tiling(g2)
  <2>1. -n \in Int /\ abs(-n) = e - i /\ i < e /\ i # 0
    <3>1. abs(-n) = abs(n) /\ -n \in Int
      <4>1. n \in Int
        BY <1>2
      <4> HIDE DEF n
      <4> QED BY <4>1, AbsFacts
    <3>2. n = e - i /\ i < e /\ i # 0
      BY <1>2
    <3> HIDE DEF n, e
    <3> QED BY <1>2, <3>1, <3>2
  <2> HIDE DEF n, e
  <2> QED BY <1>1, <1>2, <2>1, JoinTiling
<1>10. \A c \in DOMAIN g : c # i => c + abs(g[c]) <= i \/ e <= c
  BY <1>1, <1>2, TilesApart
<1>11. \A c \in DOMAIN g : c # i => c < i \/ e <= c
  BY <1>1, <1>2, <1>10, TileFacts
<1>12. /\ DOMAIN g2 = DOMAIN g /\ g2[i] = -n /\ abs(g2[i]) = n
       /\ \A c \in DOMAIN g : c # i => g2[c] = g[c]
  <2>1. {c \in DOMAIN g : c <= i \/ e <= c} = DOMAIN g
    <3>1. \A c \in DOMAIN g : c <= i \/ e <= c
      <4>1. i <= i
        BY <1>2
      <4>2. \A c \in DOMAIN g : c < i => c <= i
        BY <1>1, <1>2, TileFacts
      <4> HIDE DEF e
      <4> QED BY <1>11, <4>1, <4>2
    <3> HIDE DEF e
    <3> QED BY <3>1
  <2> QED BY <1>2, <2>1, AbsFacts DEF Joined
<1> HIDE DEF n, e, h1, k, D, g2
<1>13. Avail(g2) = Avail(g) \ {i} /\ \A c \in DOMAIN g2 : c \in Avail(g2) => c # i /\ g2[c] = g[c]
  BY <1>2, <1>12 DEF Avail
<1>14. NoNeighbours(g2)
  <2> SUFFICES ASSUME NEW c \in DOMAIN g2, g2[c] > 0 PROVE g2[c + abs(g2[c])] < 0
    BY DEF NoNeighbours
  <2>1. c \in Avail(g) /\ c # i /\ g2[c] = g[c] /\ c \in DOMAIN g
    BY <1>12, <1>13 DEF Avail
  <2>2. g[c + abs(g[c])] < 0 /\ c + abs(g[c]) \in DOMAIN g
    BY <1>1, <2>1, AvailFacts DEF NoNeighbours, Avail
  <2> QED BY <1>2, <1>12, <2>1, <2>2
<1>15. Tagged(k.array, g2)
  <2>1. ASSUME NEW c \in DOMAIN g, c # i
        PROVE  k.array[c] = g[c] /\ k.array[c + abs(g[c]) - 1] = g[c]
    <3>1. c < i \/ e <= c
      BY <1>11, <2>1
    <3>2. Tiling(g) /\ Tagged(h.array, g) /\ i \in DOMAIN g /\ e \in DOMAIN g
      BY <1>1, <1>2
    <3> QED BY <1>8, <3>1, <3>2, TagsKept
  <2> QED BY <1>7, <1>12, <2>1 DEF Tagged
<1>16. InUse(g2, Used(u, i, w))
  <2>1. DOMAIN Used(u, i, w) = DOMAIN u \cup {i}
    BY DEF Used
  <2>2. DOMAIN u \cup {i} = DOMAIN g2 \ (Avail(g2) \cup {0, HeapLen - 2})
    BY <1>1, <1>2, <1>12, <1>13 DEF InUse
  <2>3. ASSUME NEW c \in DOMAIN u \cup {i}
        PROVE  /\ Used(u, i, w)[c] \in Nat /\ Used(u, i, w)[c] >= 1
               /\ Used(u, i, w)[c] <= abs(g2[c]) - 2
    <3>1. CASE c = i
      BY <1>12, <3>1 DEF Used, n
    <3>2. CASE c # i
      BY <1>1, <1>12, <3>2 DEF Used, InUse
    <3> QED BY <3>1, <3>2
  <2> QED BY <2>1, <2>2, <2>3 DEF InUse
<1>17. Keeps(h.array, k.array, u, i)
  <2>1. \A c \in DOMAIN u \ {i} : c < i \/ e <= c
    BY <1>1, <1>11, UseFacts
  <2> QED BY <1>1, <1>2, <1>8, <2>1, RestInUse
<1>18. State(k, g2, D, Used(u, i, w))
  BY <1>5, <1>7, <1>9, <1>13, <1>14, <1>15, <1>16 DEF State
<1>19. \A c \in DOMAIN u : g2[c] = g[c]
  BY <1>1, <1>12 DEF InUse
<1> QED BY <1>2, <1>12, <1>17, <1>18, <1>19 DEF k, n, h1

-----------------------------------------------------------------------------
(* Of a block that is large enough, the rest becomes an available one. *)
LEMMA TakePart ==
    ASSUME NEW h, NEW g, NEW L, NEW u, State(h, g, L, u), NEW i \in Avail(g),
           NEW n \in Int, n >= 4, g[i] - n >= 4,
           NEW w \in Nat, w >= 1, w <= n - 2
    PROVE  LET k == makeAvail(makeTaken(remove(h, i), i, n), i + n, g[i] - n) IN
           /\ \E g2, L2 : /\ State(k, g2, L2, Used(u, i, w))
                          /\ i \in DOMAIN g2 /\ abs(g2[i]) = n
                          /\ \A c \in DOMAIN u : g2[c] = g[c]
           /\ Keeps(h.array, k.array, u, i)
<1> DEFINE s == g[i]
           r == s - n
           v == i + n
           e == i + s
           h1 == remove(h, i)
           h2 == makeTaken(h1, i, n)
           k == makeAvail(h2, v, r)
           g2 == Cut(g, i, -n, r)
<1>1. /\ HeapType(h) /\ Tiling(g) /\ NoNeighbours(g) /\ Tagged(h.array, g)
      /\ Linked(h, L) /\ Members(L) = Avail(g) /\ InUse(g, u)
  BY DEF State
<1>2. /\ i \in DOMAIN g /\ i \notin {0, HeapLen - 2} /\ i \in Int /\ 2 <= i
      /\ s \in Int /\ abs(s) = s /\ s >= 4 /\ e <= HeapLen - 2 /\ e \in DOMAIN g /\ e \in Int
  BY <1>1, AvailFacts
<1>3. PICK m \in 1 .. Len(L) : L[m] = i
  BY <1>1 DEF Members
<1> DEFINE D == Dropped(L, m)
           P == <<v>> \o D
<1>4. Spread(Avail(g)) /\ Spread(Avail(g) \ {i})
  BY <1>1, AvailSpread, SpreadSubset
<1>5. /\ HeapType(h1) /\ Linked(h1, D) /\ Members(D) = Avail(g) \ {i}
      /\ SameBut(h.array, h1.array, LinkWords(Avail(g) \ {i}))
  <2>1. Members(D) = Members(L) \ {i}
    BY <1>1, <1>3, DroppedList DEF Linked
  <2> QED BY <1>1, <1>3, <1>4, <2>1, RemoveLinked
<1> HIDE DEF h1, D
<1>6. /\ r \in Int /\ r >= 4 /\ v \in Int /\ v + r = e /\ i < v /\ v < e /\ v = i + n
      /\ -n \in Int /\ abs(-n) = n /\ abs(r) = r /\ abs(-n) + abs(r) = abs(s)
  <2>1. r \in Int /\ r >= 4 /\ v \in Int /\ v + r = e /\ i < v /\ v < e
    BY <1>2
  <2>2. abs(n) = n /\ abs(-n) = abs(n) /\ abs(r) = r /\ -n \in Int
    <3> HIDE DEF r
    <3> QED BY <2>1, AbsFacts
  <2>3. n + r = s
    BY <1>2
  <2> HIDE DEF r, v, e, s
  <2> QED BY <1>2, <2>1, <2>2, <2>3 DEF v
<1>7. \A x \in Avail(g) : x # i => x + 4 <= i \/ e <= x
  <2> SUFFICES ASSUME NEW x \in Avail(g), x # i PROVE x + 4 <= i \/ e <= x
    OBVIOUS
  <2>1. x \in DOMAIN g /\ x \in Int /\ g[x] \in Int /\ abs(g[x]) = g[x] /\ g[x] >= 4
    BY <1>1, AvailFacts
  <2>2. x + abs(g[x]) <= i \/ i + abs(g[i]) <= x
    BY <1>1, <1>2, <2>1, TilesApart
  <2> QED BY <1>2, <2>1, <2>2
<1>8. \A x \in Avail(g) : x \in Int
  BY <1>1, AvailFacts
<1> HIDE DEF s, r, v, e
<1>9. Clear(Members(D), i, n) /\ Clear(Members(D), v, r)
  <2> SUFFICES ASSUME NEW x \in Members(D)
               PROVE  (x + 4 <= i \/ i + n <= x) /\ (x + 4 <= v \/ v + r <= x)
    BY DEF Clear
  <2>1. x \in Avail(g) /\ x # i /\ x \in Int
    BY <1>5, <1>8
  <2>2. x + 4 <= i \/ e <= x
    BY <1>7, <2>1
  <2>3. /\ i \in Int /\ n \in Int /\ i + n = v /\ v \in Int /\ r \in Int /\ v + r = e
        /\ i < v /\ v < e
    BY <1>2, <1>6
  <2>4. x + 4 <= i \/ i + n <= x
    BY <2>1, <2>2, <2>3
  <2>5. x + 4 <= v \/ v + r <= x
    BY <2>1, <2>2, <2>3
  <2> QED BY <2>4, <2>5
<1>10. /\ HeapType(h2) /\ Linked(h2, D) /\ h2.array[i] = -n /\ h2.array[i + n - 1] = -n
       /\ SameBut(h1.array, h2.array, {i, i + n - 1})
  <2>1. 0 <= i /\ 2 <= n /\ i + n <= HeapLen
    BY <1>2, <1>6, HeapSize
  <2>2. Spread(Members(D)) /\ HeapType(h1) /\ Linked(h1, D) /\ i \in Int
    BY <1>2, <1>4, <1>5
  <2> QED BY <1>9, <2>1, <2>2, MakeTakenLinked, Zenon
<1> HIDE DEF h2
<1>11. Tiling(g2) /\ v \notin DOMAIN g
  <2>1. i \in DOMAIN g \ {0, HeapLen - 2} /\ abs(-n) >= 4 /\ abs(r) >= 4
    BY <1>2, <1>6
  <2> QED BY <1>1, <1>6, <2>1, CutTiling DEF v, s
<1>12. /\ DOMAIN g2 = DOMAIN g \cup {v} /\ g2[i] = -n /\ g2[v] = r /\ abs(g2[i]) = n
       /\ \A c \in DOMAIN g : c # i => g2[c] = g[c]
  BY <1>2, <1>6, <1>11 DEF Cut
<1> HIDE DEF g2
<1>13. Avail(g2) = (Avail(g) \ {i}) \cup {v}
  BY <1>2, <1>6, <1>11, <1>12 DEF Avail
<1>14. /\ HeapType(k) /\ Linked(k, P) /\ k.array[v] = r /\ k.array[v + r - 1] = r
       /\ SameBut(h2.array, k.array, {v, v + r - 1} \cup LinkWords(Avail(g2)))
  <2>1. v \notin Members(D) /\ Members(D) \cup {v} = Avail(g2)
    BY <1>5, <1>11, <1>13 DEF Avail
  <2>2. Spread(Members(D) \cup {v})
    BY <1>11, <2>1, AvailSpread
  <2>3. r \in Int /\ 4 <= r /\ v + r <= HeapLen
    BY <1>2, <1>6, HeapSize
  <2>4. HeapType(h2) /\ Linked(h2, D) /\ v \in Int /\ Clear(Members(D), v, r)
    BY <1>6, <1>9, <1>10
  <2>5. k = makeAvail(h2, v, r)
    OBVIOUS
  <2> HIDE DEF k
  <2>6. /\ HeapType(makeAvail(h2, v, r)) /\ Linked(makeAvail(h2, v, r), <<v>> \o D)
        /\ makeAvail(h2, v, r).array[v] = r /\ makeAvail(h2, v, r).array[v + r - 1] = r
        /\ SameBut(h2.array, makeAvail(h2, v, r).array,
                   {v, v + r - 1} \cup LinkWords(Members(D) \cup {v}))
    BY <2>1, <2>2, <2>3, <2>4, MakeAvailLinked
  <2> QED BY <2>1, <2>5, <2>6 DEF P
<1>15. Members(P) = Avail(g2)
  <2>1. v \notin Members(D) /\ Members(D) \cup {v} = Avail(g2) /\ v \in Int
    BY <1>5, <1>6, <1>11, <1>13 DEF Avail
  <2> QED BY <1>5, <2>1, PutFirst DEF Linked
<1> HIDE DEF k, P
<1>16. SameBut(h.array, k.array, LinkWords(Avail(g)) \cup (i .. e - 1))
  <2>1. /\ i \in i .. e - 1 /\ i + n - 1 \in i .. e - 1 /\ v \in i .. e - 1 /\ v + r - 1 \in i .. e - 1
        /\ v + 1 \in i .. e - 1 /\ v + 2 \in i .. e - 1
    <3>1. i + n - 1 = v - 1 /\ v + r - 1 = e - 1
      BY <1>2, <1>6
    <3>2. v + 4 <= e /\ i < v /\ i \in Int /\ v \in Int /\ e \in Int
      BY <1>2, <1>6
    <3>3. /\ i \in i .. e - 1 /\ v - 1 \in i .. e - 1 /\ v \in i .. e - 1 /\ e - 1 \in i .. e - 1
          /\ v + 1 \in i .. e - 1 /\ v + 2 \in i .. e - 1
      BY <3>2
    <3> QED BY <3>1, <3>3
  <2>2. LinkWords(Avail(g2)) \subseteq LinkWords(Avail(g)) \cup {v + 1, v + 2}
    BY <1>13 DEF LinkWords
  <2>3. LinkWords(Avail(g) \ {i}) \subseteq LinkWords(Avail(g))
    BY DEF LinkWords
  <2>4. \A j \in Word \ (LinkWords(Avail(g)) \cup (i .. e - 1)) :
           k.array[j] = h2.array[j] /\ h2.array[j] = h1.array[j] /\ h1.array[j] = h.array[j]
    BY <1>5, <1>10, <1>14, <2>1, <2>2, <2>3 DEF SameBut
  <2> QED BY <2>4 DEF SameBut
<1>17. k.array[i] = -n /\ k.array[i + n - 1] = -n
  <2>1. i + abs(g2[i]) - 1 = i + n - 1 /\ i \in DOMAIN g2
    BY <1>2, <1>12
  <2>2. i \notin LinkWords(Avail(g2)) /\ i + n - 1 \notin LinkWords(Avail(g2))
    BY <1>11, <2>1, TagsNotLinks
  <2>3. i \notin {v, v + r - 1} /\ i + n - 1 \notin {v, v + r - 1} /\ i \in Word /\ i + n - 1 \in Word
    <3>1. i + n - 1 = v - 1 /\ v + r - 1 = e - 1 /\ v + 4 <= e
      BY <1>2, <1>6
    <3>2. i < v /\ i \in Int /\ v \in Int /\ e \in Int /\ 2 <= i /\ e <= HeapLen - 2
      BY <1>2, <1>6
    <3>3. i \notin {v, e - 1} /\ v - 1 \notin {v, e - 1} /\ i \in Word /\ v - 1 \in Word
      BY <3>1, <3>2, HeapSize DEF Word
    <3> QED BY <3>1, <3>3
  <2> QED BY <1>10, <1>14, <2>2, <2>3 DEF SameBut
<1>18. \A c \in DOMAIN g : c # i => c < i \/ e <= c
  <2> SUFFICES ASSUME NEW c \in DOMAIN g, c # i PROVE c < i \/ e <= c
    OBVIOUS
  <2>1. c + abs(g[c]) <= i \/ i + abs(g[i]) <= c
    BY <1>1, <1>2, TilesApart
  <2>2. c \in Int /\ abs(g[c]) \in Nat /\ abs(g[c]) >= 2
    BY <1>1, TileFacts
  <2>3. i + abs(g[i]) = e /\ i \in Int /\ e \in Int
    BY <1>2 DEF e, s
  <2>4. CASE c + abs(g[c]) <= i
    BY <2>2, <2>3, <2>4
  <2>5. CASE i + abs(g[i]) <= c
    BY <2>3, <2>5
  <2> QED BY <2>1, <2>4, <2>5
<1>19. NoNeighbours(g2)
  <2> SUFFICES ASSUME NEW c \in DOMAIN g2, g2[c] > 0 PROVE g2[c + abs(g2[c])] < 0
    BY DEF NoNeighbours
  <2>1. g[e] < 0 /\ e # i
    BY <1>1, <1>2, <1>6 DEF NoNeighbours, Avail, s, e
  <2>2. CASE c = v
    BY <1>2, <1>6, <1>12, <2>1, <2>2
  <2>3. CASE c # v
    <3>1. c \in Avail(g) /\ c # i /\ g2[c] = g[c] /\ c \in DOMAIN g
      BY <1>12, <1>13, <2>3 DEF Avail
    <3>2. g[c + abs(g[c])] < 0 /\ c + abs(g[c]) \in DOMAIN g
      BY <1>1, <3>1, AvailFacts DEF NoNeighbours, Avail
    <3>3. -n < 0
      OBVIOUS
    <3> QED BY <1>12, <3>1, <3>2, <3>3
  <2> QED BY <2>2, <2>3
<1>20. Tagged(k.array, g2)
  <2>1. ASSUME NEW c \in DOMAIN g, c # i
        PROVE  k.array[c] = g[c] /\ k.array[c + abs(g[c]) - 1] = g[c]
    <3>1. c < i \/ e <= c
      BY <1>18, <2>1
    <3>2. Tiling(g) /\ Tagged(h.array, g) /\ i \in DOMAIN g /\ e \in DOMAIN g
      BY <1>1, <1>2
    <3>3. \A j \in c .. c + abs(g[c]) - 1 : j \in Word /\ j \notin i .. e - 1
      BY <3>1, <3>2, RestOutside
    <3>4. c \in c .. c + abs(g[c]) - 1 /\ c + abs(g[c]) - 1 \in c .. c + abs(g[c]) - 1
      BY <3>1, <3>2, RestOutside
    <3>5. c \notin LinkWords(Avail(g)) /\ c + abs(g[c]) - 1 \notin LinkWords(Avail(g))
      BY <3>2, TagsNotLinks
    <3>6. h.array[c] = g[c] /\ h.array[c + abs(g[c]) - 1] = g[c]
      BY <3>2 DEF Tagged
    <3> QED BY <1>16, <3>3, <3>4, <3>5, <3>6 DEF SameBut
  <2> QED BY <1>6, <1>12, <1>14, <1>17, <2>1 DEF Tagged
<1>21. InUse(g2, Used(u, i, w))
  <2>1. DOMAIN Used(u, i, w) = DOMAIN u \cup {i}
    BY DEF Used
  <2>2. DOMAIN u \cup {i} = DOMAIN g2 \ (Avail(g2) \cup {0, HeapLen - 2})
    <3>1. v \notin DOMAIN u /\ v # i
      BY <1>1, <1>6, <1>11 DEF InUse
    <3> QED BY <1>1, <1>2, <1>12, <1>13, <3>1 DEF InUse
  <2>3. ASSUME NEW c \in DOMAIN u \cup {i}
        PROVE  /\ Used(u, i, w)[c] \in Nat /\ Used(u, i, w)[c] >= 1
               /\ Used(u, i, w)[c] <= abs(g2[c]) - 2
    <3>1. CASE c = i
      BY <1>12, <3>1 DEF Used
    <3>2. CASE c # i
      BY <1>1, <1>12, <3>2 DEF Used, InUse
    <3> QED BY <3>1, <3>2
  <2> QED BY <2>1, <2>2, <2>3 DEF InUse
<1>22. Keeps(h.array, k.array, u, i)
  <2>1. \A c \in DOMAIN u \ {i} : c < i \/ e <= c
    BY <1>1, <1>18, UseFacts
  <2> QED BY <1>1, <1>2, <1>16, <2>1, RestInUse
<1>23. State(k, g2, P, Used(u, i, w))
  BY <1>11, <1>14, <1>15, <1>19, <1>20, <1>21 DEF State
<1>24. \A c \in DOMAIN u : g2[c] = g[c]
  BY <1>1, <1>12 DEF InUse
<1> QED BY <1>2, <1>12, <1>22, <1>23, <1>24 DEF k, h2, h1, v, r, s

-----------------------------------------------------------------------------
(* The blocks from p to q, of which only i is in use, become an available  *)
(* one, when those of them that were available are no longer in the list.  *)
LEMMA JoinedState ==
    ASSUME NEW h, NEW g, NEW L, NEW u, State(h, g, L, u), NEW i \in DOMAIN u,
           NEW p \in DOMAIN g, NEW q \in DOMAIN g, p # 0, p <= i, i < q,
           \A c \in DOMAIN u \ {i} : c < p \/ q <= c,
           \A c \in DOMAIN g : c + abs(g[c]) = p => ~(g[c] > 0),
           g[q] < 0,
           NEW h2, NEW M, HeapType(h2), Linked(h2, M),
           Members(M) = {c \in Avail(g) : c < p \/ q <= c},
           SameBut(h.array, h2.array, LinkWords(Avail(g)))
    PROVE  LET k == makeAvail(h2, p, q - p) IN
           /\ \E g2, L2 : State(k, g2, L2, Less(u, i))
           /\ Keeps(h.array, k.array, u, i)
<1> DEFINE r == q - p
           k == makeAvail(h2, p, r)
           g2 == Joined(g, p, q, r)
           A == {c \in Avail(g) : c < p \/ q <= c}
           P == <<p>> \o M
<1>1. /\ HeapType(h) /\ Tiling(g) /\ NoNeighbours(g) /\ Tagged(h.array, g)
      /\ Linked(h, L) /\ Members(L) = Avail(g) /\ InUse(g, u)
  BY DEF State
<1>2. /\ p \in Int /\ q \in Int /\ i \in Int /\ p < q /\ q <= HeapLen - 2 /\ 2 <= p
      /\ p \notin {0, HeapLen - 2} /\ i \in DOMAIN g
  <2>1. p \in Int /\ 0 <= p /\ q \in Int /\ q <= HeapLen - 2 /\ i \in Int /\ i \in DOMAIN g
    BY <1>1, TileFacts, UseFacts
  <2>2. p \notin {0, HeapLen - 2}
    BY <2>1, HeapSize
  <2>3. 2 <= p
    BY <1>1, <2>2, TileFacts
  <2> QED BY <2>1, <2>2, <2>3
<1>3. r \in Int /\ r >= 4 /\ abs(r) = r /\ p + r = q
  <2>1. abs(g[p]) >= 4 /\ abs(g[p]) \in Nat
    BY <1>1, <1>2, TileFacts
  <2>2. p + abs(g[p]) <= q
    BY <1>1, <1>2 DEF Tiling
  <2>3. r \in Int /\ r >= 4 /\ p + r = q
    BY <1>2, <2>1, <2>2
  <2> HIDE DEF r
  <2>4. abs(r) = r
    BY <2>3, AbsFacts
  <2> QED BY <2>3, <2>4
<1>4. Tiling(g2)
  <2>1. r \in Int /\ abs(r) = q - p
    BY <1>3
  <2> HIDE DEF r
  <2> QED BY <1>1, <1>2, <2>1, JoinTiling
<1>5. /\ DOMAIN g2 = {c \in DOMAIN g : c <= p \/ q <= c} /\ p \in DOMAIN g2 /\ q \in DOMAIN g2
      /\ g2[p] = r /\ abs(g2[p]) = r
      /\ \A c \in DOMAIN g2 : c \in DOMAIN g /\ (c # p => g2[c] = g[c])
  BY <1>2, <1>3 DEF Joined
<1> HIDE DEF r, g2
<1>6. Avail(g2) = A \cup {p} /\ p \notin A /\ A \subseteq Avail(g)
  <2>1. \A c \in Avail(g) : c \in DOMAIN g /\ c \in Int
    BY <1>1, AvailFacts
  <2>2. p \notin A
    BY <1>2
  <2>3. \A c \in DOMAIN g : c \in Int
    BY <1>1, TileFacts
  <2>4. Avail(g2) \subseteq A \cup {p}
    <3> SUFFICES ASSUME NEW c \in Avail(g2), c # p PROVE c \in A
      OBVIOUS
    <3>1. c \in DOMAIN g2 /\ c \in DOMAIN g /\ g2[c] = g[c] /\ g[c] > 0
      BY <1>5 DEF Avail
    <3>2. c < p \/ q <= c
      BY <1>2, <1>5, <2>3, <3>1
    <3> QED BY <3>1, <3>2 DEF Avail
  <2>5. A \cup {p} \subseteq Avail(g2)
    <3>1. p \in Avail(g2)
      BY <1>3, <1>5 DEF Avail
    <3>2. ASSUME NEW c \in A PROVE c \in Avail(g2)
      <4>1. c \in DOMAIN g /\ g[c] > 0 /\ c # p /\ (c <= p \/ q <= c)
        BY <1>2, <2>1, <2>2 DEF Avail
      <4> QED BY <1>5, <4>1 DEF Avail
    <3> QED BY <3>1, <3>2
  <2> QED BY <2>2, <2>4, <2>5
<1>7. ASSUME NEW x \in A PROVE x + 4 <= p \/ q <= x
  <2>1. x \in DOMAIN g /\ x \in Int /\ g[x] \in Int /\ abs(g[x]) = g[x] /\ g[x] >= 4
    BY <1>1, AvailFacts
  <2>2. CASE x < p
    <3>1. x + abs(g[x]) <= p
      BY <1>1, <2>1, <2>2 DEF Tiling
    <3> QED BY <1>2, <2>1, <3>1
  <2> QED BY <2>2
<1>8. Members(M) = A
  OBVIOUS
<1> HIDE DEF A
<1>9. /\ HeapType(k) /\ Linked(k, P) /\ k.array[p] = r /\ k.array[p + r - 1] = r
      /\ SameBut(h2.array, k.array, {p, p + r - 1} \cup LinkWords(A \cup {p}))
  <2>1. Clear(Members(M), p, r)
    BY <1>3, <1>7, <1>8 DEF Clear
  <2>2. p \notin Members(M) /\ Spread(Members(M) \cup {p})
    BY <1>4, <1>6, <1>8, AvailSpread
  <2>3. r \in Int /\ 4 <= r /\ p + r <= HeapLen
    BY <1>2, <1>3, HeapSize
  <2>4. HeapType(h2) /\ Linked(h2, M)
    OBVIOUS
  <2>5. /\ HeapType(makeAvail(h2, p, r)) /\ Linked(makeAvail(h2, p, r), <<p>> \o M)
        /\ makeAvail(h2, p, r).array[p] = r /\ makeAvail(h2, p, r).array[p + r - 1] = r
        /\ SameBut(h2.array, makeAvail(h2, p, r).array,
                   {p, p + r - 1} \cup LinkWords(Members(M) \cup {p}))
    BY <2>1, <2>2, <2>3, <2>4, MakeAvailLinked
  <2> QED BY <1>8, <2>5
<1>10. Members(P) = Avail(g2)
  <2>1. p \notin Members(M) /\ p \in Int
    BY <1>2, <1>6, <1>8
  <2> QED BY <1>6, <1>8, <2>1, PutFirst DEF Linked
<1> HIDE DEF k, P
<1>11. SameBut(h.array, k.array, LinkWords(Avail(g)) \cup (p .. q - 1))
  <2>1. /\ p \in p .. q - 1 /\ p + r - 1 \in p .. q - 1
        /\ p + 1 \in p .. q - 1 /\ p + 2 \in p .. q - 1
    BY <1>2, <1>3
  <2>2. LinkWords(A \cup {p}) \subseteq LinkWords(Avail(g)) \cup {p + 1, p + 2}
    BY <1>6 DEF LinkWords
  <2>3. \A j \in Word \ (LinkWords(Avail(g)) \cup (p .. q - 1)) :
           k.array[j] = h2.array[j] /\ h2.array[j] = h.array[j]
    BY <1>9, <2>1, <2>2 DEF SameBut
  <2> QED BY <2>3 DEF SameBut
<1>12. NoNeighbours(g2)
  <2> SUFFICES ASSUME NEW c \in DOMAIN g2, g2[c] > 0 PROVE g2[c + abs(g2[c])] < 0
    BY DEF NoNeighbours
  <2>1. CASE c = p
    <3>1. c + abs(g2[c]) = q /\ q # p
      BY <1>2, <1>3, <1>5, <2>1
    <3> QED BY <1>5, <3>1
  <2>2. CASE c # p
    <3>1. c \in DOMAIN g /\ g2[c] = g[c] /\ g[c] > 0 /\ c # HeapLen - 2
      BY <1>5, <2>2, <1>4 DEF Tiling
    <3>2. c + abs(g[c]) \in DOMAIN g2
      BY <1>4, <3>1 DEF Tiling
    <3>3. c + abs(g[c]) # p
      BY <3>1
    <3>4. g[c + abs(g[c])] < 0
      BY <1>1, <3>1 DEF NoNeighbours
    <3> QED BY <1>5, <3>1, <3>2, <3>3, <3>4
  <2> QED BY <2>1, <2>2
<1>13. Tagged(k.array, g2)
  <2>1. ASSUME NEW c \in DOMAIN g2, c # p
        PROVE  k.array[c] = g2[c] /\ k.array[c + abs(g2[c]) - 1] = g2[c]
    <3>1. c \in DOMAIN g /\ g2[c] = g[c] /\ (c < p \/ q <= c)
      <4>1. c \in DOMAIN g /\ g2[c] = g[c] /\ (c <= p \/ q <= c) /\ c \in Int
        BY <1>1, <1>5, <2>1, TileFacts
      <4> QED BY <1>2, <2>1, <4>1
    <3>2. Tiling(g) /\ Tagged(h.array, g) /\ p \in DOMAIN g /\ q \in DOMAIN g
      BY <1>1
    <3>3. \A b \in DOMAIN g : b < p \/ q <= b =>
             k.array[b] = g[b] /\ k.array[b + abs(g[b]) - 1] = g[b]
      BY <1>11, <3>2, TagsKept
    <3> QED BY <3>1, <3>3
  <2> QED BY <1>5, <1>9, <2>1 DEF Tagged
<1>14. InUse(g2, Less(u, i))
  <2>1. DOMAIN Less(u, i) = DOMAIN u \ {i} /\ \A c \in DOMAIN u \ {i} : Less(u, i)[c] = u[c]
    BY DEF Less
  <2>2. ASSUME NEW c \in DOMAIN u \ {i}
        PROVE  /\ c \in DOMAIN g2 \ (Avail(g2) \cup {0, HeapLen - 2}) /\ g2[c] = g[c]
    <3>1. c \in DOMAIN g /\ c \notin Avail(g) /\ c \notin {0, HeapLen - 2} /\ c \in Int
      BY <1>1, UseFacts
    <3>2. c < p \/ q <= c
      OBVIOUS
    <3>3. c # p /\ (c <= p \/ q <= c)
      BY <1>2, <3>1, <3>2
    <3> QED BY <1>5, <1>6, <3>1, <3>3
  <2>3. ASSUME NEW c \in DOMAIN g2 \ (Avail(g2) \cup {0, HeapLen - 2})
        PROVE  c \in DOMAIN u \ {i}
    <3>1. c \in DOMAIN g /\ c # p /\ g2[c] = g[c] /\ (c <= p \/ q <= c) /\ c \in Int
      BY <1>1, <1>5, <1>6, TileFacts
    <3>2. c \notin Avail(g)
      BY <3>1 DEF Avail
    <3>3. c # i
      BY <1>2, <3>1
    <3> QED BY <1>1, <3>1, <3>2, <3>3 DEF InUse
  <2>4. DOMAIN Less(u, i) = DOMAIN g2 \ (Avail(g2) \cup {0, HeapLen - 2})
    BY <2>1, <2>2, <2>3
  <2> QED BY <1>1, <2>1, <2>2, <2>4 DEF InUse
<1>15. Keeps(h.array, k.array, u, i)
  <2>1. \A c \in DOMAIN u \ {i} : c < p \/ q <= c
    OBVIOUS
  <2> QED BY <1>1, <1>11, <2>1, RestInUse
<1>16. State(k, g2, P, Less(u, i))
  BY <1>4, <1>9, <1>10, <1>12, <1>13, <1>14 DEF State
<1> QED BY <1>15, <1>16 DEF k, r

-----------------------------------------------------------------------------
(* What free() finds around a block in use. *)
LEMMA Around ==
    ASSUME NEW h, NEW g, NEW L, NEW u, State(h, g, L, u), NEW i \in DOMAIN u
    PROVE  /\ i \in DOMAIN g /\ i \in Int /\ size(h, i) = abs(g[i]) /\ abs(g[i]) \in Nat
           /\ left(h, i) \in DOMAIN g /\ left(h, i) + abs(g[left(h, i)]) = i
           /\ size(h, left(h, i)) = abs(g[left(h, i)])
           /\ isAvail(h, left(h, i)) <=> left(h, i) \in Avail(g)
           /\ right(h, i) \in DOMAIN g /\ right(h, i) = i + abs(g[i])
           /\ size(h, right(h, i)) = abs(g[right(h, i)])
           /\ isAvail(h, right(h, i)) <=> right(h, i) \in Avail(g)
<1>1. Tiling(g) /\ Tagged(h.array, g) /\ InUse(g, u)
  BY DEF State
<1>2. i \in DOMAIN g /\ i \in Int /\ i # 0 /\ i # HeapLen - 2 /\ abs(g[i]) \in Nat
  BY <1>1, UseFacts
<1>3. PICK c \in DOMAIN g : c + abs(g[c]) = i
  BY <1>1, <1>2 DEF Tiling
<1>4. h.array[i - 1] = g[c] /\ c \in Int /\ abs(g[c]) \in Nat
  BY <1>1, <1>3, TileFacts DEF Tagged
<1>5. left(h, i) = c
  <2>1. left(h, i) = i - abs(g[c])
    BY <1>4 DEF left, size
  <2> QED BY <1>2, <1>3, <1>4, <2>1
<1>6. right(h, i) = i + abs(g[i]) /\ i + abs(g[i]) \in DOMAIN g
  BY <1>1, <1>2 DEF right, size, Tagged, Tiling
<1>7. ASSUME NEW b \in DOMAIN g
      PROVE  size(h, b) = abs(g[b]) /\ (isAvail(h, b) <=> b \in Avail(g))
  BY <1>1 DEF size, isAvail, Tagged, Avail
<1> QED BY <1>2, <1>3, <1>5, <1>6, <1>7

(* One of the available blocks less in the list. *)
LEMMA RemovedFrom ==
    ASSUME NEW h, HeapType(h), NEW L, Linked(h, L), NEW S, Members(L) = S, Spread(S), NEW l \in S
    PROVE  /\ HeapType(remove(h, l))
           /\ \E M : Linked(remove(h, l), M) /\ Members(M) = S \ {l}
           /\ SameBut(h.array, remove(h, l).array, LinkWords(S))
<1>1. PICK m \in 1 .. Len(L) : L[m] = l
  BY DEF Members
<1>2. Members(Dropped(L, m)) = S \ {l}
  BY <1>1, DroppedList DEF Linked
<1>3. /\ HeapType(remove(h, l)) /\ Linked(remove(h, l), Dropped(L, m))
      /\ SameBut(h.array, remove(h, l).array, LinkWords(S \ {l}))
  BY <1>1, <1>2, RemoveLinked
<1>4. LinkWords(S \ {l}) \subseteq LinkWords(S)
  BY DEF LinkWords
<1> QED BY <1>2, <1>3, <1>4 DEF SameBut

(* A block that is freed, with those of its neighbours that are available. *)
LEMMA FreedState ==
    ASSUME NEW h, NEW g, NEW L, NEW u, State(h, g, L, u), NEW i \in DOMAIN u
    PROVE  /\ \E g2, L2 : State(Freed(h, i), g2, L2, Less(u, i))
           /\ Keeps(h.array, Freed(h, i).array, u, i)
<1> DEFINE l == left(h, i)
           r == right(h, i)
           e == r + abs(g[r])
           S == Avail(g)
           Good(k) == /\ \E g2, L2 : State(k, g2, L2, Less(u, i))
                      /\ Keeps(h.array, k.array, u, i)
<1>1. /\ HeapType(h) /\ Tiling(g) /\ NoNeighbours(g) /\ Tagged(h.array, g)
      /\ Linked(h, L) /\ Members(L) = S /\ InUse(g, u)
  BY DEF State
<1>2. /\ i \in DOMAIN g /\ i \in Int /\ size(h, i) = abs(g[i]) /\ abs(g[i]) \in Nat
      /\ l \in DOMAIN g /\ l + abs(g[l]) = i /\ size(h, l) = abs(g[l])
      /\ isAvail(h, l) <=> l \in S
      /\ r \in DOMAIN g /\ r = i + abs(g[i]) /\ size(h, r) = abs(g[r])
      /\ isAvail(h, r) <=> r \in S
  BY Around
<1> HIDE DEF l, r
<1>3. /\ i \notin S /\ i # 0 /\ 4 <= abs(g[i]) /\ 0 <= i
      /\ l \in Int /\ 0 <= l /\ r \in Int /\ abs(g[l]) \in Nat /\ abs(g[r]) \in Nat
      /\ abs(g[l]) >= 2 /\ abs(g[r]) >= 2 /\ l < i /\ i < r
      /\ l + abs(g[l]) = i /\ r = i + abs(g[i])
  <2>1. i \notin S /\ i # 0 /\ i \notin {0, HeapLen - 2}
    BY <1>1, UseFacts
  <2>2. 4 <= abs(g[i]) /\ 0 <= i
    BY <1>1, <1>2, <2>1, TileFacts
  <2>3. /\ l \in Int /\ 0 <= l /\ r \in Int /\ abs(g[l]) \in Nat /\ abs(g[r]) \in Nat
        /\ abs(g[l]) >= 2 /\ abs(g[r]) >= 2
    BY <1>1, <1>2, TileFacts
  <2>4. l + abs(g[l]) = i /\ r = i + abs(g[i])
    BY <1>2
  <2> QED BY <1>2, <2>1, <2>2, <2>3, <2>4
<1>4. \A c \in DOMAIN g : /\ c + abs(g[c]) = i => c = l
                          /\ c = l \/ c = i \/ c < l \/ r <= c
  <2> SUFFICES ASSUME NEW c \in DOMAIN g
               PROVE  /\ c + abs(g[c]) = i => c = l
                      /\ c = l \/ c = i \/ c < l \/ r <= c
    OBVIOUS
  <2>1. c + abs(g[c]) = i => c = l
    BY <1>1, <1>2, OnlyLeft
  <2>2. c \in Int /\ abs(g[c]) \in Nat /\ abs(g[c]) >= 2
    BY <1>1, TileFacts
  <2>3. c # i => c + abs(g[c]) <= i \/ i + abs(g[i]) <= c
    BY <1>1, <1>2, TilesApart
  <2>4. c # l => c + abs(g[c]) <= l \/ l + abs(g[l]) <= c
    BY <1>1, <1>2, TilesApart
  <2> QED BY <1>2, <1>3, <2>1, <2>2, <2>3, <2>4
<1>5. \A c \in DOMAIN u \ {i} : c \in DOMAIN g /\ c \notin S /\ c \in Int
  BY <1>1, UseFacts
<1>6. ASSUME l \in S
      PROVE  l # 0 /\ \A c \in DOMAIN g : c + abs(g[c]) = l => ~(g[c] > 0)
  <2>1. l # 0
    BY <1>1, <1>6, AvailFacts
  <2>2. ASSUME NEW c \in DOMAIN g, c + abs(g[c]) = l, g[c] > 0 PROVE FALSE
    <3>1. g[l] < 0
      BY <1>1, <2>2 DEF NoNeighbours
    <3>2. g[l] > 0 /\ g[l] \in Int
      BY <1>1, <1>6, AvailFacts
    <3> QED BY <3>1, <3>2
  <2> QED BY <2>1, <2>2
<1>7. ASSUME l \notin S
      PROVE  \A c \in DOMAIN g : c + abs(g[c]) = i => ~(g[c] > 0)
  BY <1>2, <1>4, <1>7 DEF Avail
<1>8. ASSUME r \in S
      PROVE  /\ e \in DOMAIN g /\ g[e] < 0 /\ e \in Int /\ r < e
             /\ \A c \in DOMAIN g : c = r \/ c < r \/ e <= c
  <2>1. e \in DOMAIN g /\ g[e] < 0
    BY <1>1, <1>2, <1>8 DEF NoNeighbours, Tiling, Avail
  <2>2. ASSUME NEW c \in DOMAIN g PROVE c = r \/ c < r \/ e <= c
    <3>1. c # r => c + abs(g[c]) <= r \/ r + abs(g[r]) <= c
      BY <1>1, <1>2, TilesApart
    <3>2. c \in Int /\ abs(g[c]) \in Nat /\ abs(g[c]) >= 2
      BY <1>1, TileFacts
    <3> QED BY <1>3, <3>1, <3>2
  <2> QED BY <1>3, <2>1, <2>2
<1>9. ASSUME r \notin S PROVE g[r] < 0
  <2>1. g[r] \in Int /\ ~(g[r] > 0) /\ abs(g[r]) # 0
    BY <1>1, <1>2, <1>3, <1>9, TileFacts DEF Avail
  <2> QED BY <2>1 DEF abs
<1>10. \A c \in S : c \in DOMAIN g /\ c \in Int
  BY <1>1, AvailFacts
<1>11. Spread(S) /\ Spread(S \ {l})
  BY <1>1, AvailSpread, SpreadSubset
<1>12. CASE l \notin S /\ r \notin S
  <2>1. Good(makeAvail(h, i, r - i))
    <3>1. S = {c \in S : c < i \/ r <= c}
      BY <1>3, <1>4, <1>10, <1>12
    <3>2. \A c \in DOMAIN u \ {i} : c < i \/ r <= c
      BY <1>3, <1>4, <1>5
    <3>3. SameBut(h.array, h.array, LinkWords(Avail(g)))
      BY DEF SameBut
    <3>4. i <= i /\ i < r /\ i # 0 /\ g[r] < 0
      BY <1>3, <1>9, <1>12
    <3>5. \A c \in DOMAIN g : c + abs(g[c]) = i => ~(g[c] > 0)
      BY <1>7, <1>12
    <3> QED BY <1>1, <1>2, <3>1, <3>2, <3>3, <3>4, <3>5, JoinedState
  <2>2. Freed(h, i) = makeAvail(h, i, size(h, i) + 0 + 0)
    BY <1>2, <1>12 DEF Freed, l, r
  <2>3. size(h, i) + 0 + 0 = r - i
    BY <1>2, <1>3
  <2> QED BY <2>1, <2>2, <2>3
<1>13. CASE l \in S /\ r \notin S
  <2> DEFINE h1 == remove(h, l)
  <2>1. PICK M : HeapType(h1) /\ Linked(h1, M) /\ Members(M) = S \ {l}
                 /\ SameBut(h.array, h1.array, LinkWords(S))
    BY <1>1, <1>11, <1>13, RemovedFrom
  <2> HIDE DEF h1
  <2>2. Good(makeAvail(h1, l, r - l))
    <3>1. S \ {l} = {c \in S : c < l \/ r <= c}
      BY <1>3, <1>4, <1>10
    <3>2. \A c \in DOMAIN u \ {i} : c < l \/ r <= c
      BY <1>3, <1>4, <1>5, <1>13
    <3>4. l <= i /\ i < r /\ l # 0 /\ g[r] < 0
      BY <1>3, <1>6, <1>9, <1>13
    <3>5. \A c \in DOMAIN g : c + abs(g[c]) = l => ~(g[c] > 0)
      BY <1>6, <1>13
    <3> QED BY <1>1, <1>2, <2>1, <3>1, <3>2, <3>4, <3>5, JoinedState
  <2>3. Freed(h, i) = makeAvail(h1, l, size(h, i) + size(h, l) + 0)
    BY <1>2, <1>13 DEF Freed, l, r, h1
  <2>4. size(h, i) + size(h, l) + 0 = r - l
    BY <1>2, <1>3
  <2> QED BY <2>2, <2>3, <2>4
<1>14. CASE l \notin S /\ r \in S
  <2> DEFINE h1 == remove(h, r)
  <2>1. PICK M : HeapType(h1) /\ Linked(h1, M) /\ Members(M) = S \ {r}
                 /\ SameBut(h.array, h1.array, LinkWords(S))
    BY <1>1, <1>11, <1>14, RemovedFrom
  <2> HIDE DEF h1, e
  <2>2. Good(makeAvail(h1, i, e - i))
    <3>1. S \ {r} = {c \in S : c < i \/ e <= c}
      <4>1. ASSUME NEW c \in S PROVE c # r <=> c < i \/ e <= c
        <5>1. c \in DOMAIN g /\ c \in Int /\ c # l /\ c # i /\ e \in Int /\ r < e
          BY <1>3, <1>8, <1>10, <1>14
        <5>2. c < l \/ r <= c
          BY <1>4, <5>1
        <5>3. c = r \/ c < r \/ e <= c
          BY <1>8, <1>14, <5>1
        <5> QED BY <1>3, <5>1, <5>2, <5>3
      <4> QED BY <4>1
    <3>2. \A c \in DOMAIN u \ {i} : c < i \/ e <= c
      BY <1>3, <1>4, <1>5, <1>8, <1>14
    <3>4. i <= i /\ i < e /\ i # 0 /\ g[e] < 0 /\ e \in DOMAIN g
      BY <1>3, <1>8, <1>14
    <3>5. \A c \in DOMAIN g : c + abs(g[c]) = i => ~(g[c] > 0)
      BY <1>7, <1>14
    <3> QED BY <1>1, <1>2, <2>1, <3>1, <3>2, <3>4, <3>5, JoinedState
  <2>3. Freed(h, i) = makeAvail(h1, i, size(h, i) + 0 + size(h, r))
    BY <1>2, <1>14 DEF Freed, l, r, h1
  <2>4. size(h, i) + 0 + size(h, r) = e - i
    BY <1>2, <1>3 DEF e
  <2> QED BY <2>2, <2>3, <2>4
<1>15. CASE l \in S /\ r \in S
  <2> DEFINE h1 == remove(h, l)
             h2 == remove(h1, r)
  <2>1. PICK M : HeapType(h1) /\ Linked(h1, M) /\ Members(M) = S \ {l}
                 /\ SameBut(h.array, h1.array, LinkWords(S))
    BY <1>1, <1>11, <1>15, RemovedFrom
  <2> HIDE DEF h1
  <2>2. r \in S \ {l}
    BY <1>3, <1>15
  <2>3. PICK N : HeapType(h2) /\ Linked(h2, N) /\ Members(N) = (S \ {l}) \ {r}
                 /\ SameBut(h1.array, h2.array, LinkWords(S \ {l}))
    BY <1>11, <2>1, <2>2, RemovedFrom
  <2> HIDE DEF h2, e
  <2>4. SameBut(h.array, h2.array, LinkWords(S))
    BY <2>1, <2>3 DEF SameBut, LinkWords
  <2>5. Good(makeAvail(h2, l, e - l))
    <3>1. (S \ {l}) \ {r} = {c \in S : c < l \/ e <= c}
      <4>1. ASSUME NEW c \in S PROVE c # l /\ c # r <=> c < l \/ e <= c
        <5>1. c \in DOMAIN g /\ c \in Int /\ c # i /\ e \in Int /\ r < e
          BY <1>3, <1>8, <1>10, <1>15
        <5>2. c = l \/ c < l \/ r <= c
          BY <1>4, <5>1
        <5>3. c = r \/ c < r \/ e <= c
          BY <1>8, <1>15, <5>1
        <5> QED BY <1>3, <5>1, <5>2, <5>3
      <4> QED BY <4>1
    <3>2. \A c \in DOMAIN u \ {i} : c < l \/ e <= c
      BY <1>3, <1>4, <1>5, <1>8, <1>15
    <3>4. l <= i /\ i < e /\ l # 0 /\ g[e] < 0 /\ e \in DOMAIN g
      BY <1>3, <1>6, <1>8, <1>15
    <3>5. \A c \in DOMAIN g : c + abs(g[c]) = l => ~(g[c] > 0)
      BY <1>6, <1>15
    <3> QED BY <1>1, <1>2, <2>3, <2>4, <3>1, <3>2, <3>4, <3>5, JoinedState
  <2>6. Freed(h, i) = makeAvail(h2, l, size(h, i) + size(h, l) + size(h, r))
    BY <1>2, <1>15 DEF Freed, l, r, h1, h2
  <2>7. size(h, i) + size(h, l) + size(h, r) = e - l
    BY <1>2, <1>3 DEF e
  <2> QED BY <2>5, <2>6, <2>7
<1> QED BY <1>12, <1>13, <1>14, <1>15

-----------------------------------------------------------------------------
(* Writing to the words of a block in use, between its tags, harms nothing. *)
LEMMA DataState ==
    ASSUME NEW h, NEW g, NEW L, NEW u, State(h, g, L, u), NEW i \in DOMAIN u,
           NEW k, HeapType(k), k.avail = h.avail,
           SameBut(h.array, k.array, i + 1 .. i + abs(g[i]) - 2)
    PROVE  State(k, g, L, u) /\ Keeps(h.array, k.array, u, i)
<1> DEFINE W == i + 1 .. i + abs(g[i]) - 2
<1>1. /\ HeapType(h) /\ Tiling(g) /\ NoNeighbours(g) /\ Tagged(h.array, g)
      /\ Linked(h, L) /\ Members(L) = Avail(g) /\ InUse(g, u)
  BY DEF State
<1>2. i \in DOMAIN g /\ i \notin Avail(g) /\ i \in Int /\ abs(g[i]) \in Nat
  BY <1>1, UseFacts
<1>3. Linked(k, L)
  <2>1. \A j \in i .. i + abs(g[i]) - 1 : j \notin LinkWords(Avail(g))
    BY <1>1, <1>2, TagsNotLinks
  <2>2. ASSUME NEW j \in LinkWords(Avail(g)) PROVE j \in Word /\ j \notin W
    <3>1. j \in Word
      BY <1>1, AvailSpread, HeapSize DEF Spread, LinkWords, Word
    <3>2. j \in W => j \in i .. i + abs(g[i]) - 1
      BY <1>2
    <3> QED BY <2>1, <3>1, <3>2
  <2>3. \A j \in LinkWords(Members(L)) : k.array[j] = h.array[j]
    BY <1>1, <2>2 DEF SameBut
  <2> QED BY <1>1, <2>3, LinksKept
<1>4. Tagged(k.array, g)
  <2> SUFFICES ASSUME NEW b \in DOMAIN g
               PROVE  k.array[b] = g[b] /\ k.array[b + abs(g[b]) - 1] = g[b]
    BY DEF Tagged
  <2>1. /\ b \in Int /\ 0 <= b /\ abs(g[b]) \in Nat /\ abs(g[b]) >= 2 /\ b + abs(g[b]) <= HeapLen
    BY <1>1, TileFacts
  <2>2. b # i => b + abs(g[b]) <= i \/ i + abs(g[i]) <= b
    BY <1>1, <1>2, TilesApart
  <2>3. b \in Word \ W /\ b + abs(g[b]) - 1 \in Word \ W
    BY <1>2, <2>1, <2>2, HeapSize DEF Word
  <2> QED BY <1>1, <2>3 DEF SameBut, Tagged
<1>5. Keeps(h.array, k.array, u, i)
  <2> SUFFICES ASSUME NEW c \in DOMAIN u \ {i}, NEW j \in 1 .. u[c]
               PROVE  k.array[c + j] = h.array[c + j]
    BY DEF Keeps
  <2>1. /\ c \in DOMAIN g /\ c \in Int /\ 2 <= c /\ abs(g[c]) \in Nat /\ c + abs(g[c]) <= HeapLen - 2
        /\ c + j \in c + 1 .. c + abs(g[c]) - 2
    BY <1>1, UseFacts
  <2>2. c + abs(g[c]) <= i \/ i + abs(g[i]) <= c
    BY <1>1, <1>2, <2>1, TilesApart
  <2> DEFINE x == c + j
  <2>3. x \in Int /\ c + 1 <= x /\ x <= c + abs(g[c]) - 2
    BY <2>1
  <2> HIDE DEF x
  <2>4. x \in Word
    BY <2>1, <2>3, HeapSize DEF Word
  <2>5. ~(i + 1 <= x /\ x <= i + abs(g[i]) - 2)
    BY <1>2, <2>1, <2>2, <2>3
  <2>6. x \in Word \ W
    BY <2>4, <2>5
  <2> QED BY <2>6 DEF SameBut, x
<1> QED BY <1>1, <1>3, <1>4, <1>5 DEF State

(* What the owner writes to a block in use. *)
LEMMA StoredState ==
    ASSUME NEW h, NEW g, NEW L, NEW u, State(h, g, L, u), NEW i \in DOMAIN u,
           NEW n \in Nat, n <= abs(g[i]) - 2
    PROVE  State(Stored(h, i, n), g, L, u) /\ Keeps(h.array, Stored(h, i, n).array, u, i)
<1> DEFINE k == Stored(h, i, n)
<1>1. HeapType(h) /\ Tiling(g) /\ InUse(g, u) /\ Junk \in Int
  BY HeapAssumption, Zenon DEF State
<1>2. i \in Int /\ abs(g[i]) \in Nat
  BY <1>1, UseFacts
<1>3. /\ DOMAIN h.array = Word /\ k = [h EXCEPT !.array = k.array] /\ k.avail = h.avail
      /\ k.array = [j \in Word |-> IF j \in i + 1 .. i + n THEN Junk + i ELSE h.array[j]]
      /\ k = [array |-> k.array, avail |-> k.avail]
  BY <1>1 DEF Stored, HeapType
<1>4. HeapType(k)
  <2>1. Junk + i \in Int
    BY <1>1, <1>2
  <2> HIDE DEF k
  <2> QED BY <1>1, <1>3, <2>1 DEF HeapType
<1> HIDE DEF k
<1>5. SameBut(h.array, k.array, i + 1 .. i + abs(g[i]) - 2)
  <2>1. i + 1 .. i + n \subseteq i + 1 .. i + abs(g[i]) - 2
    BY <1>2
  <2> QED BY <1>3, <2>1 DEF SameBut
<1> QED BY <1>3, <1>4, <1>5, DataState DEF k

(* What realloc() copies to a block in use. *)
LEMMA CopiedState ==
    ASSUME NEW h, NEW g, NEW L, NEW u, State(h, g, L, u), NEW i \in DOMAIN u,
           NEW from \in DOMAIN g, NEW n \in Nat, n <= abs(g[i]) - 2, n <= abs(g[from]),
           from + abs(g[from]) < HeapLen
    PROVE  /\ State(Copied(h, from, i, n), g, L, u)
           /\ Keeps(h.array, Copied(h, from, i, n).array, u, i)
           /\ \A j \in 1 .. n : Copied(h, from, i, n).array[i + j] = h.array[from + j]
<1> DEFINE k == Copied(h, from, i, n)
<1>1. HeapType(h) /\ Tiling(g) /\ InUse(g, u)
  BY DEF State
<1>2. /\ i \in Int /\ 0 <= i /\ abs(g[i]) \in Nat /\ i + abs(g[i]) <= HeapLen
      /\ from \in Int /\ abs(g[from]) \in Nat /\ 0 <= from
  BY <1>1, UseFacts, TileFacts, HeapSize
<1>3. /\ DOMAIN h.array = Word /\ k.avail = h.avail
      /\ k.array = [j \in Word |-> IF j \in i + 1 .. i + n THEN h.array[from + j - i] ELSE h.array[j]]
      /\ k = [array |-> k.array, avail |-> k.avail]
  BY <1>1 DEF Copied, HeapType
<1> HIDE DEF k
<1>4. HeapType(k)
  <2>1. ASSUME NEW j \in i + 1 .. i + n PROVE h.array[from + j - i] \in Int
    <3>1. from + j - i \in Word
      BY <1>2, HeapSize DEF Word
    <3> QED BY <1>1, <3>1 DEF HeapType
  <2>2. \A j \in Word : (IF j \in i + 1 .. i + n THEN h.array[from + j - i] ELSE h.array[j]) \in Int
    BY <1>1, <2>1 DEF HeapType
  <2> QED BY <1>3, <2>2 DEF HeapType
<1>5. SameBut(h.array, k.array, i + 1 .. i + abs(g[i]) - 2)
  <2>1. i + 1 .. i + n \subseteq i + 1 .. i + abs(g[i]) - 2
    BY <1>2
  <2> QED BY <1>3, <2>1 DEF SameBut
<1>6. ASSUME NEW j \in 1 .. n PROVE k.array[i + j] = h.array[from + j]
  <2>1. i + j \in Word /\ i + j \in i + 1 .. i + n /\ from + (i + j) - i = from + j
    BY <1>2, HeapSize DEF Word
  <2> QED BY <1>3, <2>1
<1> QED BY <1>3, <1>4, <1>5, <1>6, DataState DEF k

(* The heap begins with one available block. *)
LEMMA InitState == ASSUME Init PROVE \E g, L : State(heap, g, L, asked)
<1> DEFINE z == [array |-> [i \in 0 .. HeapLen - 1 |-> 0], avail |-> 0]
           n == HeapLen - 4
           e == HeapLen - 2
           h1 == makeTaken(z, 0, 2)
           h2 == makeAvail(h1, 2, n)
           h3 == makeTaken(h2, e, 2)
           L == <<2>> \o <<>>
           g == [b \in {0, 2, e} |-> IF b = 2 THEN n ELSE -2]
<1>1. HeapType(z) /\ Linked(z, <<>>) /\ Members(<<>>) = {} /\ Spread({}) /\ Spread({2})
  <2>1. HeapType(z)
    BY DEF HeapType, Word
  <2>2. Linked(z, <<>>)
    BY DEF Linked, ItemAt
  <2> QED BY <2>1, <2>2, HeapSize DEF Members, Spread
<1>2. n \in Int /\ e \in Int /\ n >= 4 /\ 2 + n = e /\ e + 2 = HeapLen /\ HeapLen \in Nat
  BY HeapSize
<1> HIDE DEF z, n, e
<1>3. /\ HeapType(h1) /\ Linked(h1, <<>>) /\ h1.array[0] = -2 /\ h1.array[1] = -2
      /\ SameBut(z.array, h1.array, {0, 1})
  <2>1. Clear(Members(<<>>), 0, 2)
    BY <1>1 DEF Clear
  <2>2. HeapType(z) /\ Linked(z, <<>>) /\ Spread(Members(<<>>)) /\ 0 + 2 <= HeapLen
    <3>1. 0 + 2 <= HeapLen
      BY HeapSize
    <3> QED BY <1>1, <3>1
  <2>3. /\ HeapType(h1) /\ Linked(h1, <<>>) /\ h1.array[0] = -2 /\ h1.array[0 + 2 - 1] = -2
        /\ SameBut(z.array, h1.array, {0, 0 + 2 - 1})
    <3>1. 0 \in Int /\ 2 \in Int /\ 0 <= 0 /\ 2 <= 2
      OBVIOUS
    <3> QED BY <2>1, <2>2, <3>1, MakeTakenLinked, Zenon
  <2>4. 0 + 2 - 1 = 1
    OBVIOUS
  <2> QED BY <2>3, <2>4
<1> HIDE DEF h1
<1>4. /\ HeapType(h2) /\ Linked(h2, L) /\ h2.array[2] = n /\ h2.array[e - 1] = n
      /\ SameBut(h1.array, h2.array, {2, e - 1, 3, 4})
  <2> DEFINE E == <<>>
  <2>1. 2 \notin Members(E) /\ Spread(Members(E) \cup {2}) /\ Clear(Members(E), 2, n)
    BY <1>1 DEF Clear
  <2>2. 4 <= n /\ 2 + n <= HeapLen /\ n \in Int
    BY <1>2
  <2>3. HeapType(h1) /\ Linked(h1, E)
    BY <1>3
  <2> HIDE DEF E, h2
  <2>4. /\ HeapType(makeAvail(h1, 2, n)) /\ Linked(makeAvail(h1, 2, n), <<2>> \o E)
        /\ makeAvail(h1, 2, n).array[2] = n /\ makeAvail(h1, 2, n).array[2 + n - 1] = n
        /\ SameBut(h1.array, makeAvail(h1, 2, n).array, {2, 2 + n - 1} \cup LinkWords(Members(E) \cup {2}))
    BY <2>1, <2>2, <2>3, MakeAvailLinked
  <2>5. 2 + n - 1 = e - 1
    BY <1>2
  <2>6. {2, 2 + n - 1} \cup LinkWords(Members(E) \cup {2}) = {2, e - 1, 3, 4}
    BY <1>1, <2>5 DEF LinkWords, E
  <2> QED BY <2>4, <2>5, <2>6 DEF E, h2
<1>5. Members(L) = {2}
  BY DEF Members
<1> HIDE DEF L, h2
<1>6. /\ HeapType(h3) /\ Linked(h3, L) /\ h3.array[e] = -2 /\ h3.array[e + 1] = -2
      /\ SameBut(h2.array, h3.array, {e, e + 1})
  <2>1. Clear(Members(L), e, 2) /\ Spread(Members(L))
    BY <1>1, <1>2, <1>5 DEF Clear
  <2>2. HeapType(h2) /\ Linked(h2, L) /\ e \in Int /\ 2 \in Int /\ 0 <= e /\ 2 <= 2 /\ e + 2 <= HeapLen
    BY <1>2, <1>4
  <2>3. /\ HeapType(h3) /\ Linked(h3, L) /\ h3.array[e] = -2 /\ h3.array[e + 2 - 1] = -2
        /\ SameBut(h2.array, h3.array, {e, e + 2 - 1})
    BY <2>1, <2>2, MakeTakenLinked, Zenon
  <2>4. e + 2 - 1 = e + 1
    BY <1>2
  <2> QED BY <2>3, <2>4
<1> HIDE DEF h3
<1>7. DOMAIN g = {0, 2, e} /\ g[0] = -2 /\ g[2] = n /\ g[e] = -2 /\ e # 2
  BY <1>2
<1>8. abs(-2) = 2 /\ abs(n) = n
  <2>1. abs(2) = 2 /\ abs(-2) = abs(2)
    BY AbsFacts
  <2>2. n \in Int /\ n > 0
    BY <1>2
  <2> QED BY <2>1, <2>2, AbsFacts
<1> HIDE DEF g
<1>9. e = HeapLen - 2 /\ HeapLen - 1 = e + 1
  BY <1>2
<1>10. Tiling(g)
  <2>1. \A i \in DOMAIN g : /\ i \in Int /\ 0 <= i /\ i <= HeapLen - 2 /\ g[i] \in Int
                            /\ i \in {0, HeapLen - 2} \/ abs(g[i]) >= 4
    BY <1>2, <1>7, <1>8, <1>9
  <2>2. 0 + abs(g[0]) = 2 /\ 2 + abs(g[2]) = e
    BY <1>2, <1>7, <1>8
  <2>3. \A i \in DOMAIN g : i # HeapLen - 2 => i + abs(g[i]) \in DOMAIN g
    BY <1>7, <1>9, <2>2
  <2>4. \A i \in DOMAIN g : i # 0 => \E j \in DOMAIN g : j + abs(g[j]) = i
    BY <1>7, <1>9, <2>2
  <2>5. \A i, j \in DOMAIN g : i < j => i + abs(g[i]) <= j
    BY <1>2, <1>7, <2>2
  <2> QED BY <1>7, <1>9, <2>1, <2>3, <2>4, <2>5 DEF Tiling
<1>11. Avail(g) = {2} /\ NoNeighbours(g)
  <2>1. Avail(g) = {2}
    BY <1>2, <1>7 DEF Avail
  <2>2. 2 + abs(g[2]) = e /\ g[e] < 0
    BY <1>2, <1>7, <1>8
  <2> QED BY <1>7, <2>1, <2>2 DEF NoNeighbours, Avail
<1>12. Tagged(h3.array, g)
  <2>1. h3.array[0] = -2 /\ h3.array[1] = -2
    BY <1>2, <1>3, <1>4, <1>6 DEF SameBut, Word
  <2>2. h3.array[2] = n /\ h3.array[e - 1] = n
    BY <1>2, <1>4, <1>6 DEF SameBut, Word
  <2>3. 0 + abs(g[0]) - 1 = 1 /\ 2 + abs(g[2]) - 1 = e - 1 /\ e + abs(g[e]) - 1 = e + 1
    BY <1>2, <1>7, <1>8
  <2> QED BY <1>6, <1>7, <2>1, <2>2, <2>3 DEF Tagged
<1>13. asked = <<>> /\ heap = h3
  BY DEF Init, h3, h2, h1, z, n, e
<1>14. InUse(g, asked)
  <2>1. DOMAIN asked = {}
    BY <1>13
  <2> QED BY <1>7, <1>9, <1>11, <2>1 DEF InUse
<1>15. State(h3, g, L, asked)
  BY <1>5, <1>6, <1>10, <1>11, <1>12, <1>14 DEF State
<1> QED BY <1>13, <1>15

-----------------------------------------------------------------------------
(* f gives the first n blocks that one reaches along the links `next'. *)
Unfolds(h, c, f) ==
    f = [n \in 0 .. c |-> [i \in Int |->
            IF i = 0 \/ n = 0 THEN <<>> ELSE <<i>> \o f[n - 1][next(h, i)]]]

(* Such functions exist: there is no least c for which there is none. *)
LEMMA UnfoldingsExist == ASSUME NEW h, NEW c \in Nat PROVE \E f : Unfolds(h, c, f)
<1> DEFINE Bad == {k \in Nat : ~ \E f : Unfolds(h, k, f)}
<1> SUFFICES ASSUME Bad # {} PROVE FALSE
  OBVIOUS
<1>1. PICK k \in Bad : \A m \in Bad : k <= m
  BY LeastNat
<1>2. CASE k = 0
  <2> DEFINE f == [n \in 0 .. 0 |-> [i \in Int |-> <<>>]]
  <2>1. f = [n \in 0 .. 0 |-> [i \in Int |->
                IF i = 0 \/ n = 0 THEN <<>> ELSE <<i>> \o f[n - 1][next(h, i)]]]
    OBVIOUS
  <2>2. Unfolds(h, 0, f)
    BY <2>1 DEF Unfolds
  <2> QED BY <1>1, <1>2, <2>2
<1>3. CASE k # 0
  <2>1. k - 1 \in Nat /\ k - 1 \notin Bad
    BY <1>1, <1>3
  <2>2. PICK g : Unfolds(h, k - 1, g)
    BY <2>1
  <2> DEFINE Step(e, n) == [i \in Int |->
                               IF i = 0 \/ n = 0 THEN <<>> ELSE <<i>> \o e[n - 1][next(h, i)]]
             f == [n \in 0 .. k |-> Step(g, n)]
  <2>3. g = [n \in 0 .. k - 1 |-> Step(g, n)]
    BY <2>2 DEF Unfolds
  <2>4. \A n \in 0 .. k - 1 : f[n] = g[n]
    <3> HIDE DEF Step
    <3> QED BY <2>3, <1>1
  <2>5. \A n \in 0 .. k : n # 0 => n - 1 \in 0 .. k - 1
    BY <1>1
  <2>6. \A n \in 0 .. k : Step(f, n) = Step(g, n)
    <3> SUFFICES ASSUME NEW n \in 0 .. k PROVE Step(f, n) = Step(g, n)
      OBVIOUS
    <3>1. CASE n = 0
      BY <3>1
    <3>2. CASE n # 0
      <4>1. f[n - 1] = g[n - 1]
        BY <2>4, <2>5, <3>2
      <4> HIDE DEF f
      <4> QED BY <4>1
    <3> QED BY <3>1, <3>2
  <2>7. f = [n \in 0 .. k |-> Step(f, n)]
    <3> HIDE DEF Step
    <3> QED BY <2>6
  <2>8. Unfolds(h, k, f)
    <3> HIDE DEF f
    <3> QED BY <2>7 DEF Unfolds
  <2> QED BY <1>1, <2>8
<1> QED BY <1>2, <1>3

(* The value of an unfolding of the links. *)
LEMMA UnfoldingValue ==
    ASSUME NEW h, NEW c \in Nat, NEW f, Unfolds(h, c, f)
    PROVE  \A n \in 0 .. c : \A i \in Int :
              f[n][i] = IF i = 0 \/ n = 0 THEN <<>> ELSE <<i>> \o f[n - 1][next(h, i)]
<1> SUFFICES ASSUME NEW n \in 0 .. c, NEW i \in Int
             PROVE  f[n][i] = IF i = 0 \/ n = 0 THEN <<>> ELSE <<i>> \o f[n - 1][next(h, i)]
  OBVIOUS
<1> DEFINE Step(m) == [j \in Int |->
                          IF j = 0 \/ m = 0 THEN <<>> ELSE <<j>> \o f[m - 1][next(h, j)]]
<1>1. f = [m \in 0 .. c |-> Step(m)]
  BY DEF Unfolds
<1>2. f[n] = Step(n)
  <2> HIDE DEF Step
  <2> QED BY <1>1
<1> QED BY <1>2

(* What follows the links from the block at m from the end is the rest.     *)
LEMMA RestOfList ==
    ASSUME NEW h, NEW L, Linked(h, L), Spread(Members(L)),
           NEW c \in Nat, NEW f, Unfolds(h, c, f), NEW m \in 0 .. Len(L)
    PROVE  \A n \in m .. c : f[n][ItemAt(L, Len(L) - m + 1)] = LastOf(L, m)
<1>b. \A n \in 0 .. c : \A i \in Int :
         f[n][i] = IF i = 0 \/ n = 0 THEN <<>> ELSE <<i>> \o f[n - 1][next(h, i)]
  BY UnfoldingValue
<1> DEFINE P(q) == \A n \in q .. c : f[n][ItemAt(L, Len(L) - q + 1)] = LastOf(L, q)
           Bad == {q \in 0 .. Len(L) : ~P(q)}
<1> SUFFICES ASSUME Bad # {} PROVE FALSE
  OBVIOUS
<1>0. Len(L) \in Nat /\ L \in Seq(Int)
  BY DEF Linked
<1>1. PICK q \in Bad : \A r \in Bad : q <= r
  BY LeastNat, Bad \subseteq Nat
<1>a. q \in 0 .. Len(L) /\ q - 1 \notin Bad
  <2>1. q \in 0 .. Len(L)
    OBVIOUS
  <2> HIDE DEF Bad
  <2> QED BY <1>0, <1>1, <2>1
<1>c. \A j \in 1 .. Len(L) : /\ L[j] \in Int /\ L[j] # 0 /\ ItemAt(L, j) = L[j]
                            /\ next(h, L[j]) = ItemAt(L, j + 1)
  BY <1>0 DEF Linked, ItemAt, Spread, Members
<1> SUFFICES ASSUME NEW n \in q .. c
             PROVE  f[n][ItemAt(L, Len(L) - q + 1)] = LastOf(L, q)
  BY <1>1
<1>2. CASE q = 0
  <2>1. ItemAt(L, Len(L) - q + 1) = 0
    BY <1>0, <1>2 DEF ItemAt
  <2>2. LastOf(L, q) = <<>>
    BY <1>2 DEF LastOf
  <2>3. f[n][0] = <<>>
    <3>1. n \in 0 .. c /\ 0 \in Int
      BY <1>2
    <3> QED BY <1>2, <1>b, <3>1
  <2> QED BY <2>1, <2>2, <2>3
<1>3. CASE q # 0
  <2> DEFINE k == Len(L) - q + 1
  <2>1. k \in 1 .. Len(L) /\ n - 1 \in 0 .. c /\ n # 0
        /\ n - 1 \in q - 1 .. c /\ n \in 0 .. c
    BY <1>0, <1>a, <1>3
  <2>2. ItemAt(L, k) = L[k] /\ L[k] \in Int /\ L[k] # 0 /\ next(h, L[k]) = ItemAt(L, k + 1)
    BY <1>c, <2>1
  <2>3. q - 1 \in 0 .. Len(L) /\ q - 1 \notin Bad
    BY <1>0, <1>a, <1>3
  <2>4. f[n - 1][ItemAt(L, Len(L) - (q - 1) + 1)] = LastOf(L, q - 1)
    BY <2>1, <2>3
  <2>5. Len(L) - (q - 1) + 1 = k + 1
    BY <1>0, <1>1
  <2>6. f[n][L[k]] = <<L[k]>> \o f[n - 1][next(h, L[k])]
    <3> HIDE DEF k
    <3>1. f[n][L[k]] = IF L[k] = 0 \/ n = 0 THEN <<>> ELSE <<L[k]>> \o f[n - 1][next(h, L[k])]
      BY <1>b, <2>1, <2>2
    <3> QED BY <2>1, <2>2, <3>1
  <2>7. f[n][L[k]] = <<L[k]>> \o LastOf(L, q - 1)
    BY <2>2, <2>4, <2>5, <2>6
  <2>8. <<L[k]>> \o LastOf(L, q - 1) = LastOf(L, q)
    <3>1. LastOf(L, q - 1) \in Seq(Int) /\ Len(LastOf(L, q - 1)) = q - 1
      BY <1>0, <1>a, <2>3 DEF LastOf
    <3>2. LastOf(L, q) \in Seq(Int) /\ Len(LastOf(L, q)) = q
      BY <1>0, <1>a DEF LastOf
    <3>3. \A j \in 1 .. q : LastOf(L, q)[j] = IF j = 1 THEN L[k] ELSE LastOf(L, q - 1)[j - 1]
      <4> SUFFICES ASSUME NEW j \in 1 .. q
                   PROVE  LastOf(L, q)[j] = IF j = 1 THEN L[k] ELSE LastOf(L, q - 1)[j - 1]
        OBVIOUS
      <4>1. LastOf(L, q)[j] = L[Len(L) - q + j]
        BY DEF LastOf
      <4>2. j # 1 => LastOf(L, q - 1)[j - 1] = L[Len(L) - (q - 1) + (j - 1)]
        BY <1>0, <1>a DEF LastOf
      <4>3. Len(L) - (q - 1) + (j - 1) = Len(L) - q + j
        BY <1>0, <1>a
      <4> QED BY <4>1, <4>2, <4>3
    <3> HIDE DEF k
    <3>4. <<L[k]>> \o LastOf(L, q - 1) \in Seq(Int) /\ Len(<<L[k]>> \o LastOf(L, q - 1)) = q
      BY <1>0, <1>a, <2>2, <3>1
    <3>5. \A j \in 1 .. q : (<<L[k]>> \o LastOf(L, q - 1))[j] = LastOf(L, q)[j]
      <4> SUFFICES ASSUME NEW j \in 1 .. q
                   PROVE  (<<L[k]>> \o LastOf(L, q - 1))[j] = LastOf(L, q)[j]
        OBVIOUS
      <4>1. CASE j = 1
        BY <2>2, <3>1, <3>3, <4>1
      <4>2. CASE j # 1
        <5>1. j \in Int /\ j > 1 /\ j <= Len(LastOf(L, q - 1)) + 1
          BY <1>a, <3>1, <4>2
        <5>2. (<<L[k]>> \o LastOf(L, q - 1))[j] = LastOf(L, q - 1)[j - 1]
          BY <2>2, <3>1, <5>1
        <5> QED BY <3>3, <4>2, <5>2
      <4> QED BY <4>1, <4>2
    <3> DEFINE A == <<L[k]>> \o LastOf(L, q - 1)
               B == LastOf(L, q)
    <3>6. A \in Seq(Int) /\ Len(A) = q /\ B \in Seq(Int) /\ Len(B) = q
      BY <3>2, <3>4
    <3>7. \A j \in 1 .. q : A[j] = B[j]
      BY <3>5
    <3>8. A = B
      <4> HIDE DEF A, B
      <4> QED BY <3>6, <3>7
    <3> QED BY <3>8
  <2> QED BY <2>2, <2>7, <2>8
<1> QED BY <1>2, <1>3

(* The list is no longer than the heap. *)
LEMMA ListLength ==
    ASSUME NEW h, NEW L, Linked(h, L), Spread(Members(L))
    PROVE  /\ Len(L) \in Nat /\ Len(L) <= HeapLen
           /\ IsFiniteSet(Members(L)) /\ Cardinality(Members(L)) = Len(L)
<1>1. Len(L) \in Nat /\ L \in [1 .. Len(L) -> Members(L)]
  BY DEF Linked, Members
<1>2. L \in Bijection(1 .. Len(L), Members(L))
  BY <1>1 DEF Linked, Members, Bijection, Injection, Surjection, IsInjective
<1>3. Cardinality(1 .. Len(L)) = Len(L) /\ IsFiniteSet(1 .. Len(L))
  <2>1. 1 \in Int /\ Len(L) \in Int
    BY <1>1
  <2>2. /\ Cardinality(1 .. Len(L)) = IF 1 > Len(L) THEN 0 ELSE Len(L) - 1 + 1
        /\ IsFiniteSet(1 .. Len(L))
    BY <2>1, FS_Interval, Zenon
  <2> QED BY <1>1, <2>2
<1>4. Cardinality(Members(L)) = Len(L) /\ IsFiniteSet(Members(L))
  BY <1>2, <1>3, FS_Bijection DEF ExistsBijection
<1>5. IsFiniteSet(Word) /\ Cardinality(Word) = HeapLen
  <2>1. 0 \in Int /\ HeapLen - 1 \in Int
    BY HeapSize
  <2>2. /\ Cardinality(Word) = IF 0 > HeapLen - 1 THEN 0 ELSE (HeapLen - 1) - 0 + 1
        /\ IsFiniteSet(Word)
    BY <2>1, FS_Interval, Zenon DEF Word
  <2> QED BY <2>2, HeapSize
<1>6. Members(L) \subseteq Word
  BY HeapSize DEF Spread, Word
<1>7. Cardinality(Members(L)) <= Cardinality(Word)
  BY <1>5, <1>6, FS_Subset
<1> QED BY <1>1, <1>4, <1>5, <1>7

(* The list that the links make is the one that AvailList gives. *)
LEMMA ListIsAvail ==
    ASSUME NEW h, NEW L, Linked(h, L), Spread(Members(L)) PROVE AvailList(h) = L
<1>1. HeapLen \in Nat /\ Len(L) \in Nat /\ Len(L) <= HeapLen
  BY HeapSize, ListLength
<1> DEFINE f == CHOOSE f : Unfolds(h, HeapLen, f)
<1>2. Unfolds(h, HeapLen, f)
  BY <1>1, UnfoldingsExist
<1>3. AvailList(h) = f[HeapLen][h.avail]
  BY DEF AvailList, Unfolds
<1> HIDE DEF f
<1>4. f[HeapLen][ItemAt(L, Len(L) - Len(L) + 1)] = LastOf(L, Len(L))
  <2>1. Len(L) \in 0 .. Len(L) /\ HeapLen \in Len(L) .. HeapLen
    BY <1>1
  <2> QED BY <1>1, <1>2, <2>1, RestOfList
<1>5. Len(L) - Len(L) + 1 = 1 /\ LastOf(L, Len(L)) = L
  BY <1>1 DEF LastOf, Linked
<1> QED BY <1>3, <1>4, <1>5 DEF Linked

-----------------------------------------------------------------------------
(* The blocks one finds by going right from the first are those of g.      *)
Finds(h, f) == f = [i \in 0 .. HeapLen - 1 |->
                       i = 0 \/ \E j \in 0 .. i - 1 : right(h, j) = i /\ f[j]]

(* Each block but the first is right of another. *)
LEMMA BlockLeft ==
    ASSUME NEW a, NEW g, Tiling(g), Tagged(a, g), NEW i \in Word
    PROVE  i \in DOMAIN g <=> i = 0 \/ \E j \in 0 .. i - 1 : j + abs(a[j]) = i /\ j \in DOMAIN g
<1>1. ASSUME i \in DOMAIN g, i # 0 PROVE \E j \in 0 .. i - 1 : j + abs(a[j]) = i /\ j \in DOMAIN g
  <2>1. PICK j \in DOMAIN g : j + abs(g[j]) = i
    BY <1>1 DEF Tiling
  <2>2. j \in Int /\ 0 <= j /\ abs(g[j]) \in Nat /\ abs(g[j]) >= 2 /\ i \in Int
    BY <1>1, TileFacts
  <2>3. j \in 0 .. i - 1
    BY <2>1, <2>2
  <2> QED BY <2>1, <2>3 DEF Tagged
<1>2. ASSUME NEW j \in 0 .. i - 1, j + abs(a[j]) = i, j \in DOMAIN g PROVE i \in DOMAIN g
  <2>1. a[j] = g[j] /\ j \in Int /\ i \in Int /\ i <= HeapLen - 1
    BY <1>2, HeapSize DEF Tagged, Word
  <2>2. CASE j # HeapLen - 2
    BY <1>2, <2>1, <2>2 DEF Tiling
  <2>3. CASE j = HeapLen - 2
    <3>1. abs(g[j]) \in Nat /\ abs(g[j]) >= 2
      BY <1>2, TileFacts
    <3> QED BY <1>2, <2>1, <2>3, <3>1, HeapSize
  <2> QED BY <2>2, <2>3
<1>3. 0 \in DOMAIN g
  BY DEF Tiling
<1> QED BY <1>1, <1>2, <1>3

(* Going right from the first finds the tiles, and nothing else. *)
LEMMA FindsTiles ==
    ASSUME NEW h, NEW g, Tiling(g), Tagged(h.array, g)
    PROVE  /\ Finds(h, [i \in 0 .. HeapLen - 1 |-> i \in DOMAIN g])
           /\ \A f : Finds(h, f) => \A i \in 0 .. HeapLen - 1 : f[i] <=> i \in DOMAIN g
<1>1. \A i \in Word : right(h, i) = i + abs(h.array[i])
  BY DEF right, size
<1>2. ASSUME NEW i \in Word, NEW j \in 0 .. i - 1 PROVE j \in Word
  BY HeapSize DEF Word
<1>3. ASSUME NEW i \in Word
      PROVE  i \in DOMAIN g <=> i = 0 \/ \E j \in 0 .. i - 1 : right(h, j) = i /\ j \in DOMAIN g
  BY <1>1, <1>2, BlockLeft
<1>4. Finds(h, [i \in 0 .. HeapLen - 1 |-> i \in DOMAIN g])
  <2> DEFINE f == [i \in Word |-> i \in DOMAIN g]
  <2>1. \A i \in Word : f[i] <=> i \in DOMAIN g
    OBVIOUS
  <2>2. \A i \in Word : f[i] = (i = 0 \/ \E j \in 0 .. i - 1 : right(h, j) = i /\ f[j])
    <3> SUFFICES ASSUME NEW i \in Word
                 PROVE  f[i] = (i = 0 \/ \E j \in 0 .. i - 1 : right(h, j) = i /\ f[j])
      OBVIOUS
    <3>1. f[i] = (i \in DOMAIN g)
      OBVIOUS
    <3>2. \A j \in 0 .. i - 1 : f[j] <=> j \in DOMAIN g
      BY <1>2, <2>1
    <3> HIDE DEF f
    <3>3. (\E j \in 0 .. i - 1 : right(h, j) = i /\ f[j])
             <=> \E j \in 0 .. i - 1 : right(h, j) = i /\ j \in DOMAIN g
      BY <3>2
    <3>4. (i = 0 \/ \E j \in 0 .. i - 1 : right(h, j) = i /\ f[j]) <=> i \in DOMAIN g
      BY <1>3, <3>3
    <3> QED BY <3>1, <3>4
  <2>3. f = [i \in Word |-> f[i]]
    OBVIOUS
  <2> HIDE DEF f
  <2>4. f = [i \in Word |-> i = 0 \/ \E j \in 0 .. i - 1 : right(h, j) = i /\ f[j]]
    BY <2>2, <2>3
  <2> QED BY <2>4 DEF Finds, Word, f
<1>5. ASSUME NEW f, Finds(h, f), NEW bad \in 0 .. HeapLen - 1, ~(f[bad] <=> bad \in DOMAIN g)
      PROVE  FALSE
  <2> DEFINE Bad == {i \in 0 .. HeapLen - 1 : ~(f[i] <=> i \in DOMAIN g)}
  <2>1. Bad \subseteq Nat /\ Bad # {}
    BY <1>5
  <2>2. PICK i \in Bad : \A j \in Bad : i <= j
    <3> HIDE DEF Bad
    <3> QED BY <2>1, LeastNat
  <2>3. ASSUME NEW j \in 0 .. i - 1 PROVE f[j] <=> j \in DOMAIN g
    <3>1. j \in 0 .. HeapLen - 1 /\ ~(i <= j)
      BY <2>2, HeapSize
    <3> QED BY <2>2, <3>1
  <2>4. f[i] <=> (i = 0 \/ \E j \in 0 .. i - 1 : right(h, j) = i /\ f[j])
    <3>1. i \in 0 .. HeapLen - 1
      BY <2>2
    <3> QED BY <1>5, <3>1, Zenon DEF Finds
  <2>5. f[i] <=> i \in DOMAIN g
    <3>1. i \in Word
      BY <2>2 DEF Word
    <3>2. (\E j \in 0 .. i - 1 : right(h, j) = i /\ f[j])
             <=> \E j \in 0 .. i - 1 : right(h, j) = i /\ j \in DOMAIN g
      BY <2>3
    <3> QED BY <1>3, <2>4, <3>1, <3>2
  <2> QED BY <2>2, <2>5
<1> QED BY <1>4, <1>5

(* So the blocks one finds are those of g. *)
LEMMA BlocksAreTiles ==
    ASSUME NEW g, Tiling(g), Tagged(heap.array, g) PROVE Blocks = DOMAIN g
<1>1. IsBlock = CHOOSE f : Finds(heap, f)
  BY DEF IsBlock, Finds
<1>2. Finds(heap, IsBlock)
  BY <1>1, FindsTiles
<1>3. \A i \in 0 .. HeapLen - 1 : IsBlock[i] <=> i \in DOMAIN g
  BY <1>2, FindsTiles
<1>4. DOMAIN g \subseteq 0 .. HeapLen - 1
  BY TileFacts, HeapSize
<1> QED BY <1>3, <1>4 DEF Blocks

-----------------------------------------------------------------------------
(* A block that fits is taken, whole or in part. *)
LEMMA TakenState ==
    ASSUME NEW h, NEW g, NEW L, NEW u, State(h, g, L, u), NEW i \in Avail(g),
           NEW n \in Int, n >= 4, n <= g[i], NEW w \in Nat, w >= 1, w <= n - 2
    PROVE  /\ \E g2, L2 : /\ State(Taken(h, i, n), g2, L2, Used(u, i, w))
                          /\ i \in DOMAIN g2 /\ abs(g2[i]) \in Nat /\ abs(g2[i]) >= n
                          /\ \A c \in DOMAIN u : g2[c] = g[c]
           /\ Keeps(h.array, Taken(h, i, n).array, u, i)
<1>1. Tiling(g) /\ Tagged(h.array, g)
  BY DEF State
<1>2. size(h, i) = g[i] /\ g[i] \in Int /\ g[i] >= 4
  BY <1>1, AvailFacts DEF size, Tagged
<1>3. CASE g[i] - n >= 4
  <2>1. Taken(h, i, n) = makeAvail(makeTaken(remove(h, i), i, n), i + n, g[i] - n)
    BY <1>2, <1>3 DEF Taken
  <2>2. /\ \E g2, L2 : /\ State(Taken(h, i, n), g2, L2, Used(u, i, w))
                       /\ i \in DOMAIN g2 /\ abs(g2[i]) = n
                       /\ \A c \in DOMAIN u : g2[c] = g[c]
        /\ Keeps(h.array, Taken(h, i, n).array, u, i)
    BY <1>3, <2>1, TakePart
  <2> QED BY <2>2
<1>4. CASE ~(g[i] - n >= 4)
  <2>1. Taken(h, i, n) = makeTaken(remove(h, i), i, g[i])
    BY <1>2, <1>4 DEF Taken
  <2>2. w <= g[i] - 2
    BY <1>2
  <2>3. /\ \E g2, L2 : /\ State(Taken(h, i, n), g2, L2, Used(u, i, w))
                       /\ i \in DOMAIN g2 /\ abs(g2[i]) = g[i]
                       /\ \A c \in DOMAIN u : g2[c] = g[c]
        /\ Keeps(h.array, Taken(h, i, n).array, u, i)
    BY <2>1, <2>2, TakeWhole
  <2>4. g[i] \in Nat /\ g[i] >= n
    BY <1>2
  <2> QED BY <2>3, <2>4
<1> QED BY <1>3, <1>4

(* The words for a number of bytes. *)
LEMMA WordsFacts ==
    ASSUME NEW b \in Bytes
    PROVE  /\ b \in Nat /\ b >= 1
           /\ words(b) \in Nat /\ words(b) >= 1 /\ b <= 4 * words(b) /\ 4 * words(b) <= b + 3
           /\ ints(b) \in Int /\ ints(b) >= 4 /\ words(b) <= ints(b) - 2
<1>1. \E N : Bytes \subseteq 1 .. N
  BY HeapAssumption, Zenon
<1>2. b \in Nat /\ b >= 1
  BY <1>1
<1>3. words(b) \in Nat /\ words(b) >= 1 /\ b <= 4 * words(b) /\ 4 * words(b) <= b + 3
  BY <1>2 DEF words
<1> HIDE DEF words
<1>4. ints(b) = IF words(b) + 2 < 4 THEN 4 ELSE words(b) + 2
  BY DEF ints
<1> QED BY <1>2, <1>3, <1>4

(* malloc() finds available blocks that are large enough. *)
LEMMA FoundFits ==
    ASSUME NEW h, NEW g, NEW L, NEW u, State(h, g, L, u), NEW n \in Int, NEW i \in Found(h, n)
    PROVE  i \in Avail(g) /\ n <= g[i]
<1>1. /\ Tiling(g) /\ Tagged(h.array, g) /\ Linked(h, L) /\ Members(L) = Avail(g)
  BY DEF State
<1>2. AvailList(h) = L
  BY <1>1, AvailSpread, ListIsAvail
<1>3. PICK k \in DOMAIN L : i = L[k] /\ size(h, L[k]) >= n
  BY <1>2, Zenon DEF Found
<1>4. i \in Avail(g)
  BY <1>1, <1>3 DEF Members, Linked
<1>5. size(h, i) = g[i] /\ g[i] \in Int
  BY <1>1, <1>4, AvailFacts DEF size, Tagged
<1> QED BY <1>3, <1>4, <1>5

-----------------------------------------------------------------------------
HeapInv == \E g, L : State(heap, g, L, asked)

(* What each call does to the words in use. *)
LEMMA MallocStep ==
    ASSUME HeapInv, NEW b \in Bytes, Malloc(b)
    PROVE  /\ HeapInv'
           /\ \E i : /\ i \notin DOMAIN asked
                     /\ asked' = Used(asked, i, words(b))
                     /\ Keeps(heap.array, heap'.array, asked, i)
<1> DEFINE n == ints(b)
           w == words(b)
<1>1. PICK g, L : State(heap, g, L, asked)
  BY DEF HeapInv
<1>2. PICK i \in Found(heap, n) :
         heap' = Stored(Taken(heap, i, n), i, w) /\ asked' = Used(asked, i, w)
  BY DEF Malloc, Also, Used
<1>3. w \in Nat /\ w >= 1 /\ n \in Int /\ n >= 4 /\ w <= n - 2
  BY WordsFacts
<1> HIDE DEF n, w
<1>4. i \in Avail(g) /\ n <= g[i]
  BY <1>1, <1>3, FoundFits
<1> DEFINE k == Taken(heap, i, n)
           v == Used(asked, i, w)
<1>5. /\ \E g2, L2 : /\ State(k, g2, L2, v)
                     /\ i \in DOMAIN g2 /\ abs(g2[i]) \in Nat /\ abs(g2[i]) >= n
                     /\ \A c \in DOMAIN asked : g2[c] = g[c]
      /\ Keeps(heap.array, k.array, asked, i)
  BY <1>1, <1>3, <1>4, TakenState
<1>6. PICK g2, L2 : State(k, g2, L2, v) /\ abs(g2[i]) \in Nat /\ abs(g2[i]) >= n
  BY <1>5
<1>7. i \notin DOMAIN asked
  BY <1>1, <1>4 DEF State, InUse
<1>8. i \in DOMAIN v /\ \A c \in DOMAIN asked : c \in DOMAIN v \ {i} /\ v[c] = asked[c]
  BY <1>7 DEF Used
<1> HIDE DEF k, v
<1>9. State(Stored(k, i, w), g2, L2, v) /\ Keeps(k.array, Stored(k, i, w).array, v, i)
  <2>1. w <= abs(g2[i]) - 2
    BY <1>3, <1>6
  <2> QED BY <1>3, <1>6, <1>8, <2>1, StoredState
<1>10. heap' = Stored(k, i, w) /\ asked' = v
  BY <1>2 DEF k, v
<1>11. HeapInv'
  BY <1>9, <1>10 DEF HeapInv
<1>12. Keeps(heap.array, heap'.array, asked, i)
  BY <1>5, <1>8, <1>9, <1>10 DEF Keeps
<1> QED BY <1>7, <1>10, <1>11, <1>12 DEF v, w

(* free() takes the block out of use and leaves the words of the others. *)
LEMMA FreeStep ==
    ASSUME HeapInv, NEW i \in DOMAIN asked, heap' = Freed(heap, i), asked' = Less(asked, i)
    PROVE  HeapInv' /\ Keeps(heap.array, heap'.array, asked, i)
BY FreedState DEF HeapInv

(* realloc() gives another block the words they have in common. *)
LEMMA ReallocStep ==
    ASSUME HeapInv, NEW i \in DOMAIN asked, NEW b \in Bytes, NEW c \in Found(heap, ints(b)),
           heap' = Freed(Copied(Taken(heap, c, ints(b)), i, c,
                                IF b > 4 * size(heap, i) THEN size(heap, i) ELSE words(b)), i),
           asked' = Less(Used(asked, c, words(b)), i)
    PROVE  /\ HeapInv'
           /\ c \notin DOMAIN asked
           /\ \A x \in DOMAIN asked \ {i} : \A j \in 1 .. asked[x] :
                 heap'.array[x + j] = heap.array[x + j]
           /\ \A j \in 1 .. asked[i] : j <= words(b) => heap'.array[c + j] = heap.array[i + j]
<1> DEFINE n == ints(b)
           w == words(b)
           m == IF b > 4 * size(heap, i) THEN size(heap, i) ELSE w
           k == Taken(heap, c, n)
           v == Used(asked, c, w)
           e == Copied(k, i, c, m)
<1>1. PICK g, L : State(heap, g, L, asked)
  BY DEF HeapInv
<1>2. /\ w \in Nat /\ w >= 1 /\ n \in Int /\ n >= 4 /\ w <= n - 2
      /\ b \in Nat /\ b <= 4 * w /\ 4 * w <= b + 3
  BY WordsFacts
<1>3. /\ size(heap, i) = abs(g[i]) /\ abs(g[i]) \in Nat /\ asked[i] \in Nat
      /\ asked[i] <= abs(g[i]) - 2 /\ i + abs(g[i]) <= HeapLen - 2
  <2>1. Tiling(g) /\ InUse(g, asked) /\ Tagged(heap.array, g)
    BY <1>1 DEF State
  <2> QED BY <2>1, UseFacts DEF size, Tagged
<1>4. m \in Nat /\ m <= w /\ m <= abs(g[i]) /\ \A j \in 1 .. asked[i] : j <= w => j <= m
  <2>1. CASE b > 4 * size(heap, i)
    BY <1>2, <1>3, <2>1
  <2>2. CASE ~(b > 4 * size(heap, i))
    BY <1>2, <1>3, <2>2
  <2> QED BY <2>1, <2>2
<1> HIDE DEF n, w, m
<1>5. c \in Avail(g) /\ n <= g[c]
  BY <1>1, <1>2, FoundFits DEF n
<1>6. c \notin DOMAIN asked
  BY <1>1, <1>5 DEF State, InUse
<1>7. /\ \E g2, L2 : /\ State(k, g2, L2, v)
                     /\ c \in DOMAIN g2 /\ abs(g2[c]) \in Nat /\ abs(g2[c]) >= n
                     /\ \A x \in DOMAIN asked : g2[x] = g[x]
      /\ Keeps(heap.array, k.array, asked, c)
  BY <1>1, <1>2, <1>5, TakenState
<1>8. PICK g2, L2 : /\ State(k, g2, L2, v) /\ abs(g2[c]) \in Nat /\ abs(g2[c]) >= n
                    /\ \A x \in DOMAIN asked : g2[x] = g[x]
  BY <1>7
<1>9. /\ c \in DOMAIN v /\ v[c] = w /\ i \in DOMAIN v /\ i # c
      /\ \A x \in DOMAIN asked : x \in DOMAIN v /\ x # c /\ v[x] = asked[x]
  BY <1>6 DEF Used
<1> HIDE DEF k, v
<1>10. /\ State(e, g2, L2, v) /\ Keeps(k.array, e.array, v, c)
       /\ \A j \in 1 .. m : e.array[c + j] = k.array[i + j]
  <2>1. i \in DOMAIN g2 /\ g2[i] = g[i]
    BY <1>8, <1>9 DEF State, InUse
  <2>2. m <= abs(g2[c]) - 2 /\ m <= abs(g2[i])
    BY <1>2, <1>4, <1>8, <2>1
  <2>3. i + abs(g2[i]) < HeapLen
    <3>1. i \in Int
      BY <1>1, UseFacts DEF State
    <3> QED BY <1>3, <2>1, <3>1, HeapSize
  <2> QED BY <1>4, <1>8, <1>9, <2>1, <2>2, <2>3, CopiedState
<1> HIDE DEF e
<1>11. /\ \E g3, L3 : State(Freed(e, i), g3, L3, Less(v, i))
       /\ Keeps(e.array, Freed(e, i).array, v, i)
  BY <1>9, <1>10, FreedState
<1>12. heap' = Freed(e, i) /\ asked' = Less(v, i)
  BY DEF e, v, k, m, n, w
<1>13. HeapInv'
  BY <1>11, <1>12 DEF HeapInv
<1>14. ASSUME NEW x \in DOMAIN asked \ {i}, NEW j \in 1 .. asked[x]
       PROVE  heap'.array[x + j] = heap.array[x + j]
  <2>1. k.array[x + j] = heap.array[x + j]
    BY <1>6, <1>7 DEF Keeps
  <2>2. e.array[x + j] = k.array[x + j]
    BY <1>9, <1>10 DEF Keeps
  <2>3. heap'.array[x + j] = e.array[x + j]
    BY <1>9, <1>11, <1>12 DEF Keeps
  <2> QED BY <2>1, <2>2, <2>3
<1>15. ASSUME NEW j \in 1 .. asked[i], j <= w PROVE heap'.array[c + j] = heap.array[i + j]
  <2>1. j \in 1 .. m /\ j \in 1 .. w
    BY <1>2, <1>3, <1>4, <1>15
  <2>2. k.array[i + j] = heap.array[i + j]
    BY <1>7, <1>9 DEF Keeps
  <2>3. e.array[c + j] = k.array[i + j]
    BY <1>10, <2>1
  <2>4. heap'.array[c + j] = e.array[c + j]
    BY <1>9, <1>11, <1>12, <2>1 DEF Keeps
  <2> QED BY <2>2, <2>3, <2>4
<1> QED BY <1>6, <1>13, <1>14, <1>15 DEF w

(* The three calls, told apart as Allocator does. *)
LEMMA HeapStep ==
    ASSUME HeapInv, Next
    PROVE  \/ \E b \in Bytes : Malloc(b)
           \/ \E i \in DOMAIN asked : heap' = Freed(heap, i) /\ asked' = Less(asked, i)
           \/ \E i \in DOMAIN asked, b \in Bytes : \E c \in Found(heap, ints(b)) :
                 /\ heap' = Freed(Copied(Taken(heap, c, ints(b)), i, c,
                               IF b > 4 * size(heap, i) THEN size(heap, i) ELSE words(b)), i)
                 /\ asked' = Less(Used(asked, c, words(b)), i)
<1>1. ASSUME NEW i \in DOMAIN asked, NEW b \in Bytes, Realloc(i, b)
      PROVE  \/ heap' = Freed(heap, i) /\ asked' = Less(asked, i)
             \/ \E c \in Found(heap, ints(b)) :
                 /\ heap' = Freed(Copied(Taken(heap, c, ints(b)), i, c,
                               IF b > 4 * size(heap, i) THEN size(heap, i) ELSE words(b)), i)
                 /\ asked' = Less(Used(asked, c, words(b)), i)
  BY <1>1, Zenon DEF Realloc, Also, Used
<1> QED BY <1>1, Zenon DEF Next, Free

(* The invariant holds when the heap is made. *)
LEMMA HeapInvInit == Init => HeapInv
BY InitState DEF HeapInv

(* Each call keeps it. *)
LEMMA HeapInvNext == HeapInv /\ [Next]_vars => HeapInv'
<1>1. CASE UNCHANGED vars
  BY <1>1 DEF HeapInv, vars, State, InUse
<1>2. ASSUME HeapInv, Next PROVE HeapInv'
  <2>1. ASSUME NEW b \in Bytes, Malloc(b) PROVE HeapInv'
    BY <1>2, <2>1, MallocStep
  <2>2. ASSUME NEW i \in DOMAIN asked, heap' = Freed(heap, i), asked' = Less(asked, i)
        PROVE  HeapInv'
    BY <1>2, <2>2, FreeStep
  <2>3. ASSUME NEW i \in DOMAIN asked, NEW b \in Bytes, NEW c \in Found(heap, ints(b)),
               heap' = Freed(Copied(Taken(heap, c, ints(b)), i, c,
                               IF b > 4 * size(heap, i) THEN size(heap, i) ELSE words(b)), i),
               asked' = Less(Used(asked, c, words(b)), i)
        PROVE  HeapInv'
    BY <1>2, <2>3, ReallocStep
  <2> QED BY <1>2, <2>1, <2>2, <2>3, HeapStep
<1> QED BY <1>1, <1>2

(* So it always holds. *)
LEMMA HeapInvariant == Spec => []HeapInv
BY HeapInvInit, HeapInvNext, PTL DEF Spec

(* The blocks and the list `avail' are sound in such a state. *)
LEMMA StateIsSound == ASSUME NEW g, NEW L, State(heap, g, L, asked) PROVE HeapSound
<1>1. /\ Tiling(g) /\ NoNeighbours(g) /\ Tagged(heap.array, g)
      /\ Linked(heap, L) /\ Members(L) = Avail(g) /\ InUse(g, asked) /\ Spread(Avail(g))
  BY AvailSpread DEF State
<1>2. AvailList(heap) = L
  BY <1>1, ListIsAvail
<1>3. Blocks = DOMAIN g
  BY <1>1, BlocksAreTiles
<1>4. {i \in DOMAIN g : isAvail(heap, i)} = Avail(g)
  BY <1>1 DEF isAvail, Avail, Tagged
<1>5. ASSUME NEW i \in DOMAIN g
      PROVE  /\ footerFromHeader(heap, i) < HeapLen
             /\ heap.array[footerFromHeader(heap, i)] = heap.array[i]
             /\ isAvail(heap, i) => right(heap, i) \notin Avail(g)
  <2>1. size(heap, i) = abs(g[i]) /\ heap.array[i] = g[i]
    BY <1>1 DEF size, Tagged
  <2>2. i \in Int /\ abs(g[i]) \in Nat /\ i + abs(g[i]) <= HeapLen
    BY <1>1, TileFacts
  <2>3. g[i] > 0 => i + abs(g[i]) \notin Avail(g)
    <3> SUFFICES ASSUME g[i] > 0, i + abs(g[i]) \in Avail(g) PROVE FALSE
      OBVIOUS
    <3>1. g[i + abs(g[i])] < 0
      BY <1>1 DEF NoNeighbours
    <3>2. g[i + abs(g[i])] > 0 /\ g[i + abs(g[i])] \in Int
      BY <1>1, AvailFacts DEF Avail
    <3> QED BY <3>1, <3>2
  <2>4. footerFromHeader(heap, i) = i + abs(g[i]) - 1 /\ right(heap, i) = i + abs(g[i])
    BY <2>1 DEF footerFromHeader, right
  <2>5. footerFromHeader(heap, i) < HeapLen
    BY <2>2, <2>4, HeapSize
  <2>6. heap.array[footerFromHeader(heap, i)] = heap.array[i]
    BY <1>1, <2>4 DEF Tagged
  <2> QED BY <2>1, <2>3, <2>4, <2>5, <2>6 DEF isAvail
<1>6. {L[k] : k \in DOMAIN L} = Avail(g) /\ DOMAIN L = 1 .. Len(L)
  <2>1. DOMAIN L = 1 .. Len(L)
    BY <1>1 DEF Linked
  <2> QED BY <1>1, <2>1 DEF Members
<1>7. Len(L) = Cardinality(Avail(g))
  BY <1>1, ListLength
<1>8. \A k \in DOMAIN L : prev(heap, L[k]) = IF k = 1 THEN 0 ELSE L[k - 1]
  <2> SUFFICES ASSUME NEW k \in 1 .. Len(L)
               PROVE  prev(heap, L[k]) = IF k = 1 THEN 0 ELSE L[k - 1]
    BY <1>6
  <2>1. prev(heap, L[k]) = ItemAt(L, k - 1) /\ Len(L) \in Nat
    BY <1>1 DEF Linked
  <2>2. k - 1 \in 1 .. Len(L) <=> k # 1
    BY <2>1
  <2> QED BY <2>1, <2>2 DEF ItemAt
<1>9. DOMAIN g \ Avail(g) = {0, HeapLen - 2} \cup DOMAIN asked
  <2>1. 0 \in DOMAIN g \ Avail(g) /\ HeapLen - 2 \in DOMAIN g \ Avail(g)
    BY <1>1, AvailFacts DEF Tiling
  <2> QED BY <1>1, <2>1 DEF InUse
<1>10. \A i \in DOMAIN asked : asked[i] <= size(heap, i) - 2
  BY <1>1 DEF InUse, Tagged, size
<1>11. {i \in Blocks : isAvail(heap, i)} = Avail(g)
  BY <1>3, <1>4
<1> DEFINE list == AvailList(heap)
           blocks == Blocks
           available == {i \in blocks : isAvail(heap, i)}
<1>12. list = L /\ blocks = DOMAIN g /\ available = Avail(g)
  BY <1>2, <1>3, <1>11
<1> HIDE DEF list, blocks, available
<1>13. \A i \in blocks :
          /\ footerFromHeader(heap, i) < HeapLen
          /\ heap.array[footerFromHeader(heap, i)] = heap.array[i]
          /\ isAvail(heap, i) => right(heap, i) \notin available
  BY <1>5, <1>12
<1>14. {list[k] : k \in DOMAIN list} = available /\ Len(list) = Cardinality(available)
  BY <1>6, <1>7, <1>12
<1>15. \A k \in DOMAIN list : prev(heap, list[k]) = IF k = 1 THEN 0 ELSE list[k - 1]
  BY <1>8, <1>12
<1>16. blocks \ available = {0, HeapLen - 2} \cup DOMAIN asked
  BY <1>9, <1>12
<1> QED BY <1>10, <1>13, <1>14, <1>15, <1>16, Zenon DEF HeapSound, list, blocks, available

(* malloc(), free() and realloc() keep the heap's blocks and its list as   *)
(* sanity() wants them, for any size of the heap (heap.cc).                *)
THEOREM HeapIsSound == Spec => []HeapSound
<1>1. HeapInv => HeapSound
  BY StateIsSound DEF HeapInv
<1> QED BY <1>1, HeapInvariant, PTL

-----------------------------------------------------------------------------
Sizes(u) == DOMAIN u \subseteq Int /\ \A i \in DOMAIN u : u[i] \in Nat

(* Where the words given out begin. *)
LEMMA GivenDomain == ASSUME NEW u, NEW a PROVE DOMAIN Given(u, a) = {i + 1 : i \in DOMAIN u}
BY DEF Given

(* The words of one block. *)
LEMMA GivenAt ==
    ASSUME NEW u, Sizes(u), NEW a, NEW i \in DOMAIN u
    PROVE  /\ i + 1 \in DOMAIN Given(u, a)
           /\ Given(u, a)[i + 1] = [k \in 1 .. u[i] |-> a[i + k]]
<1>1. i \in Int /\ u[i] \in Nat /\ i + 1 \in DOMAIN Given(u, a)
  BY GivenDomain DEF Sizes
<1>2. Given(u, a)[i + 1] = [k \in 1 .. u[(i + 1) - 1] |-> a[(i + 1) + k - 1]]
  BY <1>1, GivenDomain DEF Given
<1>3. (i + 1) - 1 = i /\ \A k \in 1 .. u[i] : (i + 1) + k - 1 = i + k
  BY <1>1
<1> QED BY <1>1, <1>2, <1>3

(* The addresses of these words. *)
LEMMA GivenWords ==
    ASSUME NEW u, Sizes(u), NEW a, NEW i \in DOMAIN u
    PROVE  Promise!Words(Given(u, a), i + 1) = i + 1 .. i + u[i]
<1>1. i \in Int /\ u[i] \in Nat
  BY DEF Sizes
<1>2. Len(Given(u, a)[i + 1]) = u[i]
  <2>1. Given(u, a)[i + 1] = [k \in 1 .. u[i] |-> a[i + k]]
    BY GivenAt
  <2> QED BY <1>1, <2>1
<1>3. (i + 1) + u[i] - 1 = i + u[i]
  BY <1>1
<1>4. Promise!Words(Given(u, a), i + 1) = i + 1 .. (i + 1) + Len(Given(u, a)[i + 1]) - 1
  BY DEF Promise!Words
<1> QED BY <1>2, <1>3, <1>4

(* f is e without the block i. *)
OneLess(f, e, i) == f = [x \in DOMAIN e \ {i + 1} |-> e[x]]

(* The GivenOut of v are those of u but for i, with the same words in b as   *)
(* those have in a.                                                        *)
Same(v, b, u, a, i) ==
    /\ DOMAIN v = DOMAIN u \ {i}
    /\ \A c \in DOMAIN v : v[c] = u[c] /\ \A j \in 1 .. v[c] : b[c + j] = a[c + j]

(* One block less, and the words of the others the same. *)
LEMMA GivenLess ==
    ASSUME NEW u, Sizes(u), NEW a, NEW i \in DOMAIN u, NEW v, NEW b,
           Same(v, b, u, a, i)
    PROVE  OneLess(Given(v, b), Given(u, a), i)
<1> DEFINE V == Given(v, b)
           W == [x \in DOMAIN Given(u, a) \ {i + 1} |-> Given(u, a)[x]]
           D == {c + 1 : c \in DOMAIN v}
<1>1. Sizes(v)
  BY DEF Sizes, Same
<1>2. DOMAIN V = D /\ DOMAIN Given(u, a) = {c + 1 : c \in DOMAIN u}
  BY GivenDomain
<1>3. D = DOMAIN Given(u, a) \ {i + 1}
  <2>1. \A c \in DOMAIN u : c \in Int
    BY DEF Sizes
  <2>2. \A c \in DOMAIN u : c # i => c + 1 # i + 1
    BY <2>1
  <2> QED BY <1>2, <2>2 DEF Same
<1>4. W = [x \in D |-> Given(u, a)[x]]
  BY <1>3
<1>5. \A x \in D : V[x] = Given(u, a)[x]
  <2> SUFFICES ASSUME NEW c \in DOMAIN v PROVE V[c + 1] = Given(u, a)[c + 1]
    OBVIOUS
  <2> DEFINE x == c + 1
  <2>1. c \in Int /\ x - 1 = c /\ x \in D /\ x \in DOMAIN Given(u, a)
    BY <1>1, <1>2, <1>3 DEF Sizes, Same
  <2>2. \A k \in 1 .. v[c] : x + k - 1 = c + k
    BY <2>1
  <2> HIDE DEF x, V
  <2>3. V[x] = [k \in 1 .. v[x - 1] |-> b[x + k - 1]]
    BY <2>1 DEF Given, V
  <2>4. Given(u, a)[x] = [k \in 1 .. u[x - 1] |-> a[x + k - 1]]
    BY <1>2, <2>1 DEF Given
  <2>5. v[c] = u[c] /\ \A k \in 1 .. v[c] : b[x + k - 1] = a[x + k - 1]
    BY <2>2 DEF Same
  <2>6. V[x] = Given(u, a)[x]
    BY <2>1, <2>3, <2>4, <2>5
  <2> QED BY <2>6 DEF x
<1>6. V = [x \in D |-> V[x]]
  BY <1>2 DEF Given
<1> HIDE DEF V, W, D
<1>7. V = W
  BY <1>4, <1>5, <1>6
<1> QED BY <1>7 DEF V, W, OneLess

(* The words in use are apart, and within the memory. *)
LEMMA GivenApart ==
    ASSUME NEW h, NEW g, NEW L, NEW u, State(h, g, L, u), NEW a
    PROVE  /\ Sizes(u) /\ Promise!Disjoint(Given(u, a))
           /\ \A i \in DOMAIN u : Promise!Words(Given(u, a), i + 1) \subseteq 3 .. HeapLen - 4
<1>1. Tiling(g) /\ InUse(g, u) /\ HeapLen \in Nat
  BY HeapSize DEF State
<1>2. \A i \in DOMAIN u : /\ i \in DOMAIN g /\ i \in Int /\ 2 <= i /\ u[i] \in Nat
                          /\ u[i] <= abs(g[i]) - 2 /\ abs(g[i]) \in Nat
                          /\ i + abs(g[i]) <= HeapLen - 2
  BY <1>1, UseFacts
<1>3. Sizes(u)
  BY <1>2 DEF Sizes
<1>4. ASSUME NEW i \in DOMAIN u
      PROVE  Promise!Words(Given(u, a), i + 1) \subseteq 3 .. HeapLen - 4
  <2>1. Promise!Words(Given(u, a), i + 1) = i + 1 .. i + u[i]
    BY <1>3, GivenWords
  <2>2. 3 <= i + 1 /\ i + u[i] <= HeapLen - 4
    BY <1>1, <1>2
  <2> QED BY <1>1, <1>2, <2>1, <2>2
<1>5. ASSUME NEW i \in DOMAIN u, NEW c \in DOMAIN u, i # c
      PROVE  Promise!Words(Given(u, a), i + 1) \cap Promise!Words(Given(u, a), c + 1) = {}
  <2>1. /\ Promise!Words(Given(u, a), i + 1) = i + 1 .. i + u[i]
        /\ Promise!Words(Given(u, a), c + 1) = c + 1 .. c + u[c]
    BY <1>3, GivenWords
  <2>2. i + abs(g[i]) <= c \/ c + abs(g[c]) <= i
    BY <1>1, <1>2, <1>5, TilesApart
  <2>3. i + u[i] < c + 1 \/ c + u[c] < i + 1
    BY <1>2, <2>2
  <2>4. i \in Int /\ c \in Int /\ u[i] \in Nat /\ u[c] \in Nat
    BY <1>2
  <2> QED BY <2>1, <2>3, <2>4
<1>6. Promise!Disjoint(Given(u, a))
  <2> SUFFICES ASSUME NEW x \in DOMAIN Given(u, a), NEW y \in DOMAIN Given(u, a), x # y
               PROVE  Promise!Words(Given(u, a), x) \cap Promise!Words(Given(u, a), y) = {}
    BY DEF Promise!Disjoint
  <2>0. DOMAIN Given(u, a) = {i + 1 : i \in DOMAIN u}
    BY GivenDomain
  <2>1. PICK i \in DOMAIN u : x = i + 1
    BY <2>0
  <2>2. PICK c \in DOMAIN u : y = c + 1
    BY <2>0
  <2> QED BY <1>5, <2>1, <2>2
<1> QED BY <1>3, <1>4, <1>6

-----------------------------------------------------------------------------

(* malloc() does what Allocator says. *)
LEMMA MallocImplements ==
    ASSUME HeapInv, NEW b \in Bytes, Malloc(b) PROVE Promise!Malloc
<1>1. PICK i : /\ i \notin DOMAIN asked
               /\ asked' = Used(asked, i, words(b))
               /\ Keeps(heap.array, heap'.array, asked, i)
  BY MallocStep
<1>2. PICK g, L : State(heap', g, L, asked')
  BY MallocStep DEF HeapInv
<1>3. /\ Sizes(asked') /\ Promise!Disjoint(GivenOut') /\ i \in DOMAIN asked'
      /\ Promise!Words(GivenOut', i + 1) \subseteq 3 .. HeapLen - 4
  BY <1>1, <1>2, GivenApart DEF GivenOut, Used
<1>4. DOMAIN asked = DOMAIN asked' \ {i} /\ \A c \in DOMAIN asked : asked[c] = asked'[c]
  BY <1>1 DEF Used
<1>5. \A c \in DOMAIN asked : \A j \in 1 .. asked[c] : heap.array[c + j] = heap'.array[c + j]
  BY <1>1 DEF Keeps
<1>6. Promise!Without(GivenOut', i + 1) = GivenOut
  <2>1. Same(asked, heap.array, asked', heap'.array, i)
    BY <1>4, <1>5 DEF Same
  <2>2. OneLess(Given(asked, heap.array), Given(asked', heap'.array), i)
    <3>1. Sizes(asked') /\ i \in DOMAIN asked'
      BY <1>3
    <3> QED BY <2>1, <3>1, GivenLess, Zenon
  <2> QED BY <2>2 DEF GivenOut, OneLess, Promise!Without
<1>7. i + 1 \in DOMAIN GivenOut' \ DOMAIN GivenOut
  <2>1. i + 1 \in DOMAIN GivenOut'
    BY <1>3, GivenAt DEF GivenOut
  <2>2. DOMAIN GivenOut = DOMAIN GivenOut' \ {i + 1}
    BY <1>6 DEF Promise!Without
  <2> QED BY <2>1, <2>2
<1> QED BY <1>3, <1>6, <1>7 DEF Promise!Malloc, GivenOut, Given

(* free() does. *)
LEMMA FreeImplements ==
    ASSUME HeapInv, NEW i \in DOMAIN asked, heap' = Freed(heap, i), asked' = Less(asked, i)
    PROVE  Promise!Free
<1>1. Keeps(heap.array, heap'.array, asked, i)
  BY FreeStep
<1>2. Sizes(asked)
  BY GivenApart DEF HeapInv
<1>3. GivenOut' = Promise!Without(GivenOut, i + 1)
  <2>1. DOMAIN asked' = DOMAIN asked \ {i} /\ \A c \in DOMAIN asked' : asked'[c] = asked[c]
    BY DEF Less
  <2>2. \A c \in DOMAIN asked' : \A j \in 1 .. asked'[c] : heap'.array[c + j] = heap.array[c + j]
    BY <1>1, <2>1 DEF Keeps
  <2>3. Same(asked', heap'.array, asked, heap.array, i)
    BY <2>1, <2>2 DEF Same
  <2>4. OneLess(Given(asked', heap'.array), Given(asked, heap.array), i)
    BY <1>2, <2>3, GivenLess, Zenon
  <2> QED BY <2>4 DEF GivenOut, OneLess, Promise!Without
<1>4. i + 1 \in DOMAIN GivenOut
  BY <1>2, GivenAt DEF GivenOut
<1> QED BY <1>3, <1>4 DEF Promise!Free, GivenOut, Given

(* realloc() does. *)
LEMMA ReallocImplements ==
    ASSUME HeapInv, NEW i \in DOMAIN asked, NEW b \in Bytes, NEW c \in Found(heap, ints(b)),
           heap' = Freed(Copied(Taken(heap, c, ints(b)), i, c,
                                IF b > 4 * size(heap, i) THEN size(heap, i) ELSE words(b)), i),
           asked' = Less(Used(asked, c, words(b)), i)
    PROVE  Promise!Realloc
<1> DEFINE w == words(b)
           rest == Less(asked, i)
<1>1. /\ HeapInv'
      /\ c \notin DOMAIN asked
      /\ \A x \in DOMAIN asked \ {i} : \A j \in 1 .. asked[x] :
            heap'.array[x + j] = heap.array[x + j]
      /\ \A j \in 1 .. asked[i] : j <= w => heap'.array[c + j] = heap.array[i + j]
  BY ReallocStep
<1>2. PICK g, L : State(heap', g, L, asked')
  BY <1>1 DEF HeapInv
<1>3. Sizes(asked)
  BY GivenApart DEF HeapInv
<1>4. /\ DOMAIN rest = DOMAIN asked \ {i} /\ \A x \in DOMAIN rest : rest[x] = asked[x]
      /\ DOMAIN rest = DOMAIN asked' \ {c} /\ \A x \in DOMAIN rest : rest[x] = asked'[x]
      /\ c \in DOMAIN asked' /\ asked'[c] = w
  BY <1>1 DEF Less, Used
<1>5. /\ Sizes(asked') /\ Promise!Disjoint(GivenOut')
      /\ Promise!Words(GivenOut', c + 1) \subseteq 3 .. HeapLen - 4
  BY <1>2, <1>4, GivenApart DEF GivenOut
<1> HIDE DEF rest, w
<1>6. Given(rest, heap.array) = Promise!Without(GivenOut, i + 1)
  <2>1. Same(rest, heap.array, asked, heap.array, i)
    BY <1>4 DEF Same
  <2>2. OneLess(Given(rest, heap.array), Given(asked, heap.array), i)
    BY <1>3, <2>1, GivenLess, Zenon
  <2> QED BY <2>2 DEF GivenOut, OneLess, Promise!Without
<1>7. Given(rest, heap.array) = Promise!Without(GivenOut', c + 1)
  <2>1. \A x \in DOMAIN rest : \A j \in 1 .. rest[x] : heap.array[x + j] = heap'.array[x + j]
    BY <1>1, <1>4
  <2>2. Same(rest, heap.array, asked', heap'.array, c)
    BY <1>4, <2>1 DEF Same
  <2>3. OneLess(Given(rest, heap.array), Given(asked', heap'.array), c)
    <3>1. Sizes(asked') /\ c \in DOMAIN asked'
      BY <1>4, <1>5
    <3> QED BY <2>2, <3>1, GivenLess, Zenon
  <2> QED BY <2>3 DEF GivenOut, OneLess, Promise!Without
<1>8. i + 1 \in DOMAIN GivenOut /\ GivenOut[i + 1] = [k \in 1 .. asked[i] |-> heap.array[i + k]]
  BY <1>3, GivenAt DEF GivenOut
<1>9. c + 1 \in DOMAIN GivenOut' /\ GivenOut'[c + 1] = [k \in 1 .. w |-> heap'.array[c + k]]
  BY <1>4, <1>5, GivenAt DEF GivenOut
<1>10. c + 1 \notin DOMAIN GivenOut
  <2>1. c \in Int /\ DOMAIN GivenOut = {x + 1 : x \in DOMAIN asked}
    BY <1>3, <1>4, <1>5, GivenDomain DEF GivenOut, Sizes
  <2>2. \A x \in DOMAIN asked : x \in Int /\ x # c
    BY <1>1, <1>3 DEF Sizes
  <2> QED BY <2>1, <2>2
<1>11. \A j \in DOMAIN GivenOut[i + 1] \cap DOMAIN GivenOut'[c + 1] : GivenOut'[c + 1][j] = GivenOut[i + 1][j]
  <2> SUFFICES ASSUME NEW j \in DOMAIN GivenOut[i + 1], j \in DOMAIN GivenOut'[c + 1]
               PROVE  GivenOut'[c + 1][j] = GivenOut[i + 1][j]
    OBVIOUS
  <2>1. j \in 1 .. asked[i] /\ j \in 1 .. w
    BY <1>8, <1>9
  <2>2. heap'.array[c + j] = heap.array[i + j]
    BY <1>1, <2>1
  <2> QED BY <1>8, <1>9, <2>1, <2>2
<1>12. Promise!Without(GivenOut', c + 1) = Promise!Without(GivenOut, i + 1)
  BY <1>6, <1>7
<1>13. \E a \in DOMAIN GivenOut, x \in DOMAIN GivenOut' \ DOMAIN GivenOut :
          /\ Promise!Without(GivenOut', x) = Promise!Without(GivenOut, a)
          /\ Promise!Words(GivenOut', x) \subseteq 3 .. HeapLen - 4
          /\ Promise!Disjoint(GivenOut')
          /\ \A j \in DOMAIN GivenOut[a] \cap DOMAIN GivenOut'[x] : GivenOut'[x][j] = GivenOut[a][j]
  <2>1. i + 1 \in DOMAIN GivenOut
    BY <1>8
  <2>2. c + 1 \in DOMAIN GivenOut' \ DOMAIN GivenOut
    BY <1>9, <1>10
  <2> QED BY <1>5, <1>11, <1>12, <2>1, <2>2, Zenon
<1> QED BY <1>13 DEF Promise!Realloc, GivenOut, Given

(* Whatever the calls of malloc(), free() and realloc(): the blocks that   *)
(* are given out never overlap, and each keeps its words while others are  *)
(* split, joined, linked and copied (heap.cc, sbin/heap.c).                *)
THEOREM HeapIsAllocator == Spec => ImplementsAllocator
<1>1. Init => Promise!Init
  BY DEF Init, Promise!Init, GivenOut, Given
<1>2. HeapInv /\ [Next]_vars => [Promise!Next]_GivenOut
  <2> SUFFICES ASSUME HeapInv, [Next]_vars PROVE [Promise!Next]_GivenOut
    OBVIOUS
  <2>1. CASE UNCHANGED vars
    BY <2>1 DEF vars, GivenOut
  <2>2. CASE Next
    <3>1. ASSUME NEW b \in Bytes, Malloc(b) PROVE Promise!Next
      BY <3>1, MallocImplements DEF Promise!Next
    <3>2. ASSUME NEW i \in DOMAIN asked, heap' = Freed(heap, i), asked' = Less(asked, i)
          PROVE  Promise!Next
      BY <3>2, FreeImplements DEF Promise!Next
    <3>3. ASSUME NEW i \in DOMAIN asked, NEW b \in Bytes, NEW c \in Found(heap, ints(b)),
                 heap' = Freed(Copied(Taken(heap, c, ints(b)), i, c,
                               IF b > 4 * size(heap, i) THEN size(heap, i) ELSE words(b)), i),
                 asked' = Less(Used(asked, c, words(b)), i)
          PROVE  Promise!Next
      BY <3>3, ReallocImplements DEF Promise!Next
    <3> QED BY <2>2, <3>1, <3>2, <3>3, HeapStep
  <2> QED BY <2>1, <2>2
<1> QED BY <1>1, <1>2, HeapInvariant, PTL DEF Spec, ImplementsAllocator, Promise!Spec
=============================================================================
