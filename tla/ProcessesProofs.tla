--------------------------- MODULE ProcessesProofs ---------------------------
(***************************************************************************)
(* Proofs about Processes: that every object and every process has as many *)
(* references as it counts.  The inductive invariant adds to that what the *)
(* steps rely on: a Shared<> that a step sets was null, and at most one    *)
(* parent is in fork() with a child, at the point that the child is at.    *)
(***************************************************************************)
EXTENDS Processes, FiniteSetTheorems, TLAPS

(* Where a process may be. *)
Running == {"user", "file", "down", "wait"}
Label == Running \cup {"fork", "forked", "deleting", "ended", "gone", "destroy", "none"}

TypeOK ==
    /\ table \in [Process -> [Slot -> Object \cup {null}]]
    /\ output \in [Process -> Object \cup {null}]
    /\ held \in [Process -> Object \cup {null}]
    /\ ref_count \in [Object -> Nat]
    /\ made \subseteq Object
    /\ proc_refs \in [Process -> Nat]
    /\ pc \in [Process -> Label]
    /\ todo \in [Process -> SUBSET Slot]
    /\ child \in [Process -> Process]
    /\ initProc \subseteq Process

(* What Counted says of the objects. *)
ObjectsCounted ==
    \A o \in Object :
        /\ ref_count[o] = Cardinality(References(o))
        /\ o \in made <=> ref_count[o] > 0

(* The Shared<> that a step is about to set are null. *)
Blank ==
    \A p \in Process :
        /\ held[p] # null => pc[p] \in {"file", "down", "wait"}
        /\ pc[p] = "none" /\ ~Copied(p) => output[p] = null /\ \A s \in Slot : table[p][s] = null
        /\ pc[p] = "fork" => \A s \in todo[p] : table[child[p]][s] = null

(* Only a process in fork() has a child, of its own, that is at the point  *)
(* that the call has come to.                                              *)
Kin ==
    /\ \A p \in Process :
           /\ child[p] = p <=> pc[p] \notin {"fork", "forked", "deleting"}
           /\ pc[p] = "fork" => pc[child[p]] = "none"
           /\ pc[p] = "forked" => pc[child[p]] \notin {"none", "destroy"}
           /\ pc[p] = "deleting" => pc[child[p]] \in {"none", "destroy"}
    /\ \A p, q \in Process : child[p] = child[q] => p = q \/ child[p] = p \/ child[q] = q

(* What kernelInit refers to is not deleted, and no child of a fork().     *)
InitHolds ==
    \A p \in initProc :
        /\ pc[p] \notin {"none", "destroy"}
        /\ \A q \in Process : child[q] = p => q = p

(* The one that made p, a parent in fork() or kernelInit, still has p.     *)
Kept(p) == Forking(p) # {} \/ p \in initProc

(* What Counted says of the processes. *)
ProcessesCounted ==
    \A p \in Process :
        /\ proc_refs[p] = (IF HasThread(p) THEN 1 ELSE 0) + (IF Kept(p) THEN 1 ELSE 0)
        /\ pc[p] = "destroy" => proc_refs[p] = 0
        /\ pc[p] = "gone" => proc_refs[p] > 0

Inv ==
    /\ TypeOK
    /\ ObjectsCounted
    /\ Blank
    /\ Kin
    /\ InitHolds
    /\ ProcessesCounted

-----------------------------------------------------------------------------
Places == Process \X Place
Output == <<"output", 0>>
Held == <<"held", 0>>

(* All the Shared<> there are, as one function. *)
Shares(t, out, h) ==
    [u \in Places |-> IF u[2] = Output THEN out[u[1]]
                      ELSE IF u[2] = Held THEN h[u[1]]
                      ELSE t[u[1]][u[2]]]

Users(g, o) == {u \in Places : g[u] = o}

(* count is right for g. *)
Tallied(g, count) == \A o \in Object : count[o] = Cardinality(Users(g, o))

(* There are finitely many Shared<>. *)
LEMMA PlacesFinite == IsFiniteSet(Places)
  <1>1. IsFiniteSet(0 .. NFILE - 1) /\ IsFiniteSet(0 .. NSEM - 1) /\ IsFiniteSet(0 .. NCHILD - 1)
    BY FS_Interval, ProcessesAssumption
  <1>2. IsFiniteSet({"file"}) /\ IsFiniteSet({"sem"}) /\ IsFiniteSet({"child"})
    BY FS_Singleton
  <1>3. IsFiniteSet(FileSlot) /\ IsFiniteSet(SemSlot) /\ IsFiniteSet(ChildSlot)
    BY <1>1, <1>2, FS_Product DEF FileSlot, SemSlot, ChildSlot
  <1>4. IsFiniteSet({Output}) /\ IsFiniteSet({Held})
    BY FS_Singleton
  <1>5. IsFiniteSet(Slot)
    BY <1>3, FS_Union DEF Slot
  <1>6. {Output, Held} = {Output} \cup {Held}
    OBVIOUS
  <1>7. IsFiniteSet({Output, Held})
    BY ONLY <1>4, <1>6, FS_Union
  <1>8. IsFiniteSet(Slot \cup {Output, Held})
    BY ONLY <1>5, <1>7, FS_Union
  <1>9. IsFiniteSet(Place)
    BY <1>8 DEF Place, Output, Held
  <1> QED
    BY <1>9, FS_Product, ProcessesAssumption DEF Places

(* null is told apart from every object. *)
LEMMA NoObject == null \notin Object
  BY ProcessesAssumption DEF Object

(* The slots are told apart from the two other places. *)
LEMMA SlotPlaces ==
  /\ Slot \subseteq Place /\ Output \in Place /\ Held \in Place
  /\ Output \notin Slot /\ Held \notin Slot /\ Output # Held
  BY DEF Place, Output, Held, Slot, FileSlot, SemSlot, ChildSlot

(* So finitely many refer to an object. *)
LEMMA UsersFinite ==
  ASSUME NEW g, NEW o
  PROVE  IsFiniteSet(Users(g, o))
  BY PlacesFinite, FS_Subset DEF Users

(* One Shared<> is set, dropping what it was and adding what it is to be.  *)
LEMMA Assigned ==
  ASSUME NEW g \in [Places -> Object \cup {null}],
         NEW count \in [Object -> Nat], Tallied(g, count),
         NEW u \in Places, NEW y \in Object \cup {null}
  PROVE  /\ Add(Drop(count, g[u]), y) \in [Object -> Nat]
         /\ Tallied([g EXCEPT ![u] = y], Add(Drop(count, g[u]), y))
  <1> DEFINE x == g[u]
             h == [g EXCEPT ![u] = y]
             new == Add(Drop(count, x), y)
  <1>1. x \in Object \cup {null} /\ h[u] = y /\ \A v \in Places : v # u => h[v] = g[v]
    OBVIOUS
  <1>2. ASSUME NEW o \in Object
        PROVE  /\ Cardinality(Users(g, o)) \in Nat
               /\ Cardinality(Users(h, o)) \in Nat
               /\ Cardinality(Users(h, o)) = Cardinality(Users(g, o))
                      - (IF o = x THEN 1 ELSE 0) + (IF o = y THEN 1 ELSE 0)
    <2>1. IsFiniteSet(Users(g, o)) /\ IsFiniteSet(Users(h, o))
      BY UsersFinite
    <2>2. Cardinality(Users(g, o)) \in Nat /\ Cardinality(Users(h, o)) \in Nat
      BY <2>1, FS_CardinalityType
    <2>3. CASE o = x /\ o # y
      <3>1. Users(h, o) = Users(g, o) \ {u} /\ u \in Users(g, o)
        BY <1>1, <2>3 DEF Users
      <3> HIDE DEF h, x
      <3> QED
        BY <2>1, <2>2, <2>3, <3>1, FS_RemoveElement
    <2>4. CASE o # x /\ o = y
      <3>1. Users(h, o) = Users(g, o) \cup {u} /\ u \notin Users(g, o)
        BY <1>1, <2>4 DEF Users
      <3> HIDE DEF h, x
      <3> QED
        BY <2>1, <2>2, <2>4, <3>1, FS_AddElement
    <2>5. CASE o = x <=> o = y
      <3>1. Users(h, o) = Users(g, o)
        BY <1>1, <2>5 DEF Users
      <3> HIDE DEF h, x
      <3> QED
        BY <2>2, <2>5, <3>1
    <2> QED
      BY <2>3, <2>4, <2>5
  <1>3. \A o \in Object : count[o] = Cardinality(Users(g, o))
    BY DEF Tallied
  <1> HIDE DEF h, x
  <1>4. /\ DOMAIN new = Object
        /\ \A o \in Object : new[o] = count[o] - (IF o = x THEN 1 ELSE 0) + (IF o = y THEN 1 ELSE 0)
    <2>1. /\ Drop(count, x) \in [Object -> Int]
          /\ \A o \in Object : Drop(count, x)[o] = count[o] - (IF o = x THEN 1 ELSE 0)
      BY <1>1, NoObject DEF Drop
    <2> QED
      BY <2>1, NoObject DEF Add
  <1>5. new = [o \in Object |-> new[o]]
    BY NoObject DEF Add, Drop
  <1>6. ASSUME NEW o \in Object
        PROVE  new[o] \in Nat /\ new[o] = Cardinality(Users(h, o))
    BY <1>2, <1>3, <1>4, <1>6
  <1> HIDE DEF new
  <1>7. new \in [Object -> Nat] /\ Tallied(h, new)
    BY <1>5, <1>6 DEF Tallied
  <1> QED
    BY <1>7 DEF h, x, new

(* The same for a Shared<> that was, or is to be, null.                    *)
LEMMA Set ==
  ASSUME NEW g \in [Places -> Object \cup {null}],
         NEW count \in [Object -> Nat], Tallied(g, count),
         NEW u \in Places, g[u] = null, NEW y \in Object \cup {null}
  PROVE  /\ Add(count, y) \in [Object -> Nat]
         /\ Tallied([g EXCEPT ![u] = y], Add(count, y))
  <1>1. Drop(count, g[u]) = count
    BY DEF Drop
  <1> QED
    BY <1>1, Assigned

(* The same for one that becomes null. *)
LEMMA Cleared ==
  ASSUME NEW g \in [Places -> Object \cup {null}],
         NEW count \in [Object -> Nat], Tallied(g, count),
         NEW u \in Places
  PROVE  /\ Drop(count, g[u]) \in [Object -> Nat]
         /\ Tallied([g EXCEPT ![u] = null], Drop(count, g[u]))
  <1>1. Add(Drop(count, g[u]), null) = Drop(count, g[u])
    BY DEF Add
  <1>2. null \in Object \cup {null}
    OBVIOUS
  <1>3. /\ Add(Drop(count, g[u]), null) \in [Object -> Nat]
        /\ Tallied([g EXCEPT ![u] = null], Add(Drop(count, g[u]), null))
    BY <1>2, Assigned
  <1> QED
    BY <1>1, <1>3

-----------------------------------------------------------------------------
(* The references in a state *)

Now == Shares(table, output, held)
After == Shares(table', output', held')

(* Each of them is null or refers to an object. *)
LEMMA NowTyped ==
  ASSUME TypeOK
  PROVE  Now \in [Places -> Object \cup {null}]
  <1>1. ASSUME NEW p \in Process, NEW w \in Place, w # Output, w # Held
        PROVE  w \in Slot
    BY <1>1 DEF Place, Output, Held
  <1> QED
    BY <1>1 DEF Now, Shares, TypeOK, Places

(* Which Shared<> of a process is where. *)
LEMMA Whose ==
  ASSUME NEW p \in Process
  PROVE  /\ <<p, Output>> \in Places /\ Now[<<p, Output>>] = output[p]
         /\ <<p, Held>> \in Places /\ Now[<<p, Held>>] = held[p]
         /\ \A s \in Slot : <<p, s>> \in Places /\ Now[<<p, s>>] = table[p][s]
  BY SlotPlaces DEF Now, Shares, Places

(* The references that Counted counts are those. *)
LEMMA ReferencesAreUsers ==
  ASSUME NEW o
  PROVE  References(o) = Users(Now, o) /\ References(o)' = Users(After, o)
  <1>1. \A u \in Places : u[1] \in Process /\ u[2] \in Place
    BY DEF Places
  <1> QED
    BY <1>1 DEF References, Users, Now, After, Shares, At, Places, Output, Held

(* The Shared<> after a step are those of g. *)
LEMMA NextIs ==
  ASSUME NEW g, g = [u \in Places |-> g[u]],
         \A p \in Process : /\ g[<<p, Output>>] = output'[p]
                            /\ g[<<p, Held>>] = held'[p]
                            /\ \A s \in Slot : g[<<p, s>>] = table'[p][s]
  PROVE  After = g
  <1>1. ASSUME NEW u \in Places
        PROVE  After[u] = g[u]
    <2>1. PICK p \in Process, w \in Place : u = <<p, w>>
      BY DEF Places
    <2>2. w \in Slot \/ w = Output \/ w = Held
      BY DEF Place, Output, Held
    <2> QED
      BY <2>1, <2>2, SlotPlaces DEF After, Shares
  <1>2. After = [u \in Places |-> After[u]]
    BY DEF After, Shares
  <1> QED
    BY <1>1, <1>2

(* Whatever is referred to is made. *)
LEMMA ReferredIsMade ==
  ASSUME TypeOK, ObjectsCounted, NEW u \in Places, Now[u] # null
  PROVE  Now[u] \in made
  <1>1. Now[u] \in Object /\ u \in References(Now[u])
    BY NowTyped, ReferencesAreUsers DEF Users
  <1>2. IsFiniteSet(References(Now[u]))
    BY ReferencesAreUsers, UsersFinite
  <1>3. Cardinality(References(Now[u])) \in Nat /\ Cardinality(References(Now[u])) # 0
    BY <1>1, <1>2, FS_CardinalityType, FS_EmptySet
  <1> QED
    BY <1>1, <1>3 DEF ObjectsCounted

(* The counts are right before the step. *)
LEMMA CountsTally ==
  ASSUME ObjectsCounted
  PROVE  Tallied(Now, ref_count)
  BY ReferencesAreUsers DEF ObjectsCounted, Tallied

(* A step that leaves the Shared<> of g and the counts that fit them: what *)
(* was made before, and all that is fresh, is made as long as it counts.   *)
LEMMA Recounted ==
  ASSUME TypeOK, ObjectsCounted,
         NEW g \in [Places -> Object \cup {null}], After = g,
         NEW count \in [Object -> Nat], Tallied(g, count),
         NEW fresh \in SUBSET Object, Recount(count, fresh),
         \A u \in Places : g[u] \in made \cup fresh \cup {null},
         \A o \in fresh : \E u \in Places : g[u] = o
  PROVE  /\ ObjectsCounted'
         /\ ref_count' \in [Object -> Nat] /\ made' \subseteq Object
  <1>1. ref_count' = count /\ made' = {o \in made \cup fresh : ~(ref_count[o] > 0 /\ count[o] = 0)}
    BY DEF Recount
  <1>2. made \subseteq Object
    BY DEF TypeOK
  <1>3. ASSUME NEW o \in Object
        PROVE  count[o] > 0 <=> \E u \in Places : g[u] = o
    <2>1. IsFiniteSet(Users(g, o)) /\ count[o] = Cardinality(Users(g, o))
      BY UsersFinite DEF Tallied
    <2>2. count[o] \in Nat /\ (count[o] = 0 <=> Users(g, o) = {})
      BY <2>1, FS_EmptySet
    <2> QED
      BY <2>2 DEF Users
  <1>4. ASSUME NEW o \in Object
        PROVE  ref_count'[o] = Cardinality(References(o)')
    BY <1>1, ReferencesAreUsers DEF Tallied
  <1>5. ASSUME NEW o \in Object
        PROVE  o \in made' <=> ref_count'[o] > 0
    <2>1. count[o] \in Nat /\ ref_count[o] \in Nat /\ (o \in made <=> ref_count[o] > 0)
      BY DEF TypeOK, ObjectsCounted
    <2>2. CASE count[o] > 0
      <3>1. o \in made \cup fresh
        BY <1>3, <2>2, NoObject
      <3> QED
        BY <1>1, <2>1, <2>2, <3>1
    <2>3. CASE count[o] = 0
      <3>1. o \notin fresh
        BY <1>3, <2>3
      <3> QED
        BY <1>1, <2>1, <2>3, <3>1
    <2> QED
      BY <2>1, <2>2, <2>3
  <1> QED
    BY <1>1, <1>2, <1>4, <1>5 DEF ObjectsCounted

(* A step that sets one Shared<> that was null. *)
LEMMA OneSet ==
  ASSUME TypeOK, ObjectsCounted,
         NEW u \in Places, Now[u] = null,
         NEW y \in Object \cup {null}, NEW fresh \in SUBSET {y}, y # null => y \in made \cup fresh,
         fresh \subseteq Object,
         After = [Now EXCEPT ![u] = y], Recount(Add(ref_count, y), fresh)
  PROVE  /\ ObjectsCounted'
         /\ ref_count' \in [Object -> Nat] /\ made' \subseteq Object
  <1> DEFINE g == [Now EXCEPT ![u] = y]
  <1>1. Now \in [Places -> Object \cup {null}] /\ ref_count \in [Object -> Nat]
    BY NowTyped DEF TypeOK
  <1>2. Add(ref_count, y) \in [Object -> Nat] /\ Tallied(g, Add(ref_count, y))
    BY <1>1, CountsTally, Set
  <1>3. g \in [Places -> Object \cup {null}] /\ g[u] = y /\ \A v \in Places : v # u => g[v] = Now[v]
    BY <1>1
  <1>4. \A v \in Places : g[v] \in made \cup fresh \cup {null}
    BY <1>3, ReferredIsMade
  <1> HIDE DEF g
  <1>5. After = g
    BY DEF g
  <1>6. \A o \in fresh : \E v \in Places : g[v] = o
    BY <1>3
  <1> QED
    BY <1>2, <1>3, <1>4, <1>5, <1>6, Recounted

(* A step that clears one. *)
LEMMA OneCleared ==
  ASSUME TypeOK, ObjectsCounted,
         NEW u \in Places,
         After = [Now EXCEPT ![u] = null], Recount(Drop(ref_count, Now[u]), {})
  PROVE  /\ ObjectsCounted'
         /\ ref_count' \in [Object -> Nat] /\ made' \subseteq Object
  <1> DEFINE g == [Now EXCEPT ![u] = null]
             count == Drop(ref_count, Now[u])
  <1>1. Now \in [Places -> Object \cup {null}] /\ ref_count \in [Object -> Nat]
    BY NowTyped DEF TypeOK
  <1>2. count \in [Object -> Nat] /\ Tallied(g, count)
    BY <1>1, CountsTally, Cleared
  <1>3. /\ g \in [Places -> Object \cup {null}] /\ g[u] = null
        /\ \A v \in Places : v # u => g[v] = Now[v]
    BY <1>1
  <1>4. \A v \in Places : g[v] \in made \cup {} \cup {null}
    BY <1>3, ReferredIsMade
  <1>5. After = g /\ Recount(count, {})
    OBVIOUS
  <1> HIDE DEF g, count
  <1>6. {} \in SUBSET Object /\ \A o \in {} : \E v \in Places : g[v] = o
    OBVIOUS
  <1> QED
    BY <1>2, <1>3, <1>4, <1>5, <1>6, Recounted

-----------------------------------------------------------------------------
(* The calls: no step of theirs touches another process *)

(* What the rest of Inv takes from a call of p. *)
LEMMA OthersStay ==
  ASSUME Inv, TypeOK',
         NEW p \in Process, pc[p] \in Running,
         NEW m \in Running, pc' = [pc EXCEPT ![p] = m],
         held'[p] # null => m \in {"file", "down", "wait"},
         \A q \in Process \ {p} : table'[q] = table[q] /\ held'[q] = held[q] /\ todo'[q] = todo[q],
         UNCHANGED <<output, proc_refs, child, initProc>>
  PROVE  Blank' /\ Kin' /\ InitHolds' /\ ProcessesCounted'
  <1>1. ASSUME NEW q \in Process, NEW l \in Label \ Running
        PROVE  pc'[q] = l <=> pc[q] = l
    BY DEF Inv, TypeOK, Running
  <1>2. \A q \in Process : \A l \in {"fork", "forked", "deleting", "none", "destroy", "gone"} :
            pc'[q] = l <=> pc[q] = l
    BY <1>1 DEF Label, Running
  <1>3. child[p] = p /\ \A q \in Process : pc[q] = "fork" => q # p /\ child[q] # p
    BY DEF Inv, Kin, Running
  <1>4. Blank'
    <2>1. ASSUME NEW q \in Process
          PROVE  (held[q] # null => pc[q] \in {"file", "down", "wait"})'
      BY DEF Inv, TypeOK, Blank
    <2>2. ASSUME NEW q \in Process, pc'[q] = "none", ~Copied(q)'
          PROVE  output'[q] = null /\ \A s \in Slot : table'[q][s] = null
      <3>1. ~Copied(q)
        BY <1>2, <2>2 DEF Copied
      <3>2. pc[q] = "none" /\ q # p
        BY <1>2, <2>2 DEF Running
      <3> QED
        BY <3>1, <3>2 DEF Inv, Blank
    <2>3. ASSUME NEW q \in Process, pc'[q] = "fork", NEW s \in todo'[q]
          PROVE  table'[child'[q]][s] = null
      BY <1>2, <1>3, <2>3 DEF Inv, TypeOK, Blank
    <2> QED
      BY <2>1, <2>2, <2>3 DEF Blank
  <1>5. Kin'
    BY <1>2 DEF Inv, TypeOK, Kin
  <1>6. InitHolds'
    BY <1>2, ProcessesAssumption DEF Inv, InitHolds
  <1>7. ASSUME NEW q \in Process
        PROVE  (HasThread(q)' <=> HasThread(q)) /\ Forking(q)' = Forking(q)
    BY <1>2 DEF HasThread, Copied, Forking
  <1>8. ProcessesCounted'
    BY <1>2, <1>7 DEF Inv, ProcessesCounted, Kept
  <1> QED
    BY <1>4, <1>5, <1>6, <1>8

(* The slot that a call finds is null. *)
LEMMA FreeSlot ==
  ASSUME NEW p \in Process, NEW kind, NEW n \in Nat, NEW s \in FirstFree(p, kind, n)
  PROVE  s \in {kind} \X (0 .. n - 1) /\ table[p][s] = null
  <1>1. PICK i \in 0 .. n - 1 : s = <<kind, i>> /\ table[p][<<kind, i>>] = null
    BY ONLY s \in FirstFree(p, kind, n) DEF FirstFree
  <1> QED
    BY <1>1

(* What is chosen is one of those to choose from. *)
LEMMA Chosen ==
  /\ \A S \in SUBSET Object : Choice(S) \subseteq S
  /\ \A S \in SUBSET Process : Choice(S) \subseteq S
  <1>1. ASSUME NEW S \in SUBSET Object
        PROVE  Choice(S) \subseteq S
    <2>1. S \in SUBSET (File \cup SemObject \cup Future)
      BY DEF Object
    <2>2. \A T \in (SUBSET Process) \cup SUBSET (File \cup SemObject \cup Future) :
                Choice(T) \subseteq T
      BY ProcessesAssumption
    <2>3. S \in (SUBSET Process) \cup SUBSET (File \cup SemObject \cup Future)
      BY ONLY <2>1
    <2> QED
      BY ONLY <2>2, <2>3
  <1>2. ASSUME NEW S \in SUBSET Process
        PROVE  Choice(S) \subseteq S
    <2>1. S \in (SUBSET Process) \cup SUBSET (File \cup SemObject \cup Future)
      OBVIOUS
    <2> QED
      BY <2>1, ProcessesAssumption
  <1> QED
    BY <1>1, <1>2

(* One slot of p is set. *)
LEMMA SlotSet ==
  ASSUME TypeOK, NEW p \in Process, NEW s \in Slot, NEW y \in Object \cup {null},
         table' = [table EXCEPT ![p][s] = y], UNCHANGED <<output, held>>
  PROVE  /\ table' \in [Process -> [Slot -> Object \cup {null}]]
         /\ \A q \in Process \ {p} : table'[q] = table[q]
         /\ <<p, s>> \in Places /\ Now[<<p, s>>] = table[p][s]
         /\ After = [Now EXCEPT ![<<p, s>>] = y]
  <1>1. /\ table' \in [Process -> [Slot -> Object \cup {null}]]
        /\ \A q \in Process \ {p} : table'[q] = table[q]
        /\ \A q \in Process, w \in Slot : table'[q][w] = IF q = p /\ w = s THEN y ELSE table[q][w]
    BY DEF TypeOK
  <1>2. <<p, s>> \in Places /\ Now[<<p, s>>] = table[p][s]
    BY Whose
  <1> DEFINE g == [Now EXCEPT ![<<p, s>>] = y]
  <1>3. g = [u \in Places |-> g[u]] /\ \A u \in Places : g[u] = IF u = <<p, s>> THEN y ELSE Now[u]
    BY NowTyped
  <1> HIDE DEF g
  <1>4. ASSUME NEW q \in Process
        PROVE  /\ g[<<q, Output>>] = output'[q]
               /\ g[<<q, Held>>] = held'[q]
               /\ \A w \in Slot : g[<<q, w>>] = table'[q][w]
    BY <1>1, <1>3, Whose, SlotPlaces
  <1>5. After = g
    BY <1>3, <1>4, NextIs
  <1> QED
    BY <1>1, <1>2, <1>5 DEF g

(* The output of p is set. *)
LEMMA OutputSet ==
  ASSUME TypeOK, NEW p \in Process, NEW y \in Object \cup {null},
         output' = [output EXCEPT ![p] = y], UNCHANGED <<table, held>>
  PROVE  /\ output' \in [Process -> Object \cup {null}]
         /\ <<p, Output>> \in Places /\ Now[<<p, Output>>] = output[p]
         /\ After = [Now EXCEPT ![<<p, Output>>] = y]
  <1>1. /\ output' \in [Process -> Object \cup {null}]
        /\ \A q \in Process : output'[q] = IF q = p THEN y ELSE output[q]
    BY DEF TypeOK
  <1> DEFINE g == [Now EXCEPT ![<<p, Output>>] = y]
  <1>2. <<p, Output>> \in Places /\ Now[<<p, Output>>] = output[p]
    BY Whose
  <1>3. /\ g = [u \in Places |-> g[u]]
        /\ \A u \in Places : g[u] = IF u = <<p, Output>> THEN y ELSE Now[u]
    BY NowTyped
  <1> HIDE DEF g
  <1>4. ASSUME NEW q \in Process
        PROVE  /\ g[<<q, Output>>] = output'[q]
               /\ g[<<q, Held>>] = held'[q]
               /\ \A w \in Slot : g[<<q, w>>] = table'[q][w]
    BY <1>1, <1>3, Whose, SlotPlaces
  <1>5. After = g
    BY <1>3, <1>4, NextIs
  <1> QED
    BY <1>1, <1>2, <1>5 DEF g

(* What a call of p holds is set. *)
LEMMA HeldSet ==
  ASSUME TypeOK, NEW p \in Process, NEW y \in Object \cup {null},
         held' = [held EXCEPT ![p] = y], UNCHANGED <<table, output>>
  PROVE  /\ held' \in [Process -> Object \cup {null}] /\ held'[p] = y
         /\ \A q \in Process \ {p} : held'[q] = held[q]
         /\ <<p, Held>> \in Places /\ Now[<<p, Held>>] = held[p]
         /\ After = [Now EXCEPT ![<<p, Held>>] = y]
  <1>1. /\ held' \in [Process -> Object \cup {null}]
        /\ \A q \in Process : held'[q] = IF q = p THEN y ELSE held[q]
    BY DEF TypeOK
  <1> DEFINE g == [Now EXCEPT ![<<p, Held>>] = y]
  <1>2. <<p, Held>> \in Places /\ Now[<<p, Held>>] = held[p]
    BY Whose
  <1>3. /\ g = [u \in Places |-> g[u]]
        /\ \A u \in Places : g[u] = IF u = <<p, Held>> THEN y ELSE Now[u]
    BY NowTyped
  <1> HIDE DEF g
  <1>4. ASSUME NEW q \in Process
        PROVE  /\ g[<<q, Output>>] = output'[q]
               /\ g[<<q, Held>>] = held'[q]
               /\ \A w \in Slot : g[<<q, w>>] = table'[q][w]
    BY <1>1, <1>3, Whose, SlotPlaces
  <1>5. After = g
    BY <1>3, <1>4, NextIs
  <1> QED
    BY <1>1, <1>2, <1>5 DEF g

(* A call of p that leaves the objects counted. *)
LEMMA CallInv ==
  ASSUME Inv,
         NEW p \in Process, pc[p] \in Running,
         NEW m \in Running, pc' = [pc EXCEPT ![p] = m],
         table' \in [Process -> [Slot -> Object \cup {null}]],
         held' \in [Process -> Object \cup {null}],
         todo' \in [Process -> SUBSET Slot],
         held'[p] # null => m \in {"file", "down", "wait"},
         \A q \in Process \ {p} : table'[q] = table[q] /\ held'[q] = held[q] /\ todo'[q] = todo[q],
         UNCHANGED <<output, proc_refs, child, initProc>>,
         ObjectsCounted', ref_count' \in [Object -> Nat], made' \subseteq Object
  PROVE  Inv'
  <1>1. pc' \in [Process -> Label]
    BY DEF Inv, TypeOK, Label
  <1>2. TypeOK'
    BY <1>1 DEF Inv, TypeOK
  <1>3. Blank' /\ Kin' /\ InitHolds' /\ ProcessesCounted'
    BY <1>2, OthersStay
  <1> QED
    BY <1>2, <1>3 DEF Inv

(* A call of p at once that sets a slot that was null. *)
LEMMA SetsSlot ==
  ASSUME Inv, NEW p \in Process, Step(p, "user", "user"),
         NEW s \in Slot, table[p][s] = null, NEW y \in Object,
         table' = [table EXCEPT ![p][s] = y], Recount(Add(ref_count, y), {y}),
         UNCHANGED <<output, proc_refs, held, todo, child, initProc>>
  PROVE  Inv'
  <1>1. TypeOK /\ ObjectsCounted
    BY DEF Inv
  <1>2. y \in Object \cup {null} /\ UNCHANGED <<output, held>>
    OBVIOUS
  <1>3. /\ table' \in [Process -> [Slot -> Object \cup {null}]]
        /\ \A q \in Process \ {p} : table'[q] = table[q]
        /\ <<p, s>> \in Places /\ Now[<<p, s>>] = null
        /\ After = [Now EXCEPT ![<<p, s>>] = y]
    BY <1>1, <1>2, SlotSet
  <1>4. ObjectsCounted' /\ ref_count' \in [Object -> Nat] /\ made' \subseteq Object
    <2>1. {y} \in SUBSET {y} /\ y \in made \cup {y} /\ {y} \subseteq Object
      OBVIOUS
    <2> QED
      BY <1>1, <1>2, <1>3, <2>1, OneSet
  <1>5. held'[p] = null
    BY DEF Inv, Blank, Step
  <1>6. held' \in [Process -> Object \cup {null}] /\ todo' \in [Process -> SUBSET Slot]
    BY DEF Inv, TypeOK
  <1> QED
    BY <1>3, <1>4, <1>5, <1>6, CallInv DEF Step, Running

(* newSemaphore() makes a semaphore in a free slot. *)
LEMMA NewSemaphoreInv ==
  ASSUME Inv, NEW p \in Process, NewSemaphore(p)
  PROVE  Inv'
  <1>1. PICK s \in FirstFree(p, "sem", NSEM), o \in Choice(SemObject \ made) :
            /\ table' = [table EXCEPT ![p][s] = o]
            /\ Recount(Add(ref_count, o), {o})
    BY DEF NewSemaphore
  <1>2. s \in Slot /\ table[p][s] = null
    BY FreeSlot, ProcessesAssumption DEF Slot, SemSlot
  <1>3. o \in Object
    BY Chosen DEF Object
  <1> QED
    BY <1>1, <1>2, <1>3, SetsSlot DEF NewSemaphore

(* open() makes a file in a free slot. *)
LEMMA OpenInv ==
  ASSUME Inv, NEW p \in Process, Open(p)
  PROVE  Inv'
  <1>1. PICK s \in FirstFree(p, "file", NFILE), o \in Choice(File \ made) :
            /\ table' = [table EXCEPT ![p][s] = o]
            /\ Recount(Add(ref_count, o), {o})
    BY DEF Open
  <1>2. s \in Slot /\ table[p][s] = null
    BY FreeSlot, ProcessesAssumption DEF Slot, FileSlot
  <1>3. o \in Object
    BY Chosen DEF Object
  <1> QED
    BY <1>1, <1>2, <1>3, SetsSlot DEF Open

(* up() changes no reference. *)
LEMMA UpInv ==
  ASSUME Inv, NEW p \in Process, NEW id \in Id, Up(p, id)
  PROVE  Inv'
  <1>1. /\ UNCHANGED <<table, output, objects, proc_refs, held, todo, child, initProc>>
        /\ Step(p, "user", "user")
    BY DEF Up
  <1>2. pc' = pc
    BY <1>1 DEF Step, Inv, TypeOK
  <1>3. UNCHANGED <<table, output, ref_count, made, proc_refs, pc, held, todo, child, initProc>>
    BY <1>1, <1>2 DEF objects
  <1>4. TypeOK'
    BY <1>3 DEF Inv, TypeOK
  <1>5. \A o : References(o)' = References(o)
    BY <1>3 DEF References, At
  <1>6. ObjectsCounted'
    BY <1>3, <1>5 DEF Inv, ObjectsCounted
  <1>7. \A q :
              /\ (Copied(q)' <=> Copied(q)) /\ (HasThread(q)' <=> HasThread(q))
              /\ Forking(q)' = Forking(q)
    BY <1>3 DEF Copied, HasThread, Forking
  <1>8. Blank' /\ Kin'
    BY <1>3, <1>7 DEF Inv, Blank, Kin
  <1>9. InitHolds' /\ ProcessesCounted'
    BY <1>3, <1>7 DEF Inv, InitHolds, ProcessesCounted, Kept
  <1> QED
    BY <1>4, <1>6, <1>8, <1>9 DEF Inv

(* close() clears a slot. *)
LEMMA CloseInv ==
  ASSUME Inv, NEW p \in Process, NEW id \in Id, Close(p, id)
  PROVE  Inv'
  <1>1. TypeOK /\ ObjectsCounted
    BY DEF Inv
  <1>2. /\ Step(p, "user", "user") /\ id \in Slot
        /\ table' = [table EXCEPT ![p][id] = null]
        /\ Recount(Drop(ref_count, table[p][id]), {})
        /\ UNCHANGED <<output, proc_refs, held, todo, child, initProc>>
    BY DEF Close
  <1>3. null \in Object \cup {null} /\ UNCHANGED <<output, held>>
    BY <1>2
  <1>4. /\ table' \in [Process -> [Slot -> Object \cup {null}]]
        /\ \A q \in Process \ {p} : table'[q] = table[q]
        /\ <<p, id>> \in Places /\ Now[<<p, id>>] = table[p][id]
        /\ After = [Now EXCEPT ![<<p, id>>] = null]
    BY <1>1, <1>2, <1>3, SlotSet
  <1>5. ObjectsCounted' /\ ref_count' \in [Object -> Nat] /\ made' \subseteq Object
    BY <1>1, <1>2, <1>4, OneCleared
  <1>6. held'[p] = null
    BY <1>2 DEF Inv, Blank, Step
  <1>7. held' \in [Process -> Object \cup {null}] /\ todo' \in [Process -> SUBSET Slot]
    BY <1>2 DEF Inv, TypeOK
  <1> QED
    BY <1>2, <1>4, <1>5, <1>6, <1>7, CallInv DEF Step, Running

(* dup2() clears one slot and sets it to what another refers to. *)
LEMMA Dup2Inv ==
  ASSUME Inv, NEW p \in Process, NEW old \in Id, NEW new \in Id, Dup2(p, old, new)
  PROVE  Inv'
  <1>1. TypeOK /\ ObjectsCounted
    BY DEF Inv
  <1>2. /\ Step(p, "user", "user") /\ old \in Slot /\ new \in Slot
        /\ table' = [table EXCEPT ![p][new] = table[p][old]]
        /\ Recount(Add(Drop(ref_count, table[p][new]), table[p][old]), {})
        /\ UNCHANGED <<output, proc_refs, held, todo, child, initProc>>
    BY DEF Dup2, Slot
  <1>3. PICK y \in Object \cup {null} : y = table[p][old]
    BY <1>1, <1>2 DEF TypeOK
  <1> DEFINE g == [Now EXCEPT ![<<p, new>>] = y]
             count == Add(Drop(ref_count, table[p][new]), y)
  <1>4. /\ y \in Object \cup {null} /\ UNCHANGED <<output, held>>
        /\ Now \in [Places -> Object \cup {null}] /\ ref_count \in [Object -> Nat]
        /\ table' = [table EXCEPT ![p][new] = y]
        /\ Recount(count, {})
        /\ <<p, old>> \in Places /\ Now[<<p, old>>] = y
    BY <1>1, <1>2, <1>3, NowTyped, Whose DEF TypeOK
  <1>5. /\ table' \in [Process -> [Slot -> Object \cup {null}]]
        /\ \A q \in Process \ {p} : table'[q] = table[q]
        /\ <<p, new>> \in Places /\ Now[<<p, new>>] = table[p][new]
        /\ After = g
    <2>1. new \in Slot
      BY <1>2
    <2>2. table' = [table EXCEPT ![p][new] = y] /\ UNCHANGED <<output, held>>
      BY <1>4
    <2> HIDE DEF g
    <2>3. /\ table' \in [Process -> [Slot -> Object \cup {null}]]
          /\ \A q \in Process \ {p} : table'[q] = table[q]
          /\ <<p, new>> \in Places /\ Now[<<p, new>>] = table[p][new]
          /\ After = [Now EXCEPT ![<<p, new>>] = y]
      BY <1>1, <2>1, <2>2, SlotSet
    <2> QED
      BY <2>3 DEF g
  <1>6. count \in [Object -> Nat] /\ Tallied(g, count)
    <2>1. Tallied(Now, ref_count)
      BY <1>1, CountsTally
    <2>2. count = Add(Drop(ref_count, Now[<<p, new>>]), y)
      BY <1>5
    <2> HIDE DEF count
    <2> QED
      BY <1>4, <1>5, <2>1, <2>2, Assigned
  <1>7. g \in [Places -> Object \cup {null}] /\ \A v \in Places : g[v] = Now[v] \/ g[v] = y
    BY <1>4, <1>5
  <1>8. \A v \in Places : g[v] \in made \cup {} \cup {null}
    <2> HIDE DEF g
    <2> QED
      BY <1>1, <1>4, <1>7, ReferredIsMade
  <1>9. ObjectsCounted' /\ ref_count' \in [Object -> Nat] /\ made' \subseteq Object
    <2> HIDE DEF g, count
    <2>1. {} \in SUBSET Object /\ \A o \in {} : \E v \in Places : g[v] = o
      OBVIOUS
    <2> QED
      BY <1>1, <1>4, <1>5, <1>6, <1>7, <1>8, <2>1, Recounted
  <1>10. held'[p] = null
    BY <1>2 DEF Inv, Blank, Step
  <1>11. held' \in [Process -> Object \cup {null}] /\ todo' \in [Process -> SUBSET Slot]
    BY <1>2 DEF Inv, TypeOK
  <1> QED
    BY <1>2, <1>5, <1>9, <1>10, <1>11, CallInv DEF Step, Running

(* pipe(): the two ends are different slots, both null before.             *)
LEMMA PipeInv ==
  ASSUME Inv, NEW p \in Process, Pipe(p)
  PROVE  Inv'
  <1>1. TypeOK /\ ObjectsCounted /\ Step(p, "user", "user")
    BY DEF Inv, Pipe
  <1>2. PICK r \in Choice(File \ made), s \in FirstFree(p, "file", NFILE) :
          \E w \in Choice(File \ (made \cup {r})) :
            LET ends == {i \in 0 .. NFILE - 1 : i > s[2] /\ table[p][<<"file", i>>] = null}
            IN  IF ends = {}
                THEN /\ table' = [table EXCEPT ![p][s] = r]
                     /\ Recount(Add(ref_count, r), {r})
                ELSE \E i \in ends :
                        /\ \A j \in ends : i <= j
                        /\ table' = [table EXCEPT ![p][s] = r, ![p][<<"file", i>>] = w]
                        /\ Recount(Add(Add(ref_count, r), w), {r, w})
    BY DEF Pipe
  <1>3. s \in FileSlot /\ s \in Slot /\ table[p][s] = null /\ s[2] \in Nat
    BY FreeSlot, ProcessesAssumption DEF Slot, FileSlot
  <1>4. r \in Object
    BY Chosen DEF Object
  <1>5. UNCHANGED <<output, proc_refs, held, todo, child, initProc>>
    BY DEF Pipe
  <1>6. CASE table' = [table EXCEPT ![p][s] = r] /\ Recount(Add(ref_count, r), {r})
    BY <1>1, <1>3, <1>4, <1>5, <1>6, SetsSlot
  <1>7. ASSUME NEW w \in Choice(File \ (made \cup {r})), NEW i \in 0 .. NFILE - 1,
               i > s[2], table[p][<<"file", i>>] = null,
               table' = [table EXCEPT ![p][s] = r, ![p][<<"file", i>>] = w],
               Recount(Add(Add(ref_count, r), w), {r, w})
        PROVE  Inv'
    <2> DEFINE t == <<"file", i>>
               g == [Now EXCEPT ![<<p, s>>] = r]
               h == [g EXCEPT ![<<p, t>>] = w]
    <2>1. w \in Object
      BY Chosen DEF Object
    <2>2. t \in Slot /\ t # s /\ table[p][t] = null
      BY <1>3, <1>7 DEF Slot, FileSlot
    <2> HIDE DEF t
    <2>3. /\ table' = [table EXCEPT ![p][s] = r, ![p][t] = w]
          /\ Now \in [Places -> Object \cup {null}] /\ ref_count \in [Object -> Nat]
          /\ <<p, s>> \in Places /\ Now[<<p, s>>] = null
          /\ <<p, t>> \in Places /\ Now[<<p, t>>] = null /\ <<p, t>> # <<p, s>>
      BY <1>1, <1>3, <1>7, <2>2, NowTyped, Whose DEF TypeOK, t
    <2>4. /\ table' \in [Process -> [Slot -> Object \cup {null}]]
          /\ \A q \in Process \ {p} : table'[q] = table[q]
          /\ \A q \in Process, v \in Slot :
                table'[q][v] =
                      IF q = p /\ v = t THEN w ELSE IF q = p /\ v = s THEN r ELSE table[q][v]
      BY <1>1, <1>3, <1>4, <2>1, <2>2, <2>3 DEF TypeOK
    <2>5. /\ g \in [Places -> Object \cup {null}] /\ g[<<p, t>>] = null
          /\ \A u \in Places : g[u] = IF u = <<p, s>> THEN r ELSE Now[u]
      BY <1>4, <2>3
    <2>6. Add(ref_count, r) \in [Object -> Nat] /\ Tallied(g, Add(ref_count, r))
      BY <1>1, <1>4, <2>3, CountsTally, Set
    <2> HIDE DEF g
    <2>7. /\ h \in [Places -> Object \cup {null}]
          /\ \A u \in Places : h[u] = IF u = <<p, t>> THEN w ELSE g[u]
      BY <2>1, <2>3, <2>5
    <2>8. Add(Add(ref_count, r), w) \in [Object -> Nat] /\ Tallied(h, Add(Add(ref_count, r), w))
      BY <2>1, <2>3, <2>5, <2>6, Set
    <2> HIDE DEF h
    <2>9. After = h
      <3>1. ASSUME NEW q \in Process
            PROVE  /\ h[<<q, Output>>] = output'[q]
                   /\ h[<<q, Held>>] = held'[q]
                   /\ \A v \in Slot : h[<<q, v>>] = table'[q][v]
        BY <1>3, <1>5, <2>2, <2>4, <2>5, <2>7, Whose, SlotPlaces
      <3> QED
        BY <2>7, <3>1, NextIs
    <2>10. /\ \A u \in Places : h[u] \in made \cup {r, w} \cup {null}
           /\ \A o \in {r, w} : \E u \in Places : h[u] = o
      BY <1>1, <2>3, <2>5, <2>7, ReferredIsMade
    <2>11. ObjectsCounted' /\ ref_count' \in [Object -> Nat] /\ made' \subseteq Object
      <3>1. {r, w} \in SUBSET Object
        BY <1>4, <2>1
      <3> QED
        BY <1>1, <1>7, <2>7, <2>8, <2>9, <2>10, <3>1, Recounted
    <2>12. held'[p] = null
      BY <1>1, <1>5 DEF Inv, Blank, Step
    <2>13. held' \in [Process -> Object \cup {null}] /\ todo' \in [Process -> SUBSET Slot]
      BY <1>1, <1>5 DEF TypeOK
    <2> QED
      BY <1>1, <1>5, <2>4, <2>11, <2>12, <2>13, CallInv DEF Step, Running
  <1> QED
    BY <1>2, <1>6, <1>7

(* A call of p that begins to wait holds what a slot of p refers to.       *)
LEMMA HoldInv ==
  ASSUME Inv, NEW p \in Process, NEW m \in {"file", "down", "wait"}, Step(p, "user", m),
         NEW id \in Slot, Hold(p, table[p][id]),
         todo' \in [Process -> SUBSET Slot], \A q \in Process \ {p} : todo'[q] = todo[q],
         UNCHANGED <<table, output, proc_refs, child, initProc>>
  PROVE  Inv'
  <1>1. TypeOK /\ ObjectsCounted
    BY DEF Inv
  <1>2. PICK y \in Object \cup {null} : y = table[p][id]
    BY <1>1 DEF TypeOK
  <1>3. /\ held' = [held EXCEPT ![p] = y] /\ Recount(Add(ref_count, y), {})
        /\ UNCHANGED <<table, output>>
    BY <1>2 DEF Hold
  <1>4. held[p] = null
    BY DEF Inv, Blank, Step
  <1>5. /\ held' \in [Process -> Object \cup {null}] /\ held'[p] = y
        /\ \A q \in Process \ {p} : held'[q] = held[q]
        /\ <<p, Held>> \in Places /\ Now[<<p, Held>>] = null
        /\ After = [Now EXCEPT ![<<p, Held>>] = y]
    BY <1>1, <1>3, <1>4, HeldSet
  <1>6. y # null => y \in made \cup {}
    BY <1>1, <1>2, Whose, ReferredIsMade, ZenonT(60)
  <1>7. ObjectsCounted' /\ ref_count' \in [Object -> Nat] /\ made' \subseteq Object
    <2>1. {} \in SUBSET {y} /\ {} \subseteq Object
      OBVIOUS
    <2> QED
      BY <1>1, <1>3, <1>5, <1>6, <2>1, OneSet
  <1>8. /\ table' \in [Process -> [Slot -> Object \cup {null}]]
        /\ \A q \in Process \ {p} : table'[q] = table[q]
    BY <1>1 DEF TypeOK
  <1> QED
    BY <1>5, <1>7, <1>8, CallInv DEF Step, Running

(* The call is over, and lets go of what it held. *)
LEMMA ReleaseInv ==
  ASSUME Inv, NEW p \in Process, NEW l \in {"file", "down"}, Step(p, l, "user"), Release(p),
         UNCHANGED <<table, output, proc_refs, todo, child, initProc>>
  PROVE  Inv'
  <1>1. TypeOK /\ ObjectsCounted
    BY DEF Inv
  <1>2. /\ held' = [held EXCEPT ![p] = null] /\ Recount(Drop(ref_count, held[p]), {})
        /\ UNCHANGED <<table, output>>
    BY DEF Release
  <1>3. null \in Object \cup {null}
    OBVIOUS
  <1>4. /\ held' \in [Process -> Object \cup {null}] /\ held'[p] = null
        /\ \A q \in Process \ {p} : held'[q] = held[q]
        /\ <<p, Held>> \in Places /\ Now[<<p, Held>>] = held[p]
        /\ After = [Now EXCEPT ![<<p, Held>>] = null]
    BY <1>1, <1>2, <1>3, HeldSet
  <1>5. ObjectsCounted' /\ ref_count' \in [Object -> Nat] /\ made' \subseteq Object
    BY <1>1, <1>2, <1>4, OneCleared
  <1>6. /\ table' \in [Process -> [Slot -> Object \cup {null}]]
        /\ \A q \in Process \ {p} : table'[q] = table[q]
        /\ todo' \in [Process -> SUBSET Slot] /\ \A q \in Process \ {p} : todo'[q] = todo[q]
    BY <1>1 DEF TypeOK
  <1> QED
    BY <1>4, <1>5, <1>6, CallInv DEF Step, Running

(* wait(): the child's slot and the local let go of the Future, which need *)
(* not be the same.                                                        *)
LEMMA WaitReturnInv ==
  ASSUME Inv, NEW p \in Process, WaitReturn(p)
  PROVE  Inv'
  <1>1. TypeOK /\ ObjectsCounted
    BY DEF Inv
  <1>2. PICK id \in todo[p] :
          /\ table' = [table EXCEPT ![p][id] = null]
          /\ Recount(Drop(Drop(ref_count, table[p][id]), held[p]), {})
    BY DEF WaitReturn
  <1>3. /\ Step(p, "wait", "user")
        /\ held' = [held EXCEPT ![p] = null] /\ todo' = [todo EXCEPT ![p] = {}]
        /\ UNCHANGED <<output, proc_refs, child, initProc>>
    BY DEF WaitReturn
  <1>4. id \in Slot
    BY <1>1 DEF TypeOK
  <1> DEFINE g == [Now EXCEPT ![<<p, id>>] = null]
             h == [g EXCEPT ![<<p, Held>>] = null]
  <1>5. /\ Now \in [Places -> Object \cup {null}] /\ ref_count \in [Object -> Nat]
        /\ <<p, id>> \in Places /\ Now[<<p, id>>] = table[p][id]
        /\ <<p, Held>> \in Places /\ Now[<<p, Held>>] = held[p] /\ <<p, Held>> # <<p, id>>
    BY <1>1, <1>4, NowTyped, Whose, SlotPlaces DEF TypeOK
  <1>6. /\ table' \in [Process -> [Slot -> Object \cup {null}]]
        /\ \A q \in Process, v \in Slot : table'[q][v] =
              IF q = p /\ v = id THEN null ELSE table[q][v]
        /\ \A q \in Process \ {p} : table'[q] = table[q]
        /\ held' \in [Process -> Object \cup {null}]
        /\ \A q \in Process : held'[q] = IF q = p THEN null ELSE held[q]
        /\ todo' \in [Process -> SUBSET Slot] /\ \A q \in Process \ {p} : todo'[q] = todo[q]
    BY <1>1, <1>2, <1>3, <1>4 DEF TypeOK
  <1>7. /\ g \in [Places -> Object \cup {null}] /\ g[<<p, Held>>] = held[p]
        /\ \A u \in Places : g[u] = IF u = <<p, id>> THEN null ELSE Now[u]
    BY <1>5
  <1>8. /\ Drop(ref_count, table[p][id]) \in [Object -> Nat]
        /\ Tallied(g, Drop(ref_count, table[p][id]))
    <2>1. Tallied(Now, ref_count)
      BY <1>1, CountsTally
    <2> QED
      BY <1>5, <2>1, Cleared
  <1> HIDE DEF g
  <1>9. /\ h \in [Places -> Object \cup {null}]
        /\ \A u \in Places : h[u] = IF u = <<p, Held>> THEN null ELSE g[u]
    BY <1>5, <1>7
  <1> DEFINE count == Drop(Drop(ref_count, table[p][id]), held[p])
  <1>10. count \in [Object -> Nat] /\ Tallied(h, count)
    BY <1>5, <1>7, <1>8, Cleared
  <1>11. Recount(count, {})
    BY <1>2
  <1> HIDE DEF h, count
  <1>12. After = h
    <2>1. ASSUME NEW q \in Process
          PROVE  /\ h[<<q, Output>>] = output'[q]
                 /\ h[<<q, Held>>] = held'[q]
                 /\ \A v \in Slot : h[<<q, v>>] = table'[q][v]
      BY <1>3, <1>4, <1>6, <1>7, <1>9, Whose, SlotPlaces, SMTT(40)
    <2> QED
      BY <1>9, <2>1, NextIs
  <1>13. /\ \A u \in Places : h[u] \in made \cup {} \cup {null}
         /\ {} \in SUBSET Object /\ \A o \in {} : \E u \in Places : h[u] = o
    BY <1>1, <1>7, <1>9, ReferredIsMade
  <1>14. ObjectsCounted' /\ ref_count' \in [Object -> Nat] /\ made' \subseteq Object
    BY <1>1, <1>9, <1>10, <1>11, <1>12, <1>13, Recounted
  <1> QED
    BY <1>3, <1>6, <1>14, CallInv DEF Step, Running

-----------------------------------------------------------------------------
(* fork() *)

(* The child is a process that nobody else knows. *)
LEMMA ForkInv ==
  ASSUME Inv, NEW p \in Process, NEW q \in Process, Fork(p, q)
  PROVE  Inv'
  <1>1. TypeOK /\ ObjectsCounted /\ Blank /\ Kin /\ InitHolds /\ ProcessesCounted
    BY DEF Inv
  <1>2. /\ pc[p] = "user" /\ pc' = [pc EXCEPT ![p] = "fork"]
        /\ q \in Unused
        /\ proc_refs' = [proc_refs EXCEPT ![q] = 1]
        /\ child' = [child EXCEPT ![p] = q]
        /\ todo' = [todo EXCEPT ![p] = SemSlot \cup FileSlot]
        /\ UNCHANGED <<table, held, initProc>>
    BY DEF Fork, Step
  <1>3. PICK f \in Choice(Future \ made) :
          /\ output' = [output EXCEPT ![q] = f]
          /\ Recount(Add(ref_count, f), {f})
    BY DEF Fork
  <1>4. f \in Object
    BY Chosen DEF Object
  <1>5. pc[q] = "none" /\ (\A r \in Process : child[r] = q => r = q) /\ q # p /\ q \notin initProc
    BY <1>1, <1>2 DEF Unused, InitHolds
  <1>6. child[p] = p /\ child[q] = q
    BY <1>1, <1>2, <1>5 DEF Kin
  <1>7. ~Copied(q)
    BY <1>2, <1>5 DEF Copied
  <1>8. output[q] = null /\ \A s \in Slot : table[q][s] = null
    BY <1>1, <1>5, <1>7 DEF Blank
  <1>9. /\ \A r \in Process : pc'[r] = IF r = p THEN "fork" ELSE pc[r]
        /\ \A r \in Process : child'[r] = IF r = p THEN q ELSE child[r]
        /\ \A r \in Process : proc_refs'[r] = IF r = q THEN 1 ELSE proc_refs[r]
        /\ \A r \in Process : todo'[r] = IF r = p THEN SemSlot \cup FileSlot ELSE todo[r]
        /\ \A r \in Process : r # q => output'[r] = output[r]
    BY <1>1, <1>2, <1>3 DEF TypeOK
  <1>10. /\ ObjectsCounted' /\ ref_count' \in [Object -> Nat] /\ made' \subseteq Object
         /\ output' \in [Process -> Object \cup {null}]
    <2>1. /\ output' \in [Process -> Object \cup {null}]
          /\ <<q, Output>> \in Places /\ Now[<<q, Output>>] = null
          /\ After = [Now EXCEPT ![<<q, Output>>] = f]
      BY <1>1, <1>2, <1>3, <1>4, <1>8, OutputSet
    <2>2. /\ f \in Object \cup {null} /\ {f} \in SUBSET {f} /\ f \in made \cup {f}
          /\ {f} \subseteq Object
      BY <1>4
    <2> QED
      BY <1>1, <1>3, <2>1, <2>2, OneSet
  <1>11. TypeOK'
    <2>1. /\ pc' \in [Process -> Label] /\ proc_refs' \in [Process -> Nat]
          /\ child' \in [Process -> Process]
      BY <1>1, <1>2 DEF TypeOK, Label
    <2>2. todo' \in [Process -> SUBSET Slot]
      BY <1>1, <1>2 DEF TypeOK, Slot
    <2> QED
      BY <1>1, <1>2, <1>10, <2>1, <2>2 DEF TypeOK
  <1>12. \A r \in Process \ {q} : Copied(r)' <=> Copied(r)
    BY <1>2, <1>6, <1>9 DEF Copied
  <1>13. Copied(q)'
    BY <1>9 DEF Copied
  <1>14. Blank'
    <2>1. ASSUME NEW r \in Process
          PROVE  (held[r] # null => pc[r] \in {"file", "down", "wait"})'
      BY <1>1, <1>2, <1>9 DEF Blank
    <2>2. ASSUME NEW r \in Process, pc'[r] = "none", ~Copied(r)'
          PROVE  output'[r] = null /\ \A s \in Slot : table'[r][s] = null
      BY <1>1, <1>2, <1>9, <1>12, <1>13, <2>2 DEF Blank
    <2>3. ASSUME NEW r \in Process, pc'[r] = "fork", NEW s \in todo'[r]
          PROVE  table'[child'[r]][s] = null
      <3>1. s \in Slot
        BY <1>11, <2>3 DEF TypeOK
      <3> QED
        BY <1>1, <1>2, <1>8, <1>9, <2>3, <3>1 DEF Blank
    <2> QED
      BY <2>1, <2>2, <2>3 DEF Blank
  <1>15. Kin'
    BY <1>1, <1>2, <1>5, <1>6, <1>9 DEF Kin, TypeOK
  <1>16. InitHolds'
    BY <1>1, <1>2, <1>5, <1>9, ProcessesAssumption DEF InitHolds
  <1>17. ProcessesCounted'
    <2>1. ~HasThread(q)' /\ Forking(q)' # {}
      BY <1>5, <1>9, <1>13 DEF HasThread, Forking
    <2>2. ASSUME NEW r \in Process \ {q}
          PROVE  (HasThread(r)' <=> HasThread(r)) /\ Forking(r)' = Forking(r)
      BY <1>2, <1>6, <1>9, <1>12 DEF HasThread, Forking
    <2> QED
      BY <1>1, <1>2, <1>5, <1>9, <2>1, <2>2 DEF ProcessesCounted, Kept
  <1> QED
    BY <1>10, <1>11, <1>14, <1>15, <1>16, <1>17 DEF Inv

(* fork() copies a slot, null before in the child. *)
LEMMA ForkCopyInv ==
  ASSUME Inv, NEW p \in Process, ForkCopy(p)
  PROVE  Inv'
  <1>1. TypeOK /\ ObjectsCounted /\ Blank /\ Kin /\ InitHolds /\ ProcessesCounted
    BY DEF Inv
  <1>2. PICK s \in todo[p] :
          /\ table' = [table EXCEPT ![child[p]][s] = table[p][s]]
          /\ Recount(Add(ref_count, table[p][s]), {})
          /\ todo' = [todo EXCEPT ![p] = @ \ {s}]
    <2>1. (CHOOSE s \in todo[p] : TRUE) \in todo[p]
      BY DEF ForkCopy
    <2> QED
      BY <2>1 DEF ForkCopy
  <1>3. pc[p] = "fork" /\ UNCHANGED <<output, proc_refs, pc, held, child, initProc>>
    BY DEF ForkCopy
  <1>4. s \in Slot
    BY <1>1 DEF TypeOK
  <1>5. PICK q \in Process : q = child[p]
    BY <1>1 DEF TypeOK
  <1>6. /\ pc[q] = "none" /\ q # p /\ table[q][s] = null
        /\ \A r \in Process \ {p} : pc[r] = "fork" => child[r] # q
    BY <1>1, <1>3, <1>5 DEF Kin, Blank
  <1>7. PICK y \in Object \cup {null} : y = table[p][s]
    BY <1>1, <1>4 DEF TypeOK
  <1>8. /\ table' \in [Process -> [Slot -> Object \cup {null}]]
        /\ \A r \in Process \ {q} : table'[r] = table[r]
        /\ <<q, s>> \in Places /\ Now[<<q, s>>] = null
        /\ After = [Now EXCEPT ![<<q, s>>] = y]
    <2>1. table' = [table EXCEPT ![q][s] = y] /\ UNCHANGED <<output, held>>
      BY <1>2, <1>3, <1>5, <1>7
    <2>2. /\ table' \in [Process -> [Slot -> Object \cup {null}]]
          /\ \A r \in Process \ {q} : table'[r] = table[r]
          /\ <<q, s>> \in Places /\ Now[<<q, s>>] = table[q][s]
          /\ After = [Now EXCEPT ![<<q, s>>] = y]
      BY <1>1, <1>4, <2>1, SlotSet
    <2> QED
      BY <1>6, <2>2
  <1>9. ObjectsCounted' /\ ref_count' \in [Object -> Nat] /\ made' \subseteq Object
    <2>1. y # null => y \in made \cup {}
      BY <1>1, <1>4, <1>7, Whose, ReferredIsMade, ZenonT(60)
    <2>2. {} \in SUBSET {y} /\ {} \subseteq Object /\ Recount(Add(ref_count, y), {})
      BY <1>2, <1>7
    <2> QED
      BY <1>1, <1>8, <2>1, <2>2, OneSet
  <1>10. \A r \in Process : todo'[r] = IF r = p THEN todo[p] \ {s} ELSE todo[r]
    BY <1>1, <1>2 DEF TypeOK
  <1>11. TypeOK'
    <2>1. todo' \in [Process -> SUBSET Slot]
      BY <1>1, <1>2 DEF TypeOK
    <2> QED
      BY <1>1, <1>3, <1>8, <1>9, <2>1 DEF TypeOK
  <1>12. \A r \in Process : table'[q][s] = y /\ \A v \in Slot \ {s} : table'[q][v] = table[q][v]
    BY <1>1, <1>2, <1>4, <1>5, <1>7 DEF TypeOK
  <1>13. \A r \in Process :
               /\ (Copied(r)' <=> Copied(r)) /\ (HasThread(r)' <=> HasThread(r))
               /\ Forking(r)' = Forking(r)
    BY <1>3 DEF Copied, HasThread, Forking
  <1>14. Copied(q)
    BY <1>3, <1>5 DEF Copied
  <1>15. Blank'
    <2>1. ASSUME NEW r \in Process
          PROVE  (held[r] # null => pc[r] \in {"file", "down", "wait"})'
      BY <1>1, <1>3 DEF Blank
    <2>2. ASSUME NEW r \in Process, pc'[r] = "none", ~Copied(r)'
          PROVE  output'[r] = null /\ \A v \in Slot : table'[r][v] = null
      BY <1>1, <1>3, <1>8, <1>13, <1>14, <2>2 DEF Blank
    <2>3. ASSUME NEW r \in Process, pc'[r] = "fork", NEW v \in todo'[r]
          PROVE  table'[child'[r]][v] = null
      <3>1. v \in Slot
        BY <1>11, <2>3 DEF TypeOK
      <3>2. CASE r = p
        BY <1>1, <1>3, <1>5, <1>10, <1>12, <2>3, <3>1, <3>2 DEF Blank
      <3>3. CASE r # p
        <4>1. child[r] \in Process \ {q} /\ v \in todo[r] /\ pc[r] = "fork"
          BY <1>1, <1>3, <1>6, <1>10, <2>3, <3>3 DEF TypeOK
        <4> QED
          BY <1>1, <1>3, <1>8, <4>1 DEF Blank
      <3> QED
        BY <3>2, <3>3
    <2> QED
      BY <2>1, <2>2, <2>3 DEF Blank
  <1>16. Kin' /\ InitHolds'
    BY <1>1, <1>3 DEF Kin, InitHolds
  <1>17. ProcessesCounted'
    BY <1>1, <1>3, <1>13 DEF ProcessesCounted, Kept
  <1> QED
    BY <1>9, <1>11, <1>15, <1>16, <1>17 DEF Inv

(* The child runs, and its parent has the Future of its output.            *)
LEMMA ForkedInv ==
  ASSUME Inv, NEW p \in Process, Forked(p)
  PROVE  Inv'
  <1>1. TypeOK /\ ObjectsCounted /\ Blank /\ Kin /\ InitHolds /\ ProcessesCounted
    BY DEF Inv
  <1>2. PICK q \in Process : q = child[p]
    BY <1>1 DEF TypeOK
  <1>3. /\ pc[p] = "fork" /\ pc' = [pc EXCEPT ![p] = "forked", ![q] = "user"]
        /\ Recount(Add(ref_count, output[q]), {})
        /\ proc_refs' = [proc_refs EXCEPT ![q] = @ + 1]
        /\ UNCHANGED <<output, held, todo, child, initProc>>
    BY <1>2 DEF Forked
  <1>4. PICK s \in FirstFree(p, "child", NCHILD) : table' = [table EXCEPT ![p][s] = output[q]]
    BY <1>2 DEF Forked
  <1>5. s \in Slot /\ table[p][s] = null
    BY FreeSlot, ProcessesAssumption DEF Slot, ChildSlot
  <1>6. /\ pc[q] = "none" /\ q # p /\ q \notin initProc /\ child[q] = q
        /\ \A r \in Process : child[r] = q => r = p \/ r = q
    BY <1>1, <1>2, <1>3 DEF Kin, InitHolds
  <1>7. PICK y \in Object \cup {null} : y = output[q]
    BY <1>1 DEF TypeOK
  <1>8. /\ table' \in [Process -> [Slot -> Object \cup {null}]]
        /\ \A r \in Process \ {p} : table'[r] = table[r]
        /\ <<p, s>> \in Places /\ Now[<<p, s>>] = null
        /\ After = [Now EXCEPT ![<<p, s>>] = y]
    <2>1. table' = [table EXCEPT ![p][s] = y] /\ UNCHANGED <<output, held>>
      BY <1>3, <1>4, <1>7
    <2>2. s \in Slot
      BY <1>5
    <2>3. /\ table' \in [Process -> [Slot -> Object \cup {null}]]
          /\ \A r \in Process \ {p} : table'[r] = table[r]
          /\ <<p, s>> \in Places /\ Now[<<p, s>>] = table[p][s]
          /\ After = [Now EXCEPT ![<<p, s>>] = y]
      BY <1>1, <2>1, <2>2, SlotSet
    <2> QED
      BY <1>5, <2>3
  <1>9. ObjectsCounted' /\ ref_count' \in [Object -> Nat] /\ made' \subseteq Object
    <2>1. y # null => y \in made \cup {}
      BY <1>1, <1>7, Whose, ReferredIsMade
    <2>2. {} \in SUBSET {y} /\ {} \subseteq Object /\ Recount(Add(ref_count, y), {})
      BY <1>3, <1>7
    <2> QED
      BY <1>1, <1>8, <2>1, <2>2, OneSet
  <1>10. /\ \A r \in Process : pc'[r] = IF r = q THEN "user" ELSE IF r = p THEN "forked" ELSE pc[r]
         /\ \A r \in Process : proc_refs'[r] = IF r = q THEN proc_refs[q] + 1 ELSE proc_refs[r]
         /\ pc[p] = "fork" /\ child' = child
    BY <1>1, <1>3 DEF TypeOK
  <1>11. TypeOK'
    <2>1. pc' \in [Process -> Label]
      BY <1>1, <1>3 DEF TypeOK, Label, Running
    <2>2. proc_refs' \in [Process -> Nat]
      BY <1>1, <1>3 DEF TypeOK
    <2> QED
      BY <1>1, <1>3, <1>8, <1>9, <2>1, <2>2 DEF TypeOK
  <1>12. \A r \in Process \ {q} : Copied(r)' <=> Copied(r)
    BY <1>2, <1>6, <1>10 DEF Copied
  <1>13. Blank'
    <2>1. ASSUME NEW r \in Process
          PROVE  (held[r] # null => pc[r] \in {"file", "down", "wait"})'
      BY <1>1, <1>3, <1>6, <1>10, ZenonT(60) DEF Blank
    <2>2. ASSUME NEW r \in Process, pc'[r] = "none", ~Copied(r)'
          PROVE  output'[r] = null /\ \A v \in Slot : table'[r][v] = null
      BY <1>1, <1>3, <1>8, <1>10, <1>12, <2>2 DEF Blank
    <2>3. ASSUME NEW r \in Process, pc'[r] = "fork", NEW v \in todo'[r]
          PROVE  table'[child'[r]][v] = null
      <3>1. pc[r] = "fork" /\ r # p /\ v \in todo[r]
        BY <1>3, <1>10, <2>3
      <3>2. child[r] \in Process \ {p}
        BY <1>1, <1>3, <3>1 DEF Kin, TypeOK
      <3> QED
        BY <1>1, <1>3, <1>8, <3>1, <3>2 DEF Blank
    <2> QED
      BY <2>1, <2>2, <2>3 DEF Blank
  <1>14. Kin'
    BY <1>1, <1>2, <1>3, <1>6, <1>10 DEF Kin, TypeOK
  <1>15. InitHolds'
    BY <1>1, <1>3, <1>6, <1>10 DEF InitHolds, TypeOK
  <1>16. ProcessesCounted'
    <2>1. p \in Forking(q) /\ p \in Forking(q)'
      BY <1>2, <1>3, <1>6, <1>10 DEF Forking
    <2>2. ~HasThread(q) /\ HasThread(q)'
      <3>1. Copied(q) /\ ~Copied(q)'
        BY <1>2, <1>6, <1>10 DEF Copied
      <3> QED
        BY <1>10, <3>1 DEF HasThread
    <2>3. ASSUME NEW r \in Process \ {q}
          PROVE  (HasThread(r)' <=> HasThread(r)) /\ Forking(r)' = Forking(r)
      <3>1. HasThread(r)' <=> HasThread(r)
        BY <1>6, <1>10, <1>12 DEF HasThread
      <3>2. \A a \in Process : a \in Forking(r)' <=> a \in Forking(r)
        BY <1>2, <1>3, <1>6, <1>10 DEF Forking
      <3> QED
        BY <3>1, <3>2 DEF Forking
    <2>4. proc_refs[q] = 1
      BY <1>1, <1>6, <2>1, <2>2 DEF ProcessesCounted, Kept
    <2>5. ASSUME NEW r \in Process \ {q}
          PROVE  (HasThread(r)' <=> HasThread(r)) /\ (Kept(r)' <=> Kept(r))
      BY <1>3, <2>3 DEF Kept
    <2>6. ASSUME NEW r \in Process
          PROVE  (/\ proc_refs[r] = (IF HasThread(r) THEN 1 ELSE 0) + (IF Kept(r) THEN 1 ELSE 0)
                  /\ pc[r] = "destroy" => proc_refs[r] = 0
                  /\ pc[r] = "gone" => proc_refs[r] > 0)'
      <3>1. CASE r = q
        BY <1>10, <2>1, <2>2, <2>4, <3>1 DEF Kept
      <3>2. CASE r # q
        <4>1. r \in Process /\ proc_refs'[r] = proc_refs[r]
          BY <1>10, <3>2
        <4>2. (pc'[r] = "destroy" <=> pc[r] = "destroy") /\ (pc'[r] = "gone" <=> pc[r] = "gone")
          BY <1>10, <3>2
        <4> QED
          BY <1>1, <2>5, <3>2, <4>1, <4>2 DEF ProcessesCounted
      <3> QED
        BY <3>1, <3>2
    <2> QED
      BY <2>6 DEF ProcessesCounted, Kept
  <1> QED
    BY <1>9, <1>11, <1>13, <1>14, <1>15, <1>16 DEF Inv

(* A step that changes no Shared<>. *)
LEMMA ObjectsKept ==
  ASSUME ObjectsCounted, UNCHANGED <<table, output, held, ref_count, made>>
  PROVE  ObjectsCounted'
  BY DEF ObjectsCounted, References, At

(* The parent's reference goes: it was the last one exactly if the child's *)
(* thread is gone.                                                         *)
LEMMA ForkReturnInv ==
  ASSUME Inv, NEW p \in Process, ForkReturn(p)
  PROVE  Inv'
  <1>1. TypeOK /\ ObjectsCounted /\ Blank /\ Kin /\ InitHolds /\ ProcessesCounted
    BY DEF Inv
  <1>2. PICK q \in Process : q = child[p]
    BY <1>1 DEF TypeOK
  <1>3. /\ pc[p] = "forked"
        /\ proc_refs' = [proc_refs EXCEPT ![q] = @ - 1]
        /\ pc' = IF proc_refs[q] = 1
                 THEN [pc EXCEPT ![p] = "deleting", ![q] = "destroy"]
                 ELSE [pc EXCEPT ![p] = "user"]
        /\ child' = [child EXCEPT ![p] = IF proc_refs[q] = 1 THEN q ELSE p]
        /\ UNCHANGED <<table, output, ref_count, made, held, todo, initProc>>
    BY <1>2 DEF ForkReturn, objects
  <1>4. /\ pc[q] \notin {"none", "destroy"} /\ q # p /\ q \notin initProc
        /\ \A r \in Process : child[r] = q => r = p \/ r = q
    BY <1>1, <1>2, <1>3 DEF Kin, InitHolds
  <1>5. ~Copied(q)
    BY <1>1, <1>4 DEF Copied, Kin
  <1>6. p \in Forking(q)
    BY <1>2, <1>3 DEF Forking
  <1>7. proc_refs[q] = (IF pc[q] = "gone" THEN 0 ELSE 1) + 1
    BY <1>1, <1>4, <1>5, <1>6 DEF ProcessesCounted, Kept, HasThread
  <1>8. /\ \A r \in Process : r # p /\ r # q => pc'[r] = pc[r] /\ child'[r] = child[r]
        /\ \A r \in Process : proc_refs'[r] = IF r = q THEN proc_refs[q] - 1 ELSE proc_refs[r]
        /\ child'[q] = child[q]
    BY <1>1, <1>3, <1>4 DEF TypeOK
  <1>9. TypeOK'
    <2>1. pc' \in [Process -> Label] /\ child' \in [Process -> Process]
      BY <1>1, <1>3 DEF TypeOK, Label, Running
    <2>2. proc_refs' \in [Process -> Nat]
      BY <1>1, <1>3, <1>7 DEF TypeOK
    <2> QED
      BY <1>1, <1>3, <2>1, <2>2 DEF TypeOK
  <1>10. \A r \in Process : pc[r] = "fork" => r # p /\ child[r] # p /\ child[r] # q
    <2>1. \A r \in Process : pc[r] = "fork" => r # p /\ child[r] # p
      BY <1>1, <1>3 DEF Kin
    <2> QED
      BY <1>5, <2>1 DEF Copied
  <1>11. CASE pc[q] = "gone"
    <2>1. /\ pc'[p] = "deleting" /\ pc'[q] = "destroy" /\ child'[p] = q /\ proc_refs'[q] = 0
          /\ pc[p] = "forked"
      BY <1>1, <1>3, <1>4, <1>7, <1>8, <1>11 DEF TypeOK
    <2>2. child[q] = q
      BY <1>1, <1>11 DEF Kin
    <2>3. \A r \in Process : Copied(r)' <=> Copied(r)
      BY <1>8, <1>10, <1>11, <2>1 DEF Copied
    <2>4. Blank'
      <3>1. ASSUME NEW r \in Process
            PROVE  (held[r] # null => pc[r] \in {"file", "down", "wait"})'
        BY <1>1, <1>3, <1>8, <1>11, <2>1 DEF Blank
      <3>2. ASSUME NEW r \in Process, pc'[r] = "none", ~Copied(r)'
            PROVE  output'[r] = null /\ \A s \in Slot : table'[r][s] = null
        BY <1>1, <1>3, <1>8, <2>1, <2>3, <3>2 DEF Blank
      <3>3. ASSUME NEW r \in Process, pc'[r] = "fork", NEW s \in todo'[r]
            PROVE  table'[child'[r]][s] = null
        <4>1. pc[r] = "fork" /\ child'[r] = child[r] /\ s \in todo[r]
          BY <1>3, <1>8, <2>1, <3>3
        <4> QED
          BY <1>1, <1>3, <4>1 DEF Blank
      <3> QED
        BY <3>1, <3>2, <3>3 DEF Blank
    <2>5. Kin'
      BY <1>1, <1>2, <1>3, <1>4, <1>8, <1>11, <2>1, <2>2 DEF Kin, TypeOK
    <2>6. InitHolds'
      BY <1>1, <1>3, <1>4, <1>8, <2>1 DEF InitHolds, TypeOK
    <2>7. Forking(q)' = {} /\ ~HasThread(q)'
      BY <1>4, <1>8, <1>11, <2>1, <2>2 DEF Forking, HasThread
    <2>8. ASSUME NEW r \in Process \ {q}
          PROVE  (HasThread(r)' <=> HasThread(r)) /\ Forking(r)' = Forking(r)
      <3>1. HasThread(r)' <=> HasThread(r)
        BY <1>3, <1>8, <2>1, <2>3 DEF HasThread
      <3>2. \A a \in Process : a \in Forking(r)' <=> a \in Forking(r)
        BY <1>2, <1>3, <1>8, <1>11, <2>1 DEF Forking
      <3> QED
        BY <3>1, <3>2 DEF Forking
    <2>9. ASSUME NEW r \in Process \ {q}
           PROVE  (HasThread(r)' <=> HasThread(r)) /\ (Kept(r)' <=> Kept(r))
      BY <1>3, <2>8 DEF Kept
    <2>10. ASSUME NEW r \in Process
          PROVE  (/\ proc_refs[r] = (IF HasThread(r) THEN 1 ELSE 0) + (IF Kept(r) THEN 1 ELSE 0)
                  /\ pc[r] = "destroy" => proc_refs[r] = 0
                  /\ pc[r] = "gone" => proc_refs[r] > 0)'
      <3>1. CASE r = q
        BY <1>3, <1>4, <2>1, <2>7, <3>1 DEF Kept
      <3>2. CASE r # q
        <4>1. proc_refs'[r] = proc_refs[r] /\ (pc'[r] = pc[r] \/ pc'[r] \notin {"destroy", "gone"})
          BY <1>8, <2>1, <3>2
        <4> QED
          BY <1>1, <2>9, <3>2, <4>1 DEF ProcessesCounted
      <3> QED
        BY <3>1, <3>2
    <2>11. ProcessesCounted'
      BY <2>10 DEF ProcessesCounted, Kept
    <2> QED
      BY <1>1, <1>3, <1>9, <2>4, <2>5, <2>6, <2>11, ObjectsKept DEF Inv
  <1>12. CASE pc[q] # "gone"
    <2>1. pc'[p] = "user" /\ pc'[q] = pc[q] /\ child'[p] = p /\ proc_refs'[q] = 1
      BY <1>1, <1>3, <1>4, <1>7, <1>8, <1>12 DEF TypeOK
    <2>2. \A r \in Process : Copied(r)' <=> Copied(r)
      BY <1>3, <1>8, <1>10, <2>1 DEF Copied
    <2>3. Blank'
      BY <1>1, <1>3, <1>8, <1>10, <2>1, <2>2 DEF Blank
    <2>4. Kin'
      BY <1>1, <1>2, <1>3, <1>4, <1>8, <2>1 DEF Kin, TypeOK
    <2>5. InitHolds'
      BY <1>1, <1>3, <1>4, <1>8, <2>1 DEF InitHolds, TypeOK
    <2>6. HasThread(q)' /\ Forking(q)' = {}
      BY <1>1, <1>4, <1>5, <1>8, <1>12, <2>1, <2>2 DEF Forking, HasThread, Kin
    <2>7. ASSUME NEW r \in Process \ {q}
          PROVE  (HasThread(r)' <=> HasThread(r)) /\ Forking(r)' = Forking(r)
      <3>1. HasThread(r)' <=> HasThread(r)
        BY <1>3, <1>8, <2>1, <2>2 DEF HasThread
      <3>2. \A a \in Process : a \in Forking(r)' <=> a \in Forking(r)
        BY <1>2, <1>3, <1>8, <2>1 DEF Forking
      <3> QED
        BY <3>1, <3>2 DEF Forking
    <2>8. ProcessesCounted'
      BY <1>1, <1>3, <1>4, <1>8, <1>12, <2>1, <2>6, <2>7 DEF ProcessesCounted, Kept
    <2> QED
      BY <1>1, <1>3, <1>9, <2>3, <2>4, <2>5, <2>8, ObjectsKept DEF Inv
  <1> QED
    BY <1>11, <1>12

(* fork() goes on once the child is deleted. *)
LEMMA ForkDeletedInv ==
  ASSUME Inv, NEW p \in Process, ForkDeleted(p)
  PROVE  Inv'
  <1>1. TypeOK /\ ObjectsCounted /\ Blank /\ Kin /\ InitHolds /\ ProcessesCounted
    BY DEF Inv
  <1>2. /\ pc[p] = "deleting" /\ pc' = [pc EXCEPT ![p] = "user"]
        /\ child' = [child EXCEPT ![p] = p]
        /\ UNCHANGED <<table, output, ref_count, made, proc_refs, held, todo, initProc>>
    BY DEF ForkDeleted, Step, objects
  <1>3. /\ \A r \in Process : pc'[r] = IF r = p THEN "user" ELSE pc[r]
        /\ \A r \in Process : child'[r] = IF r = p THEN p ELSE child[r]
    BY <1>1, <1>2 DEF TypeOK
  <1>4. TypeOK'
    BY <1>1, <1>2 DEF TypeOK, Label, Running
  <1>5. \A r \in Process : Copied(r)' <=> Copied(r)
    BY <1>2, <1>3 DEF Copied
  <1>6. \A r \in Process : pc[r] = "fork" => child[r] # p
    BY <1>1, <1>2 DEF Kin
  <1>7. Blank'
    BY <1>1, <1>2, <1>3, <1>5 DEF Blank
  <1>8. Kin'
    BY <1>1, <1>2, <1>3 DEF Kin, TypeOK
  <1>9. InitHolds'
    BY <1>1, <1>2, <1>3, ProcessesAssumption DEF InitHolds
  <1>10. ASSUME NEW r \in Process
        PROVE  (HasThread(r)' <=> HasThread(r)) /\ Forking(r)' = Forking(r)
    <2>1. HasThread(r)' <=> HasThread(r)
      BY <1>2, <1>3, <1>5 DEF HasThread
    <2>2. \A a \in Process : a \in Forking(r)' <=> a \in Forking(r)
      BY <1>2, <1>3 DEF Forking
    <2> QED
      BY <2>1, <2>2 DEF Forking
  <1>11. ProcessesCounted'
    BY <1>1, <1>2, <1>3, <1>10 DEF ProcessesCounted, Kept
  <1> QED
    BY <1>1, <1>2, <1>4, <1>7, <1>8, <1>9, <1>11, ObjectsKept DEF Inv

-----------------------------------------------------------------------------
(* The end of a process *)

(* exit() tells the parent, and the thread ends. *)
LEMMA ExitInv ==
  ASSUME Inv, NEW p \in Process, Exit(p)
  PROVE  Inv'
  <1>1. TypeOK /\ ObjectsCounted /\ Blank /\ Kin /\ InitHolds /\ ProcessesCounted
    BY DEF Inv
  <1>2. /\ pc[p] = "user" /\ pc' = [pc EXCEPT ![p] = "ended"]
        /\ UNCHANGED <<table, output, ref_count, made, proc_refs, held, todo, child, initProc>>
    BY DEF Exit, Step, objects
  <1>3. \A r \in Process : pc'[r] = IF r = p THEN "ended" ELSE pc[r]
    BY <1>1, <1>2 DEF TypeOK
  <1>4. TypeOK'
    BY <1>1, <1>2 DEF TypeOK, Label
  <1>5. \A r \in Process : Copied(r)' <=> Copied(r)
    BY <1>2, <1>3 DEF Copied
  <1>6. Blank'
    BY <1>1, <1>2, <1>3, <1>5 DEF Blank
  <1>7. Kin'
    BY <1>1, <1>2, <1>3 DEF Kin, TypeOK
  <1>8. InitHolds'
    BY <1>1, <1>2, <1>3, ProcessesAssumption DEF InitHolds
  <1>9. ASSUME NEW r \in Process
        PROVE  (HasThread(r)' <=> HasThread(r)) /\ Forking(r)' = Forking(r)
    <2>1. HasThread(r)' <=> HasThread(r)
      BY <1>2, <1>3, <1>5 DEF HasThread
    <2>2. \A a \in Process : a \in Forking(r)' <=> a \in Forking(r)
      BY <1>2, <1>3 DEF Forking
    <2> QED
      BY <2>1, <2>2 DEF Forking
  <1>10. ProcessesCounted'
    BY <1>1, <1>2, <1>3, <1>9 DEF ProcessesCounted, Kept
  <1> QED
    BY <1>1, <1>2, <1>4, <1>6, <1>7, <1>8, <1>10, ObjectsKept DEF Inv

(* The thread's reference goes: it was the last one exactly if no fork()   *)
(* has one.                                                                *)
LEMMA ReapInv ==
  ASSUME Inv, NEW p \in Process, Reap(p)
  PROVE  Inv'
  <1>1. TypeOK /\ ObjectsCounted /\ Blank /\ Kin /\ InitHolds /\ ProcessesCounted
    BY DEF Inv
  <1>2. /\ pc[p] = "ended"
        /\ pc' = [pc EXCEPT ![p] = IF proc_refs[p] = 1 THEN "destroy" ELSE "gone"]
        /\ proc_refs' = [proc_refs EXCEPT ![p] = @ - 1]
        /\ UNCHANGED <<table, output, ref_count, made, held, todo, child, initProc>>
    BY DEF Reap, objects
  <1>3. /\ \A r \in Process \ {p} : pc'[r] = pc[r] /\ proc_refs'[r] = proc_refs[r]
        /\ pc'[p] = (IF proc_refs[p] = 1 THEN "destroy" ELSE "gone")
        /\ proc_refs'[p] = proc_refs[p] - 1 /\ proc_refs[p] \in Nat
    BY <1>1, <1>2 DEF TypeOK
  <1>4. \A r \in Process : pc[r] = "fork" => r # p /\ child[r] # p
    BY <1>1, <1>2 DEF Kin
  <1>5. ~Copied(p) /\ HasThread(p)
    BY <1>2, <1>4 DEF Copied, HasThread
  <1>6. proc_refs[p] = 1 + (IF Forking(p) # {} THEN 1 ELSE IF p \in initProc THEN 1 ELSE 0)
    BY <1>1, <1>5 DEF ProcessesCounted, Kept
  <1>7. p \in initProc => pc'[p] = "gone"
    BY <1>3, <1>6
  <1>8. TypeOK'
    <2>1. pc' \in [Process -> Label]
      BY <1>1, <1>2 DEF TypeOK, Label
    <2>2. proc_refs' \in [Process -> Nat]
      BY <1>1, <1>2, <1>6 DEF TypeOK
    <2> QED
      BY <1>1, <1>2, <2>1, <2>2 DEF TypeOK
  <1>9. \A r \in Process : Copied(r)' <=> Copied(r)
    BY <1>2, <1>3 DEF Copied
  <1>10. Blank'
    BY <1>1, <1>2, <1>3, <1>9 DEF Blank
  <1>11. ASSUME NEW r \in Process, pc[r] = "forked", child[r] = p
         PROVE  pc'[p] = "gone"
    <2>1. r \in Forking(p)
      BY <1>11 DEF Forking
    <2> QED
      BY <1>3, <1>6, <2>1
  <1>12. Kin'
    BY <1>1, <1>2, <1>3, <1>11 DEF Kin, TypeOK
  <1>13. InitHolds'
    BY <1>1, <1>2, <1>3, <1>7, ProcessesAssumption DEF InitHolds
  <1>14. ASSUME NEW r \in Process
         PROVE  Forking(r)' = Forking(r)
    <2>1. \A a \in Process : a \in Forking(r)' <=> a \in Forking(r)
      BY <1>2, <1>3 DEF Forking
    <2> QED
      BY <2>1 DEF Forking
  <1>15. ~HasThread(p)' /\ \A r \in Process \ {p} : HasThread(r)' <=> HasThread(r)
    BY <1>3, <1>9 DEF HasThread
  <1>16. ASSUME NEW r \in Process
         PROVE  Kept(r)' <=> Kept(r)
    BY <1>2, <1>14 DEF Kept
  <1>17. proc_refs[p] = 1 + (IF Kept(p) THEN 1 ELSE 0)
    BY <1>6 DEF Kept
  <1>18. ASSUME NEW r \in Process
         PROVE  (/\ proc_refs[r] = (IF HasThread(r) THEN 1 ELSE 0) + (IF Kept(r) THEN 1 ELSE 0)
                 /\ pc[r] = "destroy" => proc_refs[r] = 0
                 /\ pc[r] = "gone" => proc_refs[r] > 0)'
    <2>1. CASE r = p
      BY <1>3, <1>15, <1>16, <1>17, <2>1
    <2>2. CASE r # p
      BY <1>1, <1>3, <1>15, <1>16, <2>2 DEF ProcessesCounted
    <2> QED
      BY <2>1, <2>2
  <1>19. ProcessesCounted'
    BY <1>18 DEF ProcessesCounted
  <1> QED
    BY <1>1, <1>2, <1>8, <1>10, <1>12, <1>13, <1>19, ObjectsKept DEF Inv

(* The members of p go: nobody sets them any more. *)
LEMMA DestroyInv ==
  ASSUME Inv, NEW p \in Process, pc[p] = "destroy", TypeOK', ObjectsCounted',
         \A q \in Process \ {p} : table'[q] = table[q] /\ output'[q] = output[q],
         UNCHANGED <<proc_refs, pc, held, todo, child, initProc>>
  PROVE  Inv'
  <1>1. TypeOK /\ Blank /\ Kin /\ InitHolds /\ ProcessesCounted
    BY DEF Inv
  <1>2. \A r \in Process :
              /\ (Copied(r)' <=> Copied(r)) /\ (HasThread(r)' <=> HasThread(r))
              /\ Forking(r)' = Forking(r)
    BY DEF Copied, HasThread, Forking
  <1>3. Blank'
    <2>1. ASSUME NEW q \in Process
          PROVE  (held[q] # null => pc[q] \in {"file", "down", "wait"})'
      BY <1>1 DEF Blank
    <2>2. ASSUME NEW q \in Process, pc'[q] = "none", ~Copied(q)'
          PROVE  output'[q] = null /\ \A s \in Slot : table'[q][s] = null
      BY <1>1, <1>2, <2>2 DEF Blank
    <2>3. ASSUME NEW q \in Process, pc'[q] = "fork", NEW s \in todo'[q]
          PROVE  table'[child'[q]][s] = null
      <3>1. child[q] \in Process \ {p}
        BY <1>1, <2>3 DEF Kin, TypeOK
      <3> QED
        BY <1>1, <2>3, <3>1 DEF Blank
    <2> QED
      BY <2>1, <2>2, <2>3 DEF Blank
  <1>4. Kin' /\ InitHolds' /\ ProcessesCounted'
    BY <1>1, <1>2 DEF Kin, InitHolds, ProcessesCounted, Kept
  <1> QED
    BY <1>3, <1>4 DEF Inv

(* The output goes ... *)
LEMMA DropOutputInv ==
  ASSUME Inv, NEW p \in Process, DropOutput(p)
  PROVE  Inv'
  <1>1. TypeOK /\ ObjectsCounted
    BY DEF Inv
  <1>2. /\ pc[p] = "destroy"
        /\ output' = [output EXCEPT ![p] = null]
        /\ Recount(Drop(ref_count, output[p]), {})
        /\ UNCHANGED <<table, proc_refs, pc, held, todo, child, initProc>>
    BY DEF DropOutput, threads
  <1>3. null \in Object \cup {null} /\ UNCHANGED <<table, held>>
    BY <1>2
  <1>4. /\ output' \in [Process -> Object \cup {null}]
        /\ <<p, Output>> \in Places /\ Now[<<p, Output>>] = output[p]
        /\ After = [Now EXCEPT ![<<p, Output>>] = null]
    BY <1>1, <1>2, <1>3, OutputSet
  <1>5. ObjectsCounted' /\ ref_count' \in [Object -> Nat] /\ made' \subseteq Object
    BY <1>1, <1>2, <1>4, OneCleared
  <1>6. TypeOK'
    BY <1>1, <1>2, <1>4, <1>5 DEF TypeOK
  <1>7. \A q \in Process \ {p} : table'[q] = table[q] /\ output'[q] = output[q]
    BY <1>1, <1>2 DEF TypeOK
  <1> QED
    BY <1>2, <1>5, <1>6, <1>7, DestroyInv

(* ... and the slots, one by one ... *)
LEMMA DropSlotInv ==
  ASSUME Inv, NEW p \in Process, DropSlot(p)
  PROVE  Inv'
  <1>1. TypeOK /\ ObjectsCounted
    BY DEF Inv
  <1>2. PICK s \in Occupied(p) :
          /\ table' = [table EXCEPT ![p][s] = null]
          /\ Recount(Drop(ref_count, table[p][s]), {})
    <2>1. (CHOOSE s \in Occupied(p) : TRUE) \in Occupied(p)
      BY DEF DropSlot
    <2> QED
      BY <2>1 DEF DropSlot
  <1>3. /\ pc[p] = "destroy" /\ s \in Slot
        /\ UNCHANGED <<output, proc_refs, pc, held, todo, child, initProc>>
    BY DEF DropSlot, threads, Occupied
  <1>4. null \in Object \cup {null} /\ UNCHANGED <<output, held>>
    BY <1>3
  <1>5. /\ table' \in [Process -> [Slot -> Object \cup {null}]]
        /\ \A q \in Process \ {p} : table'[q] = table[q]
        /\ <<p, s>> \in Places /\ Now[<<p, s>>] = table[p][s]
        /\ After = [Now EXCEPT ![<<p, s>>] = null]
    BY <1>1, <1>2, <1>3, <1>4, SlotSet
  <1>6. ObjectsCounted' /\ ref_count' \in [Object -> Nat] /\ made' \subseteq Object
    BY <1>1, <1>2, <1>5, OneCleared
  <1>7. TypeOK'
    BY <1>1, <1>3, <1>5, <1>6 DEF TypeOK
  <1> QED
    BY <1>3, <1>5, <1>6, <1>7, DestroyInv

(* ... and then the process may be another one. *)
LEMMA DestroyedInv ==
  ASSUME Inv, NEW p \in Process, Destroyed(p)
  PROVE  Inv'
  <1>1. TypeOK /\ ObjectsCounted /\ Blank /\ Kin /\ InitHolds /\ ProcessesCounted
    BY DEF Inv
  <1>2. /\ output[p] = null /\ \A s \in Slot : table[p][s] = null
        /\ pc[p] = "destroy" /\ pc' = [pc EXCEPT ![p] = "none"]
        /\ UNCHANGED <<table, output, ref_count, made, proc_refs, held, todo, child, initProc>>
    BY DEF Destroyed, Step, Occupied, objects
  <1>3. \A r \in Process : pc'[r] = IF r = p THEN "none" ELSE pc[r]
    BY <1>1, <1>2 DEF TypeOK
  <1>4. TypeOK'
    BY <1>1, <1>2 DEF TypeOK, Label
  <1>5. \A r \in Process : Copied(r)' <=> Copied(r)
    BY <1>2, <1>3 DEF Copied
  <1>6. Blank'
    BY <1>1, <1>2, <1>3, <1>5 DEF Blank
  <1>7. Kin'
    BY <1>1, <1>2, <1>3 DEF Kin, TypeOK
  <1>8. InitHolds'
    BY <1>1, <1>2, <1>3, ProcessesAssumption DEF InitHolds
  <1>9. ASSUME NEW r \in Process
        PROVE  (HasThread(r)' <=> HasThread(r)) /\ Forking(r)' = Forking(r)
    <2>1. HasThread(r)' <=> HasThread(r)
      BY <1>2, <1>3, <1>5 DEF HasThread
    <2>2. \A a \in Process : a \in Forking(r)' <=> a \in Forking(r)
      BY <1>2, <1>3 DEF Forking
    <2> QED
      BY <2>1, <2>2 DEF Forking
  <1>10. ProcessesCounted'
    BY <1>1, <1>2, <1>3, <1>9 DEF ProcessesCounted, Kept
  <1> QED
    BY <1>1, <1>2, <1>4, <1>6, <1>7, <1>8, <1>10, ObjectsKept DEF Inv

-----------------------------------------------------------------------------
(* kernelInit's reference to the first process goes: it was the last one   *)
(* exactly if the thread is gone.                                          *)
LEMMA InitReturnInv ==
  ASSUME Inv, NEW p \in Process, InitReturn(p)
  PROVE  Inv'
  <1>1. TypeOK /\ ObjectsCounted /\ Blank /\ Kin /\ InitHolds /\ ProcessesCounted
    BY DEF Inv
  <1>2. /\ p \in initProc /\ initProc' = initProc \ {p}
        /\ proc_refs' = [proc_refs EXCEPT ![p] = @ - 1]
        /\ pc' = IF proc_refs[p] = 1 THEN [pc EXCEPT ![p] = "destroy"] ELSE pc
        /\ UNCHANGED <<table, output, ref_count, made, held, todo, child>>
    BY DEF InitReturn, objects
  <1>3. pc[p] \notin {"none", "destroy"} /\ \A q \in Process : child[q] = p => q = p
    BY <1>1, <1>2 DEF InitHolds
  <1>4. Forking(p) = {} /\ ~Copied(p)
    BY <1>1, <1>3 DEF Forking, Copied, Kin
  <1>5. proc_refs[p] = (IF pc[p] = "gone" THEN 0 ELSE 1) + 1
    BY <1>1, <1>2, <1>3, <1>4 DEF ProcessesCounted, Kept, HasThread
  <1>6. /\ \A r \in Process \ {p} : pc'[r] = pc[r] /\ proc_refs'[r] = proc_refs[r]
        /\ pc'[p] = (IF pc[p] = "gone" THEN "destroy" ELSE pc[p])
        /\ proc_refs'[p] = (IF pc[p] = "gone" THEN 0 ELSE 1)
    BY <1>1, <1>2, <1>5 DEF TypeOK
  <1>7. TypeOK'
    <2>1. pc' \in [Process -> Label]
      BY <1>1, <1>2 DEF TypeOK, Label
    <2>2. proc_refs' \in [Process -> Nat]
      BY <1>1, <1>2, <1>5 DEF TypeOK
    <2> QED
      BY <1>1, <1>2, <2>1, <2>2 DEF TypeOK
  <1>8. \A r \in Process : Copied(r)' <=> Copied(r)
    BY <1>2, <1>6 DEF Copied
  <1>9. Blank'
    BY <1>1, <1>2, <1>6, <1>8 DEF Blank
  <1>10. Kin'
    BY <1>1, <1>2, <1>3, <1>6 DEF Kin, TypeOK
  <1>11. InitHolds'
    BY <1>1, <1>2, <1>6 DEF InitHolds, TypeOK
  <1>12. ASSUME NEW r \in Process
         PROVE  Forking(r)' = Forking(r)
    <2>1. \A a \in Process : a \in Forking(r)' <=> a \in Forking(r)
      BY <1>2, <1>6 DEF Forking
    <2> QED
      BY <2>1 DEF Forking
  <1>13. (HasThread(p)' <=> pc[p] # "gone") /\ ~Kept(p)'
    BY <1>2, <1>3, <1>4, <1>6, <1>8, <1>12 DEF HasThread, Kept
  <1>14. \A r \in Process \ {p} : (HasThread(r)' <=> HasThread(r)) /\ (Kept(r)' <=> Kept(r))
    BY <1>2, <1>6, <1>8, <1>12 DEF HasThread, Kept
  <1>15. ASSUME NEW r \in Process
         PROVE  (/\ proc_refs[r] = (IF HasThread(r) THEN 1 ELSE 0) + (IF Kept(r) THEN 1 ELSE 0)
                 /\ pc[r] = "destroy" => proc_refs[r] = 0
                 /\ pc[r] = "gone" => proc_refs[r] > 0)'
    <2>1. CASE r = p
      BY <1>3, <1>6, <1>13, <2>1
    <2>2. CASE r # p
      BY <1>1, <1>6, <1>14, <2>2 DEF ProcessesCounted
    <2> QED
      BY <2>1, <2>2
  <1>16. ProcessesCounted'
    BY <1>15 DEF ProcessesCounted
  <1> QED
    BY <1>1, <1>2, <1>7, <1>9, <1>10, <1>11, <1>16, ObjectsKept DEF Inv

-----------------------------------------------------------------------------
(* At first the one process has the console three times, as far as there *)
(* are slots, and an output.                                               *)
LEMMA InitInv ==
  ASSUME Init
  PROVE  Inv
  <1>1. PICK f \in Future :
          /\ output = [p \in Process |-> IF p = Initial THEN f ELSE null]
          /\ made = {Console, f}
          /\ ref_count = [o \in Object |->
                IF o = f THEN 1
                ELSE IF o = Console THEN Cardinality(FileSlot \cap ({"file"} \X (0 .. 2)))
                ELSE 0]
    BY DEF Init
  <1>2. /\ table = [p \in Process |->
                     [s \in Slot |-> IF p = Initial /\ s \in {"file"} \X (0 .. 2)
                                     THEN Console ELSE null]]
        /\ proc_refs = [p \in Process |-> IF p = Initial THEN 2 ELSE 0]
        /\ initProc = {Initial}
        /\ pc = [p \in Process |-> IF p = Initial THEN "user" ELSE "none"]
        /\ held = [p \in Process |-> null]
        /\ todo = [p \in Process |-> {}]
        /\ child = [p \in Process |-> p]
    BY DEF Init
  <1> DEFINE C == FileSlot \cap ({"file"} \X (0 .. 2))
  <1>3. IsFiniteSet(C) /\ Cardinality(C) \in Nat /\ Cardinality(C) > 0
    <2>1. IsFiniteSet({"file"}) /\ IsFiniteSet(0 .. 2)
      <3>1. 0 \in Int /\ 2 \in Int
        OBVIOUS
      <3>2. IsFiniteSet(0 .. 2)
        BY <3>1, FS_Interval
      <3>3. IsFiniteSet({"file"})
        BY FS_Singleton
      <3> QED
        BY <3>2, <3>3
    <2>2. IsFiniteSet({"file"} \X (0 .. 2)) /\ C \subseteq {"file"} \X (0 .. 2)
      BY <2>1, FS_Product
    <2>3. IsFiniteSet(C)
      BY <2>2, FS_Subset
    <2>4. <<"file", 0>> \in C
      BY ProcessesAssumption DEF FileSlot
    <2> HIDE DEF C
    <2>5. Cardinality(C) \in Nat /\ Cardinality(C) # 0
      BY <2>3, <2>4, FS_CardinalityType, FS_EmptySet
    <2> QED
      BY <2>3, <2>5
  <1>4. /\ Console \in Object /\ f \in Object /\ Console # f /\ Console # null /\ f # null
        /\ Initial \in Process
    BY ProcessesAssumption, NoObject DEF Object
  <1>5. ref_count = [o \in Object |-> IF o = f THEN 1
                                      ELSE IF o = Console THEN Cardinality(C) ELSE 0]
    BY <1>1
  <1>6. C = {s \in Slot : s \in {"file"} \X (0 .. 2)}
    BY DEF Slot, FileSlot, SemSlot, ChildSlot
  <1>7. \A p \in Process, s \in Slot : table[p][s] =
              IF p = Initial /\ s \in C THEN Console ELSE null
    BY <1>2, <1>6
  <1> HIDE DEF C
  <1>8. TypeOK
    <2>1. table \in [Process -> [Slot -> Object \cup {null}]]
      BY <1>2, <1>4
    <2>2. ref_count \in [Object -> Nat]
      BY <1>3, <1>5
    <2> QED
      BY <1>1, <1>2, <1>4, <2>1, <2>2 DEF TypeOK, Label, Running
  <1>9. /\ \A p \in Process : Now[<<p, Output>>] = IF p = Initial THEN f ELSE null
        /\ \A p \in Process : Now[<<p, Held>>] = null
        /\ \A p \in Process, s \in Slot : Now[<<p, s>>] =
              IF p = Initial /\ s \in C THEN Console ELSE null
    <2>1. \A p \in Process : /\ output[p] = (IF p = Initial THEN f ELSE null)
                              /\ held[p] = null
      BY <1>1, <1>2
    <2>2. ASSUME NEW p \in Process
          PROVE  /\ Now[<<p, Output>>] = IF p = Initial THEN f ELSE null
                 /\ Now[<<p, Held>>] = null
                 /\ \A s \in Slot : Now[<<p, s>>] = table[p][s]
      BY <2>1, Whose
    <2>3. ASSUME NEW p \in Process, NEW s \in Slot
          PROVE  Now[<<p, s>>] = IF p = Initial /\ s \in C THEN Console ELSE null
      BY <1>7, <2>2, ZenonT(60)
    <2> QED
      BY ONLY <2>2, <2>3
  <1>10. \A u \in Places : \/ \E p \in Process : u = <<p, Output>> \/ u = <<p, Held>>
                           \/ \E p \in Process, s \in Slot : u = <<p, s>>
    <2>1. \A w \in Place : w \in Slot \/ w = Output \/ w = Held
      BY DEF Place, Output, Held
    <2> QED
      BY <2>1 DEF Places
  <1>11. Users(Now, f) = {<<Initial, Output>>}
    <2>1. <<Initial, Output>> \in Users(Now, f)
      BY <1>4, <1>9, Whose DEF Users
    <2>2. ASSUME NEW u \in Users(Now, f)
          PROVE  u = <<Initial, Output>>
      BY <1>4, <1>9, <1>10, <2>2 DEF Users
    <2> QED
      BY <2>1, <2>2
  <1>12. Users(Now, Console) = {Initial} \X C
    <2>1. C \subseteq Slot
      BY <1>6
    <2>2. ASSUME NEW u \in Users(Now, Console)
          PROVE  u \in {Initial} \X C
      BY <1>4, <1>9, <1>10, <2>2 DEF Users
    <2>3. ASSUME NEW s \in C
          PROVE  <<Initial, s>> \in Users(Now, Console)
      BY <1>4, <1>9, <2>1, Whose DEF Users
    <2> QED
      BY <2>2, <2>3
  <1>13. \A o \in Object : o # f /\ o # Console => Users(Now, o) = {}
    BY <1>4, <1>9, <1>10, NoObject DEF Users
  <1>14. ObjectsCounted
    <2>1. Cardinality(Users(Now, f)) = 1
      BY <1>11, FS_Singleton
    <2>2. Cardinality({Initial} \X C) = Cardinality(C)
      <3>1. IsFiniteSet({Initial}) /\ Cardinality({Initial}) = 1
        BY FS_Singleton
      <3>2. Cardinality({Initial} \X C) = 1 * Cardinality(C)
        BY <1>3, <3>1, FS_Product
      <3> QED
        BY <1>3, <3>2
    <2>3. \A o \in Object : o # f /\ o # Console => Cardinality(Users(Now, o)) = 0
      BY <1>13, FS_EmptySet
    <2>4. ASSUME NEW o \in Object
          PROVE  ref_count[o] = Cardinality(References(o))
      BY <1>4, <1>5, <1>12, <2>1, <2>2, <2>3, ReferencesAreUsers
    <2>5. ASSUME NEW o \in Object
          PROVE  o \in made <=> ref_count[o] > 0
      BY <1>1, <1>3, <1>4, <1>5
    <2> QED
      BY <2>4, <2>5 DEF ObjectsCounted
  <1>15. Blank
    BY <1>1, <1>2, <1>7 DEF Blank
  <1>16. Kin
    BY <1>2 DEF Kin
  <1>17. InitHolds
    BY <1>2, <1>4 DEF InitHolds
  <1>18. \A p \in Process : ~Copied(p) /\ Forking(p) = {}
    BY <1>2 DEF Copied, Forking
  <1>19. ProcessesCounted
    BY <1>2, <1>18 DEF ProcessesCounted, Kept, HasThread
  <1> QED
    BY <1>8, <1>14, <1>15, <1>16, <1>17, <1>19 DEF Inv

(* Every step preserves the inductive invariant. *)
LEMMA NextInv ==
  ASSUME Inv, [Next]_vars
  PROVE  Inv'
  <1>1. CASE UNCHANGED vars
    <2>1. UNCHANGED <<table, output, ref_count, made, proc_refs, pc, held, todo, child, initProc>>
      BY <1>1 DEF vars, objects, threads
    <2>2. \A q :
                /\ (Copied(q)' <=> Copied(q)) /\ (HasThread(q)' <=> HasThread(q))
                /\ Forking(q)' = Forking(q)
      BY <2>1 DEF Copied, HasThread, Forking
    <2>3. TypeOK' /\ Blank' /\ Kin'
      BY <2>1, <2>2 DEF Inv, TypeOK, Blank, Kin
    <2>4. InitHolds' /\ ProcessesCounted'
      BY <2>1, <2>2 DEF Inv, InitHolds, ProcessesCounted, Kept
    <2> QED
      BY <2>1, <2>3, <2>4, ObjectsKept DEF Inv
  <1>2. ASSUME NEW p \in Process, Call(p)
        PROVE  Inv'
    <2>1. CASE NewSemaphore(p)
      BY <2>1, NewSemaphoreInv
    <2>2. CASE Open(p)
      BY <2>2, OpenInv
    <2>3. CASE Pipe(p)
      BY <2>3, PipeInv
    <2>4. CASE Exit(p)
      BY <2>4, ExitInv
    <2>5. ASSUME NEW id \in Id, Up(p, id)
          PROVE  Inv'
      BY <2>5, UpInv
    <2>6. ASSUME NEW id \in Id, Close(p, id)
          PROVE  Inv'
      BY <2>6, CloseInv
    <2>7. ASSUME NEW id \in Id, UseFile(p, id)
          PROVE  Inv'
      <3>1. id \in Slot /\ Hold(p, table[p][id]) /\ Step(p, "user", "file")
        BY <2>7 DEF UseFile, Slot
      <3>2. /\ todo' \in [Process -> SUBSET Slot] /\ todo' = todo
            /\ UNCHANGED <<table, output, proc_refs, child, initProc>>
        BY <2>7 DEF UseFile, Inv, TypeOK
      <3> QED
        BY <3>1, <3>2, HoldInv
    <2>8. ASSUME NEW id \in Id, Down(p, id)
          PROVE  Inv'
      <3>1. id \in Slot /\ Hold(p, table[p][id]) /\ Step(p, "user", "down")
        BY <2>8 DEF Down, Slot
      <3>2. /\ todo' \in [Process -> SUBSET Slot] /\ todo' = todo
            /\ UNCHANGED <<table, output, proc_refs, child, initProc>>
        BY <2>8 DEF Down, Inv, TypeOK
      <3> QED
        BY <3>1, <3>2, HoldInv
    <2>9. ASSUME NEW id \in Id, Wait(p, id)
          PROVE  Inv'
      <3>1. id \in Slot /\ Hold(p, table[p][id]) /\ Step(p, "user", "wait")
        BY <2>9 DEF Wait, Slot
      <3>2. todo' = [todo EXCEPT ![p] = {id}] /\ UNCHANGED <<table, output, proc_refs, child, initProc>>
        BY <2>9 DEF Wait
      <3>3. todo' \in [Process -> SUBSET Slot] /\ \A q \in Process \ {p} : todo'[q] = todo[q]
        BY <3>1, <3>2 DEF Inv, TypeOK
      <3> QED
        BY <3>1, <3>2, <3>3, HoldInv
    <2>10. ASSUME NEW a \in Id, NEW b \in Id, Dup2(p, a, b)
           PROVE  Inv'
      BY <2>10, Dup2Inv
    <2>11. ASSUME NEW q \in Choice(Unused), Fork(p, q)
           PROVE  Inv'
      <3>1. q \in Process
        BY <2>11 DEF Fork, Unused
      <3> QED
        BY <2>11, <3>1, ForkInv
    <2> QED
      BY <1>2, <2>1, <2>2, <2>3, <2>4, <2>5, <2>6, <2>7, <2>8, <2>9, <2>10, <2>11 DEF Call
  <1>3. ASSUME NEW p \in Process, KernelStep(p)
        PROVE  Inv'
    <2>1. CASE UsedFile(p)
      BY <2>1, ReleaseInv DEF UsedFile
    <2>2. CASE DownReturn(p)
      BY <2>2, ReleaseInv DEF DownReturn
    <2>3. CASE WaitReturn(p)
      BY <2>3, WaitReturnInv
    <2>4. CASE ForkCopy(p)
      BY <2>4, ForkCopyInv
    <2>5. CASE Forked(p)
      BY <2>5, ForkedInv
    <2>6. CASE ForkReturn(p)
      BY <2>6, ForkReturnInv
    <2>7. CASE ForkDeleted(p)
      BY <2>7, ForkDeletedInv
    <2>8. CASE InitReturn(p)
      BY <2>8, InitReturnInv
    <2> QED
      BY <1>3, <2>1, <2>2, <2>3, <2>4, <2>5, <2>6, <2>7, <2>8 DEF KernelStep
  <1>4. ASSUME NEW p \in Process, Delete(p)
        PROVE  Inv'
    BY <1>4, ReapInv, DropOutputInv, DropSlotInv, DestroyedInv DEF Delete
  <1> QED
    BY <1>1, <1>2, <1>3, <1>4 DEF Next

(* The inductive invariant holds in every behaviour of the processes. *)
THEOREM Invariance == Spec => []Inv
  <1>1. Init => Inv
    BY InitInv
  <1>2. Inv /\ [Next]_vars => Inv'
    BY NextInv
  <1> QED
    BY <1>1, <1>2, PTL DEF Spec

(* A process has one parent in fork() at most, and none while kernelInit   *)
(* has it.                                                                 *)
LEMMA OneParent ==
  ASSUME Inv, NEW p \in Process
  PROVE  Cardinality(Forking(p)) + (IF p \in initProc THEN 1 ELSE 0) = IF Kept(p) THEN 1 ELSE 0
  <1>1. CASE Forking(p) = {}
    BY <1>1, FS_EmptySet DEF Kept
  <1>2. CASE Forking(p) # {}
    <2>1. PICK q \in Process : q \in Forking(p)
      BY <1>2 DEF Forking
    <2>2. ASSUME NEW r \in Forking(p)
          PROVE  r = q
      <3>1. child[q] = child[r] /\ child[q] # q /\ child[r] # r /\ r \in Process
        BY <2>1, <2>2 DEF Forking, Inv, Kin
      <3> QED
        BY <3>1 DEF Inv, Kin
    <2>3. Forking(p) = {q}
      BY <2>1, <2>2
    <2>4. p \notin initProc
      BY <2>1 DEF Forking, Inv, InitHolds, Kin
    <2>5. Cardinality(Forking(p)) = 1
      BY <2>3, FS_Singleton
    <2>6. Kept(p)
      BY <1>2 DEF Kept
    <2> QED
      BY <1>2, <2>4, <2>5, <2>6
  <1> QED
    BY <1>1, <1>2

(* Shared<>'s counts of files, semaphores and futures, and the references  *)
(* of the processes, are right at every step of every call, whatever the   *)
(* number of processes and of slots.                                       *)
THEOREM ReferencesCounted == Spec => []Counted
  <1>1. ASSUME Inv
        PROVE  Counted
    <2>1. ASSUME NEW p \in Process
          PROVE  /\ Cardinality(Forking(p)) \in Nat
                 /\ Cardinality(Forking(p)) + (IF p \in initProc THEN 1 ELSE 0)
                       = IF Kept(p) THEN 1 ELSE 0
      <3>1. IsFiniteSet(Forking(p))
        BY FS_Subset, ProcessesAssumption DEF Forking
      <3> QED
        BY <1>1, <3>1, OneParent, FS_CardinalityType
    <2>2. ASSUME NEW p \in Process
          PROVE  proc_refs[p] = (IF HasThread(p) THEN 1 ELSE 0) + Cardinality(Forking(p))
                                + (IF p \in initProc THEN 1 ELSE 0)
      BY <1>1, <2>1 DEF Inv, ProcessesCounted
    <2> QED
      BY <1>1, <2>2 DEF Inv, ObjectsCounted, ProcessesCounted, Counted
  <1> QED
    BY <1>1, Invariance, PTL
=============================================================================
