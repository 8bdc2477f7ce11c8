---------------------------- MODULE MemoryProofs ----------------------------
(***************************************************************************)
(* Proofs about Memory: its inductive invariant, that no frame is shared   *)
(* or freed in use, which may be lost and when the APICs are unmapped, and *)
(* that it implements AddressSpaces.                                       *)
(***************************************************************************)
EXTENDS Memory, FiniteSetTheorems, TLAPS

(* What a process may be doing, fork() in two of them. *)
Label == {"none", "new", "user", "map", "make_pd", "fork", "clear", "delete"}

Forking == {"make_pd", "fork"}

Place == (1 .. Dirs + 1) \X (1 .. Entries + 1)

MemTypeOK ==
    /\ free \subseteq Frame
    /\ content \in [Frame -> Value]
    /\ pd \in [Process -> Frame \cup {None}]
    /\ pde \in [Process -> [Dir -> Frame \cup {None}]]
    /\ pte \in [Process -> [Address -> Frame \cup {Device, None}]]
    /\ pc \in [Process -> Label]
    /\ at \in [Process -> Place]
    /\ frame \in [Process -> Frame \cup {None}]
    /\ child \in [Process -> Process]

(* No frame has two uses, and none that is free has one.                   *)
AccountedOK ==
    /\ \A u, v \in Use : FrameOf(u) \in Frame /\ FrameOf(u) = FrameOf(v) => u = v
    /\ \A u \in Use : FrameOf(u) \notin free

(* A page directory stands for the process; one that is not there, or was   *)
(* deleted, has nothing mapped.                                            *)
IdleOK ==
    \A p \in Process :
        /\ pc[p] = "none" <=> pd[p] = None
        /\ pc[p] = "none" =>
              /\ \A d \in Dir : pde[p][d] = None
              /\ \A a \in Address : pte[p][a] = None

(* A page is mapped through a page table. *)
MappedOK ==
    \A p \in Process, a \in Address : pte[p][a] # None => pde[p][a[1]] # None

(* The APICs are at their address and nowhere else. *)
DeviceOK ==
    \A p \in Process, a \in Address : a # Special => pte[p][a] # Device

(* Who runs has a page table for their region. *)
RegionOK == \A p \in Process : Shown(p) => pde[p][Dirs] # None

(* vmm_pageFault holds a cleared frame for a page that is not there, or    *)
(* one of the APICs' region.                                               *)
FaultOK ==
    \A p \in Process :
        IF pc[p] = "map"
        THEN /\ at[p] \in Address /\ (at[p] \in Page => pte[p][at[p]] = None)
             /\ frame[p] \in Frame /\ content[frame[p]] = Zero
        ELSE frame[p] = None

(* fork() builds a child of its own. *)
ChildOK ==
    /\ \A p \in Process :
          IF pc[p] \in Forking THEN child[p] # p /\ pc[child[p]] = "new" ELSE child[p] = p
    /\ \A p, q \in Process : pc[p] \in Forking /\ pc[q] \in Forking /\ child[p] = child[q] => p = q

(* make_pd() begins with an empty private half. *)
BlankOK ==
    \A p \in Process : pc[p] = "make_pd" =>
          /\ \A d \in Dir : pde[child[p]][d] = None
          /\ \A a \in Address : pte[child[p]][a] = None

(* After it the child has the APICs, and the loop is at an entry. *)
PartOK ==
    \A p \in Process : pc[p] = "fork" =>
          /\ pde[child[p]][Dirs] # None /\ pte[child[p]][Special] = Device
          /\ at[p][2] <= Entries

(* Of two entries, the loops of fork() and delete_private come to the       *)
(* first before the second.                                                *)
Before(a, b) == a[1] < b[1] \/ (a[1] = b[1] /\ a[2] < b[2])

(* The child reads what the parent reads where the loop was, and has        *)
(* nothing mapped where it comes to.                                       *)
CopiedAt(p, a) ==
    IF Before(a, at[p]) THEN Read(child[p], a) = Read(p, a) ELSE pte[child[p]][a] = None

CopyOK == \A p \in Process : pc[p] = "fork" => \A a \in Page : CopiedAt(p, a)

(* Where delete_private and delete_pd were, nothing is mapped. *)
DeletedOK(p) ==
    /\ pc[p] \in {"clear", "delete"} =>
          \A a \in Address : Before(a, at[p]) => pte[p][a] = None \/ a = Special
    /\ pc[p] = "delete" => \A d \in Dir : d < at[p][1] => pde[p][d] = None

DeleteOK == \A p \in Process : DeletedOK(p)

(* The inductive invariant *)
Inv ==
    /\ MemTypeOK /\ AccountedOK /\ IdleOK /\ MappedOK /\ DeviceOK /\ FaultOK
    /\ ChildOK /\ BlankOK /\ PartOK /\ CopyOK /\ DeleteOK
    /\ RegionOK

-----------------------------------------------------------------------------
(* Constants and types *)

(* The APICs' page is the last one; what stands for none is no frame. *)
LEMMA Addresses ==
    /\ Special \in Address /\ Special[1] = Dirs /\ Dirs \in Dir /\ Supervisor(Special)
    /\ First \in Address /\ First[1] = 1 /\ First[2] = 1
    /\ \A a \in Page : a \in Address /\ a # Special
    /\ \A a \in Address : a[1] \in Dir /\ a[2] \in 1 .. Entries /\ (a \in Page <=> ~Supervisor(a))
    /\ None \notin Frame /\ Device \notin Frame /\ Device # None
    /\ Zero \in Value /\ Linked \in Value
  BY MemoryAssumption DEF Special, Address, Dir, First, Page, Supervisor

(* Addresses are pairs of numbers in order. *)
LEMMA Numbers ==
    /\ Dirs \in Nat /\ Entries \in Nat /\ 1 <= Dirs /\ 1 <= Entries
    /\ \A d \in Dir : d \in Nat /\ 1 <= d /\ d <= Dirs
    /\ \A d \in Nat : 1 <= d /\ d <= Dirs => d \in Dir
    /\ \A a \in Address :
          a[1] \in Nat /\ a[2] \in Nat /\ 1 <= a[1] /\ 1 <= a[2] /\ a[1] <= Dirs /\ a[2] <= Entries
    /\ \A a, b \in Address : a[1] = b[1] /\ a[2] = b[2] => a = b
    /\ \A d \in Dir, e \in Nat : 1 <= e /\ e <= Entries => <<d, e>> \in Address
  BY MemoryAssumption DEF Address, Dir

(* Where the loops can be *)
LEMMA Places ==
    /\ First \in Place
    /\ \A a \in Address : a \in Place /\ Following(a) \in Place
    /\ \A a \in Place : a[1] \in Dir => <<a[1] + 1, 1>> \in Place
    /\ \A a \in Place : a[1] \in Dir /\ a[2] <= Entries => a \in Address
    /\ \A a \in Place : a[1] \in Dir /\ a[2] <= Entries => <<a[1], a[2] + 1>> \in Place
  BY MemoryAssumption DEF Place, First, Address, Dir, Following

(* The types of what the variables hold *)
LEMMA Typed ==
    ASSUME MemTypeOK
    PROVE  /\ free \subseteq Frame
           /\ \A q \in Process :
                 /\ pd[q] \in Frame \cup {None} /\ frame[q] \in Frame \cup {None}
                 /\ child[q] \in Process /\ pc[q] \in Label
                 /\ at[q][1] \in Nat /\ at[q][2] \in Nat /\ 1 <= at[q][1] /\ 1 <= at[q][2]
                 /\ at[q][1] <= Dirs + 1 /\ at[q][2] <= Entries + 1
                 /\ at[q] = <<at[q][1], at[q][2]>>
                 /\ \A d \in Dir : pde[q][d] \in Frame \cup {None}
                 /\ \A a \in Address : pte[q][a] \in Frame \cup {Device, None}
           /\ \A f \in Frame : content[f] \in Value
  BY Numbers DEF MemTypeOK, Place

-----------------------------------------------------------------------------
(* Frames and their uses *)

(* A use has the frame it had, or no frame as before, or forgets one of    *)
(* the APICs' region.                                                      *)
Alike(u) ==
    \/ FrameOf(u)' = FrameOf(u)
    \/ FrameOf(u) \notin Frame /\ FrameOf(u)' \notin Frame
    \/ OfRegion(FrameOf(u)) /\ FrameOf(u)' \notin Frame

(* The four kinds of use *)
LEMMA UseCases ==
    /\ \A p \in Process : <<"pd", p>> \in Use /\ <<"fault", p>> \in Use
    /\ \A p \in Process, d \in Dir : <<"pt", p, d>> \in Use
    /\ \A p \in Process, a \in Address : <<"page", p, a>> \in Use
    /\ \A u \in Use :
          \/ \E p \in Process : u = <<"pd", p>> \/ u = <<"fault", p>>
          \/ \E p \in Process, d \in Dir : u = <<"pt", p, d>>
          \/ \E p \in Process, a \in Address : u = <<"page", p, a>>
  BY DEF Use

(* ... and what each of them has, *)
LEMMA FramesOf ==
    /\ \A p : FrameOf(<<"pd", p>>) = pd[p] /\ FrameOf(<<"fault", p>>) = frame[p]
    /\ \A p, d : FrameOf(<<"pt", p, d>>) = pde[p][d]
    /\ \A p, a : FrameOf(<<"page", p, a>>) = pte[p][a]
  BY DEF FrameOf

(* ... after a step too. *)
LEMMA NextFramesOf ==
    /\ \A p : FrameOf(<<"pd", p>>)' = pd'[p] /\ FrameOf(<<"fault", p>>)' = frame'[p]
    /\ \A p, d : FrameOf(<<"pt", p, d>>)' = pde'[p][d]
    /\ \A p, a : FrameOf(<<"page", p, a>>)' = pte'[p][a]
  BY DEF FrameOf

(* A step that moves no frame *)
LEMMA Kept ==
    ASSUME AccountedOK, free \subseteq Frame, free' = free, \A u \in Use : Alike(u)
    PROVE  AccountedOK' /\ NoneLost
  BY DEF AccountedOK, Alike, NoneLost, Used

(* alloc_frame() *)
LEMMA Taken ==
    ASSUME AccountedOK, NEW w \in Use, FrameOf(w) \notin Frame,
           NEW f \in free, free' = free \ {f}, free \subseteq Frame,
           FrameOf(w)' = f, \A u \in Use \ {w} : Alike(u)
    PROVE  AccountedOK' /\ NoneLost
  BY DEF AccountedOK, Alike, NoneLost, Used

(* dealloc_frame() *)
LEMMA Given ==
    ASSUME AccountedOK, NEW w \in Use, FrameOf(w) \in Frame, free \subseteq Frame,
           free' = free \cup {FrameOf(w)}, 
           FrameOf(w)' \notin Frame, \A u \in Use \ {w} : Alike(u)
    PROVE  AccountedOK' /\ NoneLost
  BY DEF AccountedOK, Alike, NoneLost, Used

(* map() of the frame of a fault *)
LEMMA Moved ==
    ASSUME AccountedOK, NEW v \in Use, NEW w \in Use, v # w, free \subseteq Frame, free' = free,
           FrameOf(v) \in Frame, FrameOf(w) \notin Frame \/ OfRegion(FrameOf(w)),
           FrameOf(v)' \notin Frame, FrameOf(w)' = FrameOf(v), \A u \in Use \ {v, w} : Alike(u)
    PROVE  AccountedOK' /\ NoneLost
  BY DEF AccountedOK, Alike, NoneLost, Used

(* Of two uses, at least one has another frame: read off AccountedOK. *)
LEMMA Distinct ==
    ASSUME AccountedOK
    PROVE  /\ \A p, q \in Process, a, b \in Address :
                 pte[p][a] \in Frame /\ pte[p][a] = pte[q][b] => p = q /\ a = b
           /\ \A p, q \in Process, a \in Address : frame[q] \in Frame => pte[p][a] # frame[q]
           /\ \A p, q \in Process : frame[p] \in Frame /\ frame[p] = frame[q] => p = q
           /\ \A p \in Process, a \in Address : pte[p][a] \notin free
           /\ \A p \in Process : frame[p] \notin free
           /\ \A p, q \in Process, a \in Address, d \in Dir :
                 pde[q][d] \in Frame => pte[p][a] # pde[q][d] /\ frame[p] # pde[q][d]
           /\ \A p, q \in Process, a \in Address :
                 pd[q] \in Frame => pte[p][a] # pd[q] /\ frame[p] # pd[q]
<1>1. \A u, v \in Use : FrameOf(u) \in Frame /\ FrameOf(u) = FrameOf(v) => u = v
  BY DEF AccountedOK
<1>2. \A u \in Use : FrameOf(u) \notin free
  BY DEF AccountedOK
<1>3. \A p, q \in Process, a, b \in Address :
          pte[p][a] \in Frame /\ pte[p][a] = pte[q][b] => p = q /\ a = b
  <2> SUFFICES ASSUME NEW p \in Process, NEW q \in Process,
                      NEW a \in Address, NEW b \in Address,
                      pte[p][a] \in Frame, pte[p][a] = pte[q][b]
               PROVE  p = q /\ a = b
    OBVIOUS
  <2>1. <<"page", p, a>> \in Use /\ <<"page", q, b>> \in Use
    BY UseCases
  <2>2. FrameOf(<<"page", p, a>>) \in Frame /\ FrameOf(<<"page", p, a>>) = FrameOf(<<"page", q, b>>)
    BY FramesOf
  <2>3. <<"page", p, a>> = <<"page", q, b>>
    BY ONLY <1>1, <2>1, <2>2
  <2>. QED  BY <2>3
<1>4. \A p, q \in Process, a \in Address : frame[q] \in Frame => pte[p][a] # frame[q]
  <2> SUFFICES ASSUME NEW p \in Process, NEW q \in Process, NEW a \in Address,
                      frame[q] \in Frame, pte[p][a] = frame[q]
               PROVE  FALSE
    OBVIOUS
  <2>1. <<"page", p, a>> \in Use /\ <<"fault", q>> \in Use
    BY UseCases
  <2>2. FrameOf(<<"page", p, a>>) \in Frame /\ FrameOf(<<"page", p, a>>) = FrameOf(<<"fault", q>>)
    BY FramesOf
  <2>3. <<"page", p, a>> = <<"fault", q>>
    BY ONLY <1>1, <2>1, <2>2
  <2>. QED  BY <2>3
<1>5. \A p, q \in Process : frame[p] \in Frame /\ frame[p] = frame[q] => p = q
  <2> SUFFICES ASSUME NEW p \in Process, NEW q \in Process,
                      frame[p] \in Frame, frame[p] = frame[q]
               PROVE  p = q
    OBVIOUS
  <2>1. <<"fault", p>> \in Use /\ <<"fault", q>> \in Use
    BY UseCases
  <2>2. FrameOf(<<"fault", p>>) \in Frame /\ FrameOf(<<"fault", p>>) = FrameOf(<<"fault", q>>)
    BY FramesOf
  <2>3. <<"fault", p>> = <<"fault", q>>
    BY ONLY <1>1, <2>1, <2>2
  <2>. QED  BY <2>3
<1>6. /\ \A p \in Process, a \in Address : pte[p][a] \notin free
      /\ \A p \in Process : frame[p] \notin free
  <2>1. \A p \in Process, a \in Address : pte[p][a] \notin free
    <3> SUFFICES ASSUME NEW p \in Process, NEW a \in Address PROVE pte[p][a] \notin free
      OBVIOUS
    <3>1. <<"page", p, a>> \in Use
      BY UseCases
    <3>. QED  BY <1>2, <3>1, FramesOf
  <2>2. \A p \in Process : frame[p] \notin free
    BY <1>2, UseCases, FramesOf
  <2>. QED  BY <2>1, <2>2
<1>7. \A p, q \in Process, a \in Address, d \in Dir :
          pde[q][d] \in Frame => pte[p][a] # pde[q][d] /\ frame[p] # pde[q][d]
  <2> SUFFICES ASSUME NEW p \in Process, NEW q \in Process, NEW a \in Address, NEW d \in Dir,
                      pde[q][d] \in Frame, pte[p][a] = pde[q][d] \/ frame[p] = pde[q][d]
               PROVE  FALSE
    OBVIOUS
  <2>1. <<"page", p, a>> \in Use /\ <<"fault", p>> \in Use /\ <<"pt", q, d>> \in Use
    BY UseCases
  <2>2. \/ FrameOf(<<"pt", q, d>>) \in Frame /\ FrameOf(<<"pt", q, d>>) = FrameOf(<<"page", p, a>>)
        \/ FrameOf(<<"pt", q, d>>) \in Frame /\ FrameOf(<<"pt", q, d>>) = FrameOf(<<"fault", p>>)
    BY FramesOf
  <2>3. <<"page", p, a>> = <<"pt", q, d>> \/ <<"fault", p>> = <<"pt", q, d>>
    BY ONLY <1>1, <2>1, <2>2
  <2>. QED  BY <2>3
<1>8. \A p, q \in Process, a \in Address :
          pd[q] \in Frame => pte[p][a] # pd[q] /\ frame[p] # pd[q]
  <2> SUFFICES ASSUME NEW p \in Process, NEW q \in Process, NEW a \in Address,
                      pd[q] \in Frame, pte[p][a] = pd[q] \/ frame[p] = pd[q]
               PROVE  FALSE
    OBVIOUS
  <2>1. <<"page", p, a>> \in Use /\ <<"fault", p>> \in Use /\ <<"pd", q>> \in Use
    BY UseCases
  <2>2. \/ FrameOf(<<"pd", q>>) \in Frame /\ FrameOf(<<"pd", q>>) = FrameOf(<<"page", p, a>>)
        \/ FrameOf(<<"pd", q>>) \in Frame /\ FrameOf(<<"pd", q>>) = FrameOf(<<"fault", p>>)
    BY FramesOf
  <2>3. <<"page", p, a>> = <<"pd", q>> \/ <<"fault", p>> = <<"pd", q>>
    BY ONLY <1>1, <2>1, <2>2
  <2>. QED  BY <2>3
<1>. QED  BY <1>3, <1>4, <1>5, <1>6, <1>7, <1>8

(* What UsedOnce counts is what AccountedOK says. *)
LEMMA AccountedCounts ==
    ASSUME AccountedOK, free \subseteq Frame PROVE UsedOnce
<1> SUFFICES ASSUME NEW f \in Frame
             PROVE  Cardinality({u \in Use : FrameOf(u) = f}) <= IF f \in free THEN 0 ELSE 1
  BY DEF UsedOnce
<1>1. CASE f \in free
  <2>1. {u \in Use : FrameOf(u) = f} = {}
    BY <1>1 DEF AccountedOK
  <2>. QED  BY <1>1, <2>1, FS_EmptySet
<1>2. CASE f \notin free
  <2>1. CASE {u \in Use : FrameOf(u) = f} = {}
    BY <1>2, <2>1, FS_EmptySet
  <2>2. CASE {u \in Use : FrameOf(u) = f} # {}
    <3>1. PICK w \in Use : FrameOf(w) = f
      BY <2>2
    <3>2. {u \in Use : FrameOf(u) = f} = {w}
      BY <3>1 DEF AccountedOK
    <3>. QED  BY <1>2, <3>2, FS_Singleton
  <2>. QED  BY <2>1, <2>2
<1>. QED  BY <1>1, <1>2

-----------------------------------------------------------------------------
(* What programs read *)

(* A step that leaves what programs read alone *)
Untouched ==
    \A q \in Process, b \in Page : Shown(q) => Read(q, b)' = Read(q, b)

(* Changing a frame nobody has mapped changes nothing to read. *)
LEMMA ReadsKept ==
    ASSUME Inv, NEW g, \A x \in Frame \ {g} : content'[x] = content[x],
           \A q \in Process, b \in Page : Shown(q) => pte'[q][b] = pte[q][b] /\ pte[q][b] # g
    PROVE  Untouched
<1> SUFFICES ASSUME NEW q \in Process, NEW b \in Page, Shown(q)
             PROVE  Read(q, b)' = Read(q, b)
  BY DEF Untouched
<1>1. pte'[q][b] = pte[q][b] /\ pte[q][b] # g
  OBVIOUS
<1>2. pte[q][b] # None => pte[q][b] \in Frame
  BY Addresses, Typed DEF Inv, DeviceOK
<1>. QED  BY <1>1, <1>2 DEF Read

(* What is not touched stays copied. *)
LEMMA CopyKept ==
    ASSUME CopyOK, NEW q \in Process, pc[q] = "fork", NEW b \in Page,
           child'[q] = child[q], at'[q] = at[q],
           pte'[q][b] = pte[q][b], pte'[child[q]][b] = pte[child[q]][b],
           pte[q][b] # None => content'[pte[q][b]] = content[pte[q][b]],
           pte[child[q]][b] # None => content'[pte[child[q]][b]] = content[pte[child[q]][b]]
    PROVE  CopiedAt(q, b)'
  BY DEF CopyOK, CopiedAt, Read

(* The loop of fork() goes on to the next entry. *)
LEMMA Follows ==
    ASSUME NEW a \in Address, NEW b \in Address
    PROVE  /\ Before(b, Following(a)) <=> Before(b, a) \/ b = a
           /\ Following(a)[2] <= Entries
  BY Numbers DEF Before, Following

(* alloc_frame() returns a free frame. *)
LEMMA Chosen ==
    ASSUME NEW f \in Choice(free), free \subseteq Frame PROVE f \in free
  BY MemoryAssumption

-----------------------------------------------------------------------------
(* The steps *)

(* vmm_pageFault takes a frame. *)
LEMMA FaultInv ==
    ASSUME Inv, NEW p \in Process, NEW a \in Address, Fault(p, a)
    PROVE  Inv' /\ NoneLost /\ Untouched
<1>. USE Addresses, Typed
<1>1. PICK f \in free :
          /\ free' = free \ {f}
          /\ pc[p] = "user" /\ (a \in Page => pte[p][a] = None)
          /\ \A g \in Frame : content'[g] = IF g = f THEN Zero ELSE content[g]
          /\ \A q \in Process : frame'[q] = IF q = p THEN f ELSE frame[q]
          /\ \A q \in Process : at'[q] = IF q = p THEN a ELSE at[q]
          /\ \A q \in Process : pc'[q] = IF q = p THEN "map" ELSE pc[q]
          /\ pd' = pd /\ pde' = pde /\ pte' = pte /\ child' = child
  BY Chosen, Numbers DEF Inv, MemTypeOK, Fault, Faults, Goto, AllocFrame, tables
<1>2. MemTypeOK'
  <2>1. free' \subseteq Frame
    BY <1>1 DEF Inv, MemTypeOK, Fault, Goto, AllocFrame
  <2>2. content' \in [Frame -> Value]
    BY <1>1 DEF Inv, MemTypeOK, Fault, Goto, AllocFrame
  <2>3. pc' \in [Process -> Label]
    BY <1>1 DEF Inv, MemTypeOK, Fault, Goto, AllocFrame, Label
  <2>4. at' \in [Process -> Place]
    BY Places DEF Inv, MemTypeOK, Fault
  <2>5. frame' \in [Process -> Frame \cup {None}]
    BY <1>1 DEF Inv, MemTypeOK, Fault, Goto, AllocFrame
  <2>. QED  BY <1>1, <2>1, <2>2, <2>3, <2>4, <2>5 DEF Inv, MemTypeOK
<1>3. AccountedOK' /\ NoneLost
  <2>1. <<"fault", p>> \in Use
    BY <1>1, UseCases
  <2>2. FrameOf(<<"fault", p>>) \notin Frame
    BY <1>1, FramesOf DEF Inv, FaultOK
  <2>3. FrameOf(<<"fault", p>>)' = f
    BY <1>1, NextFramesOf DEF Inv
  <2>4. \A u \in Use \ {<<"fault", p>>} : Alike(u)
    BY <1>1, UseCases, FramesOf, NextFramesOf DEF Inv, Alike
  <2>. QED  BY <1>1, <2>1, <2>2, <2>3, <2>4, Taken DEF Inv
<1>4. IdleOK'
  BY <1>1, Numbers DEF Inv, IdleOK
<1>5. MappedOK'
  BY <1>1, Numbers DEF Inv, MappedOK
<1>6. DeviceOK'
  BY <1>1, Numbers DEF Inv, DeviceOK
<1>7. FaultOK'
  BY <1>1, Distinct, Numbers DEF Inv, FaultOK, Page
<1>8. ChildOK'
  BY <1>1, Numbers DEF Inv, ChildOK, Forking
<1>9. BlankOK'
  BY <1>1, Numbers DEF Inv, BlankOK, ChildOK, Forking
<1>10. PartOK'
  BY <1>1, Numbers DEF Inv, PartOK, ChildOK, Forking, BlankOK
<1>11. CopyOK'
  <2> SUFFICES ASSUME NEW q \in Process, pc'[q] = "fork", NEW b \in Page
               PROVE  CopiedAt(q, b)'
    BY DEF CopyOK
  <2>1. /\ q # p /\ pc[q] = "fork" /\ child'[q] = child[q] /\ at'[q] = at[q] /\ child[q] # p
        /\ child[q] \in Process
    BY <1>1 DEF Inv, ChildOK
  <2>2. pte'[q][b] = pte[q][b] /\ pte'[child[q]][b] = pte[child[q]][b]
    BY <1>1, <2>1 DEF Inv
  <2>3. /\ pte[q][b] # None => content'[pte[q][b]] = content[pte[q][b]]
        /\ pte[child[q]][b] # None => content'[pte[child[q]][b]] = content[pte[child[q]][b]]
    BY <1>1, <2>1, Distinct DEF Inv, DeviceOK
  <2>. QED  BY <2>1, <2>2, <2>3, CopyKept DEF Inv
<1>12. DeleteOK'
  BY <1>1, Numbers DEF Inv, DeleteOK, DeletedOK, Before
<1>13. RegionOK'
  BY <1>1, Numbers DEF Inv, RegionOK, Shown, Page, PartOK
<1>14. Untouched
  <2>1. \A x \in Frame \ {f} : content'[x] = content[x]
    BY <1>1
  <2>2. \A q \in Process, b \in Page : Shown(q) => pte'[q][b] = pte[q][b]
    BY <1>1 DEF Shown
  <2>3. \A q \in Process, b \in Page : pte[q][b] # f
    BY <1>1, Distinct DEF Inv
  <2>. QED  BY ONLY Inv, <2>1, <2>2, <2>3, ReadsKept
<1>. QED  BY <1>2, <1>3, <1>4, <1>5, <1>6, <1>7, <1>8, <1>9, <1>10, <1>11, <1>12, <1>13,
    <1>14 DEF Inv

(* A program stores into a page of its own: nobody else reads it there. *)
LEMMA StoreInv ==
    ASSUME Inv, NEW p \in Process, NEW a \in Address, NEW v \in Value, Store(p, a, v)
    PROVE  /\ Inv' /\ NoneLost
           /\ (\A q \in Process, b \in Page : Read(q, b)' =
                 IF q = p /\ b = a THEN v ELSE Read(q, b))
<1>. USE Addresses, Typed
<1>1. /\ pc[p] = "user" /\ pte[p][a] \in Frame
      /\ \A g \in Frame : content'[g] = IF g = pte[p][a] THEN v ELSE content[g]
      /\ free' = free /\ pd' = pd /\ pde' = pde /\ pte' = pte /\ pc' = pc /\ at' = at
      /\ frame' = frame /\ child' = child
  BY DEF Inv, MemTypeOK, Store, DeviceOK, tables, locals
<1>2. MemTypeOK'
  <2>1. content' \in [Frame -> Value]
    BY <1>1 DEF Inv, MemTypeOK, Store, tables
  <2>. QED  BY <1>1, <2>1 DEF Inv, MemTypeOK
<1>3. AccountedOK' /\ NoneLost
  BY <1>1, Kept DEF Inv, Alike, FrameOf
<1>4. IdleOK'
  BY <1>1, Numbers DEF Inv, IdleOK
<1>5. MappedOK'
  BY <1>1, Numbers DEF Inv, MappedOK
<1>6. DeviceOK'
  BY <1>1, Numbers DEF Inv, DeviceOK
<1>7. FaultOK'
  BY <1>1, Distinct, Numbers DEF Inv, FaultOK, Page
<1>8. ChildOK'
  BY <1>1, Numbers DEF Inv, ChildOK
<1>9. BlankOK'
  BY <1>1, Numbers DEF Inv, BlankOK, ChildOK
<1>10. PartOK'
  BY <1>1, Numbers DEF Inv, PartOK, ChildOK, Forking, BlankOK
<1>11. CopyOK'
  <2> SUFFICES ASSUME NEW q \in Process, pc'[q] = "fork", NEW b \in Page
               PROVE  CopiedAt(q, b)'
    BY DEF CopyOK
  <2>1. /\ q # p /\ pc[q] = "fork" /\ child'[q] = child[q] /\ at'[q] = at[q] /\ child[q] # p
        /\ child[q] \in Process
    BY <1>1 DEF Inv, ChildOK
  <2>2. pte'[q][b] = pte[q][b] /\ pte'[child[q]][b] = pte[child[q]][b]
    BY <1>1, <2>1 DEF Inv
  <2>3. /\ pte[q][b] # None => content'[pte[q][b]] = content[pte[q][b]]
        /\ pte[child[q]][b] # None => content'[pte[child[q]][b]] = content[pte[child[q]][b]]
    BY <1>1, <2>1, Distinct DEF Inv, DeviceOK
  <2>. QED  BY <2>1, <2>2, <2>3, CopyKept DEF Inv
<1>12. DeleteOK'
  BY <1>1, Numbers DEF Inv, DeleteOK, DeletedOK, Before
<1>13. RegionOK'
  BY <1>1, Numbers DEF Inv, RegionOK, Shown, Page, PartOK
<1>14. (\A q \in Process, b \in Page : Read(q, b)' = IF q = p /\ b = a THEN v ELSE Read(q, b))
  <2> SUFFICES ASSUME NEW q \in Process, NEW b \in Page
               PROVE  Read(q, b)' = IF q = p /\ b = a THEN v ELSE Read(q, b)
    OBVIOUS
  <2>1. CASE q = p /\ b = a
    BY <1>1, <2>1 DEF Read
  <2>2. CASE ~(q = p /\ b = a)
    <3>1. pte[q][b] # pte[p][a]
      BY <1>1, <2>2, Distinct DEF Inv
    <3>2. pte[q][b] = None \/ pte[q][b] \in Frame
      BY DEF Inv, DeviceOK
    <3>. QED  BY <1>1, <2>2, <3>1, <3>2 DEF Read
  <2>. QED  BY <2>1, <2>2
<1>. QED  BY <1>2, <1>3, <1>4, <1>5, <1>6, <1>7, <1>8, <1>9, <1>10, <1>11, <1>12, <1>13,
    <1>14 DEF Inv

(* map() takes a frame for a page table. *)
LEMMA MapTableInv ==
    ASSUME Inv, NEW p \in Process, MapTable(p)
    PROVE  Inv' /\ NoneLost /\ Untouched
<1>. USE Addresses, Typed
<1>1. pc[p] = "map" /\ pde[p][at[p][1]] = None /\ at[p] \in Address /\ at[p][1] \in Dir
  BY DEF Inv, FaultOK, MapTable
<1>2. PICK f \in free :
          /\ free' = free \ {f}
          /\ content' = [content EXCEPT ![f] = Zero]
          /\ pde' = [pde EXCEPT ![p][at[p][1]] = f]
          /\ pd' = pd /\ pte' = pte /\ pc' = pc /\ at' = at /\ frame' = frame /\ child' = child
  BY <1>1, Chosen DEF Inv, MapTable, AllocFrame, tables, locals
<1>3. /\ pc[p] = "map" /\ pde[p][at[p][1]] = None
      /\ \A g \in Frame : content'[g] = IF g = f THEN Zero ELSE content[g]
      /\ \A q \in Process, d \in Dir : pde'[q][d] = IF q = p /\ d = at[p][1] THEN f ELSE pde[q][d]
      /\ pd' = pd /\ pte' = pte /\ pc' = pc /\ at' = at /\ frame' = frame /\ child' = child
  BY <1>1, <1>2 DEF Inv, MemTypeOK
<1>4. MemTypeOK'
  <2>1. free' \subseteq Frame
    BY <1>1, <1>2, <1>3 DEF Inv, MemTypeOK, MapTable, AllocFrame
  <2>2. content' \in [Frame -> Value]
    BY <1>1, <1>2, <1>3 DEF Inv, MemTypeOK, MapTable, AllocFrame
  <2>3. pde' \in [Process -> [Dir -> Frame \cup {None}]]
    BY <1>1, <1>2, <1>3 DEF Inv, MemTypeOK, MapTable, AllocFrame
  <2>. QED  BY <1>1, <1>2, <1>3, <2>1, <2>2, <2>3 DEF Inv, MemTypeOK
<1>5. AccountedOK' /\ NoneLost
  <2>1. <<"pt", p, at[p][1]>> \in Use
    BY <1>1, <1>2, <1>3, UseCases
  <2>2. FrameOf(<<"pt", p, at[p][1]>>) \notin Frame
    BY <1>1, <1>2, <1>3, FramesOf DEF Inv, FaultOK
  <2>3. FrameOf(<<"pt", p, at[p][1]>>)' = f
    BY <1>1, <1>2, <1>3, NextFramesOf DEF Inv
  <2>4. \A u \in Use \ {<<"pt", p, at[p][1]>>} : Alike(u)
    BY <1>1, <1>2, <1>3, UseCases, FramesOf, NextFramesOf DEF Inv, Alike
  <2>. QED  BY <1>1, <1>2, <1>3, <2>1, <2>2, <2>3, <2>4, Taken DEF Inv
<1>6. IdleOK'
  BY <1>1, <1>2, <1>3, Numbers DEF Inv, IdleOK
<1>7. MappedOK'
  BY <1>1, <1>2, <1>3, Numbers DEF Inv, MappedOK
<1>8. DeviceOK'
  BY <1>1, <1>2, <1>3, Numbers DEF Inv, DeviceOK
<1>9. FaultOK'
  BY <1>1, <1>2, <1>3, Distinct, Numbers DEF Inv, FaultOK, Page
<1>10. ChildOK'
  BY <1>1, <1>2, <1>3, Numbers DEF Inv, ChildOK
<1>11. BlankOK'
  BY <1>1, <1>2, <1>3, Numbers DEF Inv, BlankOK, ChildOK
<1>12. PartOK'
  BY <1>1, <1>2, <1>3, Numbers DEF Inv, PartOK, ChildOK, Forking, BlankOK
<1>13. CopyOK'
  <2> SUFFICES ASSUME NEW q \in Process, pc'[q] = "fork", NEW b \in Page
               PROVE  CopiedAt(q, b)'
    BY DEF CopyOK
  <2>1. pc[q] = "fork" /\ child'[q] = child[q] /\ at'[q] = at[q] /\ child[q] \in Process
    BY <1>1, <1>2, <1>3 DEF Inv
  <2>2. pte'[q][b] = pte[q][b] /\ pte'[child[q]][b] = pte[child[q]][b]
    BY <1>1, <1>2, <1>3
  <2>3. /\ pte[q][b] # None => content'[pte[q][b]] = content[pte[q][b]]
        /\ pte[child[q]][b] # None => content'[pte[child[q]][b]] = content[pte[child[q]][b]]
    BY <1>1, <1>2, <1>3, <2>1, Distinct DEF Inv
  <2>. QED  BY <2>1, <2>2, <2>3, CopyKept DEF Inv
<1>14. DeleteOK'
  BY <1>1, <1>2, <1>3, Numbers DEF Inv, DeleteOK, DeletedOK, Before
<1>15. RegionOK'
  BY <1>1, <1>2, <1>3, Numbers DEF Inv, RegionOK, Shown, Page, PartOK
<1>16. Untouched
  <2>1. \A x \in Frame \ {f} : content'[x] = content[x]
    BY <1>1, <1>2, <1>3
  <2>2. \A q \in Process, b \in Page : Shown(q) => pte'[q][b] = pte[q][b]
    BY <1>1, <1>2
  <2>3. \A q \in Process, b \in Page : pte[q][b] # f
    BY <1>1, <1>2, <1>3, Distinct DEF Inv
  <2>. QED  BY ONLY Inv, <2>1, <2>2, <2>3, ReadsKept
<1>. QED  BY <1>4, <1>5, <1>6, <1>7, <1>8, <1>9, <1>10, <1>11, <1>12, <1>13, <1>14, <1>15,
    <1>16 DEF Inv

(* map() maps the frame of the fault. *)
LEMMA MapInv ==
    ASSUME Inv, NEW p \in Process, Map(p)
    PROVE  Inv' /\ NoneLost /\ Untouched
<1>. USE Addresses, Typed
<1>1. /\ at[p] \in Address /\ (at[p] \in Page => pte[p][at[p]] = None)
      /\ frame[p] \in Frame /\ frame[p] # Device /\ frame[p] # None
  BY DEF Inv, FaultOK, Map
<1>2. /\ pc[p] = "map" /\ pde[p][at[p][1]] # None
      /\ \A q \in Process, b \in Address : pte'[q][b] =
            IF q = p /\ b = at[p] THEN frame[p] ELSE pte[q][b]
      /\ \A q \in Process : frame'[q] = IF q = p THEN None ELSE frame[q]
      /\ \A q \in Process : pc'[q] = IF q = p THEN "user" ELSE pc[q]
      /\ free' = free /\ content' = content /\ pd' = pd /\ pde' = pde /\ at' = at /\ child' = child
  BY <1>1 DEF Inv, MemTypeOK, Map, Goto
<1>3. MemTypeOK'
  <2>1. pte' \in [Process -> [Address -> Frame \cup {Device, None}]]
    BY <1>1, <1>2 DEF Inv, MemTypeOK, Map
  <2>2. pc' \in [Process -> Label]
    BY <1>1, <1>2 DEF Inv, MemTypeOK, Map, Goto, Label
  <2>3. frame' \in [Process -> Frame \cup {None}]
    BY <1>1, <1>2 DEF Inv, MemTypeOK, Map
  <2>. QED  BY <1>1, <1>2, <2>1, <2>2, <2>3 DEF Inv, MemTypeOK
<1>4. AccountedOK' /\ NoneLost
  <2>1. <<"page", p, at[p]>> \in Use /\ <<"fault", p>> \in Use
    BY <1>1, <1>2, UseCases
  <2>2. /\ FrameOf(<<"fault", p>>) \in Frame
        /\ \/ FrameOf(<<"page", p, at[p]>>) \notin Frame
           \/ OfRegion(FrameOf(<<"page", p, at[p]>>))
    BY <1>1, <1>2, FramesOf DEF OfRegion
  <2>3. /\ FrameOf(<<"fault", p>>)' \notin Frame
        /\ FrameOf(<<"page", p, at[p]>>)' = FrameOf(<<"fault", p>>)
    BY <1>1, <1>2, FramesOf, NextFramesOf DEF Inv
  <2>4. \A u \in Use \ {<<"fault", p>>, <<"page", p, at[p]>>} : Alike(u)
    BY <1>1, <1>2, UseCases, FramesOf, NextFramesOf DEF Inv, Alike
  <2>. QED  BY <1>1, <1>2, <2>1, <2>2, <2>3, <2>4, Moved DEF Inv
<1>5. IdleOK'
  BY <1>1, <1>2, Numbers DEF Inv, IdleOK
<1>6. MappedOK'
  BY <1>1, <1>2, Numbers DEF Inv, MappedOK
<1>7. DeviceOK'
  BY <1>1, <1>2 DEF Inv, DeviceOK
<1>8. FaultOK'
  BY <1>1, <1>2, Distinct, Numbers DEF Inv, FaultOK, Page
<1>9. ChildOK'
  BY <1>1, <1>2, Numbers DEF Inv, ChildOK, Forking
<1>10. BlankOK'
  BY <1>1, <1>2, Numbers DEF Inv, BlankOK, ChildOK
<1>11. PartOK'
  BY <1>1, <1>2, Numbers DEF Inv, PartOK, ChildOK, Forking, BlankOK
<1>12. CopyOK'
  <2> SUFFICES ASSUME NEW q \in Process, pc'[q] = "fork", NEW b \in Page
               PROVE  CopiedAt(q, b)'
    BY DEF CopyOK
  <2>1. /\ q # p /\ pc[q] = "fork" /\ child'[q] = child[q] /\ at'[q] = at[q] /\ child[q] # p
        /\ child[q] \in Process
    BY <1>1, <1>2 DEF Inv, ChildOK
  <2>2. pte'[q][b] = pte[q][b] /\ pte'[child[q]][b] = pte[child[q]][b]
    BY <1>1, <1>2, <2>1
  <2>3. /\ pte[q][b] # None => content'[pte[q][b]] = content[pte[q][b]]
        /\ pte[child[q]][b] # None => content'[pte[child[q]][b]] = content[pte[child[q]][b]]
    BY <1>1, <1>2, <2>1, Distinct
  <2>. QED  BY <2>1, <2>2, <2>3, CopyKept DEF Inv
<1>13. DeleteOK'
  BY <1>1, <1>2, Numbers DEF Inv, DeleteOK, DeletedOK, Before
<1>14. RegionOK'
  BY <1>1, <1>2 DEF Inv, RegionOK, Shown
<1>15. Untouched
  <2> SUFFICES ASSUME NEW q \in Process, NEW b \in Page
               PROVE  Read(q, b)' = Read(q, b)
    BY DEF Untouched
  <2>1. content[frame[p]] = Zero
    BY <1>2 DEF Inv, FaultOK
  <2>. QED  BY <1>1, <1>2, <2>1 DEF Read
<1>. QED  BY <1>3, <1>4, <1>5, <1>6, <1>7, <1>8, <1>9, <1>10, <1>11, <1>12, <1>13, <1>14,
    <1>15 DEF Inv

(* make_pd() takes a frame for the child's directory. *)
LEMMA ForkInv ==
    ASSUME Inv, NEW p \in Process, NEW c \in Process, Fork(p, c)
    PROVE  Inv' /\ NoneLost /\ Untouched
<1>. USE Addresses, Typed
<1>1. PICK f \in free :
          /\ free' = free \ {f}
          /\ pc[p] = "user" /\ pc[c] = "none"
          /\ \A g \in Frame : content'[g] = IF g = f THEN Zero ELSE content[g]
          /\ \A q \in Process : pd'[q] = IF q = c THEN f ELSE pd[q]
          /\ \A q \in Process : pc'[q] = CASE q = c -> "new" [] q = p -> "make_pd" [] OTHER -> pc[q]
          /\ \A q \in Process : child'[q] = IF q = p THEN c ELSE child[q]
          /\ pde' = pde /\ pte' = pte /\ at' = at /\ frame' = frame
  BY Chosen, Numbers DEF Inv, MemTypeOK, Fork, AllocFrame
<1>2. MemTypeOK'
  <2>1. free' \subseteq Frame
    BY <1>1 DEF Inv, MemTypeOK, Fork
  <2>2. content' \in [Frame -> Value]
    BY <1>1 DEF Inv, MemTypeOK, Fork, AllocFrame
  <2>3. pd' \in [Process -> Frame \cup {None}]
    BY <1>1 DEF Inv, MemTypeOK, Fork
  <2>4. pc' \in [Process -> Label]
    BY <1>1 DEF Inv, MemTypeOK, Fork, Label
  <2>5. child' \in [Process -> Process]
    BY <1>1 DEF Inv, MemTypeOK, Fork
  <2>. QED  BY <1>1, <2>1, <2>2, <2>3, <2>4, <2>5 DEF Inv, MemTypeOK
<1>3. AccountedOK' /\ NoneLost
  <2>1. <<"pd", c>> \in Use
    BY <1>1, UseCases
  <2>2. FrameOf(<<"pd", c>>) \notin Frame
    BY <1>1, FramesOf DEF Inv, FaultOK, IdleOK
  <2>3. FrameOf(<<"pd", c>>)' = f
    BY <1>1, NextFramesOf DEF Inv
  <2>4. \A u \in Use \ {<<"pd", c>>} : Alike(u)
    BY <1>1, UseCases, FramesOf, NextFramesOf DEF Inv, Alike
  <2>. QED  BY <1>1, <2>1, <2>2, <2>3, <2>4, Taken DEF Inv
<1>4. IdleOK'
  BY <1>1, Numbers DEF Inv, IdleOK
<1>5. MappedOK'
  BY <1>1, Numbers DEF Inv, MappedOK
<1>6. DeviceOK'
  BY <1>1, Numbers DEF Inv, DeviceOK
<1>7. FaultOK'
  BY <1>1, Distinct, Numbers DEF Inv, FaultOK, Page
<1>8. ChildOK'
  BY <1>1, Numbers DEF Inv, ChildOK, Forking
<1>9. BlankOK'
  BY <1>1, Numbers DEF Inv, BlankOK, ChildOK, IdleOK
<1>10. PartOK'
  BY <1>1, Numbers DEF Inv, PartOK, ChildOK, Forking, BlankOK
<1>11. CopyOK'
  <2> SUFFICES ASSUME NEW q \in Process, pc'[q] = "fork", NEW b \in Page
               PROVE  CopiedAt(q, b)'
    BY DEF CopyOK
  <2>1. /\ q # p /\ pc[q] = "fork" /\ child'[q] = child[q] /\ at'[q] = at[q] /\ child[q] # p
        /\ child[q] \in Process
    BY <1>1 DEF Inv, ChildOK
  <2>2. pte'[q][b] = pte[q][b] /\ pte'[child[q]][b] = pte[child[q]][b]
    BY <1>1, <2>1 DEF Inv
  <2>3. /\ pte[q][b] # None => content'[pte[q][b]] = content[pte[q][b]]
        /\ pte[child[q]][b] # None => content'[pte[child[q]][b]] = content[pte[child[q]][b]]
    BY <1>1, <2>1, Distinct DEF Inv, DeviceOK
  <2>. QED  BY <2>1, <2>2, <2>3, CopyKept DEF Inv
<1>12. DeleteOK'
  BY <1>1, Numbers DEF Inv, DeleteOK, DeletedOK, Before
<1>13. RegionOK'
  BY <1>1, Numbers DEF Inv, RegionOK, Shown, Page, PartOK
<1>14. Untouched
  <2>1. \A x \in Frame \ {f} : content'[x] = content[x]
    BY <1>1
  <2>2. \A q \in Process, b \in Page : Shown(q) => pte'[q][b] = pte[q][b]
    BY <1>1 DEF Shown
  <2>3. \A q \in Process, b \in Page : pte[q][b] # f
    BY <1>1, Distinct DEF Inv
  <2>. QED  BY ONLY Inv, <2>1, <2>2, <2>3, ReadsKept
<1>. QED  BY <1>2, <1>3, <1>4, <1>5, <1>6, <1>7, <1>8, <1>9, <1>10, <1>11, <1>12, <1>13,
    <1>14 DEF Inv

(* make_pd() maps the APICs for the child. *)
LEMMA MakePdInv ==
    ASSUME Inv, NEW p \in Process, MakePd(p)
    PROVE  Inv' /\ NoneLost /\ Untouched
<1>. USE Addresses, Typed
<1>1. /\ pc[p] = "make_pd" /\ child[p] \in Process /\ child[p] # p /\ pc[child[p]] = "new"
      /\ \A d \in Dir : pde[child[p]][d] = None
      /\ \A a \in Address : pte[child[p]][a] = None
  BY DEF Inv, ChildOK, BlankOK, Forking, MakePd
<1>2. PICK f \in free :
          /\ free' = free \ {f}
          /\ content' = [content EXCEPT ![f] = Zero]
          /\ pde' = [pde EXCEPT ![child[p]][Dirs] = f]
          /\ pte' = [pte EXCEPT ![child[p]][Special] = Device]
          /\ at' = [at EXCEPT ![p] = First]
          /\ pc' = [pc EXCEPT ![p] = "fork"]
          /\ pd' = pd /\ frame' = frame /\ child' = child
  BY <1>1, Chosen DEF Inv, MakePd, AllocFrame, Goto
<1>3. /\ pc[p] = "make_pd"
      /\ \A g \in Frame : content'[g] = IF g = f THEN Zero ELSE content[g]
      /\ \A q \in Process, d \in Dir : pde'[q][d] =
            IF q = child[p] /\ d = Dirs THEN f ELSE pde[q][d]
      /\ \A q \in Process, b \in Address : pte'[q][b] =
            IF q = child[p] /\ b = Special THEN Device ELSE pte[q][b]
      /\ \A q \in Process : at'[q] = IF q = p THEN First ELSE at[q]
      /\ \A q \in Process : pc'[q] = IF q = p THEN "fork" ELSE pc[q]
      /\ pd' = pd /\ frame' = frame /\ child' = child
  BY <1>1, <1>2 DEF Inv, MemTypeOK
<1>4. MemTypeOK'
  <2>1. free' \subseteq Frame
    BY <1>1, <1>2, <1>3 DEF Inv, MemTypeOK, MakePd, Goto
  <2>2. content' \in [Frame -> Value]
    BY <1>1, <1>2, <1>3 DEF Inv, MemTypeOK, MakePd, Goto
  <2>3. pde' \in [Process -> [Dir -> Frame \cup {None}]]
    BY <1>1, <1>2, <1>3 DEF Inv, MemTypeOK, MakePd, Goto
  <2>4. pte' \in [Process -> [Address -> Frame \cup {Device, None}]]
    BY <1>1, <1>2, <1>3 DEF Inv, MemTypeOK, MakePd, Goto
  <2>5. pc' \in [Process -> Label]
    BY <1>1, <1>2, <1>3 DEF Inv, MemTypeOK, MakePd, Goto, Label
  <2>6. at' \in [Process -> Place]
    BY Places, <1>1, <1>2, <1>3 DEF Inv, MemTypeOK, MakePd, Goto
  <2>. QED  BY <1>1, <1>2, <1>3, <2>1, <2>2, <2>3, <2>4, <2>5, <2>6 DEF Inv, MemTypeOK
<1>5. AccountedOK' /\ NoneLost
  <2>1. <<"pt", child[p], Dirs>> \in Use
    BY <1>1, <1>2, <1>3, UseCases
  <2>2. FrameOf(<<"pt", child[p], Dirs>>) \notin Frame
    BY <1>1, <1>2, <1>3, FramesOf DEF Inv, FaultOK
  <2>3. FrameOf(<<"pt", child[p], Dirs>>)' = f
    BY <1>1, <1>2, <1>3, NextFramesOf DEF Inv
  <2>4. \A u \in Use \ {<<"pt", child[p], Dirs>>} : Alike(u)
    BY <1>1, <1>2, <1>3, UseCases, FramesOf, NextFramesOf DEF Inv, Alike, FaultOK
  <2>. QED  BY <1>1, <1>2, <1>3, <2>1, <2>2, <2>3, <2>4, Taken DEF Inv
<1>6. IdleOK'
  BY <1>1, <1>2, <1>3, Numbers DEF Inv, IdleOK
<1>7. MappedOK'
  BY <1>1, <1>2, <1>3, Numbers DEF Inv, MappedOK
<1>8. DeviceOK'
  BY <1>1, <1>2, <1>3, Numbers DEF Inv, DeviceOK
<1>9. FaultOK'
  BY <1>1, <1>2, <1>3, Distinct, Numbers DEF Inv, FaultOK, Page
<1>10. ChildOK'
  BY <1>1, <1>2, <1>3, Numbers DEF Inv, ChildOK, Forking
<1>11. BlankOK'
  BY <1>1, <1>2, <1>3, Numbers DEF Inv, BlankOK, ChildOK
<1>12. PartOK'
  BY <1>1, <1>2, <1>3, Numbers DEF Inv, PartOK, ChildOK, Forking, BlankOK
<1>13. CopyOK'
  <2> SUFFICES ASSUME NEW q \in Process, pc'[q] = "fork", NEW b \in Page
               PROVE  CopiedAt(q, b)'
    BY DEF CopyOK
  <2>1. CASE q = p
    <3>1. child'[q] = child[p] /\ at'[q] = First /\ pte'[child[p]][b] = None
      BY <1>1, <1>3, <2>1
    <3>2. ~Before(b, First)
      BY Numbers DEF Before
    <3>. QED  BY <3>1, <3>2 DEF CopiedAt
  <2>2. CASE q # p
    <3>1. /\ pc[q] = "fork" /\ child'[q] = child[q] /\ at'[q] = at[q]
          /\ child[q] # child[p] /\ q # child[p] /\ child[q] \in Process
      BY <1>1, <1>2, <1>3, <2>2 DEF Inv, ChildOK
    <3>2. pte'[q][b] = pte[q][b] /\ pte'[child[q]][b] = pte[child[q]][b]
      BY <1>1, <1>3, <3>1
    <3>3. /\ pte[q][b] # None => content'[pte[q][b]] = content[pte[q][b]]
          /\ pte[child[q]][b] # None => content'[pte[child[q]][b]] = content[pte[child[q]][b]]
      BY <1>1, <1>3, <3>1, Distinct DEF Inv, DeviceOK
    <3>. QED  BY <3>1, <3>2, <3>3, CopyKept DEF Inv
  <2>. QED  BY <2>1, <2>2
<1>14. DeleteOK'
  BY <1>1, <1>2, <1>3, Numbers DEF Inv, DeleteOK, DeletedOK, Before
<1>15. RegionOK'
  BY <1>1, <1>2, <1>3, Numbers DEF Inv, RegionOK, Shown, Page, PartOK
<1>16. Untouched
  <2>1. \A x \in Frame \ {f} : content'[x] = content[x]
    BY <1>1, <1>2, <1>3
  <2>2. \A q \in Process, b \in Page : Shown(q) => pte'[q][b] = pte[q][b]
    BY <1>1, <1>2
  <2>3. \A q \in Process, b \in Page : pte[q][b] # f
    BY <1>1, <1>2, <1>3, Distinct DEF Inv
  <2>. QED  BY ONLY Inv, <2>1, <2>2, <2>3, ReadsKept
<1>. QED  BY <1>4, <1>5, <1>6, <1>7, <1>8, <1>9, <1>10, <1>11, <1>12, <1>13, <1>14, <1>15,
    <1>16 DEF Inv

(* fork() takes a frame for a page table of the child. *)
LEMMA ForkTableInv ==
    ASSUME Inv, NEW p \in Process, ForkTable(p)
    PROVE  Inv' /\ NoneLost /\ Untouched
<1>. USE Addresses, Typed
<1>1. /\ pc[p] = "fork" /\ child[p] \in Process /\ child[p] # p /\ pc[child[p]] = "new"
      /\ pde[child[p]][Dirs] # None /\ pte[child[p]][Special] = Device
      /\ at[p][2] <= Entries
      /\ at[p][1] \in Dir /\ pde[p][at[p][1]] # None /\ pde[child[p]][at[p][1]] = None
  BY DEF Inv, ChildOK, PartOK, Forking, ForkTable, Missing
<1>2. PICK f \in free :
          /\ free' = free \ {f}
          /\ content' = [content EXCEPT ![f] = Zero]
          /\ pde' = [pde EXCEPT ![child[p]][at[p][1]] = f]
          /\ pd' = pd /\ pte' = pte /\ pc' = pc /\ at' = at /\ frame' = frame /\ child' = child
  BY <1>1, Chosen DEF Inv, ForkTable, AllocFrame, tables, locals
<1>3. /\ pc[p] = "fork" /\ at[p][1] \in Dir /\ pde[p][at[p][1]] # None
      /\ pde[child[p]][at[p][1]] = None
      /\ \A g \in Frame : content'[g] = IF g = f THEN Zero ELSE content[g]
      /\ \A q \in Process, d \in Dir : pde'[q][d] =
            IF q = child[p] /\ d = at[p][1] THEN f ELSE pde[q][d]
      /\ pd' = pd /\ pte' = pte /\ pc' = pc /\ at' = at /\ frame' = frame /\ child' = child
  BY <1>1, <1>2 DEF Inv, MemTypeOK
<1>4. MemTypeOK'
  <2>1. free' \subseteq Frame
    BY <1>1, <1>2, <1>3 DEF Inv, MemTypeOK, ForkTable, AllocFrame
  <2>2. content' \in [Frame -> Value]
    BY <1>1, <1>2, <1>3 DEF Inv, MemTypeOK, ForkTable, AllocFrame
  <2>3. pde' \in [Process -> [Dir -> Frame \cup {None}]]
    BY <1>1, <1>2, <1>3 DEF Inv, MemTypeOK, ForkTable, AllocFrame
  <2>. QED  BY <1>1, <1>2, <1>3, <2>1, <2>2, <2>3 DEF Inv, MemTypeOK
<1>5. AccountedOK' /\ NoneLost
  <2>1. <<"pt", child[p], at[p][1]>> \in Use
    BY <1>1, <1>2, <1>3, UseCases
  <2>2. FrameOf(<<"pt", child[p], at[p][1]>>) \notin Frame
    BY <1>1, <1>2, <1>3, FramesOf DEF Inv, FaultOK
  <2>3. FrameOf(<<"pt", child[p], at[p][1]>>)' = f
    BY <1>1, <1>2, <1>3, NextFramesOf DEF Inv
  <2>4. \A u \in Use \ {<<"pt", child[p], at[p][1]>>} : Alike(u)
    BY <1>1, <1>2, <1>3, UseCases, FramesOf, NextFramesOf DEF Inv, Alike
  <2>. QED  BY <1>1, <1>2, <1>3, <2>1, <2>2, <2>3, <2>4, Taken DEF Inv
<1>6. IdleOK'
  BY <1>1, <1>2, <1>3, Numbers DEF Inv, IdleOK
<1>7. MappedOK'
  BY <1>1, <1>2, <1>3, Numbers DEF Inv, MappedOK
<1>8. DeviceOK'
  BY <1>1, <1>2, <1>3, Numbers DEF Inv, DeviceOK
<1>9. FaultOK'
  BY <1>1, <1>2, <1>3, Distinct, Numbers DEF Inv, FaultOK, Page
<1>10. ChildOK'
  BY <1>1, <1>2, <1>3, Numbers DEF Inv, ChildOK
<1>11. BlankOK'
  BY <1>1, <1>2, <1>3, Numbers DEF Inv, BlankOK, ChildOK
<1>12. PartOK'
  BY <1>1, <1>2, <1>3, Numbers DEF Inv, PartOK, ChildOK, Forking, BlankOK
<1>13. CopyOK'
  <2> SUFFICES ASSUME NEW q \in Process, pc'[q] = "fork", NEW b \in Page
               PROVE  CopiedAt(q, b)'
    BY DEF CopyOK
  <2>1. pc[q] = "fork" /\ child'[q] = child[q] /\ at'[q] = at[q] /\ child[q] \in Process
    BY <1>1, <1>2, <1>3 DEF Inv
  <2>2. pte'[q][b] = pte[q][b] /\ pte'[child[q]][b] = pte[child[q]][b]
    BY <1>1, <1>2, <1>3
  <2>3. /\ pte[q][b] # None => content'[pte[q][b]] = content[pte[q][b]]
        /\ pte[child[q]][b] # None => content'[pte[child[q]][b]] = content[pte[child[q]][b]]
    BY <1>1, <1>2, <1>3, <2>1, Distinct DEF Inv
  <2>. QED  BY <2>1, <2>2, <2>3, CopyKept DEF Inv
<1>14. DeleteOK'
  BY <1>1, <1>2, <1>3, Numbers DEF Inv, DeleteOK, DeletedOK, Before
<1>15. RegionOK'
  BY <1>1, <1>2, <1>3, Numbers DEF Inv, RegionOK, Shown, Page, PartOK
<1>16. Untouched
  <2>1. \A x \in Frame \ {f} : content'[x] = content[x]
    BY <1>1, <1>2, <1>3
  <2>2. \A q \in Process, b \in Page : Shown(q) => pte'[q][b] = pte[q][b]
    BY <1>1, <1>2
  <2>3. \A q \in Process, b \in Page : pte[q][b] # f
    BY <1>1, <1>2, <1>3, Distinct DEF Inv
  <2>. QED  BY ONLY Inv, <2>1, <2>2, <2>3, ReadsKept
<1>. QED  BY <1>4, <1>5, <1>6, <1>7, <1>8, <1>9, <1>10, <1>11, <1>12, <1>13, <1>14, <1>15,
    <1>16 DEF Inv

(* fork() copies a page. *)
LEMMA ForkPageInv ==
    ASSUME Inv, NEW p \in Process, ForkPage(p)
    PROVE  Inv' /\ NoneLost /\ Untouched
<1>. USE Addresses, Typed
<1>1. /\ pc[p] = "fork" /\ child[p] \in Process /\ child[p] # p /\ pc[child[p]] = "new"
      /\ pde[child[p]][Dirs] # None /\ pte[child[p]][Special] = Device
      /\ at[p][2] <= Entries
      /\ at[p][1] \in Dir /\ ~Missing(p) /\ ToCopy(p)
  BY DEF Inv, ChildOK, PartOK, Forking, ForkPage
<1>2. at[p] \in Address
  BY <1>1, Places DEF Inv, MemTypeOK
<1>3. /\ at[p] # Special /\ pte[p][at[p]] \in Frame
       /\ pde[child[p]][at[p][1]] # None /\ pte[child[p]][at[p]] = None
  BY <1>1, <1>2 DEF Inv, DeviceOK, Missing, ToCopy
<1>4. PICK f \in free :
          /\ free' = free \ {f}
          /\ content' = [content EXCEPT ![f] = content[pte[p][at[p]]]]
          /\ pte' = [pte EXCEPT ![child[p]][at[p]] = f]
          /\ at' = [at EXCEPT ![p] = Following(@)]
          /\ pd' = pd /\ pde' = pde /\ pc' = pc /\ frame' = frame /\ child' = child
  BY <1>1, Chosen DEF Inv, ForkPage
<1>5. /\ pc[p] = "fork" /\ at[p][1] \in Dir /\ at[p] # Special /\ pde[child[p]][at[p][1]] # None
      /\ pte[child[p]][at[p]] = None /\ pte[p][at[p]] \in Frame
      /\ \A g \in Frame : content'[g] = IF g = f THEN content[pte[p][at[p]]] ELSE content[g]
      /\ \A q \in Process, b \in Address : pte'[q][b] =
            IF q = child[p] /\ b = at[p] THEN f ELSE pte[q][b]
      /\ \A q \in Process : at'[q] = IF q = p THEN Following(at[q]) ELSE at[q]
      /\ pd' = pd /\ pde' = pde /\ pc' = pc /\ frame' = frame /\ child' = child
  BY <1>1, <1>3, <1>4 DEF Inv, MemTypeOK
<1>6. /\ pte'[child[p]][at[p]] = f /\ f \in Frame /\ f # None /\ f # pte[p][at[p]]
      /\ content'[f] = content[pte[p][at[p]]]
  BY <1>1, <1>2, <1>3, <1>4, Distinct DEF Inv, MemTypeOK
<1>7. MemTypeOK'
  <2>1. free' \subseteq Frame
    BY <1>1, <1>2, <1>4, <1>3, <1>5 DEF Inv, MemTypeOK
  <2>2. content' \in [Frame -> Value]
    BY <1>1, <1>2, <1>4, <1>3, <1>5 DEF Inv, MemTypeOK
  <2>3. pte' \in [Process -> [Address -> Frame \cup {Device, None}]]
    BY <1>1, <1>2, <1>4, <1>3, <1>5 DEF Inv, MemTypeOK
  <2>4. at' \in [Process -> Place]
    BY Places, <1>1, <1>2, <1>4, <1>3, <1>5 DEF Inv, MemTypeOK
  <2>. QED  BY <1>1, <1>2, <1>4, <1>3, <1>5, <2>1, <2>2, <2>3, <2>4 DEF Inv, MemTypeOK
<1>8. AccountedOK' /\ NoneLost
  <2>1. PICK w \in Use : w = <<"page", child[p], at[p]>>
    BY <1>1, <1>2, UseCases
  <2>2. FrameOf(w) \notin Frame
    BY <1>3, <2>1, FramesOf
  <2>3. FrameOf(w)' = f
    BY ONLY <1>6, <2>1, NextFramesOf
  <2>4. \A u \in Use \ {w} : Alike(u)
    <3> SUFFICES ASSUME NEW u \in Use, u # w PROVE Alike(u)
      OBVIOUS
    <3>1. CASE \E q \in Process, a \in Address : u = <<"page", q, a>>
      <4>1. PICK q \in Process, a \in Address : u = <<"page", q, a>>
        BY <3>1
      <4>2. q # child[p] \/ a # at[p]
        BY <2>1, <4>1
      <4>3. pte'[q][a] = pte[q][a]
        BY <1>5, <4>2
      <4>. QED  BY ONLY <4>1, <4>3, FramesOf, NextFramesOf DEF Alike
    <3>2. CASE ~ \E q \in Process, a \in Address : u = <<"page", q, a>>
      BY ONLY <1>5, <3>2, u \in Use, UseCases, FramesOf, NextFramesOf DEF Alike
    <3>. QED  BY <3>1, <3>2
  <2>. QED  BY <1>4, <2>2, <2>3, <2>4, Taken DEF Inv
<1>9. IdleOK'
  BY <1>1, <1>2, <1>4, <1>3, <1>5, Numbers DEF Inv, IdleOK
<1>10. MappedOK'
  BY <1>1, <1>2, <1>4, <1>3, <1>5, Numbers DEF Inv, MappedOK
<1>11. DeviceOK'
  BY <1>1, <1>2, <1>4, <1>3, <1>5, Numbers DEF Inv, DeviceOK
<1>12. FaultOK'
  BY <1>1, <1>2, <1>4, <1>3, <1>5, Distinct, Numbers DEF Inv, FaultOK, Page
<1>13. ChildOK'
  BY <1>1, <1>2, <1>4, <1>3, <1>5, Numbers DEF Inv, ChildOK
<1>14. BlankOK'
  BY <1>1, <1>2, <1>4, <1>3, <1>5, Numbers DEF Inv, BlankOK, ChildOK
<1>15. PartOK'
  BY <1>1, <1>2, <1>4, <1>3, <1>5, Numbers DEF Inv, PartOK, ChildOK, Forking, BlankOK,
      Following
<1>16. CopyOK'
  <2> SUFFICES ASSUME NEW q \in Process, pc'[q] = "fork", NEW b \in Page
               PROVE  CopiedAt(q, b)'
    BY DEF CopyOK
  <2>1. CASE q = p
    <3>1. child'[q] = child[p] /\ at'[q] = Following(at[p])
      BY <1>1, <1>5, <2>1
    <3>2. CASE b = at[p]
      <4>1. Before(b, Following(at[p]))
        BY <1>1, <1>2, <3>2, Follows
      <4>2. Read(p, b)' = content[pte[p][b]]
        BY <1>1, <1>2, <1>3, <1>5, <3>2, Distinct DEF Inv, Read
      <4>3. Read(child[p], b)' = content[pte[p][b]]
        BY ONLY <1>5, <1>6, <3>2 DEF Read
      <4>. QED  BY <2>1, <3>1, <4>1, <4>2, <4>3 DEF CopiedAt, Read, Before
    <3>3. CASE b # at[p]
      <4>1. Before(b, Following(at[p])) <=> Before(b, at[p])
        BY <1>1, <1>2, <3>3, Follows
      <4>2. pte'[p][b] = pte[p][b] /\ pte'[child[p]][b] = pte[child[p]][b]
        BY <1>1, <1>2, <1>5, <3>3
      <4>3. /\ pte[p][b] # None => content'[pte[p][b]] = content[pte[p][b]]
            /\ pte[child[p]][b] # None => content'[pte[child[p]][b]] = content[pte[child[p]][b]]
        BY <1>1, <1>5, Distinct DEF Inv, DeviceOK
      <4>4. CopiedAt(p, b)
        BY <1>1 DEF Inv, CopyOK
      <4>. QED  BY <2>1, <3>1, <4>1, <4>2, <4>3, <4>4 DEF CopiedAt, Read, Before
    <3>. QED  BY <3>2, <3>3
  <2>2. CASE q # p
    <3>1. /\ pc[q] = "fork" /\ child'[q] = child[q] /\ at'[q] = at[q]
          /\ child[q] # child[p] /\ q # child[p] /\ child[q] \in Process
      BY <1>1, <1>4, <1>2, <1>3, <1>5, <2>2 DEF Inv, ChildOK
    <3>2. pte'[q][b] = pte[q][b] /\ pte'[child[q]][b] = pte[child[q]][b]
      BY <1>1, <1>2, <1>3, <1>5, <3>1
    <3>3. /\ pte[q][b] # None => content'[pte[q][b]] = content[pte[q][b]]
          /\ pte[child[q]][b] # None => content'[pte[child[q]][b]] = content[pte[child[q]][b]]
      BY <1>1, <1>2, <1>3, <1>5, <3>1, Distinct DEF Inv, DeviceOK
    <3>. QED  BY <3>1, <3>2, <3>3, CopyKept DEF Inv
  <2>. QED  BY <2>1, <2>2
<1>17. DeleteOK'
  BY <1>1, <1>2, <1>4, <1>3, <1>5, Numbers DEF Inv, DeleteOK, DeletedOK, Before
<1>18. RegionOK'
  BY <1>1, <1>2, <1>4, <1>3, <1>5, Numbers DEF Inv, RegionOK, Shown, Page, PartOK
<1>19. Untouched
  <2>1. \A x \in Frame \ {f} : content'[x] = content[x]
    BY <1>1, <1>4, <1>5
  <2>2. \A q \in Process, b \in Page : Shown(q) => pte'[q][b] = pte[q][b]
    BY <1>1, <1>4 DEF Shown
  <2>3. \A q \in Process, b \in Page : pte[q][b] # f
    BY <1>1, <1>4, <1>5, Distinct DEF Inv
  <2>. QED  BY ONLY Inv, <2>1, <2>2, <2>3, ReadsKept
<1>. QED  BY <1>7, <1>8, <1>9, <1>10, <1>11, <1>12, <1>13, <1>14, <1>15, <1>16, <1>17,
    <1>18, <1>19 DEF Inv

(* fork() passes over an entry. *)
LEMMA ForkSkipInv ==
    ASSUME Inv, NEW p \in Process, ForkSkip(p)
    PROVE  Inv' /\ NoneLost /\ Untouched
<1>. USE Addresses, Typed
<1>1. /\ pc[p] = "fork" /\ child[p] \in Process /\ child[p] # p /\ pc[child[p]] = "new"
      /\ at[p][2] <= Entries /\ at[p][1] \in Dir /\ ~Missing(p) /\ ~ToCopy(p)
  BY DEF Inv, ChildOK, PartOK, Forking, ForkSkip
<1>2. at[p] \in Address
  BY <1>1, Places DEF Inv, MemTypeOK
<1>3. at[p] \in Page => pte[p][at[p]] = None /\ pte[child[p]][at[p]] = None
  <2>1. ~Before(at[p], at[p])
    BY <1>2, Numbers DEF Before
  <2>2. at[p] \in Page => pte[child[p]][at[p]] = None
    BY <1>1, <2>1 DEF Inv, CopyOK, CopiedAt
  <2>3. pde[p][at[p][1]] = None => pte[p][at[p]] = None
    BY <1>2 DEF Inv, MappedOK
  <2>. QED  BY <1>1, <2>2, <2>3 DEF ToCopy
<1>4. /\ pc[p] = "fork" /\ at[p] \in Address
      /\ \A q \in Process : at'[q] = IF q = p THEN Following(at[q]) ELSE at[q]
      /\ free' = free /\ content' = content /\ pd' = pd /\ pde' = pde /\ pte' = pte /\ pc' = pc
      /\ frame' = frame /\ child' = child
  BY <1>1, <1>2, <1>3 DEF Inv, MemTypeOK, ForkSkip, tables
<1>5. MemTypeOK'
  <2>1. at' \in [Process -> Place]
    BY Places, <1>4 DEF Inv, MemTypeOK, ForkSkip
  <2>. QED  BY <1>1, <1>2, <1>3, <1>4, <2>1 DEF Inv, MemTypeOK
<1>6. AccountedOK' /\ NoneLost
  BY <1>1, <1>2, <1>3, <1>4, Kept DEF Inv, Alike, FrameOf
<1>7. IdleOK'
  BY <1>1, <1>2, <1>3, <1>4, Numbers DEF Inv, IdleOK
<1>8. MappedOK'
  BY <1>1, <1>2, <1>3, <1>4, Numbers DEF Inv, MappedOK
<1>9. DeviceOK'
  BY <1>1, <1>2, <1>3, <1>4, Numbers DEF Inv, DeviceOK
<1>10. FaultOK'
  BY <1>1, <1>2, <1>3, <1>4, Distinct, Numbers DEF Inv, FaultOK, Page
<1>11. ChildOK'
  BY <1>1, <1>2, <1>3, <1>4, Numbers DEF Inv, ChildOK
<1>12. BlankOK'
  BY <1>1, <1>2, <1>3, <1>4, Numbers DEF Inv, BlankOK, ChildOK
<1>13. PartOK'
  BY <1>1, <1>2, <1>4, Follows DEF Inv, PartOK
<1>14. CopyOK'
  <2> SUFFICES ASSUME NEW q \in Process, pc'[q] = "fork", NEW b \in Page
               PROVE  CopiedAt(q, b)'
    BY DEF CopyOK
  <2>1. CopiedAt(q, b)
    BY <1>4 DEF Inv, CopyOK
  <2>2. CASE q = p
    <3>1. Before(b, at'[p]) <=> Before(b, at[p]) \/ b = at[p]
      BY <1>2, <1>4, Follows
    <3>. QED  BY <1>3, <1>4, <2>1, <2>2, <3>1 DEF CopiedAt, Read
  <2>3. CASE q # p
    BY <1>4, <2>1, <2>3 DEF CopiedAt, Read
  <2>. QED  BY <2>2, <2>3
<1>15. DeleteOK'
  BY <1>1, <1>2, <1>3, <1>4, Numbers DEF Inv, DeleteOK, DeletedOK, Before
<1>16. RegionOK'
  BY <1>1, <1>2, <1>3, <1>4, Numbers DEF Inv, RegionOK, Shown, Page, PartOK
<1>17. Untouched
  BY <1>4 DEF Untouched, Read
<1>. QED  BY <1>5, <1>6, <1>7, <1>8, <1>9, <1>10, <1>11, <1>12, <1>13, <1>14, <1>15,
    <1>16, <1>17 DEF Inv

(* The end of fork() *)
LEMMA ForkedInv ==
    ASSUME Inv, NEW p \in Process, Forked(p)
    PROVE  Inv' /\ NoneLost /\ Untouched
<1>. USE Addresses, Typed
<1>1. /\ pc[p] = "fork" /\ at[p][1] = Dirs + 1
      /\ \A q \in Process : at'[q] = IF q = p THEN First ELSE at[q]
      /\ \A q \in Process : child'[q] = IF q = p THEN p ELSE child[q]
      /\ \A q \in Process : pc'[q] = IF q = p \/ q = child[p] THEN "user" ELSE pc[q]
      /\ free' = free /\ content' = content /\ pd' = pd /\ pde' = pde /\ pte' = pte
      /\ frame' = frame
  BY Chosen, Numbers DEF Inv, MemTypeOK, Forked, tables
<1>2. MemTypeOK'
  <2>1. pc' \in [Process -> Label]
    BY <1>1 DEF Inv, MemTypeOK, Forked, Label
  <2>2. at' \in [Process -> Place]
    BY Places, <1>1 DEF Inv, MemTypeOK, Forked
  <2>3. child' \in [Process -> Process]
    BY <1>1 DEF Inv, MemTypeOK, Forked
  <2>. QED  BY <1>1, <2>1, <2>2, <2>3 DEF Inv, MemTypeOK
<1>3. AccountedOK' /\ NoneLost
  BY <1>1, Kept DEF Inv, Alike, FrameOf
<1>4. IdleOK'
  <2>1. pc[p] # "none" /\ pc[child[p]] = "new" /\ child[p] \in Process
    BY <1>1 DEF Inv, ChildOK, Forking
  <2>. QED  BY <1>1, <2>1 DEF Inv, IdleOK
<1>5. MappedOK'
  BY <1>1, Numbers DEF Inv, MappedOK
<1>6. DeviceOK'
  BY <1>1, Numbers DEF Inv, DeviceOK
<1>7. FaultOK'
  BY <1>1, Distinct, Numbers DEF Inv, FaultOK, Page, ChildOK
<1>8. ChildOK'
  BY <1>1, Numbers DEF Inv, ChildOK, Forking
<1>9. BlankOK'
  BY <1>1, Numbers DEF Inv, BlankOK, ChildOK
<1>10. PartOK'
  BY <1>1, Numbers DEF Inv, PartOK, ChildOK, Forking, BlankOK
<1>11. CopyOK'
  <2> SUFFICES ASSUME NEW q \in Process, pc'[q] = "fork", NEW b \in Page
               PROVE  CopiedAt(q, b)'
    BY DEF CopyOK
  <2>1. /\ q # p /\ pc[q] = "fork" /\ child'[q] = child[q] /\ at'[q] = at[q] /\ child[q] # p
        /\ child[q] \in Process
    BY <1>1 DEF Inv, ChildOK
  <2>2. pte'[q][b] = pte[q][b] /\ pte'[child[q]][b] = pte[child[q]][b]
    BY <1>1, <2>1 DEF Inv
  <2>3. /\ pte[q][b] # None => content'[pte[q][b]] = content[pte[q][b]]
        /\ pte[child[q]][b] # None => content'[pte[child[q]][b]] = content[pte[child[q]][b]]
    BY <1>1, <2>1, Distinct
  <2>. QED  BY <2>1, <2>2, <2>3, CopyKept DEF Inv
<1>12. DeleteOK'
  BY <1>1, Numbers DEF Inv, DeleteOK, DeletedOK, Before
<1>13. RegionOK'
  BY <1>1, Numbers DEF Inv, RegionOK, Shown, Page, PartOK
<1>14. Untouched
  BY <1>1 DEF Untouched, Read
<1>. QED  BY <1>2, <1>3, <1>4, <1>5, <1>6, <1>7, <1>8, <1>9, <1>10, <1>11, <1>12, <1>13,
    <1>14 DEF Inv

(* exec() begins to empty the address space, *)
LEMMA ExecInv ==
    ASSUME Inv, NEW p \in Process, Exec(p)
    PROVE  Inv' /\ NoneLost /\ Untouched
<1>. USE Addresses, Typed
<1>1. /\ pc[p] = "user"
      /\ \A q \in Process : at'[q] = IF q = p THEN First ELSE at[q]
      /\ \A q \in Process : pc'[q] = IF q = p THEN "clear" ELSE pc[q]
      /\ free' = free /\ content' = content /\ pd' = pd /\ pde' = pde /\ pte' = pte
      /\ frame' = frame /\ child' = child
  BY Chosen, Numbers DEF Inv, MemTypeOK, Exec, Goto, tables
<1>2. MemTypeOK'
  <2>1. pc' \in [Process -> Label]
    BY <1>1 DEF Inv, MemTypeOK, Exec, Goto, Label
  <2>2. at' \in [Process -> Place]
    BY Places, <1>1 DEF Inv, MemTypeOK, Exec, Goto
  <2>. QED  BY <1>1, <2>1, <2>2 DEF Inv, MemTypeOK
<1>3. AccountedOK' /\ NoneLost
  BY <1>1, Kept DEF Inv, Alike, FrameOf
<1>4. IdleOK'
  BY <1>1, Numbers DEF Inv, IdleOK
<1>5. MappedOK'
  BY <1>1, Numbers DEF Inv, MappedOK
<1>6. DeviceOK'
  BY <1>1, Numbers DEF Inv, DeviceOK
<1>7. FaultOK'
  BY <1>1, Distinct, Numbers DEF Inv, FaultOK, Page
<1>8. ChildOK'
  BY <1>1, Numbers DEF Inv, ChildOK, Forking
<1>9. BlankOK'
  BY <1>1, Numbers DEF Inv, BlankOK, ChildOK
<1>10. PartOK'
  BY <1>1, Numbers DEF Inv, PartOK, ChildOK, Forking, BlankOK
<1>11. CopyOK'
  <2> SUFFICES ASSUME NEW q \in Process, pc'[q] = "fork", NEW b \in Page
               PROVE  CopiedAt(q, b)'
    BY DEF CopyOK
  <2>1. /\ q # p /\ pc[q] = "fork" /\ child'[q] = child[q] /\ at'[q] = at[q] /\ child[q] # p
        /\ child[q] \in Process
    BY <1>1 DEF Inv, ChildOK
  <2>2. pte'[q][b] = pte[q][b] /\ pte'[child[q]][b] = pte[child[q]][b]
    BY <1>1, <2>1 DEF Inv
  <2>3. /\ pte[q][b] # None => content'[pte[q][b]] = content[pte[q][b]]
        /\ pte[child[q]][b] # None => content'[pte[child[q]][b]] = content[pte[child[q]][b]]
    BY <1>1, <2>1, Distinct
  <2>. QED  BY <2>1, <2>2, <2>3, CopyKept DEF Inv
<1>12. DeleteOK'
  BY <1>1, Numbers DEF Inv, DeleteOK, DeletedOK, Before
<1>13. RegionOK'
  BY <1>1, Numbers DEF Inv, RegionOK, Shown, Page, PartOK
<1>14. Untouched
  BY <1>1 DEF Untouched, Read
<1>. QED  BY <1>2, <1>3, <1>4, <1>5, <1>6, <1>7, <1>8, <1>9, <1>10, <1>11, <1>12, <1>13,
    <1>14 DEF Inv

(* ... and a process that ended begins to lose its own. *)
LEMMA ExitInv ==
    ASSUME Inv, NEW p \in Process, Exit(p)
    PROVE  Inv' /\ NoneLost /\ Untouched
<1>. USE Addresses, Typed
<1>1. /\ pc[p] = "user"
      /\ \A q \in Process : at'[q] = IF q = p THEN First ELSE at[q]
      /\ \A q \in Process : pc'[q] = IF q = p THEN "delete" ELSE pc[q]
      /\ free' = free /\ content' = content /\ pd' = pd /\ pde' = pde /\ pte' = pte
      /\ frame' = frame /\ child' = child
  BY Chosen, Numbers DEF Inv, MemTypeOK, Exit, Goto, tables
<1>2. MemTypeOK'
  <2>1. pc' \in [Process -> Label]
    BY <1>1 DEF Inv, MemTypeOK, Exit, Goto, Label
  <2>2. at' \in [Process -> Place]
    BY Places, <1>1 DEF Inv, MemTypeOK, Exit, Goto
  <2>. QED  BY <1>1, <2>1, <2>2 DEF Inv, MemTypeOK
<1>3. AccountedOK' /\ NoneLost
  BY <1>1, Kept DEF Inv, Alike, FrameOf
<1>4. IdleOK'
  BY <1>1, Numbers DEF Inv, IdleOK
<1>5. MappedOK'
  BY <1>1, Numbers DEF Inv, MappedOK
<1>6. DeviceOK'
  BY <1>1, Numbers DEF Inv, DeviceOK
<1>7. FaultOK'
  BY <1>1, Distinct, Numbers DEF Inv, FaultOK, Page
<1>8. ChildOK'
  BY <1>1, Numbers DEF Inv, ChildOK, Forking
<1>9. BlankOK'
  BY <1>1, Numbers DEF Inv, BlankOK, ChildOK
<1>10. PartOK'
  BY <1>1, Numbers DEF Inv, PartOK, ChildOK, Forking, BlankOK
<1>11. CopyOK'
  <2> SUFFICES ASSUME NEW q \in Process, pc'[q] = "fork", NEW b \in Page
               PROVE  CopiedAt(q, b)'
    BY DEF CopyOK
  <2>1. /\ q # p /\ pc[q] = "fork" /\ child'[q] = child[q] /\ at'[q] = at[q] /\ child[q] # p
        /\ child[q] \in Process
    BY <1>1 DEF Inv, ChildOK
  <2>2. pte'[q][b] = pte[q][b] /\ pte'[child[q]][b] = pte[child[q]][b]
    BY <1>1, <2>1 DEF Inv
  <2>3. /\ pte[q][b] # None => content'[pte[q][b]] = content[pte[q][b]]
        /\ pte[child[q]][b] # None => content'[pte[child[q]][b]] = content[pte[child[q]][b]]
    BY <1>1, <2>1, Distinct
  <2>. QED  BY <2>1, <2>2, <2>3, CopyKept DEF Inv
<1>12. DeleteOK'
  BY <1>1, Numbers DEF Inv, DeleteOK, DeletedOK, Before
<1>13. RegionOK'
  BY <1>1, Numbers DEF Inv, RegionOK, Shown, Page, PartOK
<1>14. Untouched
  BY <1>1 DEF Untouched, Read
<1>. QED  BY <1>2, <1>3, <1>4, <1>5, <1>6, <1>7, <1>8, <1>9, <1>10, <1>11, <1>12, <1>13,
    <1>14 DEF Inv

(* There was no page table. *)
LEMMA PassTableInv ==
    ASSUME Inv, NEW p \in Process, PassTable(p)
    PROVE  Inv' /\ NoneLost /\ Untouched
<1>. USE Addresses, Typed
<1>1. /\ pc[p] \in {"clear", "delete"} /\ at[p][1] \in Dir /\ pde[p][at[p][1]] = None
      /\ \A q \in Process : at'[q] = IF q = p THEN <<at[q][1] + 1, 1>> ELSE at[q]
      /\ free' = free /\ content' = content /\ pd' = pd /\ pde' = pde /\ pte' = pte /\ pc' = pc
      /\ frame' = frame /\ child' = child
  BY Chosen, Numbers DEF Inv, MemTypeOK, PassTable, tables, Deletes
<1>2. MemTypeOK'
  <2>1. at' \in [Process -> Place]
    BY Places, <1>1 DEF Inv, MemTypeOK, PassTable, tables
  <2>. QED  BY <1>1, <2>1 DEF Inv, MemTypeOK
<1>3. AccountedOK' /\ NoneLost
  BY <1>1, Kept DEF Inv, Alike, FrameOf
<1>4. IdleOK'
  BY <1>1, Numbers DEF Inv, IdleOK
<1>5. MappedOK'
  BY <1>1, Numbers DEF Inv, MappedOK
<1>6. DeviceOK'
  BY <1>1, Numbers DEF Inv, DeviceOK
<1>7. FaultOK'
  <2>1. pc[p] # "map"
    BY <1>1
  <2>. QED  BY <1>1, <2>1 DEF Inv, FaultOK
<1>8. ChildOK'
  BY <1>1, Numbers DEF Inv, ChildOK
<1>9. BlankOK'
  BY <1>1, Numbers DEF Inv, BlankOK, ChildOK
<1>10. PartOK'
  BY <1>1, Numbers DEF Inv, PartOK, ChildOK, Forking, BlankOK
<1>11. CopyOK'
  <2> SUFFICES ASSUME NEW q \in Process, pc'[q] = "fork", NEW b \in Page
               PROVE  CopiedAt(q, b)'
    BY DEF CopyOK
  <2>1. /\ q # p /\ pc[q] = "fork" /\ child'[q] = child[q] /\ at'[q] = at[q] /\ child[q] # p
        /\ child[q] \in Process
    BY <1>1 DEF Inv, ChildOK
  <2>2. pte'[q][b] = pte[q][b] /\ pte'[child[q]][b] = pte[child[q]][b]
    BY <1>1, <2>1 DEF Inv
  <2>3. /\ pte[q][b] # None => content'[pte[q][b]] = content[pte[q][b]]
        /\ pte[child[q]][b] # None => content'[pte[child[q]][b]] = content[pte[child[q]][b]]
    BY <1>1, <2>1, Distinct
  <2>. QED  BY <2>1, <2>2, <2>3, CopyKept DEF Inv
<1>12. DeleteOK'
  <2> SUFFICES ASSUME NEW q \in Process
               PROVE  DeletedOK(q)'
    BY DEF DeleteOK
  <2>1. CASE q # p
    <3>1. DeletedOK(q)
      BY DEF Inv, DeleteOK
    <3>. QED  BY <1>1, <2>1, <3>1 DEF DeletedOK
  <2>2. CASE q = p
    <3>1. at'[p][1] = at[p][1] + 1 /\ at'[p][2] = 1 /\ at[p][1] \in Nat /\ DeletedOK(p)
      <4>1. at'[p] = <<at[p][1] + 1, 1>>
        BY <1>1
      <4>2. DeletedOK(p) /\ at[p][1] \in Nat
        BY DEF Inv, DeleteOK
      <4>. QED  BY ONLY <4>1, <4>2
    <3>2. \A a \in Address : Before(a, at'[p]) => Before(a, at[p]) \/ a[1] = at[p][1]
      BY <3>1, Numbers DEF Before
    <3>3. \A a \in Address : a[1] = at[p][1] => pte[p][a] = None
      BY <1>1 DEF Inv, MappedOK
    <3>4. \A a \in Address : Before(a, at'[p]) => pte[p][a] = None \/ a = Special
      BY <1>1, <3>1, <3>2, <3>3 DEF DeletedOK
    <3>5. \A d \in Dir : d < at'[p][1] => d < at[p][1] \/ d = at[p][1]
      <4>1. at'[p][1] = at[p][1] + 1 /\ at[p][1] \in Nat
        BY <3>1
      <4>2. \A d \in Dir : d \in Nat
        BY Numbers
      <4>. QED  BY ONLY <4>1, <4>2
    <3>6. pc[p] = "delete" => \A d \in Dir : d < at'[p][1] => pde[p][d] = None
      BY <1>1, <3>1, <3>5 DEF DeletedOK
    <3>. QED  BY <1>1, <2>2, <3>4, <3>6 DEF DeletedOK
  <2>. QED  BY <2>1, <2>2
<1>13. RegionOK'
  BY <1>1, Numbers DEF Inv, RegionOK, Shown, Page, PartOK
<1>14. Untouched
  BY <1>1 DEF Untouched, Read
<1>. QED  BY <1>2, <1>3, <1>4, <1>5, <1>6, <1>7, <1>8, <1>9, <1>10, <1>11, <1>12, <1>13,
    <1>14 DEF Inv

(* exec() has emptied the address space. *)
LEMMA ClearedInv ==
    ASSUME Inv, NEW p \in Process, Cleared(p)
    PROVE  Inv' /\ NoneLost /\ Untouched
<1>. USE Addresses, Typed
<1>1. pc[p] = "clear" /\ at[p][1] = Dirs + 1
  BY Numbers DEF Inv, Cleared
<1>2. /\ pc[p] = "clear" /\ at[p][1] = Dirs + 1
      /\ \A q \in Process : at'[q] = IF q = p THEN First ELSE at[q]
      /\ \A q \in Process : pc'[q] = IF q = p THEN "user" ELSE pc[q]
      /\ free' = free /\ content' = content /\ pd' = pd /\ pde' = pde /\ pte' = pte
      /\ frame' = frame /\ child' = child
  BY <1>1 DEF Inv, MemTypeOK, Cleared, Goto, tables
<1>3. MemTypeOK'
  <2>1. pc' \in [Process -> Label]
    BY <1>1, <1>2 DEF Inv, MemTypeOK, Cleared, Goto, Label
  <2>2. at' \in [Process -> Place]
    BY Places, <1>2 DEF Inv, MemTypeOK, Cleared, Goto
  <2>. QED  BY <1>1, <1>2, <2>1, <2>2 DEF Inv, MemTypeOK
<1>4. AccountedOK' /\ NoneLost
  BY <1>1, <1>2, Kept DEF Inv, Alike, FrameOf
<1>5. IdleOK'
  BY <1>1, <1>2, Numbers DEF Inv, IdleOK
<1>6. MappedOK'
  BY <1>1, <1>2, Numbers DEF Inv, MappedOK
<1>7. DeviceOK'
  BY <1>1, <1>2, Numbers DEF Inv, DeviceOK
<1>8. FaultOK'
  BY <1>1, <1>2, Distinct, Numbers DEF Inv, FaultOK, Page
<1>9. ChildOK'
  BY <1>1, <1>2, Numbers DEF Inv, ChildOK, Forking
<1>10. BlankOK'
  BY <1>1, <1>2, Numbers DEF Inv, BlankOK, ChildOK
<1>11. PartOK'
  BY <1>1, <1>2, Numbers DEF Inv, PartOK, ChildOK, Forking, BlankOK
<1>12. CopyOK'
  <2> SUFFICES ASSUME NEW q \in Process, pc'[q] = "fork", NEW b \in Page
               PROVE  CopiedAt(q, b)'
    BY DEF CopyOK
  <2>1. /\ q # p /\ pc[q] = "fork" /\ child'[q] = child[q] /\ at'[q] = at[q] /\ child[q] # p
        /\ child[q] \in Process
    BY <1>1, <1>2 DEF Inv, ChildOK
  <2>2. pte'[q][b] = pte[q][b] /\ pte'[child[q]][b] = pte[child[q]][b]
    BY <1>1, <1>2
  <2>3. /\ pte[q][b] # None => content'[pte[q][b]] = content[pte[q][b]]
        /\ pte[child[q]][b] # None => content'[pte[child[q]][b]] = content[pte[child[q]][b]]
    BY <1>1, <1>2, <2>1, Distinct
  <2>. QED  BY <2>1, <2>2, <2>3, CopyKept DEF Inv
<1>13. DeleteOK'
  BY <1>1, <1>2, Numbers DEF Inv, DeleteOK, DeletedOK, Before
<1>14. RegionOK'
  BY <1>1, <1>2, Numbers DEF Inv, RegionOK, Shown, Page, PartOK
<1>15. Untouched
  BY <1>2 DEF Untouched, Read
<1>. QED  BY <1>3, <1>4, <1>5, <1>6, <1>7, <1>8, <1>9, <1>10, <1>11, <1>12, <1>13, <1>14,
    <1>15 DEF Inv

(* delete_pd gives the directory back. *)
LEMMA DeletedInv ==
    ASSUME Inv, NEW p \in Process, Deleted(p)
    PROVE  Inv' /\ NoneLost /\ Untouched
<1>. USE Addresses, Typed
<1>1. pc[p] = "delete" /\ at[p][1] = Dirs + 1 /\ pd[p] \in Frame
  <2>1. pc[p] = "delete" /\ at[p][1] \notin Dir
    BY DEF Deleted
  <2>2. pd[p] \in Frame
    BY <2>1 DEF Inv, IdleOK
  <2>. QED  BY <2>1, <2>2, Numbers DEF Inv
<1>2. /\ pc[p] = "delete" /\ at[p][1] = Dirs + 1 /\ pd[p] \in Frame
      /\ free' = free \cup {pd[p]}
      /\ \A g \in Frame : content'[g] = IF g = pd[p] THEN Linked ELSE content[g]
      /\ \A q \in Process : pd'[q] = IF q = p THEN None ELSE pd[q]
      /\ \A q \in Process : at'[q] = IF q = p THEN First ELSE at[q]
      /\ \A q \in Process : pc'[q] = IF q = p THEN "none" ELSE pc[q]
      /\ pde' = pde /\ pte' = pte /\ frame' = frame /\ child' = child
  BY <1>1 DEF Inv, MemTypeOK, Deleted, Goto, DeallocFrame
<1>3. MemTypeOK'
  <2>1. free' \subseteq Frame
    BY <1>1, <1>2 DEF Inv, MemTypeOK, Deleted, Goto
  <2>2. content' \in [Frame -> Value]
    BY <1>1, <1>2 DEF Inv, MemTypeOK, Deleted, Goto, DeallocFrame
  <2>3. pd' \in [Process -> Frame \cup {None}]
    BY <1>1, <1>2 DEF Inv, MemTypeOK, Deleted, Goto
  <2>4. pc' \in [Process -> Label]
    BY <1>1, <1>2 DEF Inv, MemTypeOK, Deleted, Goto, Label
  <2>5. at' \in [Process -> Place]
    BY Places, <1>2 DEF Inv, MemTypeOK, Deleted, Goto
  <2>. QED  BY <1>1, <1>2, <2>1, <2>2, <2>3, <2>4, <2>5 DEF Inv, MemTypeOK
<1>4. AccountedOK' /\ NoneLost
  <2>1. <<"pd", p>> \in Use
    BY <1>1, <1>2, UseCases
  <2>2. FrameOf(<<"pd", p>>) \in Frame
    BY <1>1, <1>2, FramesOf DEF Inv, FaultOK
  <2>3. FrameOf(<<"pd", p>>)' \notin Frame
    BY <1>1, <1>2, NextFramesOf DEF Inv
  <2>4. \A u \in Use \ {<<"pd", p>>} : Alike(u)
    BY <1>1, <1>2, UseCases, FramesOf, NextFramesOf DEF Inv, Alike
  <2>. QED  BY <1>1, <1>2, <2>1, <2>2, <2>3, <2>4, Given, FramesOf DEF Inv
<1>5. IdleOK'
  <2>1. \A d \in Dir : pde[p][d] = None
    BY <1>1, Numbers DEF Inv, DeleteOK, DeletedOK
  <2>2. \A a \in Address : pte[p][a] = None
    BY <2>1 DEF Inv, MappedOK
  <2>. QED  BY <1>1, <1>2, <2>1, <2>2 DEF Inv, IdleOK
<1>6. MappedOK'
  BY <1>1, <1>2, Numbers DEF Inv, MappedOK
<1>7. DeviceOK'
  BY <1>1, <1>2, Numbers DEF Inv, DeviceOK
<1>8. FaultOK'
  BY <1>1, <1>2, Distinct, Numbers DEF Inv, FaultOK, Page
<1>9. ChildOK'
  BY <1>1, <1>2, Numbers DEF Inv, ChildOK, Forking
<1>10. BlankOK'
  BY <1>1, <1>2, Numbers DEF Inv, BlankOK, ChildOK
<1>11. PartOK'
  BY <1>1, <1>2, Numbers DEF Inv, PartOK, ChildOK, Forking, BlankOK
<1>12. CopyOK'
  <2> SUFFICES ASSUME NEW q \in Process, pc'[q] = "fork", NEW b \in Page
               PROVE  CopiedAt(q, b)'
    BY DEF CopyOK
  <2>1. /\ q # p /\ pc[q] = "fork" /\ child'[q] = child[q] /\ at'[q] = at[q] /\ child[q] # p
        /\ child[q] \in Process
    BY <1>1, <1>2 DEF Inv, ChildOK
  <2>2. pte'[q][b] = pte[q][b] /\ pte'[child[q]][b] = pte[child[q]][b]
    BY <1>1, <1>2
  <2>3. /\ pte[q][b] # None => content'[pte[q][b]] = content[pte[q][b]]
        /\ pte[child[q]][b] # None => content'[pte[child[q]][b]] = content[pte[child[q]][b]]
    BY <1>1, <1>2, <2>1, Distinct DEF Inv, DeviceOK
  <2>. QED  BY <2>1, <2>2, <2>3, CopyKept DEF Inv
<1>13. DeleteOK'
  BY <1>1, <1>2, Numbers DEF Inv, DeleteOK, DeletedOK, Before
<1>14. RegionOK'
  BY <1>1, <1>2, Numbers DEF Inv, RegionOK, Shown, Page, PartOK
<1>15. Untouched
  <2>1. \A x \in Frame \ {pd[p]} : content'[x] = content[x]
    BY <1>1, <1>2
  <2>2. \A q \in Process, b \in Page : Shown(q) => pte'[q][b] = pte[q][b]
    BY <1>1, <1>2 DEF Shown
  <2>3. \A q \in Process, b \in Page : pte[q][b] # pd[p]
    BY <1>1, <1>2, Distinct DEF Inv
  <2>. QED  BY ONLY Inv, <2>1, <2>2, <2>3, ReadsKept
<1>. QED  BY <1>3, <1>4, <1>5, <1>6, <1>7, <1>8, <1>9, <1>10, <1>11, <1>12, <1>13, <1>14,
    <1>15 DEF Inv

(* delete_private and delete_pd give a page back. *)
LEMMA DropPageInv ==
    ASSUME Inv, NEW p \in Process, DropPage(p)
    PROVE  /\ Inv' /\ NoneLost
           /\ (\A q \in Process, b \in Page : Read(q, b)' =
                 IF q = p /\ b = at[p] THEN Zero ELSE Read(q, b))
<1>. USE Addresses, Typed
<1>. AccountedOK
  BY DEF Inv
<1>1. /\ pc[p] \in {"clear", "delete"} /\ at[p][1] \in Dir /\ at[p][2] <= Entries
      /\ at[p] \in Address /\ pde[p][at[p][1]] # None /\ DeletedOK(p)
      /\ pc[p] # "map" /\ pc[p] # "fork"
  BY Places DEF Inv, MemTypeOK, DropPage, Deletes, DeleteOK
<1>2. /\ \A q \in Process : at'[q] = IF q = p THEN <<at[q][1], at[q][2] + 1>> ELSE at[q]
      /\ pd' = pd /\ pde' = pde /\ pc' = pc /\ frame' = frame /\ child' = child
  BY DEF Inv, MemTypeOK, DropPage
<1>3. \/ /\ at[p] = Special \/ pte[p][at[p]] = None
         /\ free' = free /\ content' = content /\ pte' = pte
      \/ /\ at[p] # Special /\ pte[p][at[p]] \in Frame
         /\ free' = free \cup {pte[p][at[p]]}
         /\ content' = [content EXCEPT ![pte[p][at[p]]] = Linked]
         /\ pte' = [pte EXCEPT ![p][at[p]] = None]
  BY <1>1 DEF Inv, DeviceOK, DropPage, DeallocFrame, IsSpecial
<1>4. /\ \A q \in Process, b \in Address :
            pte'[q][b] = IF q = p /\ b = at[p] /\ b # Special THEN None ELSE pte[q][b]
      /\ \A g \in Frame : g # pte[p][at[p]] => content'[g] = content[g]
  BY <1>1, <1>3 DEF Inv, MemTypeOK
<1>5. MemTypeOK'
  <2>1. free' \subseteq Frame /\ content' \in [Frame -> Value]
    <3>1. free \subseteq Frame /\ content \in [Frame -> Value]
      BY DEF Inv, MemTypeOK
    <3>. QED  BY ONLY <1>3, <3>1, Addresses
  <2>2. pte' \in [Process -> [Address -> Frame \cup {Device, None}]]
    <3>1. pte \in [Process -> [Address -> Frame \cup {Device, None}]]
      BY DEF Inv, MemTypeOK
    <3>. QED  BY ONLY <1>1, <1>3, <3>1
  <2>3. at' \in [Process -> Place]
    BY <1>1, Places DEF Inv, MemTypeOK, DropPage
  <2>. QED  BY <1>2, <2>1, <2>2, <2>3 DEF Inv, MemTypeOK
<1>6. AccountedOK' /\ NoneLost
  <2>1. CASE free' = free /\ pte' = pte
    BY <1>2, <2>1, Kept DEF Inv, Alike, FrameOf
  <2>2. CASE /\ at[p] # Special /\ pte[p][at[p]] \in Frame
             /\ free' = free \cup {pte[p][at[p]]}
             /\ pte' = [pte EXCEPT ![p][at[p]] = None]
    <3>1. PICK w \in Use : w = <<"page", p, at[p]>>
      BY <1>1, UseCases
    <3>2. FrameOf(w) = pte[p][at[p]]
      BY <3>1, FramesOf
    <3>3. FrameOf(w)' \notin Frame
      <4>1. pte'[p][at[p]] = None
        BY <1>1, <1>4, <2>2 <4>. QED BY <3>1, <4>1, NextFramesOf
    <3>4. \A u \in Use \ {w} : Alike(u)
      <4> SUFFICES ASSUME NEW u \in Use, u # w PROVE Alike(u)
        OBVIOUS
      <4>1. CASE \E q \in Process, a \in Address : u = <<"page", q, a>>
        <5>1. PICK q \in Process, a \in Address : u = <<"page", q, a>>
          BY <4>1
        <5>2. pte'[q][a] = pte[q][a]
          BY <1>4, <3>1, <5>1
        <5>. QED  BY ONLY <5>1, <5>2, FramesOf, NextFramesOf DEF Alike
      <4>2. CASE ~ \E q \in Process, a \in Address : u = <<"page", q, a>>
        BY ONLY <1>2, <4>2, u \in Use, UseCases, FramesOf, NextFramesOf DEF Alike
      <4>. QED  BY <4>1, <4>2
    <3>. QED  BY <2>2, <3>2, <3>3, <3>4, Given DEF Inv
  <2>. QED  BY <1>3, <2>1, <2>2
<1>7. IdleOK'
  BY <1>1, <1>2, <1>4 DEF Inv, IdleOK
<1>8. MappedOK'
  BY <1>1, <1>2, <1>4 DEF Inv, MappedOK
<1>9. DeviceOK'
  BY <1>1, <1>2, <1>4 DEF Inv, DeviceOK
<1>10. FaultOK'
  <2> SUFFICES ASSUME NEW q \in Process
               PROVE  IF pc[q] = "map"
                      THEN /\ at'[q] \in Address /\ (at'[q] \in Page => pte'[q][at'[q]] = None)
                           /\ frame[q] \in Frame /\ content'[frame[q]] = Zero
                      ELSE frame[q] = None
    BY <1>2 DEF FaultOK
  <2>1. CASE pc[q] = "map"
    <3>1. q # p
      BY <1>1, <2>1
    <3>2. /\ at[q] \in Address /\ (at[q] \in Page => pte[q][at[q]] = None)
          /\ frame[q] \in Frame /\ content[frame[q]] = Zero
      BY <2>1 DEF Inv, FaultOK
    <3>3. frame[q] # pte[p][at[p]]
      BY <1>1, <3>2, Distinct
    <3>4. at'[q] = at[q] /\ pte'[q][at[q]] = pte[q][at[q]]
      <4>1. at[q] \in Address
        BY <3>2
      <4>. QED  BY ONLY <1>2, <1>4, <3>1, <3>2, <4>1, q \in Process
    <3>5. content'[frame[q]] = Zero
      BY <1>4, <3>2, <3>3
    <3>. QED  BY ONLY <2>1, <3>2, <3>4, <3>5
  <2>2. CASE pc[q] # "map"
    BY <2>2 DEF Inv, FaultOK
  <2>. QED  BY <2>1, <2>2
<1>11. ChildOK'
  BY <1>2 DEF Inv, ChildOK
<1>12. BlankOK'
  BY <1>1, <1>2, <1>4 DEF Inv, BlankOK
<1>13. PartOK'
  <2> SUFFICES ASSUME NEW q \in Process, pc'[q] = "fork"
               PROVE  /\ pde'[child'[q]][Dirs] # None /\ pte'[child'[q]][Special] = Device
                      /\ at'[q][2] <= Entries
    BY DEF PartOK
  <2>1. /\ pc[q] = "fork" /\ q # p /\ child[q] # p /\ child[q] \in Process
        /\ child'[q] = child[q] /\ at'[q] = at[q]
    BY <1>1, <1>2 DEF Inv, ChildOK
  <2>2. pte'[child[q]][Special] = pte[child[q]][Special]
    BY <1>4, <2>1
  <2>. QED  BY <1>2, <2>1, <2>2 DEF Inv, PartOK
<1>14. CopyOK'
  <2> SUFFICES ASSUME NEW q \in Process, pc'[q] = "fork", NEW b \in Page
               PROVE  CopiedAt(q, b)'
    BY DEF CopyOK
  <2>1. /\ pc[q] = "fork" /\ q # p /\ child[q] # p /\ child[q] \in Process
        /\ child'[q] = child[q] /\ at'[q] = at[q]
    BY <1>1, <1>2 DEF Inv, ChildOK
  <2>2. pte'[q][b] = pte[q][b] /\ pte'[child[q]][b] = pte[child[q]][b]
    BY <1>4, <2>1
  <2>3. /\ pte[q][b] # None => content'[pte[q][b]] = content[pte[q][b]]
        /\ pte[child[q]][b] # None => content'[pte[child[q]][b]] = content[pte[child[q]][b]]
    BY <1>1, <1>4, <2>1, Distinct DEF Inv, DeviceOK
  <2>. QED  BY <2>1, <2>2, <2>3, CopyKept DEF Inv
<1>15. DeleteOK'
  <2> SUFFICES ASSUME NEW q \in Process
               PROVE  DeletedOK(q)'
    BY DEF DeleteOK
  <2>1. CASE q # p
    <3>1. DeletedOK(q)
      BY ONLY Inv, q \in Process DEF Inv, DeleteOK
    <3>2. at'[q] = at[q] /\ pc' = pc /\ pde' = pde
      BY <1>2, <2>1
    <3>3. \A a \in Address : pte'[q][a] = pte[q][a]
      BY <1>4, <2>1
    <3>. QED  BY ONLY <3>1, <3>2, <3>3 DEF DeletedOK
  <2>2. CASE q = p
    <3>1. at'[p][1] = at[p][1] /\ at'[p][2] = at[p][2] + 1
      <4>1. at'[p] = <<at[p][1], at[p][2] + 1>>
        BY <1>2 <4>. QED BY ONLY <4>1
    <3>2. \A a \in Address : Before(a, at'[p]) => Before(a, at[p]) \/ a = at[p]
      BY <1>1, <3>1, Numbers DEF Before
    <3>3. \A a \in Address : Before(a, at'[p]) => pte'[p][a] = None \/ a = Special
      BY <1>1, <1>4, <3>2 DEF DeletedOK
    <3>4. pc[p] = "delete" => \A d \in Dir : d < at'[p][1] => pde[p][d] = None
      BY <1>1, <3>1 DEF DeletedOK
    <3>. QED  BY <1>2, <2>2, <3>3, <3>4 DEF DeletedOK
  <2>. QED  BY <2>1, <2>2
<1>16. RegionOK'
  BY <1>1, <1>2, <1>4 DEF Inv, RegionOK, Shown
<1>17. (\A q \in Process, b \in Page : Read(q, b)' =
             IF q = p /\ b = at[p] THEN Zero ELSE Read(q, b))
  <2> SUFFICES ASSUME NEW q \in Process, NEW b \in Page
               PROVE  Read(q, b)' = IF q = p /\ b = at[p] THEN Zero ELSE Read(q, b)
    OBVIOUS
  <2>1. CASE q = p /\ b = at[p]
    <3>1. pte'[q][b] = None
      BY <1>4, <2>1
    <3>. QED  BY <2>1, <3>1 DEF Read
  <2>2. CASE ~(q = p /\ b = at[p])
    <3>1. pte'[q][b] = pte[q][b]
      BY <1>4, <2>2
    <3>2. pte[q][b] # None => pte[q][b] \in Frame /\ pte[q][b] # pte[p][at[p]]
      BY <1>1, <2>2, Distinct DEF Inv, DeviceOK
    <3>. QED  BY <1>4, <2>2, <3>1, <3>2 DEF Read
  <2>. QED  BY <2>1, <2>2
<1>. QED  BY <1>5, <1>6, <1>7, <1>8, <1>9, <1>10, <1>11, <1>12, <1>13, <1>14, <1>15,
    <1>16, <1>17 DEF Inv

(* ... and a page table, but for the one of the APICs in exec(). *)
LEMMA DropTableInv ==
    ASSUME Inv, NEW p \in Process, DropTable(p)
    PROVE  Inv' /\ NoneLost /\ Untouched
<1>. USE Addresses, Typed
<1>. DEFINE d == at[p][1]
<1>1. /\ pc[p] \in {"clear", "delete"} /\ d \in Dir /\ at[p][2] > Entries
      /\ pde[p][d] \in Frame /\ DeletedOK(p)
      /\ pc[p] # "map" /\ pc[p] # "fork"
  BY DEF Inv, DropTable, Deletes, DeleteOK
<1>2. /\ \A q \in Process : at'[q] = IF q = p THEN <<d + 1, 1>> ELSE at[q]
      /\ pd' = pd /\ pc' = pc /\ frame' = frame /\ child' = child
  BY DEF Inv, MemTypeOK, DropTable
<1>3. \A a \in Address : a[1] = d => pte[p][a] = None \/ a = Special
  <2>1. \A a \in Address : a[1] = d => Before(a, at[p])
    BY <1>1, Numbers DEF Inv, Before
  <2>. QED  BY <1>1, <2>1 DEF DeletedOK
<1>4. \/ /\ pc[p] = "clear" /\ d = Dirs
         /\ free' = free /\ content' = content /\ pde' = pde /\ pte' = pte
      \/ /\ pc[p] = "delete" \/ d # Dirs
         /\ free' = free \cup {pde[p][d]}
         /\ content' = [content EXCEPT ![pde[p][d]] = Linked]
         /\ pde' = [pde EXCEPT ![p][d] = None]
         /\ pte' = [pte EXCEPT ![p] = [a \in Address |-> IF a[1] = d THEN None ELSE @[a]]]
  <2>1. KeepsTable(p, d) <=> pc[p] = "clear" /\ d = Dirs
    BY Numbers DEF KeepsTable, IsSpecial, Special
  <2>. QED  BY <1>1, <2>1 DEF DropTable, DeallocFrame
<1>5. /\ free \subseteq Frame /\ content \in [Frame -> Value]
      /\ pde \in [Process -> [Dir -> Frame \cup {None}]]
      /\ pte \in [Process -> [Address -> Frame \cup {Device, None}]]
  BY DEF Inv, MemTypeOK
<1>6. /\ \A q \in Process, b \in Page : pte'[q][b] = pte[q][b]
      /\ \A q \in Process, b \in Address : pte'[q][b] # pte[q][b] =>
            q = p /\ b = Special /\ d = Dirs /\ pc[p] = "delete" /\ pte'[q][b] = None
      /\ \A q \in Process, e \in Dir : q # p \/ e # d => pde'[q][e] = pde[q][e]
      /\ \A g \in Frame : g # pde[p][d] => content'[g] = content[g]
      /\ \/ pde'[p][d] = None
         \/ pc[p] = "clear" /\ d = Dirs /\ pde' = pde /\ pte' = pte
  <2>. HIDE DEF d
  <2>1. CASE pc[p] = "clear" /\ d = Dirs /\ content' = content /\ pde' = pde /\ pte' = pte
    BY ONLY <2>1
  <2>2. CASE /\ pc[p] = "delete" \/ d # Dirs
             /\ content' = [content EXCEPT ![pde[p][d]] = Linked]
             /\ pde' = [pde EXCEPT ![p][d] = None]
             /\ pte' = [pte EXCEPT ![p] = [a \in Address |-> IF a[1] = d THEN None ELSE @[a]]]
    <3>1. \A q \in Process, b \in Address :
             pte'[q][b] = IF q = p /\ b[1] = d THEN None ELSE pte[q][b]
      BY ONLY <1>5, <2>2
    <3>2. \A q \in Process, e \in Dir : pde'[q][e] = IF q = p /\ e = d THEN None ELSE pde[q][e]
      BY ONLY <1>5, <2>2
    <3>3. \A g \in Frame : g # pde[p][d] => content'[g] = content[g]
      BY ONLY <1>5, <2>2
    <3>4. pde'[p][d] = None
      BY ONLY <1>1, <3>2, p \in Process
    <3>5. \A q \in Process, b \in Address : pte'[q][b] # pte[q][b] =>
             q = p /\ b = Special /\ d = Dirs /\ pc[p] = "delete" /\ pte'[q][b] = None
      <4> SUFFICES ASSUME NEW q \in Process, NEW b \in Address, pte'[q][b] # pte[q][b]
                   PROVE  q = p /\ b = Special /\ d = Dirs /\ pc[p] = "delete" /\ pte'[q][b] = None
        OBVIOUS
      <4>1. q = p /\ b[1] = d /\ pte'[q][b] = None
        BY ONLY <3>1, q \in Process, b \in Address, pte'[q][b] # pte[q][b]
      <4>2. b = Special
        BY <1>3, <4>1
      <4>3. d = Dirs
        BY <4>1, <4>2
      <4>. QED  BY <2>2, <4>1, <4>2, <4>3
    <3>6. \A q \in Process, b \in Page : pte'[q][b] = pte[q][b]
      BY <3>5
    <3>. QED  BY ONLY <3>2, <3>3, <3>4, <3>5, <3>6
  <2>. QED  BY ONLY <1>4, <2>1, <2>2
<1>7. MemTypeOK'
  <2>. HIDE DEF d
  <2>1. free' \subseteq Frame /\ content' \in [Frame -> Value]
    BY ONLY <1>1, <1>4, <1>5, Addresses
  <2>2. pte' \in [Process -> [Address -> Frame \cup {Device, None}]]
    BY ONLY <1>4, <1>5, p \in Process
  <2>3. pde' \in [Process -> [Dir -> Frame \cup {None}]]
    <3>1. CASE pde' = pde
      BY ONLY <1>5, <3>1
    <3>2. CASE pde' = [pde EXCEPT ![p][d] = None]
      BY ONLY <1>5, <3>2
    <3>. QED  BY ONLY <1>4, <3>1, <3>2
  <2>4. at' \in [Process -> Place]
    BY <1>1, Places DEF Inv, MemTypeOK, DropTable, d
  <2>. QED  BY <1>2, <2>1, <2>2, <2>3, <2>4 DEF Inv, MemTypeOK
<1>8. AccountedOK' /\ NoneLost
  <2>1. CASE free' = free /\ pde' = pde /\ pte' = pte
    BY <1>2, <2>1, Kept DEF Inv, Alike, FrameOf
  <2>2. CASE /\ free' = free \cup {pde[p][d]}
             /\ pde' = [pde EXCEPT ![p][d] = None]
    <3>1. PICK w \in Use : w = <<"pt", p, d>>
      BY <1>1, UseCases
    <3>2. FrameOf(w) = pde[p][d]
      BY <3>1, FramesOf
    <3>3. FrameOf(w)' \notin Frame
      <4>1. pde'[p][d] = None
        BY ONLY <1>1, <1>5, <2>2, p \in Process
      <4>. QED  BY <3>1, <4>1, NextFramesOf
    <3>4. \A u \in Use \ {w} : Alike(u)
      <4>1. \A q \in Process, b \in Address : 
               pte'[q][b] = pte[q][b] \/ (pte'[q][b] \notin Frame /\ OfRegion(pte[q][b]))
        <5> SUFFICES ASSUME NEW q \in Process, NEW b \in Address, pte'[q][b] # pte[q][b]
                     PROVE  pte'[q][b] \notin Frame /\ OfRegion(pte[q][b])
          OBVIOUS
        <5>1. b = Special /\ pte'[q][b] = None
          BY <1>6
        <5>. QED  BY <5>1 DEF OfRegion
      <4> SUFFICES ASSUME NEW u \in Use, u # w PROVE Alike(u)
        OBVIOUS
      <4>2. CASE \E q \in Process, e \in Dir : u = <<"pt", q, e>>
        <5>1. PICK q \in Process, e \in Dir : u = <<"pt", q, e>>
          BY <4>2
        <5>2. pde'[q][e] = pde[q][e]
          BY <1>6, <3>1, <5>1
        <5>. QED  BY ONLY <5>1, <5>2, FramesOf, NextFramesOf DEF Alike
      <4>3. CASE \E q \in Process, b \in Address : u = <<"page", q, b>>
        <5>1. PICK q \in Process, b \in Address : u = <<"page", q, b>>
          BY <4>3
        <5>. QED  BY ONLY <4>1, <5>1, FramesOf, NextFramesOf DEF Alike
      <4>4. CASE \E q \in Process : u = <<"pd", q>> \/ u = <<"fault", q>>
        BY ONLY <1>2, <4>4, FramesOf, NextFramesOf DEF Alike
      <4>. QED  BY ONLY <4>2, <4>3, <4>4, u \in Use, UseCases
    <3>. QED  BY <1>1, <2>2, <3>1, <3>2, <3>3, <3>4, Given DEF Inv
  <2>. QED  BY <1>4, <2>1, <2>2
<1>9. IdleOK'
  BY <1>1, <1>2, <1>6 DEF Inv, IdleOK
<1>10. MappedOK'
  <2> SUFFICES ASSUME NEW q \in Process, NEW b \in Address, pte'[q][b] # None
               PROVE  pde'[q][b[1]] # None
    BY DEF MappedOK
  <2>1. pte[q][b] # None /\ pde[q][b[1]] # None
    BY <1>6 DEF Inv, MappedOK
  <2>2. CASE q = p /\ b[1] = d
    <3>1. b = Special /\ d = Dirs
      BY <1>3, <2>1, <2>2
    <3>2. CASE pde' = pde
      BY <2>1, <3>2
    <3>3. CASE pte' = [pte EXCEPT ![p] = [a \in Address |-> IF a[1] = d THEN None ELSE @[a]]]
      BY <2>2, <3>3 DEF Inv, MemTypeOK
    <3>. QED  BY <1>4, <3>2, <3>3
  <2>3. CASE q # p \/ b[1] # d
    BY <1>6, <2>1, <2>3
  <2>. QED  BY <2>2, <2>3
<1>11. DeviceOK'
  BY <1>6 DEF Inv, DeviceOK
<1>12. FaultOK'
  <2> SUFFICES ASSUME NEW q \in Process
               PROVE  IF pc[q] = "map"
                      THEN /\ at'[q] \in Address /\ (at'[q] \in Page => pte'[q][at'[q]] = None)
                           /\ frame[q] \in Frame /\ content'[frame[q]] = Zero
                      ELSE frame[q] = None
    BY <1>2 DEF FaultOK
  <2>1. CASE pc[q] = "map"
    <3>1. q # p
      BY <1>1, <2>1
    <3>2. /\ at[q] \in Address /\ (at[q] \in Page => pte[q][at[q]] = None)
          /\ frame[q] \in Frame /\ content[frame[q]] = Zero
      BY <2>1 DEF Inv, FaultOK
    <3>3. frame[q] # pde[p][d]
      BY <1>1, <3>2, Distinct DEF Inv
    <3>. QED  BY <1>2, <1>6, <2>1, <3>1, <3>2, <3>3
  <2>2. CASE pc[q] # "map"
    BY <2>2 DEF Inv, FaultOK
  <2>. QED  BY <2>1, <2>2
<1>13. ChildOK'
  BY <1>2 DEF Inv, ChildOK
<1>14. BlankOK'
  BY <1>1, <1>2, <1>6 DEF Inv, BlankOK
<1>15. PartOK'
  BY <1>1, <1>2, <1>6 DEF Inv, PartOK, ChildOK
<1>16. CopyOK'
  <2> SUFFICES ASSUME NEW q \in Process, pc'[q] = "fork", NEW b \in Page
               PROVE  CopiedAt(q, b)'
    BY DEF CopyOK
  <2>1. /\ pc[q] = "fork" /\ q # p /\ child[q] # p /\ child[q] \in Process
        /\ child'[q] = child[q] /\ at'[q] = at[q]
    BY <1>1, <1>2 DEF Inv, ChildOK
  <2>2. pte'[q][b] = pte[q][b] /\ pte'[child[q]][b] = pte[child[q]][b]
    BY <1>6, <2>1
  <2>3. /\ pte[q][b] # None => content'[pte[q][b]] = content[pte[q][b]]
        /\ pte[child[q]][b] # None => content'[pte[child[q]][b]] = content[pte[child[q]][b]]
    BY <1>1, <1>6, <2>1, Distinct DEF Inv, DeviceOK
  <2>. QED  BY <2>1, <2>2, <2>3, CopyKept DEF Inv
<1>17. DeleteOK'
  <2> SUFFICES ASSUME NEW q \in Process
               PROVE  DeletedOK(q)'
    BY DEF DeleteOK
  <2>1. CASE q # p
    <3>1. DeletedOK(q)
      BY DEF Inv, DeleteOK
    <3>. QED  BY <1>2, <1>6, <2>1, <3>1 DEF DeletedOK
  <2>2. CASE q = p
    <3>1. at'[p][1] = d + 1 /\ at'[p][2] = 1 /\ d \in Nat
      BY <1>2 DEF Inv
    <3>2. \A a \in Address : Before(a, at'[p]) => Before(a, at[p]) \/ a[1] = d
      BY <1>1, <3>1, Numbers DEF Before
    <3>3. \A a \in Address : Before(a, at'[p]) => pte[p][a] = None \/ a = Special
      BY <1>1, <1>3, <3>2 DEF DeletedOK
    <3>4. \A a \in Address : Before(a, at'[p]) => pte'[p][a] = None \/ a = Special
      BY <1>6, <3>3
    <3>5. pc[p] = "delete" => \A e \in Dir : e < at'[p][1] => pde'[p][e] = None
      <4>1. \A e \in Dir : e < at'[p][1] => e < d \/ e = d
        BY ONLY <3>1, Numbers, d \in Nat
      <4>. QED  BY <1>1, <1>6, <4>1 DEF DeletedOK
    <3>. QED  BY <1>2, <2>2, <3>4, <3>5 DEF DeletedOK
  <2>. QED  BY <2>1, <2>2
<1>18. RegionOK'
  <2> SUFFICES ASSUME NEW q \in Process, pc[q] \notin {"none", "new", "delete"}
               PROVE  pde'[q][Dirs] # None
    BY <1>2 DEF RegionOK, Shown
  <2>1. pde[q][Dirs] # None
    BY DEF Inv, RegionOK, Shown
  <2>2. q # p \/ Dirs # d \/ pde' = pde
    BY <1>1, <1>4
  <2>3. pde'[q][Dirs] = pde[q][Dirs]
    BY <1>6, <2>2
  <2>. QED  BY <2>1, <2>3
<1>19. Untouched
  <2>1. PICK g : g = pde[p][d]
    OBVIOUS
  <2>2. \A x \in Frame \ {g} : content'[x] = content[x]
    BY <2>1, <1>1, <1>6
  <2>3. \A q \in Process, b \in Page : Shown(q) => pte'[q][b] = pte[q][b]
    BY <1>1, <1>6 DEF Shown
  <2>4. \A q \in Process, b \in Page : pte[q][b] # g
    BY <2>1, <1>1, <1>6, Distinct DEF Inv
  <2>. QED  BY ONLY Inv, <2>2, <2>3, <2>4, ReadsKept
<1>. QED  BY <1>7, <1>8, <1>9, <1>10, <1>11, <1>12, <1>13, <1>14, <1>15, <1>16, <1>17,
    <1>18, <1>19 DEF Inv

(* Boot has made kernelProcess. *)
LEMMA InitInv == Init => Inv
<1>. USE Addresses
<1>. SUFFICES ASSUME Init PROVE Inv
  OBVIOUS
<1>1. PICK f \in Choice(Frame) : \E g \in Choice(Frame \ {f}) :
        /\ free = Frame \ {f, g}
        /\ content = [x \in Frame |-> IF x \in {f, g} THEN Zero ELSE Linked]
        /\ pd = [p \in Process |-> IF p = Initial THEN f ELSE None]
        /\ pde = [p \in Process |->
                    IF p = Initial THEN [NoTables EXCEPT ![Dirs] = g] ELSE NoTables]
        /\ pte = [p \in Process |->
                    IF p = Initial THEN [NoEntries EXCEPT ![Special] = Device]
                    ELSE NoEntries]
        /\ pc = [p \in Process |-> IF p = Initial THEN "user" ELSE "none"]
        /\ at = [p \in Process |-> First]
        /\ frame = [p \in Process |-> None]
        /\ child = [p \in Process |-> p]
  BY DEF Init
<1>2. PICK g \in Choice(Frame \ {f}) :
        /\ free = Frame \ {f, g}
        /\ content = [x \in Frame |-> IF x \in {f, g} THEN Zero ELSE Linked]
        /\ pd = [p \in Process |-> IF p = Initial THEN f ELSE None]
        /\ pde = [p \in Process |->
                    IF p = Initial THEN [NoTables EXCEPT ![Dirs] = g] ELSE NoTables]
        /\ pte = [p \in Process |->
                    IF p = Initial THEN [NoEntries EXCEPT ![Special] = Device]
                    ELSE NoEntries]
        /\ pc = [p \in Process |-> IF p = Initial THEN "user" ELSE "none"]
        /\ at = [p \in Process |-> First]
        /\ frame = [p \in Process |-> None]
        /\ child = [p \in Process |-> p]
  BY <1>1
<1>3. f \in Frame /\ g \in Frame /\ f # g /\ Initial \in Process
  BY MemoryAssumption
<1>4. /\ \A p \in Process : /\ pd[p] = IF p = Initial THEN f ELSE None
                            /\ pc[p] = IF p = Initial THEN "user" ELSE "none"
                            /\ frame[p] = None /\ child[p] = p /\ at[p] = First
      /\ \A p \in Process, d \in Dir :
            pde[p][d] = IF p = Initial /\ d = Dirs THEN g ELSE None
      /\ \A p \in Process, a \in Address :
            pte[p][a] = IF p = Initial /\ a = Special THEN Device ELSE None
  BY <1>2 DEF NoTables, NoEntries
<1>5. MemTypeOK
  BY <1>2, <1>3, Places DEF MemTypeOK, NoTables, NoEntries, Label
<1>6. AccountedOK
  <2>1. \A u \in Use : FrameOf(u) \in Frame =>
           \/ u = <<"pd", Initial>> /\ FrameOf(u) = f
           \/ u = <<"pt", Initial, Dirs>> /\ FrameOf(u) = g
    <3> SUFFICES ASSUME NEW u \in Use, FrameOf(u) \in Frame
                 PROVE  \/ u = <<"pd", Initial>> /\ FrameOf(u) = f
                        \/ u = <<"pt", Initial, Dirs>> /\ FrameOf(u) = g
      OBVIOUS
    <3>1. CASE \E p \in Process : u = <<"pd", p>> \/ u = <<"fault", p>>
      BY <1>4, <3>1, FramesOf
    <3>2. CASE \E p \in Process, d \in Dir : u = <<"pt", p, d>>
      BY <1>4, <3>2, FramesOf
    <3>3. CASE \E p \in Process, a \in Address : u = <<"page", p, a>>
      BY <1>4, <3>3, FramesOf
    <3>. QED  BY ONLY <3>1, <3>2, <3>3, u \in Use, UseCases
  <2>2. /\ <<"pd", Initial>> \in Use /\ FrameOf(<<"pd", Initial>>) = f
        /\ <<"pt", Initial, Dirs>> \in Use /\ FrameOf(<<"pt", Initial, Dirs>>) = g
    <3>1. pd[Initial] = f /\ pde[Initial][Dirs] = g
      BY <1>3, <1>4
    <3>. QED  BY ONLY <1>3, <3>1, Addresses, UseCases, FramesOf
  <2>. QED  BY <1>2, <1>3, <2>1, <2>2 DEF AccountedOK
<1>7. IdleOK /\ MappedOK /\ DeviceOK /\ FaultOK
  BY <1>3, <1>4 DEF IdleOK, MappedOK, DeviceOK, FaultOK
<1>8. ChildOK /\ BlankOK /\ PartOK /\ CopyOK
  BY <1>4 DEF ChildOK, BlankOK, PartOK, CopyOK, Forking
<1>9. DeleteOK /\ RegionOK
  BY <1>3, <1>4 DEF DeleteOK, DeletedOK, RegionOK, Shown
<1>. QED  BY <1>5, <1>6, <1>7, <1>8, <1>9 DEF Inv

(* A step of none of these variables *)
LEMMA SameInv ==
    ASSUME Inv, UNCHANGED <<free, content, tables, pc, locals>>
    PROVE  Inv' /\ UNCHANGED <<Modes, Views>>
<1>1. /\ free' = free /\ content' = content /\ pd' = pd /\ pde' = pde /\ pte' = pte
      /\ pc' = pc /\ at' = at /\ frame' = frame /\ child' = child
  BY DEF tables, locals
<1>2. MemTypeOK' /\ AccountedOK' /\ IdleOK'
  BY <1>1 DEF Inv, MemTypeOK, AccountedOK, FrameOf, IdleOK
<1>3. MappedOK' /\ DeviceOK' /\ FaultOK' /\ ChildOK'
  BY <1>1 DEF Inv, MappedOK, DeviceOK, FaultOK, ChildOK
<1>4. BlankOK' /\ PartOK' /\ DeleteOK' /\ RegionOK'
  BY <1>1 DEF Inv, BlankOK, PartOK, DeleteOK, DeletedOK, Before, RegionOK, Shown
<1>5. CopyOK'
  BY <1>1 DEF Inv, CopyOK, CopiedAt, Read
<1>6. UNCHANGED <<Modes, Views>>
  BY <1>1 DEF Modes, Mode, Views, Shown, Read
<1>. QED  BY <1>2, <1>3, <1>4, <1>5, <1>6 DEF Inv

(* Every step keeps the invariant. *)
LEMMA NextInv ==
    ASSUME Inv, [Next]_vars PROVE Inv'
<1>1. CASE UNCHANGED vars
  BY <1>1, SameInv DEF vars
<1>2. CASE Next
  <2>1. PICK p \in Process : Step(p) \/ NoMoreFrames(p)
    BY <1>2 DEF Next
  <2>2. CASE NoMoreFrames(p)
    BY <2>2, SameInv DEF NoMoreFrames
  <2>3. CASE Step(p)
    BY <2>3, FaultInv, StoreInv, MapTableInv, MapInv, ForkInv, MakePdInv, ForkTableInv,
        ForkPageInv, ForkSkipInv, ForkedInv, ExecInv, ExitInv, PassTableInv, DropPageInv,
        DropTableInv, ClearedInv, DeletedInv DEF Step
  <2>. QED  BY <2>1, <2>2, <2>3
<1>. QED  BY <1>1, <1>2

(* The invariant holds of physmem.cc and vmm.cc, for any number of         *)
(* processes, tables, entries and frames.                                  *)
THEOREM Invariance == Spec => []Inv
<1>1. Inv /\ [Next]_vars => Inv'
  BY NextInv
<1>. QED  BY <1>1, InitInv, PTL DEF Spec

(* A step of none of these variables loses no frame. *)
LEMMA SameLost ==
    ASSUME UNCHANGED <<free, content, tables, pc, locals>> PROVE NoneLost
<1>1. free' = free /\ pd' = pd /\ pde' = pde /\ pte' = pte /\ frame' = frame
  BY DEF tables, locals
<1>2. \A f : Used(f)' <=> Used(f)
  BY <1>1 DEF Used, FrameOf
<1>. QED  BY <1>1, <1>2 DEF NoneLost

(* For any number of processes, tables, entries and frames, whatever fork, *)
(* exec, faults and exits do: no frame is shared, freed in use or freed    *)
(* twice, and none is lost but from the APICs' region.                     *)
THEOREM FramesSafe == Spec => FramesAccounted
<1>1. Inv /\ [Next]_vars => [NoneLost]_vars
  <2> SUFFICES ASSUME Inv, Next PROVE NoneLost
    OBVIOUS
  <2>1. PICK p \in Process : Step(p) \/ NoMoreFrames(p)
    BY DEF Next
  <2>2. CASE NoMoreFrames(p)
    BY <2>2, SameLost DEF NoMoreFrames
  <2>3. CASE Step(p)
    BY <2>3, FaultInv, StoreInv, MapTableInv, MapInv, ForkInv, MakePdInv, ForkTableInv,
        ForkPageInv, ForkSkipInv, ForkedInv, ExecInv, ExitInv, PassTableInv, DropPageInv,
        DropTableInv, ClearedInv, DeletedInv DEF Step
  <2>. QED  BY <2>1, <2>2, <2>3
<1>2. Inv => UsedOnce
  BY AccountedCounts DEF Inv, MemTypeOK
<1>. QED  BY <1>1, <1>2, Invariance, PTL DEF Spec, FramesAccounted

(* What a step does to the mapping of the APICs and to who runs: most do   *)
(* nothing to either.                                                      *)
LEMMA DevicesStep ==
    ASSUME Inv, NEW p \in Process, Step(p) PROVE NoneUnmapped
<1>. USE Addresses, Typed
<1>. SUFFICES ASSUME NEW q \in Process, Shown(q)', ~Devices(q)',
                     ~(pc[q] = "map" /\ at[q] = Special)
              PROVE  Shown(q) /\ ~Devices(q)
  BY DEF NoneUnmapped
<1>. DEFINE Same == Shown(q) /\ pde'[q][Dirs] = pde[q][Dirs] /\ pte'[q][Special] = pte[q][Special]
<1>1. Same => Shown(q) /\ ~Devices(q)
  BY DEF Devices
<1>2. pde \in [Process -> [Dir -> Frame \cup {None}]] /\ pc \in [Process -> Label]
      /\ pte \in [Process -> [Address -> Frame \cup {Device, None}]]
  BY DEF Inv, MemTypeOK
<1>3. CASE (\E a \in Address : Fault(p, a) \/ \E v \in Value : Store(p, a, v)) \/ Exec(p) \/ Exit(p)
  BY <1>1, <1>2, <1>3 DEF Fault, Store, Exec, Exit, Goto, Shown, tables
<1>4. CASE MapTable(p)
  <2>1. p = q => at[q][1] # Dirs
    BY <1>2, <1>4 DEF Inv, RegionOK, Shown, MapTable
  <2>. QED  BY <1>1, <1>2, <1>4, <2>1 DEF MapTable, Shown, tables
<1>5. CASE Map(p)
  BY <1>1, <1>2, <1>5 DEF Map, Goto, Shown
<1>6. CASE \E c \in Process : Fork(p, c)
  BY <1>1, <1>2, <1>6 DEF Fork, Shown
<1>7. CASE MakePd(p) \/ ForkTable(p)
  <2>1. pc[p] \in Forking /\ child[p] \in Process /\ child[p] # p /\ pc[child[p]] = "new"
    BY <1>7 DEF Inv, ChildOK, Forking, MakePd, ForkTable
  <2>2. q # child[p]
    BY <1>2, <1>7, <2>1 DEF MakePd, ForkTable, Goto, Shown
  <2>. QED  BY <1>1, <1>2, <1>7, <2>1, <2>2 DEF MakePd, ForkTable, Goto, Shown
<1>8. CASE ForkPage(p) \/ ForkSkip(p)
  <2>1. child[p] \in Process /\ pc[child[p]] = "new"
    BY <1>8 DEF Inv, ChildOK, Forking, ForkPage, ForkSkip
  <2>2. q # child[p]
    BY <1>2, <1>8, <2>1 DEF ForkPage, ForkSkip, Shown
  <2>. QED  BY <1>1, <1>2, <1>8, <2>1, <2>2 DEF ForkPage, ForkSkip, Shown, tables
<1>9. CASE Forked(p)
  <2>1. child[p] \in Process /\ Devices(child[p])
    BY <1>9 DEF Inv, PartOK, Devices, Forked
  <2>2. q # child[p]
    BY <1>9, <2>1 DEF Forked, Devices, tables
  <2>. QED  BY <1>1, <1>2, <1>9, <2>1, <2>2 DEF Forked, Shown, tables
<1>10. CASE PassTable(p) \/ Cleared(p) \/ Deleted(p)
  BY <1>1, <1>2, <1>10 DEF PassTable, Cleared, Deleted, Deletes, Goto, Shown, tables
<1>11. CASE DropPage(p)
  <2>1. pte'[q][Special] = pte[q][Special]
    BY <1>2, <1>11 DEF DropPage, IsSpecial
  <2>. QED  BY <1>1, <1>2, <1>11, <2>1 DEF DropPage, Shown
<1>12. CASE DropTable(p)
  <2>1. pc' = pc /\ Shown(q)
    BY <1>12 DEF DropTable, Shown
  <2>2. CASE q = p
    <3>1. pc[p] = "clear"
      BY <1>12, <2>1, <2>2 DEF DropTable, Deletes, Shown
    <3>2. KeepsTable(p, Dirs)
      BY <3>1, Numbers DEF KeepsTable, IsSpecial, Special
    <3>3. CASE at[p][1] = Dirs
      BY <1>1, <1>12, <2>1, <3>2, <3>3 DEF DropTable
    <3>4. CASE at[p][1] # Dirs
      BY <1>1, <1>2, <1>12, <2>1, <2>2, <3>4 DEF DropTable
    <3>. QED  BY <3>3, <3>4
  <2>3. CASE q # p
    BY <1>1, <1>2, <1>12, <2>1, <2>3 DEF DropTable
  <2>. QED  BY <2>2, <2>3
<1>. QED  BY <1>3, <1>4, <1>5, <1>6, <1>7, <1>8, <1>9, <1>10, <1>11, <1>12 DEF Step

(* exec() keeps the page table of the APICs and make_pd() maps them before *)
(* the child can run: for any number of processes, tables and frames, only *)
(* a process that touches their address itself loses them.                 *)
THEOREM OnlyOwnTouchUnmaps == Spec => OnlyOwnTouchUnmapsDevices
<1>1. Inv /\ [Next]_vars => [NoneUnmapped]_vars
  <2> SUFFICES ASSUME Inv, Next PROVE NoneUnmapped
    OBVIOUS
  <2>1. PICK p \in Process : Step(p) \/ NoMoreFrames(p)
    BY DEF Next
  <2>2. CASE NoMoreFrames(p)
    <3>1. pc' = pc /\ pde' = pde /\ pte' = pte
      BY <2>2 DEF NoMoreFrames, tables
    <3>. QED  BY <3>1 DEF NoneUnmapped, Shown, Devices
  <2>3. CASE Step(p)
    BY <2>3, DevicesStep
  <2>. QED  BY <2>1, <2>2, <2>3
<1>. QED  BY <1>1, Invariance, PTL DEF Spec, OnlyOwnTouchUnmapsDevices

-----------------------------------------------------------------------------
(* The refinement *)

(* The mapping to AddressSpaces, of a process *)
LEMMA Shapes ==
    ASSUME NEW p \in Process
    PROVE  /\ Modes[p] = Mode(p)
           /\ Shown(p) => Views[p] = [a \in Page |-> Read(p, a)]
           /\ ~Shown(p) => Views[p] = <<>>
  BY DEF Modes, Views

(* A step that programs see nothing of *)
LEMMA SameViews ==
    ASSUME Untouched, \A q \in Process : Shown(q)' = Shown(q)
    PROVE  Views' = Views
  BY DEF Views, Untouched

(* ... and that leaves every process where it was *)
LEMMA SameModes ==
    ASSUME \A q \in Process : Mode(q)' = Mode(q)
    PROVE  Modes' = Modes
  BY DEF Modes

(* The kernel's steps that programs see nothing of *)
Quiet(p) ==
    \/ MapTable(p) \/ MakePd(p) \/ ForkTable(p) \/ ForkPage(p) \/ ForkSkip(p)
    \/ PassTable(p) \/ DropTable(p) \/ Deleted(p)

(* Taking frames for tables, copying page by page and deleting are no       *)
(* steps of AddressSpaces.                                                 *)
LEMMA QuietStep ==
    ASSUME Inv, NEW p \in Process, Quiet(p) PROVE UNCHANGED <<Modes, Views>>
<1>1. Untouched
  BY MapTableInv, MakePdInv, ForkTableInv, ForkPageInv, ForkSkipInv, PassTableInv,
      DropTableInv, DeletedInv DEF Quiet
<1>2. \/ pc' = pc
      \/ pc[p] = "make_pd" /\ pc' = [pc EXCEPT ![p] = "fork"]
      \/ pc[p] = "delete" /\ pc' = [pc EXCEPT ![p] = "none"]
  BY DEF Quiet, MapTable, MakePd, ForkTable, ForkPage, ForkSkip, PassTable, DropTable,
      Deleted, Goto
<1>3. pc \in [Process -> Label]
  BY DEF Inv, MemTypeOK
<1>4. \A q \in Process : Shown(q)' = Shown(q) /\ Mode(q)' = Mode(q)
  BY <1>2, <1>3 DEF Shown, Mode
<1>. QED  BY <1>1, <1>4, SameViews, SameModes

(* A fault or a fork() enters the kernel, map() leaves it. *)
LEMMA EntersOrLeaves ==
    ASSUME Inv, NEW p \in Process,
           (\E a \in Address : Fault(p, a)) \/ (\E q \in Process : Fork(p, q)) \/ Map(p) \/ Exec(p)
    PROVE  Spaces!Enter(p) \/ Spaces!Leave(p) \/ Spaces!Exec(p)
<1>1. Untouched
  BY FaultInv, ForkInv, MapInv, ExecInv
<1>2. \/ pc[p] = "user" /\ pc' = [pc EXCEPT ![p] = "map"]
      \/ pc[p] = "map" /\ pc' = [pc EXCEPT ![p] = "user"]
      \/ pc[p] = "user" /\ pc' = [pc EXCEPT ![p] = "clear"]
      \/ /\ pc[p] = "user"
         /\ \E q \in Process : pc[q] = "none" /\ pc' = [pc EXCEPT ![p] = "make_pd", ![q] = "new"]
  BY DEF Fault, Fork, Map, Exec, Goto
<1>3. pc \in [Process -> Label]
  BY DEF Inv, MemTypeOK
<1>4. \A q \in Process : Shown(q)' = Shown(q) /\ (q # p => Mode(q)' = Mode(q))
  BY <1>2, <1>3 DEF Shown, Mode
<1>5. \/ Mode(p) = "user" /\ Mode(p)' = "kernel"
      \/ Mode(p) = "kernel" /\ Mode(p)' = "user"
      \/ Mode(p) = "user" /\ Mode(p)' = "exec"
  BY <1>2, <1>3 DEF Mode
<1>6. Views' = Views
  BY <1>1, <1>4, SameViews
<1>7. Modes[p] = Mode(p) /\ Modes' = [Modes EXCEPT ![p] = Mode(p)']
  BY <1>4 DEF Modes
<1>. QED  BY <1>5, <1>6, <1>7 DEF Spaces!Enter, Spaces!Leave, Spaces!Exec, Spaces!Becomes

(* A store is a write to the process' own memory, and to no other. *)
LEMMA StoreStep ==
    ASSUME Inv, NEW p \in Process, NEW a \in Address, NEW v \in Value, Store(p, a, v)
    PROVE  Spaces!Write(p, a, v)
<1>1. pc[p] = "user" /\ pc' = pc
  BY DEF Store
<1>2. \A q \in Process, b \in Page : Read(q, b)' = IF q = p /\ b = a THEN v ELSE Read(q, b)
  BY StoreInv
<1>3. Mode(p) = "user" /\ Shown(p)
  BY <1>1 DEF Mode, Shown
<1>4. \A q \in Process : Shown(q)' = Shown(q) /\ Mode(q)' = Mode(q)
  BY <1>1 DEF Mode, Shown
<1>5. Views[p] = [b \in Page |-> Read(p, b)]
  BY <1>3, Shapes
<1>6. [Views[p] EXCEPT ![a] = v] = [b \in Page |-> Read(p, b)']
  BY <1>2, <1>5
<1>7. \A q \in Process : q # p =>
        (IF Shown(q) THEN [b \in Page |-> Read(q, b)'] ELSE <<>>) = Views[q]
  BY <1>2, Shapes
<1>8. Views' = [Views EXCEPT ![p] = [Views[p] EXCEPT ![a] = v]]
  BY <1>3, <1>4, <1>6, <1>7 DEF Views
<1>9. Modes[p] = "user" /\ Modes' = Modes
  BY <1>3, <1>4, Shapes, SameModes
<1>. QED  BY <1>8, <1>9 DEF Spaces!Write

(* The child of fork() begins with a copy of the parent's memory. *)
LEMMA ForkedStep ==
    ASSUME Inv, NEW p \in Process, Forked(p)
    PROVE  Spaces!Fork(p, child[p])
<1>1. /\ pc[p] = "fork" /\ at[p][1] \notin Dir
      /\ pc' = [pc EXCEPT ![p] = "user", ![child[p]] = "user"]
  BY DEF Forked
<1>2. child[p] \in Process /\ child[p] # p /\ pc[child[p]] = "new"
  BY <1>1, Typed DEF Inv, ChildOK, Forking
<1>3. pc \in [Process -> Label]
  BY DEF Inv, MemTypeOK
<1>4. \A q \in Process : pc'[q] = IF q = p \/ q = child[p] THEN "user" ELSE pc[q]
  BY <1>1, <1>2, <1>3
<1>5. \A b \in Page : Read(child[p], b) = Read(p, b)
  <2> SUFFICES ASSUME NEW b \in Page PROVE Read(child[p], b) = Read(p, b)
    OBVIOUS
  <2>1. Before(b, at[p])
    BY <1>1, Addresses, Numbers, Typed DEF Inv, Before
  <2>. QED  BY <1>1, <2>1 DEF Inv, CopyOK, CopiedAt
<1>6. pte' = pte /\ content' = content
  BY DEF Forked, tables
<1>7. \A q \in Process, b \in Page : Read(q, b)' = Read(q, b)
  BY <1>6 DEF Read
<1>8. /\ Mode(p) = "kernel" /\ Mode(child[p]) = "none" /\ Shown(p) /\ ~Shown(child[p])
      /\ \A q \in Process : Mode(q)' = IF q = p \/ q = child[p] THEN "user" ELSE Mode(q)
      /\ \A q \in Process : Shown(q)' <=> (Shown(q) \/ q = child[p])
  <2>1. Mode(p) = "kernel" /\ Mode(child[p]) = "none" /\ Shown(p) /\ ~Shown(child[p])
    BY <1>1, <1>2 DEF Mode, Shown
  <2>2. \A q \in Process : Mode(q)' = IF q = p \/ q = child[p] THEN "user" ELSE Mode(q)
    BY <1>4 DEF Mode
  <2>3. ASSUME NEW q \in Process PROVE Shown(q)' <=> (Shown(q) \/ q = child[p])
    <3>1. CASE q = p \/ q = child[p]
      BY <1>4, <2>1 DEF Shown
    <3>2. CASE ~(q = p \/ q = child[p])
      BY <1>4, <3>2 DEF Shown
    <3>. QED  BY <3>1, <3>2
  <2>. QED  BY <2>1, <2>2, <2>3
<1>9. Modes' = [Modes EXCEPT ![p] = "user", ![child[p]] = "user"]
  BY <1>2, <1>8 DEF Modes
<1>10. Views' = [Views EXCEPT ![child[p]] = Views[p]]
  <2>1. Views[p] = [b \in Page |-> Read(p, b)]
    BY <1>5, <1>8, Shapes
  <2>2. Views[p] = [b \in Page |-> Read(child[p], b)]
    BY <1>5, <2>1
  <2>3. \A q \in Process :
           (IF Shown(q)' THEN [b \in Page |-> Read(q, b)'] ELSE <<>>)
              = IF q = child[p] THEN Views[p] ELSE Views[q]
    <3> SUFFICES ASSUME NEW q \in Process
                 PROVE  (IF Shown(q)' THEN [b \in Page |-> Read(q, b)'] ELSE <<>>)
                           = IF q = child[p] THEN Views[p] ELSE Views[q]
      OBVIOUS
    <3>1. CASE q = child[p]
      BY <1>7, <1>8, <2>2, <3>1
    <3>2. CASE q # child[p]
      BY <1>7, <1>8, <3>2, Shapes
    <3>. QED  BY <3>1, <3>2
  <2>. QED  BY <1>2, <2>3 DEF Views
<1>. QED  BY <1>2, <1>8, <1>9, <1>10, Shapes DEF Spaces!Fork

(* A page given back in exec() is forgotten. *)
LEMMA DropPageStep ==
    ASSUME Inv, NEW p \in Process, DropPage(p)
    PROVE  (\E a \in Page : Spaces!Forget(p, a)) \/ UNCHANGED <<Modes, Views>>
<1>1. pc[p] \in {"clear", "delete"} /\ pc' = pc
  BY DEF DropPage, Deletes
<1>2. \A q \in Process, b \in Page : Read(q, b)' = IF q = p /\ b = at[p] THEN Zero ELSE Read(q, b)
  BY DropPageInv
<1>3. \A q \in Process : Shown(q)' = Shown(q) /\ Mode(q)' = Mode(q)
  BY <1>1 DEF Mode, Shown
<1>4. Modes' = Modes
  BY <1>3, SameModes
<1>5. CASE at[p] \in Page /\ pc[p] = "clear"
  <2>. DEFINE a == at[p]
  <2>1. Mode(p) = "exec" /\ Shown(p)
    BY <1>5 DEF Mode, Shown
  <2>2. Views[p] = [b \in Page |-> Read(p, b)]
    BY <2>1, Shapes
  <2>3. [Views[p] EXCEPT ![a] = Zero] = [b \in Page |-> Read(p, b)']
    BY <1>2, <1>5, <2>2
  <2>4. \A q \in Process : q # p =>
          (IF Shown(q) THEN [b \in Page |-> Read(q, b)'] ELSE <<>>) = Views[q]
    BY <1>2, Shapes
  <2>5. Views' = [Views EXCEPT ![p] = [Views[p] EXCEPT ![a] = Zero]]
    BY <1>3, <2>1, <2>3, <2>4 DEF Views
  <2>6. Modes[p] = "exec"
    BY <2>1, Shapes
  <2>7. Spaces!Forget(p, a)
    BY <1>4, <2>5, <2>6 DEF Spaces!Forget
  <2>. QED  BY <1>5, <2>7
<1>6. CASE ~(at[p] \in Page /\ pc[p] = "clear")
  <2>1. Untouched
    BY <1>1, <1>2, <1>6 DEF Untouched, Shown
  <2>. QED  BY <1>3, <1>4, <2>1, SameViews
<1>. QED  BY <1>5, <1>6

(* exec() is done when nothing of the old program is left. *)
LEMMA ClearedStep ==
    ASSUME Inv, NEW p \in Process, Cleared(p)
    PROVE  Spaces!Execed(p)
<1>1. pc[p] = "clear" /\ at[p][1] \notin Dir /\ pc' = [pc EXCEPT ![p] = "user"]
  BY DEF Cleared, Goto
<1>2. pc \in [Process -> Label]
  BY DEF Inv, MemTypeOK
<1>3. \A b \in Page : Read(p, b) = Zero
  <2> SUFFICES ASSUME NEW b \in Page PROVE Read(p, b) = Zero
    OBVIOUS
  <2>1. Before(b, at[p]) /\ b # Special /\ b \in Address
    BY <1>1, Addresses, Numbers, Typed DEF Inv, Before
  <2>2. pte[p][b] = None
    BY <1>1, <2>1 DEF Inv, DeleteOK, DeletedOK
  <2>. QED  BY <2>2 DEF Read
<1>4. Mode(p) = "exec" /\ Shown(p) /\ Mode(p)' = "user"
  BY <1>1, <1>2 DEF Mode, Shown
<1>5. \A q \in Process : Shown(q)' = Shown(q) /\ (q # p => Mode(q)' = Mode(q))
  BY <1>1, <1>2 DEF Mode, Shown
<1>6. Views' = Views
  BY <1>5, ClearedInv, SameViews
<1>7. Views[p] = Spaces!Blank
  BY <1>3, <1>4, Shapes DEF Spaces!Blank
<1>8. Modes[p] = "exec" /\ Modes' = [Modes EXCEPT ![p] = "user"]
  BY <1>4, <1>5 DEF Modes
<1>. QED  BY <1>6, <1>7, <1>8 DEF Spaces!Execed, Spaces!Becomes

(* The memory of a process that ended is gone at once. *)
LEMMA ExitStep ==
    ASSUME Inv, NEW p \in Process, Exit(p)
    PROVE  Spaces!Exit(p)
<1>1. pc[p] = "user" /\ pc' = [pc EXCEPT ![p] = "delete"]
  BY DEF Exit, Goto
<1>2. pc \in [Process -> Label]
  BY DEF Inv, MemTypeOK
<1>3. Mode(p) = "user" /\ Mode(p)' = "none" /\ ~Shown(p)'
  BY <1>1, <1>2 DEF Mode, Shown
<1>4. \A q \in Process : q # p => Shown(q)' = Shown(q) /\ Mode(q)' = Mode(q)
  BY <1>1, <1>2 DEF Mode, Shown
<1>5. \A q \in Process, b \in Page : Read(q, b)' = Read(q, b)
  BY DEF Exit, tables, Read
<1>6. Modes[p] = "user" /\ Modes' = [Modes EXCEPT ![p] = "none"]
  BY <1>3, <1>4 DEF Modes
<1>7. Views' = [Views EXCEPT ![p] = <<>>]
  BY <1>3, <1>4, <1>5 DEF Views
<1>. QED  BY <1>6, <1>7 DEF Spaces!Exit, Spaces!Becomes, Spaces!NoView

(* kernelProcess begins with empty memory. *)
LEMMA InitSpaces == Init => Spaces!Init
<1> SUFFICES ASSUME Init PROVE Spaces!Init
  OBVIOUS
<1>1. /\ pc = [p \in Process |-> IF p = Initial THEN "user" ELSE "none"]
      /\ pte = [p \in Process |->
                  IF p = Initial THEN [NoEntries EXCEPT ![Special] = Device] ELSE NoEntries]
  BY DEF Init
<1>2. \A p \in Process : Mode(p) = IF p = Initial THEN "user" ELSE "none"
  BY <1>1 DEF Mode
<1>3. \A p \in Process : Shown(p) <=> p = Initial
  BY <1>1 DEF Shown
<1>4. \A b \in Page : Read(Initial, b) = Zero
  BY <1>1, Addresses, MemoryAssumption DEF Read, NoEntries
<1>5. Modes = [p \in Process |-> IF p = Initial THEN "user" ELSE "none"]
  BY <1>2 DEF Modes
<1>6. Views = [p \in Process |-> IF p = Initial THEN Spaces!Blank ELSE <<>>]
  BY <1>3, <1>4 DEF Views, Spaces!Blank
<1>. QED  BY <1>5, <1>6 DEF Spaces!Init, Spaces!NoView

(* Every step is a step of AddressSpaces, or none. *)
LEMMA NextSpaces ==
    ASSUME Inv, [Next]_vars PROVE [Spaces!Next]_<<Modes, Views>>
<1>1. CASE UNCHANGED vars
  BY <1>1, SameInv DEF vars
<1>2. CASE Next
  <2>1. PICK p \in Process : Step(p) \/ NoMoreFrames(p)
    BY <1>2 DEF Next
  <2>2. CASE NoMoreFrames(p)
    BY <2>2, SameInv DEF NoMoreFrames
  <2>3. CASE Quiet(p)
    BY <2>3, QuietStep
  <2>4. CASE (\E a \in Address : Fault(p, a)) \/ (\E q \in Process : Fork(p, q)) \/ Map(p) \/ Exec(p)
    BY <2>4, EntersOrLeaves DEF Spaces!Next
  <2>5. CASE \E a \in Address, v \in Value : Store(p, a, v)
    <3>1. PICK a \in Address, v \in Value : Store(p, a, v)
      BY <2>5
    <3>2. a \in Page
      BY <3>1, Addresses DEF Store
    <3>. QED  BY <3>1, <3>2, StoreStep DEF Spaces!Next
  <2>6. CASE Forked(p)
    <3>1. child[p] \in Process
      BY Typed DEF Inv
    <3>. QED  BY <2>6, <3>1, ForkedStep DEF Spaces!Next
  <2>7. CASE DropPage(p)
    BY <2>7, DropPageStep DEF Spaces!Next
  <2>8. CASE Cleared(p)
    BY <2>8, ClearedStep DEF Spaces!Next
  <2>9. CASE Exit(p)
    BY <2>9, ExitStep DEF Spaces!Next
  <2>. QED  BY <2>1, <2>2, <2>3, <2>4, <2>5, <2>6, <2>7, <2>8, <2>9 DEF Step, Quiet
<1>. QED  BY <1>1, <1>2

(* Programs have memory of their own, although frames pass from process to *)
(* process: physmem.cc and vmm.cc implement AddressSpaces, for any number  *)
(* of processes, tables, entries, frames and values.                       *)
THEOREM AddressSpacesImplemented == Spec => ImplementsAddressSpaces
<1>1. Inv /\ [Next]_vars => [Spaces!Next]_<<Modes, Views>>
  BY NextSpaces
<1>. QED  BY <1>1, InitSpaces, Invariance, PTL DEF Spec, ImplementsAddressSpaces, Spaces!Spec
=============================================================================
