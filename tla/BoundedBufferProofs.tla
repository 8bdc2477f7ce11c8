------------------------ MODULE BoundedBufferProofs ------------------------
(***************************************************************************)
(* What TLAPS proves of BoundedBuffer, for any number of threads and of    *)
(* slots: nobody waits without a reason, and the ring is a queue.          *)
(*                                                                         *)
(* The invariant accounts for the slots.  One is free, held by a put()     *)
(* that has not counted it yet, counted in `n', or held by a get() that    *)
(* has not given it back; and of the items counted in `n', one is free,    *)
(* held by a get() or not announced yet by its put().  For the items in    *)
(* the ring it says too that one thread at most has the lock.              *)
(***************************************************************************)
EXTENDS BoundedBuffer, SequenceTheorems, FiniteSetTheorems, TLAPS

-----------------------------------------------------------------------------
(* The semaphores *)

SemType(S) == [value : Nat, blocked : Seq(S)]

(* No thread waits twice. *)
OnePlace(s) == \A i, j \in 1 .. Len(s.blocked) : s.blocked[i] = s.blocked[j] => i = j

(* Nobody waits in an empty queue. *)
LEMMA EmptyBlocksNobody == \A s, t : s.blocked = <<>> => ~BlockedOn(s, t)
BY DEF BlockedOn

(* down() *)
LEMMA DownedFacts ==
    ASSUME NEW S, NEW s \in SemType(S), NEW t \in S
    PROVE  /\ Downed(s, t) \in SemType(S)
           /\ s.value > 0 => Downed(s, t).value = s.value - 1 /\ Downed(s, t).blocked = s.blocked
           /\ s.value = 0 => /\ Downed(s, t).value = 0
                             /\ Downed(s, t).blocked = Append(s.blocked, t)
<1>1. s.value \in Nat /\ s.blocked \in Seq(S)
  BY DEF SemType
<1>2. Append(s.blocked, t) \in Seq(S)
  BY <1>1
<1>3. CASE s.value > 0
  BY <1>1, <1>3 DEF Downed, SemType
<1>4. CASE s.value = 0
  BY <1>1, <1>2, <1>4 DEF Downed, SemType
<1> QED BY <1>1, <1>3, <1>4

(* down() blocks the caller, if there is nothing to take, and nobody else. *)
LEMMA DownedBlocks ==
    ASSUME NEW S, NEW s \in SemType(S), NEW t \in S, OnePlace(s), ~BlockedOn(s, t), s.value = 0
    PROVE  /\ OnePlace(Downed(s, t))
           /\ \A u \in S : BlockedOn(Downed(s, t), u) <=> BlockedOn(s, u) \/ u = t
<1> DEFINE b == s.blocked
<1>1. b \in Seq(S) /\ Downed(s, t).blocked = Append(b, t)
  <2>1. b \in Seq(S)
    BY DEF SemType
  <2>2. Downed(s, t).blocked = Append(b, t)
    BY DownedFacts
  <2> QED BY <2>1, <2>2
<1>2. /\ Len(b) \in Nat /\ Len(Append(b, t)) = Len(b) + 1
      /\ \A i \in 1 .. Len(b) : Append(b, t)[i] = b[i]
      /\ Append(b, t)[Len(b) + 1] = t
  BY <1>1
<1>3. OnePlace(Downed(s, t))
  BY <1>1, <1>2 DEF OnePlace, BlockedOn
<1>4. ASSUME NEW u \in S PROVE BlockedOn(Downed(s, t), u) <=> BlockedOn(s, u) \/ u = t
  BY <1>1, <1>2 DEF BlockedOn
<1> QED BY <1>3, <1>4

(* up() *)
LEMMA UppedFacts ==
    ASSUME NEW S, NEW s \in SemType(S)
    PROVE  /\ Upped(s) \in SemType(S)
           /\ s.blocked = <<>> => Upped(s).value = s.value + 1 /\ Upped(s).blocked = <<>>
           /\ s.blocked # <<>> => Upped(s).value = s.value /\ Upped(s).blocked = Tail(s.blocked)
BY HeadTailProperties DEF Upped, SemType

(* The first to wait is passed, and only that one. *)
LEMMA UppedPasses ==
    ASSUME NEW S, NEW s \in SemType(S), OnePlace(s), s.blocked # <<>>
    PROVE  /\ OnePlace(Upped(s))
           /\ \E h \in S : /\ BlockedOn(s, h)
                                /\ \A u \in S : BlockedOn(Upped(s), u) <=> BlockedOn(s, u) /\ u # h
<1> DEFINE b == s.blocked
<1>1. b \in Seq(S) /\ Upped(s).blocked = Tail(b)
  BY UppedFacts DEF SemType
<1>2. /\ Len(b) \in Nat /\ Len(b) > 0 /\ Len(Tail(b)) = Len(b) - 1
      /\ \A i \in 1 .. Len(b) - 1 : Tail(b)[i] = b[i + 1]
      /\ b[1] \in S
  BY <1>1, HeadTailProperties, EmptySeq, ElementOfSeq
<1>3. OnePlace(Upped(s))
  BY <1>1, <1>2 DEF OnePlace
<1>4. BlockedOn(s, b[1])
  BY <1>2 DEF BlockedOn
<1>5. ASSUME NEW u \in S PROVE BlockedOn(Upped(s), u) <=> BlockedOn(s, u) /\ u # b[1]
  <2>1. ASSUME BlockedOn(s, u), u # b[1] PROVE BlockedOn(Upped(s), u)
    <3>1. PICK i \in 1 .. Len(b) : b[i] = u
      BY <2>1 DEF BlockedOn
    <3>2. i - 1 \in 1 .. Len(Tail(b)) /\ Tail(b)[i - 1] = u
      BY <2>1, <3>1, <1>2
    <3> QED BY <3>2, <1>1 DEF BlockedOn
  <2>2. ASSUME BlockedOn(Upped(s), u) PROVE BlockedOn(s, u) /\ u # b[1]
    <3>1. PICK i \in 1 .. Len(Tail(b)) : Tail(b)[i] = u
      BY <2>2, <1>1 DEF BlockedOn
    <3>2. i + 1 \in 1 .. Len(b) /\ b[i + 1] = u /\ i + 1 # 1
      BY <3>1, <1>2
    <3> QED BY <3>2, <1>2 DEF BlockedOn, OnePlace
  <2> QED BY <2>1, <2>2
<1> QED BY <1>2, <1>3, <1>4, <1>5

-----------------------------------------------------------------------------
(* A ring of M places, with k items from place h on.                       *)

IsRing(h, d, M, S) == M \in Nat \ {0} /\ h \in 0 .. M - 1 /\ d \in [0 .. M - 1 -> S]

Ring(h, k, d, M) == [i \in 1 .. k |-> d[(h + i - 1) % M]]

(* Numbers below twice M are all that is taken modulo M. *)
LEMMA ModOnce ==
    ASSUME NEW M \in Nat \ {0}, NEW a \in Nat, a < M + M
    PROVE  a % M = IF a < M THEN a ELSE a - M
OBVIOUS

(* The ring holds k items. *)
LEMMA RingTyped ==
    ASSUME NEW M, NEW S, NEW h, NEW d, IsRing(h, d, M, S), NEW k \in 0 .. M
    PROVE  /\ Ring(h, k, d, M) \in Seq(S) /\ Len(Ring(h, k, d, M)) = k
           /\ \A i \in 1 .. k : Ring(h, k, d, M)[i] = d[(h + i - 1) % M]
<1> USE DEF IsRing
<1>1. \A i \in 1 .. k : (h + i - 1) % M \in 0 .. M - 1
  OBVIOUS
<1>2. k \in Nat /\ Ring(h, k, d, M) \in [1 .. k -> S]
  BY <1>1 DEF Ring
<1>3. Ring(h, k, d, M) \in Seq(S)
  BY <1>2
<1>4. Len(Ring(h, k, d, M)) = k
  BY <1>2
<1> QED BY <1>3, <1>4 DEF Ring

(* One more at the end ... *)
LEMMA RingAppends ==
    ASSUME NEW M, NEW S, NEW h, NEW d, IsRing(h, d, M, S), NEW k \in 0 .. M - 1
    PROVE  /\ (h + k) % M \in 0 .. M - 1 /\ d[(h + k) % M] \in S
           /\ Ring(h, k + 1, d, M) = Append(Ring(h, k, d, M), d[(h + k) % M])
<1>1. k \in 0 .. M /\ k + 1 \in 0 .. M /\ (h + k) % M \in 0 .. M - 1 /\ d[(h + k) % M] \in S
  BY DEF IsRing
<1> DEFINE x == d[(h + k) % M]
           s == Append(Ring(h, k, d, M), x)
<1>2. /\ Ring(h, k, d, M) \in Seq(S) /\ Len(Ring(h, k, d, M)) = k
      /\ \A i \in 1 .. k : Ring(h, k, d, M)[i] = d[(h + i - 1) % M]
  BY <1>1, RingTyped
<1>3. /\ Ring(h, k + 1, d, M) \in Seq(S) /\ Len(Ring(h, k + 1, d, M)) = k + 1
      /\ \A i \in 1 .. k + 1 : Ring(h, k + 1, d, M)[i] = d[(h + i - 1) % M]
  BY <1>1, RingTyped
<1>4. x \in S
  BY <1>1
<1> HIDE DEF x
<1>5. /\ s \in Seq(S) /\ Len(s) = k + 1
      /\ \A i \in 1 .. k : s[i] = Ring(h, k, d, M)[i]
      /\ s[k + 1] = x
  BY <1>2, <1>4, AppendProperties
<1>6. h + (k + 1) - 1 = h + k
  BY DEF IsRing
<1>7. ASSUME NEW i \in 1 .. k + 1 PROVE Ring(h, k + 1, d, M)[i] = s[i]
  <2>1. CASE i = k + 1
    BY <1>3, <1>5, <1>6, <2>1 DEF x
  <2>2. CASE i # k + 1
    <3>1. i \in 1 .. k
      BY <1>1, <2>2
    <3> QED BY <1>2, <1>3, <1>5, <3>1
  <2> QED BY <2>1, <2>2
<1> HIDE DEF s
<1>8. Ring(h, k + 1, d, M) = s
  BY <1>3, <1>5, <1>7, SeqEqual
<1> QED BY <1>1, <1>8 DEF s, x

(* ... in a place that is none of the others' ... *)
LEMMA RingSpares ==
    ASSUME NEW M, NEW S, NEW h, NEW d, IsRing(h, d, M, S), NEW k \in 0 .. M - 1, NEW j \in 0 .. k,
          NEW x
    PROVE  Ring(h, j, [d EXCEPT ![(h + k) % M] = x], M) = Ring(h, j, d, M)
<1> USE DEF IsRing
<1> DEFINE e == [d EXCEPT ![(h + k) % M] = x]
<1>1. ASSUME NEW i \in 1 .. j PROVE e[(h + i - 1) % M] = d[(h + i - 1) % M]
  <2>1. PICK a \in Nat, b \in Nat : a = h + i - 1 /\ b = h + k /\ a < M + M /\ b < M + M
    OBVIOUS
  <2>2. a % M = IF a < M THEN a ELSE a - M
    BY <2>1, ModOnce
  <2>3. b % M = IF b < M THEN b ELSE b - M
    BY <2>1, ModOnce
  <2>4. a % M # b % M
    <3>1. a < b /\ b - a < M /\ a \in Nat /\ b \in Nat /\ M \in Nat
      BY <2>1
    <3>2. (IF a < M THEN a ELSE a - M) # (IF b < M THEN b ELSE b - M)
      BY <3>1
    <3> QED BY <2>2, <2>3, <3>2
  <2>5. a % M \in 0 .. M - 1
    OBVIOUS
  <2> QED BY <2>1, <2>4, <2>5
<1> QED BY <1>1 DEF Ring

(* ... and one less at the front. *)
LEMMA RingTail ==
    ASSUME NEW M, NEW S, NEW h, NEW d, IsRing(h, d, M, S), NEW k \in 1 .. M
    PROVE  /\ (h + 1) % M \in 0 .. M - 1
           /\ Ring(h, k, d, M) # <<>> /\ Head(Ring(h, k, d, M)) = d[h]
           /\ Ring((h + 1) % M, k - 1, d, M) = Tail(Ring(h, k, d, M))
<1> DEFINE g == (h + 1) % M
           s == Tail(Ring(h, k, d, M))
<1>1. k \in 0 .. M /\ k - 1 \in 0 .. M /\ g \in 0 .. M - 1 /\ k # 0
  BY DEF IsRing
<1>2. /\ Ring(h, k, d, M) \in Seq(S) /\ Len(Ring(h, k, d, M)) = k
      /\ \A i \in 1 .. k : Ring(h, k, d, M)[i] = d[(h + i - 1) % M]
  BY <1>1, RingTyped
<1>3. g = (h + 1) % M
  OBVIOUS
<1>4. IsRing(g, d, M, S)
  BY <1>1 DEF IsRing
<1>5. Head(Ring(h, k, d, M)) = d[h]
  <2>1. PICK a \in Nat : a = h + 1 - 1 /\ a = h /\ a < M + M /\ a < M
    BY DEF IsRing
  <2>2. a % M = a
    BY <2>1, ModOnce DEF IsRing
  <2>3. 1 \in 1 .. k
    BY <1>1
  <2> QED BY <1>2, <2>1, <2>2, <2>3
<1> HIDE DEF g
<1>6. ASSUME NEW i \in 1 .. k - 1 PROVE (g + i - 1) % M = (h + (i + 1) - 1) % M
  <2> USE DEF IsRing
  <2>1. PICK a \in Nat, b \in Nat, c \in Nat :
             /\ a = h + 1 /\ b = h + i /\ c = g + i - 1
             /\ a < M + M /\ b < M + M /\ c < M + M
    <3>1. h + 1 \in Nat /\ h + i \in Nat /\ g + i - 1 \in Nat
      BY <1>1
    <3>2. h + 1 < M + M /\ h + i < M + M /\ g + i - 1 < M + M
      BY <1>1
    <3> QED BY <3>1, <3>2
  <2>2. g = IF a < M THEN a ELSE a - M
    BY <1>3, <2>1, ModOnce
  <2>3. b % M = IF b < M THEN b ELSE b - M
    BY <2>1, ModOnce
  <2>4. c % M = IF c < M THEN c ELSE c - M
    BY <2>1, ModOnce
  <2>5. h + (i + 1) - 1 = b
    BY <2>1
  <2>6. c % M = b % M
    <3>1. CASE a < M
      BY <2>1, <2>2, <3>1
    <3>2. CASE ~(a < M)
      <4>1. a = M /\ g = 0
        <5>1. h \in 0 .. M - 1 /\ M \in Nat /\ a = h + 1
          BY <2>1
        <5> HIDE DEF IsRing
        <5>2. a = M
          BY <3>2, <5>1
        <5> QED BY <2>2, <5>1, <5>2
      <4>2. c = i - 1 /\ b = M + c /\ c < M
        BY <2>1, <4>1
      <4> QED BY <2>3, <2>4, <4>1, <4>2
    <3> QED BY <3>1, <3>2
  <2> QED BY <2>1, <2>5, <2>6
<1>7. /\ Ring(g, k - 1, d, M) \in Seq(S) /\ Len(Ring(g, k - 1, d, M)) = k - 1
      /\ \A i \in 1 .. k - 1 : Ring(g, k - 1, d, M)[i] = d[(g + i - 1) % M]
  <2>1. k - 1 \in 0 .. M
    BY <1>1
  <2>2. \A m \in 0 .. M : /\ Ring(g, m, d, M) \in Seq(S) /\ Len(Ring(g, m, d, M)) = m
                          /\ \A i \in 1 .. m : Ring(g, m, d, M)[i] = d[(g + i - 1) % M]
    <3> SUFFICES ASSUME NEW m \in 0 .. M
                 PROVE  /\ Ring(g, m, d, M) \in Seq(S) /\ Len(Ring(g, m, d, M)) = m
                        /\ \A i \in 1 .. m : Ring(g, m, d, M)[i] = d[(g + i - 1) % M]
      OBVIOUS
    <3> HIDE DEF s
    <3> QED BY <1>4, RingTyped
  <2> QED BY <2>1, <2>2, Zenon
<1>8. Ring(h, k, d, M) # <<>>
  BY <1>1, <1>2
<1>9. s \in Seq(S) /\ Len(s) = k - 1 /\ \A i \in 1 .. k - 1 : s[i] = Ring(h, k, d, M)[i + 1]
  BY <1>2, <1>8, HeadTailProperties
<1>10. ASSUME NEW i \in 1 .. k - 1 PROVE Ring(g, k - 1, d, M)[i] = s[i]
  <2>1. i + 1 \in 1 .. k
    BY <1>1
  <2> QED BY <1>2, <1>6, <1>7, <1>9, <2>1
<1> HIDE DEF s
<1>11. Ring(g, k - 1, d, M) = s
  BY <1>7, <1>9, <1>10, SeqEqual
<1> QED BY <1>1, <1>3, <1>5, <1>8, <1>11 DEF s

-----------------------------------------------------------------------------
Label == {"out", "putLock", "putData", "putCount", "putUnlock", "putFull",
          "getLock", "getData", "getCount", "getUnlock", "getEmpty"}

Putting    == {t \in Thread : pc[t] \in {"putLock", "putData", "putCount"} /\ ~BlockedOn(nEmpty, t)}
Announcing == {t \in Thread : pc[t] \in {"putUnlock", "putFull"}}
Getting    == {t \in Thread : pc[t] \in {"getLock", "getData", "getCount"} /\ ~BlockedOn(nFull, t)}
Returning  == {t \in Thread : pc[t] \in {"getUnlock", "getEmpty"}}

BufferTypeOK ==
    /\ pc \in [Thread -> Label]
    /\ n \in Int
    /\ nEmpty \in SemType(Thread)
    /\ nFull \in SemType(Thread)

QueuesOK ==
    /\ OnePlace(nEmpty) /\ \A t \in Thread : BlockedOn(nEmpty, t) => pc[t] = "putLock"
    /\ OnePlace(nFull) /\ \A t \in Thread : BlockedOn(nFull, t) => pc[t] = "getLock"
    /\ nEmpty.blocked # <<>> => nEmpty.value = 0
    /\ nFull.blocked # <<>> => nFull.value = 0

SlotsOK == nEmpty.value + Cardinality(Putting) + n + Cardinality(Returning) = N

ItemsOK == nFull.value + Cardinality(Getting) + Cardinality(Announcing) = n

Inv == BufferTypeOK /\ QueuesOK /\ SlotsOK /\ ItemsOK

-----------------------------------------------------------------------------
(* A set of threads counts a number; with one more, one more. *)
LEMMA Counts ==
    ASSUME NEW P, P \subseteq Thread
    PROVE  Cardinality(P) \in Nat
BY BufferAssumption, FS_Subset, FS_CardinalityType

(* One thread more makes a set larger by one. *)
LEMMA OneMore ==
    ASSUME NEW P, NEW Q, P \subseteq Thread, NEW t \in Thread, t \notin P, Q = P \cup {t}
    PROVE  Cardinality(Q) = Cardinality(P) + 1
BY BufferAssumption, FS_Subset, FS_AddElement

(* The threads at work on a slot can be counted. *)
LEMMA Sizes ==
    /\ Cardinality(Putting) \in Nat /\ Cardinality(Announcing) \in Nat
    /\ Cardinality(Getting) \in Nat /\ Cardinality(Returning) \in Nat
<1>1. /\ Putting \subseteq Thread /\ Announcing \subseteq Thread /\ Getting \subseteq Thread
      /\ Returning \subseteq Thread
  BY DEF Putting, Announcing, Getting, Returning
<1> QED BY <1>1, Counts

(* What a line of put() or get() does to the place of its thread. *)
LEMMA LineFacts ==
    ASSUME BufferTypeOK, NEW t \in Thread, NEW l, NEW m \in Label, Line(t, l, m)
    PROVE  /\ pc[t] = l /\ pc'[t] = m /\ pc' \in [Thread -> Label]
           /\ \A s \in Thread \ {t} : pc'[s] = pc[s]
           /\ ~BlockedOn(nEmpty, t) /\ ~BlockedOn(nFull, t)
BY DEF BufferTypeOK, Line, Blocked

(* Before any call all slots are free.                                     *)
LEMMA InvInit == Init => Inv
<1> SUFFICES ASSUME Init PROVE Inv
  OBVIOUS
<1> USE BufferAssumption DEF Init, Sem
<1>1. BufferTypeOK
  BY DEF BufferTypeOK, Label, SemType
<1>2. \A t \in Thread : ~BlockedOn(nEmpty, t) /\ ~BlockedOn(nFull, t)
  BY EmptyBlocksNobody
<1>3. QueuesOK
  BY <1>2 DEF QueuesOK, OnePlace
<1>4. Putting = {} /\ Announcing = {} /\ Getting = {} /\ Returning = {}
  BY DEF Putting, Announcing, Getting, Returning
<1>5. Cardinality({}) = 0
  BY FS_EmptySet
<1>6. SlotsOK /\ ItemsOK
  BY <1>4, <1>5 DEF SlotsOK, ItemsOK
<1> QED BY <1>1, <1>3, <1>6 DEF Inv

(* A line inside one part of put() or get(). *)
LEMMA MoveStep ==
    ASSUME Inv, NEW t \in Thread, NEW l, NEW m, Line(t, l, m), UNCHANGED <<n, nEmpty, nFull>>,
           <<l, m>> \in {<<"putLock", "putData">>, <<"putData", "putCount">>, <<"putUnlock", "putFull">>,
                         <<"getLock", "getData">>, <<"getData", "getCount">>, <<"getUnlock", "getEmpty">>}
    PROVE  Inv'
<1> USE DEF Inv
<1>1. m \in Label
  BY DEF Label
<1>2. /\ pc[t] = l /\ pc'[t] = m /\ pc' \in [Thread -> Label]
      /\ \A s \in Thread \ {t} : pc'[s] = pc[s]
      /\ ~BlockedOn(nEmpty, t) /\ ~BlockedOn(nFull, t)
  BY <1>1, LineFacts
<1>3. \A s \in Thread : (BlockedOn(nEmpty, s)' <=> BlockedOn(nEmpty, s))
                        /\ (BlockedOn(nFull, s)' <=> BlockedOn(nFull, s))
  BY DEF BlockedOn
<1>4. BufferTypeOK'
  BY <1>2 DEF BufferTypeOK
<1>5. QueuesOK'
  BY <1>2, <1>3 DEF QueuesOK, OnePlace
<1>6. Putting' = Putting /\ Announcing' = Announcing /\ Getting' = Getting /\ Returning' = Returning
  BY <1>2, <1>3 DEF Putting, Announcing, Getting, Returning
<1>7. SlotsOK' /\ ItemsOK'
  BY <1>6 DEF SlotsOK, ItemsOK
<1> QED BY <1>4, <1>5, <1>7

(* `n' counts a slot that its put() has filled ... *)
LEMMA PutCountStep == ASSUME Inv, NEW t \in Thread, PutCount(t) PROVE Inv'
<1> USE DEF Inv, PutCount, semaphores
<1>1. /\ pc[t] = "putCount" /\ pc'[t] = "putUnlock" /\ pc' \in [Thread -> Label]
      /\ \A s \in Thread \ {t} : pc'[s] = pc[s]
      /\ ~BlockedOn(nEmpty, t) /\ ~BlockedOn(nFull, t)
  BY LineFacts DEF Label
<1>2. \A s \in Thread : (BlockedOn(nEmpty, s)' <=> BlockedOn(nEmpty, s))
                        /\ (BlockedOn(nFull, s)' <=> BlockedOn(nFull, s))
  BY DEF BlockedOn
<1>3. BufferTypeOK'
  BY <1>1 DEF BufferTypeOK
<1>4. QueuesOK'
  BY <1>1, <1>2 DEF QueuesOK, OnePlace
<1>5. /\ t \notin Putting' /\ Putting = Putting' \cup {t} /\ Putting' \subseteq Thread
      /\ t \notin Announcing /\ Announcing' = Announcing \cup {t} /\ Announcing \subseteq Thread
      /\ Getting' = Getting /\ Returning' = Returning
  BY <1>1, <1>2 DEF Putting, Announcing, Getting, Returning
<1>6. /\ Cardinality(Putting) = Cardinality(Putting') + 1
      /\ Cardinality(Announcing') = Cardinality(Announcing) + 1
      /\ Cardinality(Putting') \in Nat
  BY <1>5, OneMore, Counts
<1>7. /\ Cardinality(Returning') = Cardinality(Returning)
      /\ Cardinality(Getting') = Cardinality(Getting)
      /\ nEmpty.value \in Nat /\ (nFull.value \in Nat /\ n \in Int /\ N \in Int)
      /\ n' = n + 1 /\ nEmpty' = nEmpty /\ nFull' = nFull
  BY <1>5, BufferAssumption DEF BufferTypeOK, SemType
<1>8. SlotsOK'
  BY <1>6, <1>7, Sizes DEF SlotsOK
<1>9. ItemsOK'
  BY <1>6, <1>7, Sizes DEF ItemsOK
<1> QED BY <1>3, <1>4, <1>8, <1>9

(* ... and no longer one that its get() has emptied. *)
LEMMA GetCountStep == ASSUME Inv, NEW t \in Thread, GetCount(t) PROVE Inv'
<1> USE DEF Inv, GetCount, semaphores
<1>1. /\ pc[t] = "getCount" /\ pc'[t] = "getUnlock" /\ pc' \in [Thread -> Label]
      /\ \A s \in Thread \ {t} : pc'[s] = pc[s]
      /\ ~BlockedOn(nEmpty, t) /\ ~BlockedOn(nFull, t)
  BY LineFacts DEF Label
<1>2. \A s \in Thread : (BlockedOn(nEmpty, s)' <=> BlockedOn(nEmpty, s))
                        /\ (BlockedOn(nFull, s)' <=> BlockedOn(nFull, s))
  BY DEF BlockedOn
<1>3. BufferTypeOK'
  BY <1>1 DEF BufferTypeOK
<1>4. QueuesOK'
  BY <1>1, <1>2 DEF QueuesOK, OnePlace
<1>5. /\ t \notin Getting' /\ Getting = Getting' \cup {t} /\ Getting' \subseteq Thread
      /\ t \notin Returning /\ Returning' = Returning \cup {t} /\ Returning \subseteq Thread
      /\ Putting' = Putting /\ Announcing' = Announcing
  BY <1>1, <1>2 DEF Putting, Announcing, Getting, Returning
<1>6. /\ Cardinality(Getting) = Cardinality(Getting') + 1
      /\ Cardinality(Returning') = Cardinality(Returning) + 1
      /\ Cardinality(Getting') \in Nat
  BY <1>5, OneMore, Counts
<1>7. /\ Cardinality(Putting') = Cardinality(Putting)
      /\ Cardinality(Announcing') = Cardinality(Announcing)
      /\ nEmpty.value \in Nat /\ (nFull.value \in Nat /\ n \in Int /\ N \in Int)
      /\ n' = n - 1 /\ nEmpty' = nEmpty /\ nFull' = nFull
  BY <1>5, BufferAssumption DEF BufferTypeOK, SemType
<1>8. SlotsOK'
  BY <1>6, <1>7, Sizes DEF SlotsOK
<1>9. ItemsOK'
  BY <1>6, <1>7, Sizes DEF ItemsOK
<1> QED BY <1>3, <1>4, <1>8, <1>9

(* down() on nEmpty: put() gets a slot, or waits for one. *)
LEMMA PutCallStep == ASSUME Inv, NEW t \in Thread, PutCall(t) PROVE Inv'
<1> USE DEF Inv, PutCall, ring
<1>1. /\ pc[t] = "out" /\ pc'[t] = "putLock" /\ pc' \in [Thread -> Label]
      /\ \A s \in Thread \ {t} : pc'[s] = pc[s]
      /\ ~BlockedOn(nEmpty, t) /\ ~BlockedOn(nFull, t)
  BY LineFacts DEF Label
<1>2. /\ nEmpty \in SemType(Thread) /\ nEmpty' \in SemType(Thread) /\ OnePlace(nEmpty)
      /\ nEmpty.value \in Nat /\ (nEmpty.blocked # <<>> => nEmpty.value = 0)
      /\ nFull' = nFull /\ n' = n
  BY DownedFacts DEF BufferTypeOK, QueuesOK, SemType
<1>3. \A s \in Thread : BlockedOn(nFull, s)' <=> BlockedOn(nFull, s)
  BY <1>2 DEF BlockedOn
<1>4. BufferTypeOK'
  BY <1>1, <1>2 DEF BufferTypeOK
<1>5. Announcing' = Announcing /\ Returning' = Returning /\ Getting' = Getting
  BY <1>1, <1>3 DEF Announcing, Returning, Getting
<1>6. CASE nEmpty.value > 0
  <2>1. /\ nEmpty'.value = nEmpty.value - 1 /\ nEmpty'.blocked = nEmpty.blocked
        /\ nEmpty.blocked = <<>>
    BY <1>2, <1>6, DownedFacts
  <2>2. \A s \in Thread : BlockedOn(nEmpty, s)' <=> BlockedOn(nEmpty, s)
    BY <2>1 DEF BlockedOn
  <2>3. QueuesOK'
    BY <1>1, <1>2, <1>3, <2>1, <2>2 DEF QueuesOK, OnePlace
  <2>4. t \notin Putting /\ Putting' = Putting \cup {t} /\ Putting \subseteq Thread
    BY <1>1, <2>2 DEF Putting
  <2>5. Cardinality(Putting') = Cardinality(Putting) + 1
    BY <2>4, OneMore
  <2>6. SlotsOK'
    BY <1>2, <1>5, <2>1, <2>5, Sizes, SMTT(40) DEF SlotsOK, BufferTypeOK
  <2>7. ItemsOK'
    BY <1>2, <1>5 DEF ItemsOK
  <2> QED BY <1>4, <2>3, <2>6, <2>7
<1>7. CASE nEmpty.value = 0
  <2>1. nEmpty'.value = 0 /\ OnePlace(nEmpty')
    BY <1>1, <1>2, <1>7, DownedFacts, DownedBlocks
  <2>2. \A s \in Thread : BlockedOn(Downed(nEmpty, t), s) <=> BlockedOn(nEmpty, s) \/ s = t
    BY <1>1, <1>2, <1>7, DownedBlocks
  <2>3. \A s \in Thread : BlockedOn(nEmpty, s)' <=> BlockedOn(nEmpty, s) \/ s = t
    BY <2>2 DEF BlockedOn
  <2>4. QueuesOK'
    BY <1>1, <1>2, <1>3, <2>1, <2>3 DEF QueuesOK, OnePlace
  <2>5. Putting' = Putting
    BY <1>1, <2>3 DEF Putting
  <2>6. SlotsOK' /\ ItemsOK'
    BY <1>2, <1>5, <1>7, <2>1, <2>5 DEF SlotsOK, ItemsOK
  <2> QED BY <1>4, <2>4, <2>6
<1> QED BY <1>2, <1>6, <1>7

(* up() on nEmpty: the slot that get() gives back is free, or the first's to wait. *)
LEMMA GetEndStep == ASSUME Inv, NEW t \in Thread, GetEmpty(t) PROVE Inv'
<1> USE DEF Inv, GetEmpty, ring
<1>1. /\ pc[t] = "getEmpty" /\ pc'[t] = "out" /\ pc' \in [Thread -> Label]
      /\ \A s \in Thread \ {t} : pc'[s] = pc[s]
      /\ ~BlockedOn(nEmpty, t) /\ ~BlockedOn(nFull, t)
  BY LineFacts DEF Label
<1>2. /\ nEmpty \in SemType(Thread) /\ nEmpty' \in SemType(Thread) /\ OnePlace(nEmpty)
      /\ nEmpty.value \in Nat /\ (nEmpty.blocked # <<>> => nEmpty.value = 0)
      /\ nFull' = nFull /\ n' = n
  BY UppedFacts DEF BufferTypeOK, QueuesOK, SemType
<1>3. \A s \in Thread : BlockedOn(nFull, s)' <=> BlockedOn(nFull, s)
  BY <1>2 DEF BlockedOn
<1>4. BufferTypeOK'
  BY <1>1, <1>2 DEF BufferTypeOK
<1>5. /\ Getting' = Getting /\ Announcing' = Announcing
      /\ t \notin Returning' /\ Returning = Returning' \cup {t} /\ Returning' \subseteq Thread
  BY <1>1, <1>3 DEF Getting, Announcing, Returning
<1>6. Cardinality(Returning) = Cardinality(Returning') + 1 /\ Cardinality(Returning') \in Nat
  BY <1>5, OneMore, Counts
<1>7. CASE nEmpty.blocked = <<>>
  <2>1. nEmpty'.value = nEmpty.value + 1 /\ nEmpty'.blocked = <<>>
    BY <1>2, <1>7, UppedFacts
  <2>2. \A s \in Thread : BlockedOn(nEmpty, s)' <=> BlockedOn(nEmpty, s)
    BY <1>7, <2>1 DEF BlockedOn
  <2>3. QueuesOK'
    BY <1>1, <1>2, <1>3, <2>1, <2>2 DEF QueuesOK, OnePlace
  <2>4. Putting' = Putting
    BY <1>1, <2>2 DEF Putting
  <2>5. SlotsOK'
    <3>1. Cardinality(Putting') = Cardinality(Putting) /\ n \in Int /\ N \in Int
      BY <2>4, BufferAssumption DEF BufferTypeOK
    <3>2. nEmpty.value + Cardinality(Putting) + n + Cardinality(Returning) = N
      BY DEF SlotsOK
    <3>3. nEmpty'.value + Cardinality(Putting) + n + Cardinality(Returning') = N
      <4>1. nEmpty'.value = nEmpty.value + 1 /\ nEmpty.value \in Nat
        BY <1>2, <2>1
      <4>2. /\ Cardinality(Returning) = Cardinality(Returning') + 1
            /\ Cardinality(Returning') \in Nat /\ Cardinality(Putting) \in Nat
        BY <1>6, Sizes
      <4> QED BY ONLY <4>1, <4>2, <3>1, <3>2
    <3> QED BY <1>2, <3>1, <3>3 DEF SlotsOK
  <2>6. ItemsOK'
    BY <1>2, <1>5 DEF ItemsOK
  <2> QED BY <1>4, <2>3, <2>5, <2>6
<1>8. CASE nEmpty.blocked # <<>>
  <2>1. nEmpty'.value = 0 /\ nEmpty.value = 0 /\ OnePlace(nEmpty')
    BY <1>2, <1>8, UppedFacts, UppedPasses
  <2>2. PICK h \in Thread : /\ BlockedOn(nEmpty, h)
                            /\ \A s \in Thread :
                                  BlockedOn(Upped(nEmpty), s) <=> BlockedOn(nEmpty, s) /\ s # h
    BY <1>2, <1>8, UppedPasses
  <2>3. \A s \in Thread : BlockedOn(nEmpty, s)' <=> BlockedOn(nEmpty, s) /\ s # h
    BY <2>2 DEF BlockedOn
  <2>4. h # t /\ pc[h] = "putLock" /\ pc'[h] = "putLock"
    BY <1>1, <2>2 DEF QueuesOK
  <2>5. QueuesOK'
    BY <1>1, <1>2, <1>3, <2>1, <2>3 DEF QueuesOK, OnePlace
  <2>6. h \notin Putting /\ Putting' = Putting \cup {h} /\ Putting \subseteq Thread
    BY <1>1, <2>2, <2>3, <2>4 DEF Putting
  <2>7. Cardinality(Putting') = Cardinality(Putting) + 1
    BY <2>6, OneMore
  <2>8. SlotsOK'
    BY <1>2, <1>5, <1>6, <2>1, <2>7, Sizes DEF SlotsOK, BufferTypeOK
  <2>9. ItemsOK'
    BY <1>2, <1>5 DEF ItemsOK
  <2> QED BY <1>4, <2>5, <2>8, <2>9
<1> QED BY <1>7, <1>8

(* down() and up() on nFull, for an item. *)
LEMMA GetCallStep == ASSUME Inv, NEW t \in Thread, GetCall(t) PROVE Inv'
<1> USE DEF Inv, GetCall, ring
<1>1. /\ pc[t] = "out" /\ pc'[t] = "getLock" /\ pc' \in [Thread -> Label]
      /\ \A s \in Thread \ {t} : pc'[s] = pc[s]
      /\ ~BlockedOn(nEmpty, t) /\ ~BlockedOn(nFull, t)
  BY LineFacts DEF Label
<1>2. /\ nFull \in SemType(Thread) /\ nFull' \in SemType(Thread) /\ OnePlace(nFull)
      /\ nFull.value \in Nat /\ (nFull.blocked # <<>> => nFull.value = 0)
      /\ nEmpty' = nEmpty /\ n' = n
  BY DownedFacts DEF BufferTypeOK, QueuesOK, SemType
<1>3. \A s \in Thread : BlockedOn(nEmpty, s)' <=> BlockedOn(nEmpty, s)
  BY <1>2 DEF BlockedOn
<1>4. BufferTypeOK'
  BY <1>1, <1>2 DEF BufferTypeOK
<1>5. Announcing' = Announcing /\ Returning' = Returning /\ Putting' = Putting
  BY <1>1, <1>3 DEF Announcing, Returning, Putting
<1>6. CASE nFull.value > 0
  <2>1. nFull'.value = nFull.value - 1 /\ nFull'.blocked = nFull.blocked /\ nFull.blocked = <<>>
    BY <1>2, <1>6, DownedFacts
  <2>2. \A s \in Thread : BlockedOn(nFull, s)' <=> BlockedOn(nFull, s)
    BY <2>1 DEF BlockedOn
  <2>3. QueuesOK'
    BY <1>1, <1>2, <1>3, <2>1, <2>2 DEF QueuesOK, OnePlace
  <2>4. t \notin Getting /\ Getting' = Getting \cup {t} /\ Getting \subseteq Thread
    BY <1>1, <2>2 DEF Getting
  <2>5. Cardinality(Getting') = Cardinality(Getting) + 1
    BY <2>4, OneMore
  <2>6. ItemsOK'
    BY <1>2, <1>5, <2>1, <2>5, Sizes DEF ItemsOK, BufferTypeOK
  <2>7. SlotsOK'
    BY <1>2, <1>5 DEF SlotsOK
  <2> QED BY <1>4, <2>3, <2>6, <2>7
<1>7. CASE nFull.value = 0
  <2>1. nFull'.value = 0 /\ OnePlace(nFull')
    BY <1>1, <1>2, <1>7, DownedFacts, DownedBlocks
  <2>2. \A s \in Thread : BlockedOn(Downed(nFull, t), s) <=> BlockedOn(nFull, s) \/ s = t
    BY <1>1, <1>2, <1>7, DownedBlocks
  <2>3. \A s \in Thread : BlockedOn(nFull, s)' <=> BlockedOn(nFull, s) \/ s = t
    BY <2>2 DEF BlockedOn
  <2>4. QueuesOK'
    BY <1>1, <1>2, <1>3, <2>1, <2>3 DEF QueuesOK, OnePlace
  <2>5. Getting' = Getting
    BY <1>1, <2>3 DEF Getting
  <2>6. SlotsOK' /\ ItemsOK'
    BY <1>2, <1>5, <1>7, <2>1, <2>5 DEF SlotsOK, ItemsOK
  <2> QED BY <1>4, <2>4, <2>6
<1> QED BY <1>2, <1>6, <1>7

(* An item that is announced is free, or the first's to wait. *)
LEMMA PutEndStep == ASSUME Inv, NEW t \in Thread, PutFull(t) PROVE Inv'
<1> USE DEF Inv, PutFull, ring
<1>1. /\ pc[t] = "putFull" /\ pc'[t] = "out" /\ pc' \in [Thread -> Label]
      /\ \A s \in Thread \ {t} : pc'[s] = pc[s]
      /\ ~BlockedOn(nEmpty, t) /\ ~BlockedOn(nFull, t)
  BY LineFacts DEF Label
<1>2. /\ nFull \in SemType(Thread) /\ nFull' \in SemType(Thread) /\ OnePlace(nFull)
      /\ nFull.value \in Nat /\ (nFull.blocked # <<>> => nFull.value = 0)
      /\ nEmpty' = nEmpty /\ n' = n
  BY UppedFacts DEF BufferTypeOK, QueuesOK, SemType
<1>3. \A s \in Thread : BlockedOn(nEmpty, s)' <=> BlockedOn(nEmpty, s)
  BY <1>2 DEF BlockedOn
<1>4. BufferTypeOK'
  BY <1>1, <1>2 DEF BufferTypeOK
<1>5. /\ Putting' = Putting /\ Returning' = Returning
      /\ t \notin Announcing' /\ Announcing = Announcing' \cup {t} /\ Announcing' \subseteq Thread
  BY <1>1, <1>3 DEF Putting, Returning, Announcing
<1>6. Cardinality(Announcing) = Cardinality(Announcing') + 1 /\ Cardinality(Announcing') \in Nat
  BY <1>5, OneMore, Counts
<1>7. CASE nFull.blocked = <<>>
  <2>1. nFull'.value = nFull.value + 1 /\ nFull'.blocked = <<>>
    BY <1>2, <1>7, UppedFacts
  <2>2. \A s \in Thread : BlockedOn(nFull, s)' <=> BlockedOn(nFull, s)
    BY <1>7, <2>1 DEF BlockedOn
  <2>3. QueuesOK'
    BY <1>1, <1>2, <1>3, <2>1, <2>2 DEF QueuesOK, OnePlace
  <2>4. Getting' = Getting
    BY <1>1, <2>2 DEF Getting
  <2>5. ItemsOK'
    <3>1. Cardinality(Getting') = Cardinality(Getting) /\ n \in Int /\ N \in Int
      BY <2>4, BufferAssumption DEF BufferTypeOK
    <3>2. nFull.value + Cardinality(Getting) + Cardinality(Announcing) = n
      BY DEF ItemsOK
    <3>3. nFull'.value + Cardinality(Getting) + Cardinality(Announcing') = n
      BY ONLY <1>2, <1>6, <2>1, <3>1, <3>2, Sizes, SMTT(40)
    <3> QED BY <1>2, <3>1, <3>3 DEF ItemsOK
  <2>6. SlotsOK'
    BY <1>2, <1>5 DEF SlotsOK
  <2> QED BY <1>4, <2>3, <2>5, <2>6
<1>8. CASE nFull.blocked # <<>>
  <2>1. nFull'.value = 0 /\ nFull.value = 0 /\ OnePlace(nFull')
    BY <1>2, <1>8, UppedFacts, UppedPasses
  <2>2. PICK h \in Thread : /\ BlockedOn(nFull, h)
                            /\ \A s \in Thread :
                                  BlockedOn(Upped(nFull), s) <=> BlockedOn(nFull, s) /\ s # h
    BY <1>2, <1>8, UppedPasses
  <2>3. \A s \in Thread : BlockedOn(nFull, s)' <=> BlockedOn(nFull, s) /\ s # h
    BY <2>2 DEF BlockedOn
  <2>4. h # t /\ pc[h] = "getLock" /\ pc'[h] = "getLock"
    BY <1>1, <2>2 DEF QueuesOK
  <2>5. QueuesOK'
    BY <1>1, <1>2, <1>3, <2>1, <2>3 DEF QueuesOK, OnePlace
  <2>6. h \notin Getting /\ Getting' = Getting \cup {h} /\ Getting \subseteq Thread
    BY <1>1, <2>2, <2>3, <2>4 DEF Getting
  <2>7. Cardinality(Getting') = Cardinality(Getting) + 1
    BY <2>6, OneMore
  <2>8. ItemsOK'
    BY <1>2, <1>5, <1>6, <2>1, <2>7, Sizes DEF ItemsOK, BufferTypeOK
  <2>9. SlotsOK'
    BY <1>2, <1>5 DEF SlotsOK
  <2> QED BY <1>4, <2>5, <2>8, <2>9
<1> QED BY <1>7, <1>8

(* Every line keeps the account of the slots and of the items. *)
LEMMA InvNext == Inv /\ [Next]_vars => Inv'
<1> SUFFICES ASSUME Inv, [Next]_vars PROVE Inv'
  OBVIOUS
<1>1. CASE UNCHANGED vars
  BY <1>1 DEF vars, ring, semaphores, Inv, BufferTypeOK, QueuesOK, OnePlace, SlotsOK, ItemsOK,
              Putting, Announcing, Getting, Returning, BlockedOn
<1>2. ASSUME NEW t \in Thread,
             PutLock(t) \/ PutData(t) \/ PutUnlock(t) \/ GetLock(t) \/ GetData(t) \/ GetUnlock(t)
      PROVE  Inv'
  BY <1>2, MoveStep DEF PutLock, PutData, PutUnlock, GetLock, GetData, GetUnlock, ring, semaphores
<1> QED BY <1>1, <1>2, PutCallStep, PutCountStep, PutEndStep, GetCallStep, GetCountStep, GetEndStep
        DEF Next, Inside

(* What nEmpty and nFull count is what the ring has, so whoever waits for  *)
(* a slot or an item when all others are through (bb.h) waits because      *)
(* there is none.                                                          *)
THEOREM ReasonToWait == Spec => []WaitsWithReason
<1>1. ASSUME Inv, \A t \in Thread : pc[t] = "out" \/ BlockedOn(nEmpty, t) \/ BlockedOn(nFull, t)
      PROVE  (nEmpty.blocked # <<>> => n = N) /\ (nFull.blocked # <<>> => n = 0)
  <2> USE <1>1 DEF Inv
  <2>1. Putting = {} /\ Announcing = {} /\ Getting = {} /\ Returning = {}
    BY DEF QueuesOK, Putting, Announcing, Getting, Returning
  <2>2. nEmpty.value + n = N /\ nFull.value = n
    BY <2>1, FS_EmptySet DEF SlotsOK, ItemsOK, BufferTypeOK, SemType
  <2> QED BY <2>2, BufferAssumption DEF QueuesOK, BufferTypeOK
<1>2. Inv => WaitsWithReason
  BY <1>1 DEF WaitsWithReason
<1> QED BY <1>2, InvInit, InvNext, PTL DEF Spec

-----------------------------------------------------------------------------
(* Between lock.down() and lock.up() a thread has the ring to itself.      *)

Locked == {"putData", "putCount", "putUnlock", "getData", "getCount", "getUnlock"}

Has(t) == pc[t] \in Locked /\ ~BlockedOn(lock, t)

RingTypeOK ==
    /\ head \in 0 .. N - 1
    /\ data \in [0 .. N - 1 -> Item]
    /\ item \in [Thread -> Item]
    /\ lock \in SemType(Thread)

LockOK ==
    /\ OnePlace(lock)
    /\ \A t \in Thread : BlockedOn(lock, t) => pc[t] \in {"putData", "getData"}
    /\ lock.value \in {0, 1}
    /\ lock.blocked # <<>> => lock.value = 0
    /\ \A t \in Thread : Has(t) => lock.value = 0
    /\ \A t, u \in Thread : Has(t) /\ Has(u) => t = u

RInv == Inv /\ RingTypeOK /\ LockOK

(* The ring is empty at first, and the lock is free. *)
LEMMA RingInit == Init => RInv
<1> SUFFICES ASSUME Init PROVE RInv
  OBVIOUS
<1> USE BufferAssumption DEF Init
<1>1. RingTypeOK
  BY DEF RingTypeOK, Sem, SemType
<1>2. lock.value = 1 /\ lock.blocked = <<>>
  BY DEF Sem
<1>3. \A t \in Thread : ~BlockedOn(lock, t) /\ ~Has(t)
  BY <1>2, EmptyBlocksNobody DEF Has, Locked
<1>4. LockOK
  BY <1>2, <1>3 DEF LockOK, OnePlace
<1> QED BY <1>1, <1>4, InvInit DEF RInv

(* A line that leaves the lock alone. *)
LEMMA LockKept ==
    ASSUME RInv, NEW t \in Thread, NEW l, NEW m \in Label, Line(t, l, m), lock' = lock,
           l \in Locked <=> m \in Locked
    PROVE  LockOK'
<1>1. /\ pc[t] = l /\ pc'[t] = m /\ \A s \in Thread \ {t} : pc'[s] = pc[s]
  BY LineFacts DEF RInv, Inv
<1>2. ~BlockedOn(lock, t)
  BY DEF Line, Blocked
<1>3. \A s \in Thread : BlockedOn(lock, s)' <=> BlockedOn(lock, s)
  BY DEF BlockedOn
<1>4. \A s \in Thread : Has(s)' <=> Has(s)
  BY <1>1, <1>3 DEF Has
<1> QED BY <1>1, <1>2, <1>3, <1>4 DEF RInv, LockOK, OnePlace

(* lock.down() *)
LEMMA LockTaken ==
    ASSUME RInv, NEW t \in Thread, NEW l, NEW m \in {"putData", "getData"}, Line(t, l, m),
           l \notin Locked, lock' = Downed(lock, t)
    PROVE  LockOK' /\ lock' \in SemType(Thread)
<1>1. /\ pc[t] = l /\ pc'[t] = m /\ \A s \in Thread \ {t} : pc'[s] = pc[s]
  BY LineFacts DEF RInv, Inv, Label
<1>2. ~BlockedOn(lock, t)
  BY DEF Line, Blocked
<1>3. /\ lock \in SemType(Thread) /\ lock' \in SemType(Thread) /\ OnePlace(lock)
      /\ lock.value \in {0, 1} /\ (lock.blocked # <<>> => lock.value = 0)
  BY DownedFacts DEF RInv, RingTypeOK, LockOK
<1>4. /\ \A s \in Thread : BlockedOn(lock, s) => pc[s] \in {"putData", "getData"}
      /\ \A s \in Thread : Has(s) => lock.value = 0
      /\ \A s, u \in Thread : Has(s) /\ Has(u) => s = u
      /\ ~Has(t)
  BY <1>1 DEF RInv, LockOK, Has
<1>5. CASE lock.value = 1
  <2>1. lock'.value = 0 /\ lock'.blocked = lock.blocked /\ lock.blocked = <<>>
    BY <1>3, <1>5, DownedFacts
  <2>2. \A s \in Thread : ~BlockedOn(lock, s)' /\ ~BlockedOn(lock, s)
    BY <2>1 DEF BlockedOn
  <2>3. \A s \in Thread : Has(s)' => s = t
    BY <1>1, <1>4, <1>5, <2>2 DEF Has
  <2>4. OnePlace(lock)'
    BY <1>3, <2>1 DEF OnePlace
  <2> QED BY <1>3, <2>1, <2>2, <2>3, <2>4 DEF LockOK
<1>6. CASE lock.value = 0
  <2>1. lock'.value = 0 /\ OnePlace(lock')
    BY <1>2, <1>3, <1>6, DownedFacts, DownedBlocks
  <2>2. \A s \in Thread : BlockedOn(Downed(lock, t), s) <=> BlockedOn(lock, s) \/ s = t
    BY <1>2, <1>3, <1>6, DownedBlocks
  <2>3. \A s \in Thread : BlockedOn(lock, s)' <=> BlockedOn(lock, s) \/ s = t
    BY <2>2 DEF BlockedOn
  <2>4. \A s \in Thread : Has(s)' <=> Has(s)
    BY <1>1, <1>4, <2>3 DEF Has
  <2>5. \A s \in Thread : BlockedOn(lock, s)' => pc'[s] \in {"putData", "getData"}
    BY <1>1, <1>4, <2>3
  <2>6. OnePlace(lock)'
    BY <2>1 DEF OnePlace
  <2> QED BY <1>3, <1>4, <2>1, <2>4, <2>5, <2>6 DEF LockOK
<1> QED BY <1>3, <1>5, <1>6

(* lock.up(): the first to wait has the lock, or it is free. *)
LEMMA LockGiven ==
    ASSUME RInv, NEW t \in Thread, NEW l \in Locked, NEW m \in Label, Line(t, l, m),
           m \notin Locked, lock' = Upped(lock)
    PROVE  LockOK' /\ lock' \in SemType(Thread)
<1>1. /\ pc[t] = l /\ pc'[t] = m /\ \A s \in Thread \ {t} : pc'[s] = pc[s]
  BY LineFacts DEF RInv, Inv
<1>2. ~BlockedOn(lock, t)
  BY DEF Line, Blocked
<1>3. /\ lock \in SemType(Thread) /\ lock' \in SemType(Thread) /\ OnePlace(lock)
  BY UppedFacts DEF RInv, RingTypeOK, LockOK
<1>4. /\ Has(t) /\ lock.value = 0
      /\ \A s \in Thread : BlockedOn(lock, s) => pc[s] \in {"putData", "getData"}
      /\ \A s \in Thread : Has(s) => s = t
  BY <1>1, <1>2 DEF RInv, LockOK, Has
<1>5. CASE lock.blocked = <<>>
  <2>1. lock'.value = 1 /\ lock'.blocked = <<>>
    BY <1>3, <1>4, <1>5, UppedFacts
  <2>2. \A s \in Thread : ~BlockedOn(lock, s)' /\ ~BlockedOn(lock, s)
    BY <1>5, <2>1 DEF BlockedOn
  <2>3. \A s \in Thread : ~Has(s)'
    BY <1>1, <1>4, <2>2 DEF Has
  <2>4. OnePlace(lock)'
    BY <2>1 DEF OnePlace
  <2> QED BY <1>3, <2>1, <2>2, <2>3, <2>4 DEF LockOK
<1>6. CASE lock.blocked # <<>>
  <2>1. lock'.value = 0 /\ OnePlace(lock')
    BY <1>3, <1>4, <1>6, UppedFacts, UppedPasses
  <2>2. PICK h \in Thread : /\ BlockedOn(lock, h)
                            /\ \A s \in Thread :
                                  BlockedOn(Upped(lock), s) <=> BlockedOn(lock, s) /\ s # h
    BY <1>3, <1>6, UppedPasses
  <2>3. \A s \in Thread : BlockedOn(lock, s)' <=> BlockedOn(lock, s) /\ s # h
    BY <2>2 DEF BlockedOn
  <2>4. \A s \in Thread : Has(s)' => s = h
    BY <1>1, <1>4, <2>3 DEF Has
  <2>5. \A s \in Thread : BlockedOn(lock, s)' => pc'[s] \in {"putData", "getData"}
    BY <1>1, <1>2, <1>4, <2>3
  <2>6. OnePlace(lock)'
    BY <2>1 DEF OnePlace
  <2> QED BY <1>3, <2>1, <2>4, <2>5, <2>6 DEF LockOK
<1> QED BY <1>5, <1>6

(* Every line keeps the ring to the thread that has the lock. *)
LEMMA RingNext == RInv /\ [Next]_vars => RInv'
<1> SUFFICES ASSUME RInv, [Next]_vars PROVE RInv'
  OBVIOUS
<1>1. Inv'
  BY InvNext DEF RInv
<1>2. CASE UNCHANGED vars
  BY <1>1, <1>2 DEF RInv, RingTypeOK, LockOK, OnePlace, Has, BlockedOn, vars, ring, semaphores
<1>3. ASSUME NEW t \in Thread, PutCall(t) \/ GetCall(t) \/ PutFull(t) \/ GetEmpty(t)
      PROVE  RingTypeOK' /\ LockOK'
  <2>1. LockOK'
    BY <1>3, LockKept DEF PutCall, GetCall, PutFull, GetEmpty, ring, Label, Locked
  <2>2. RingTypeOK'
    BY <1>3 DEF RInv, RingTypeOK, PutCall, GetCall, PutFull, GetEmpty, ring
  <2> QED BY <2>1, <2>2
<1>4. ASSUME NEW t \in Thread, PutData(t) \/ GetData(t) \/ PutCount(t) \/ GetCount(t)
      PROVE  RingTypeOK' /\ LockOK'
  <2>1. LockOK'
    BY <1>4, LockKept DEF PutData, GetData, PutCount, GetCount, semaphores, Label, Locked
  <2>2. (head + 1) % N \in 0 .. N - 1 /\ data[head] \in Item /\ item[t] \in Item
    BY BufferAssumption DEF RInv, RingTypeOK
  <2>3. RingTypeOK'
    BY <1>4, <2>2 DEF RInv, RingTypeOK, PutData, GetData, PutCount, GetCount, semaphores
  <2> QED BY <2>1, <2>3
<1>5. ASSUME NEW t \in Thread, PutLock(t) \/ GetLock(t)
      PROVE  RingTypeOK' /\ LockOK'
  <2>1. LockOK' /\ lock' \in SemType(Thread)
    BY <1>5, LockTaken DEF PutLock, GetLock, Locked
  <2> QED BY <1>5, <2>1 DEF RInv, RingTypeOK, PutLock, GetLock, ring
<1>6. ASSUME NEW t \in Thread, PutUnlock(t) \/ GetUnlock(t)
      PROVE  RingTypeOK' /\ LockOK'
  <2>1. LockOK' /\ lock' \in SemType(Thread)
    BY <1>6, LockGiven DEF PutUnlock, GetUnlock, Locked, Label
  <2> QED BY <1>6, <2>1 DEF RInv, RingTypeOK, PutUnlock, GetUnlock, ring
<1> QED BY <1>1, <1>2, <1>3, <1>4, <1>5, <1>6 DEF RInv, Next, Inside

-----------------------------------------------------------------------------
(* put() has a slot and get() an item, and nobody is between the two       *)
(* assignments of get() while another thread is at the ring.               *)
LEMMA Room ==
    ASSUME Inv, NEW t \in Thread, ~BlockedOn(nEmpty, t), ~BlockedOn(nFull, t)
    PROVE  /\ n \in 0 .. N
           /\ pc[t] \in {"putData", "putCount"} => n \in 0 .. N - 1
           /\ pc[t] \in {"getData", "getCount"} => n \in 1 .. N
<1>1. /\ nEmpty.value + Cardinality(Putting) + n + Cardinality(Returning) = N
      /\ nFull.value + Cardinality(Getting) + Cardinality(Announcing) = n
      /\ nEmpty.value \in Nat /\ nFull.value \in Nat /\ n \in Int /\ N \in Nat
  BY BufferAssumption DEF Inv, SlotsOK, ItemsOK, BufferTypeOK, SemType
<1>2. pc[t] \in {"putData", "putCount"} => Cardinality(Putting) >= 1
  <2> SUFFICES ASSUME pc[t] \in {"putData", "putCount"} PROVE Cardinality(Putting) >= 1
    OBVIOUS
  <2> DEFINE P == Putting \ {t}
  <2>1. t \in Putting /\ P \subseteq Thread /\ t \notin P /\ Putting = P \cup {t}
    BY DEF Putting
  <2>2. Cardinality(P) \in Nat /\ Cardinality(Putting) = Cardinality(P) + 1
    BY <2>1, Counts, OneMore
  <2> QED BY <2>2
<1>3. pc[t] \in {"getData", "getCount"} => Cardinality(Getting) >= 1
  <2> SUFFICES ASSUME pc[t] \in {"getData", "getCount"} PROVE Cardinality(Getting) >= 1
    OBVIOUS
  <2> DEFINE P == Getting \ {t}
  <2>1. t \in Getting /\ P \subseteq Thread /\ t \notin P /\ Getting = P \cup {t}
    BY DEF Getting
  <2>2. Cardinality(P) \in Nat /\ Cardinality(Getting) = Cardinality(P) + 1
    BY <2>1, Counts, OneMore
  <2> QED BY <2>2
<1>4. n \in 0 .. N
  BY <1>1, Sizes
<1>5. Cardinality(Putting) >= 1 => n \in 0 .. N - 1
  BY <1>1, <1>4, Sizes
<1>6. Cardinality(Getting) >= 1 => n \in 1 .. N
  BY <1>1, <1>4, Sizes
<1> QED BY <1>2, <1>3, <1>4, <1>5, <1>6

Counting == \E t \in Thread : pc[t] = "getCount"

(* A thread with the lock knows whether `n' is about to be lowered. *)
LEMMA Holder ==
    ASSUME RInv, NEW t \in Thread, ~BlockedOn(lock, t), pc[t] \in Locked
    PROVE  Counting <=> pc[t] = "getCount"
<1>1. \A s \in Thread : pc[s] = "getCount" => Has(s)
  BY DEF RInv, LockOK, Has, Locked
<1> QED BY <1>1 DEF RInv, LockOK, Has, Counting

(* The contents are the items of the ring ... *)
LEMMA ContentsIs == Contents = Ring(head, IF Counting THEN n - 1 ELSE n, data, N)
BY DEF Contents, Ring, Counting

(* ... and stay as they are until a line changes the ring or comes to lower `n'. *)
LEMMA ContentsKept ==
    ASSUME RInv, NEW t \in Thread, NEW l, NEW m \in Label, Line(t, l, m), UNCHANGED ring,
           l # "getCount", m # "getCount"
    PROVE  Contents' = Contents
<1>1. /\ pc[t] = l /\ pc'[t] = m /\ \A s \in Thread \ {t} : pc'[s] = pc[s]
  BY LineFacts DEF RInv, Inv
<1>2. Counting' <=> Counting
  BY <1>1 DEF Counting
<1> QED BY <1>2 DEF Contents, Counting, ring

(* The assignments to the ring. *)
LEMMA PutDataStutters == ASSUME RInv, NEW t \in Thread, PutData(t) PROVE Contents' = Contents
<1>1. /\ pc[t] = "putData" /\ pc'[t] = "putCount" /\ \A s \in Thread \ {t} : pc'[s] = pc[s]
      /\ ~BlockedOn(nEmpty, t) /\ ~BlockedOn(nFull, t)
  BY LineFacts DEF RInv, Inv, PutData, Label
<1>2. ~Counting /\ ~Counting'
  <2>1. ~Counting
    BY <1>1, Holder DEF PutData, Line, Blocked, Locked
  <2> QED BY <1>1, <2>1 DEF Counting
<1>3. n \in 0 .. N - 1 /\ n \in 0 .. n /\ IsRing(head, data, N, Item)
  BY <1>1, Room, BufferAssumption DEF RInv, RingTypeOK, IsRing
<1>4. Contents = Ring(head, n, data, N)
  BY <1>2, ContentsIs
<1>5. Contents' = Ring(head, n, [data EXCEPT ![(head + n) % N] = item[t]], N)
  BY <1>2 DEF Contents, Counting, Ring, PutData
<1> QED BY <1>3, <1>4, <1>5, RingSpares, ZenonT(60)

(* put() is seen when it counts the item ... *)
LEMMA PutCountAdds == ASSUME RInv, NEW t \in Thread, PutCount(t) PROVE Abstract!AddWithin
<1>1. /\ pc[t] = "putCount" /\ pc'[t] = "putUnlock" /\ \A s \in Thread \ {t} : pc'[s] = pc[s]
      /\ ~BlockedOn(nEmpty, t) /\ ~BlockedOn(nFull, t)
  BY LineFacts DEF RInv, Inv, PutCount, Label
<1>2. ~Counting /\ ~Counting'
  <2>1. ~Counting
    BY <1>1, Holder DEF PutCount, Line, Blocked, Locked
  <2> QED BY <1>1, <2>1 DEF Counting
<1>3. n \in 0 .. N - 1 /\ n \in 0 .. N /\ IsRing(head, data, N, Item)
  BY <1>1, Room, BufferAssumption DEF RInv, RingTypeOK, IsRing
<1>4. Contents = Ring(head, n, data, N)
  BY <1>2, ContentsIs
<1>5. Contents' = Ring(head, n + 1, data, N)
  BY <1>2 DEF Contents, Counting, Ring, PutCount
<1>6. Len(Contents) = n
  BY <1>3, <1>4, RingTyped
<1>7. Contents' = Append(Contents, data[(head + n) % N])
  BY <1>3, <1>4, <1>5, RingAppends
<1>8. data[(head + n) % N] \in Item
  BY <1>3, RingAppends
<1>9. Len(Contents) < N
  BY <1>3, <1>6, BufferAssumption
<1> QED BY <1>7, <1>8, <1>9 DEF Abstract!AddWithin, Abstract!Add

(* ... get() when it reads one ... *)
LEMMA GetDataRemoves == ASSUME RInv, NEW t \in Thread, GetData(t) PROVE Abstract!Remove
<1>1. /\ pc[t] = "getData" /\ pc'[t] = "getCount" /\ \A s \in Thread \ {t} : pc'[s] = pc[s]
      /\ ~BlockedOn(nEmpty, t) /\ ~BlockedOn(nFull, t)
  BY LineFacts DEF RInv, Inv, GetData, Label
<1>2. ~Counting /\ Counting'
  <2>1. ~Counting
    BY <1>1, Holder DEF GetData, Line, Blocked, Locked
  <2> QED BY <1>1, <2>1 DEF Counting
<1>3. n \in 1 .. N /\ IsRing(head, data, N, Item)
  BY <1>1, Room, BufferAssumption DEF RInv, RingTypeOK, IsRing
<1>4. Contents = Ring(head, n, data, N)
  BY <1>2, ContentsIs
<1>5. Contents' = Ring((head + 1) % N, n - 1, data, N)
  BY <1>2 DEF Contents, Counting, Ring, GetData
<1> QED BY <1>3, <1>4, <1>5, RingTail DEF Abstract!Remove

(* ... and not when it uncounts it. *)
LEMMA GetCountStutters == ASSUME RInv, NEW t \in Thread, GetCount(t) PROVE Contents' = Contents
<1>1. /\ pc[t] = "getCount" /\ pc'[t] = "getUnlock" /\ \A s \in Thread \ {t} : pc'[s] = pc[s]
  BY LineFacts DEF RInv, Inv, GetCount, Label
<1>2. ~BlockedOn(lock, t)
  BY DEF GetCount, Line, Blocked
<1>3. Counting
  BY <1>1 DEF Counting
<1>4. ~Counting'
  <2>1. \A s \in Thread : pc[s] = "getCount" => Has(s)
    BY DEF RInv, LockOK, Has, Locked
  <2>2. \A s \in Thread : pc[s] = "getCount" => s = t
    BY <1>1, <2>1 DEF RInv, LockOK
  <2> QED BY <1>1, <2>2 DEF Counting
<1> QED BY <1>3, <1>4 DEF Contents, Counting, GetCount

(* The ring implements the queue of at most N items (bb.h): put() appends  *)
(* its item when it counts it, get() removes the first when it reads it,   *)
(* and no other line of either is seen.                                    *)
THEOREM FirstInFirstOut == Spec => ImplementsFifo
<1>1. Init => Abstract!Init
  <2> SUFFICES ASSUME Init PROVE Abstract!Init
    OBVIOUS
  <2>1. ~Counting /\ n = 0
    BY DEF Init, Counting
  <2>2. 0 \in 0 .. N /\ IsRing(head, data, N, Item)
    BY RingInit, BufferAssumption DEF RInv, RingTypeOK, IsRing
  <2>3. Contents \in Seq(Item) /\ Len(Contents) = 0
    BY <2>1, <2>2, ContentsIs, RingTyped
  <2> QED BY <2>3 DEF Abstract!Init
<1>2. RInv /\ [Next]_vars => [Abstract!AddWithin \/ Abstract!Remove]_Contents
  <2> SUFFICES ASSUME RInv, [Next]_vars PROVE [Abstract!AddWithin \/ Abstract!Remove]_Contents
    OBVIOUS
  <2>1. CASE UNCHANGED vars
    BY <2>1 DEF Contents, vars, ring
  <2>2. ASSUME NEW t \in Thread,
               \/ PutLock(t) \/ PutUnlock(t) \/ PutFull(t) \/ PutCall(t)
               \/ GetLock(t) \/ GetUnlock(t) \/ GetEmpty(t) \/ GetCall(t)
        PROVE  Contents' = Contents
    BY <2>2, ContentsKept DEF PutLock, PutUnlock, PutFull, PutCall,
                              GetLock, GetUnlock, GetEmpty, GetCall, Label
  <2> QED BY <2>1, <2>2, PutDataStutters, PutCountAdds, GetDataRemoves, GetCountStutters DEF Next,
      Inside
<1> QED BY <1>1, <1>2, RingInit, RingNext, PTL DEF Spec, ImplementsFifo, Abstract!Spec
=============================================================================
