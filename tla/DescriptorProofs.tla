-------------------------- MODULE DescriptorProofs --------------------------
(***************************************************************************)
(* What TLAPS proves of the two things that a file descriptor stands for,  *)
(* pipes (Pipe) and open files (Files).                                    *)
(*                                                                         *)
(* Of Pipe, for any number of writers and readers, any texts and any       *)
(* MAX_BUFFER_SIZE: nobody blocks with the pipe locked, and every call     *)
(* seems to happen at once.  The invariant says where the two counting     *)
(* semaphores stand when the thread that has the lock is at each of its    *)
(* lines: they tell the free and the used bytes of the ring, except that   *)
(* the thread has taken one from a semaphore before `count' moves, and     *)
(* gives one after.  For the bytes in the ring it says too what each call  *)
(* has moved of its own.                                                   *)
(*                                                                         *)
(* Of Files, for any disk that holds what its i-nodes refer to, any        *)
(* processes and files, shared or not, and any calls: read() delivers a    *)
(* piece of the file as it is on the disk, and on a file of one process    *)
(* it seems to happen at once.  What the BlockIO loops return is found     *)
(* first; the invariant then says which cells of the disk each call has    *)
(* fetched, and that the drive's registers are those of the process that   *)
(* has its lock.                                                           *)
(***************************************************************************)
EXTENDS Pipe, Files, SequenceTheorems, FiniteSetTheorems, TLAPS

-----------------------------------------------------------------------------
(* The semaphores *)

SemType(S) == [value : Nat, blocked : Seq(S)]

(* No thread waits twice. *)
OnePlace(s) == \A i, j \in 1 .. Len(s.blocked) : s.blocked[i] = s.blocked[j] => i = j

(* Nobody waits in an empty queue. *)
LEMMA EmptyBlocksNobody == \A s, t : s.blocked = <<>> => ~BlockedOn(s, t)
BY DEF BlockedOn

(* down() *)
LEMMA DownedFacts ==
    ASSUME NEW S, NEW s \in SemType(S), NEW t \in S
    PROVE  /\ Downed(s, t) \in SemType(S)
           /\ s.value > 0 => Downed(s, t).value = s.value - 1 /\ Downed(s, t).blocked = s.blocked
           /\ s.value = 0 => /\ Downed(s, t).value = 0
                             /\ Downed(s, t).blocked = Append(s.blocked, t)
<1>1. s.value \in Nat /\ s.blocked \in Seq(S)
  BY DEF SemType
<1>2. Append(s.blocked, t) \in Seq(S)
  BY <1>1
<1>3. CASE s.value > 0
  BY <1>1, <1>3 DEF Downed, SemType
<1>4. CASE s.value = 0
  BY <1>1, <1>2, <1>4 DEF Downed, SemType
<1> QED BY <1>1, <1>3, <1>4

(* down() blocks the caller, if there is nothing to take, and nobody else. *)
LEMMA DownedBlocks ==
    ASSUME NEW S, NEW s \in SemType(S), NEW t \in S, OnePlace(s), ~BlockedOn(s, t), s.value = 0
    PROVE  /\ OnePlace(Downed(s, t))
           /\ \A u \in S : BlockedOn(Downed(s, t), u) <=> BlockedOn(s, u) \/ u = t
<1> DEFINE b == s.blocked
<1>1. b \in Seq(S) /\ Downed(s, t).blocked = Append(b, t)
  <2>1. b \in Seq(S)
    BY DEF SemType
  <2>2. Downed(s, t).blocked = Append(b, t)
    BY DownedFacts
  <2> QED BY <2>1, <2>2
<1>2. /\ Len(b) \in Nat /\ Len(Append(b, t)) = Len(b) + 1
      /\ \A i \in 1 .. Len(b) : Append(b, t)[i] = b[i]
      /\ Append(b, t)[Len(b) + 1] = t
  BY <1>1
<1>3. OnePlace(Downed(s, t))
  BY <1>1, <1>2 DEF OnePlace, BlockedOn
<1>4. ASSUME NEW u \in S PROVE BlockedOn(Downed(s, t), u) <=> BlockedOn(s, u) \/ u = t
  BY <1>1, <1>2 DEF BlockedOn
<1> QED BY <1>3, <1>4

(* up() *)
LEMMA UppedFacts ==
    ASSUME NEW S, NEW s \in SemType(S)
    PROVE  /\ Upped(s) \in SemType(S)
           /\ s.blocked = <<>> => Upped(s).value = s.value + 1 /\ Upped(s).blocked = <<>>
           /\ s.blocked # <<>> => Upped(s).value = s.value /\ Upped(s).blocked = Tail(s.blocked)
BY HeadTailProperties DEF Upped, SemType

(* The first to wait is passed, and only that one. *)
LEMMA UppedPasses ==
    ASSUME NEW S, NEW s \in SemType(S), OnePlace(s), s.blocked # <<>>
    PROVE  /\ OnePlace(Upped(s))
           /\ \E h \in S : /\ BlockedOn(s, h)
                                /\ \A u \in S : BlockedOn(Upped(s), u) <=> BlockedOn(s, u) /\ u # h
<1> DEFINE b == s.blocked
<1>1. b \in Seq(S) /\ Upped(s).blocked = Tail(b)
  BY UppedFacts DEF SemType
<1>2. /\ Len(b) \in Nat /\ Len(b) > 0 /\ Len(Tail(b)) = Len(b) - 1
      /\ \A i \in 1 .. Len(b) - 1 : Tail(b)[i] = b[i + 1]
      /\ b[1] \in S
  BY <1>1, HeadTailProperties, EmptySeq, ElementOfSeq
<1>3. OnePlace(Upped(s))
  BY <1>1, <1>2 DEF OnePlace
<1>4. BlockedOn(s, b[1])
  BY <1>2 DEF BlockedOn
<1>5. ASSUME NEW u \in S PROVE BlockedOn(Upped(s), u) <=> BlockedOn(s, u) /\ u # b[1]
  <2>1. ASSUME BlockedOn(s, u), u # b[1] PROVE BlockedOn(Upped(s), u)
    <3>1. PICK i \in 1 .. Len(b) : b[i] = u
      BY <2>1 DEF BlockedOn
    <3>2. i - 1 \in 1 .. Len(Tail(b)) /\ Tail(b)[i - 1] = u
      BY <2>1, <3>1, <1>2
    <3> QED BY <3>2, <1>1 DEF BlockedOn
  <2>2. ASSUME BlockedOn(Upped(s), u) PROVE BlockedOn(s, u) /\ u # b[1]
    <3>1. PICK i \in 1 .. Len(Tail(b)) : Tail(b)[i] = u
      BY <2>2, <1>1 DEF BlockedOn
    <3>2. i + 1 \in 1 .. Len(b) /\ b[i + 1] = u /\ i + 1 # 1
      BY <3>1, <1>2
    <3> QED BY <3>2, <1>2 DEF BlockedOn, OnePlace
  <2> QED BY <2>1, <2>2
<1> QED BY <1>2, <1>3, <1>4, <1>5

(* A semaphore on which nobody waits. *)
LEMMA SemUpped ==
    ASSUME NEW s \in [value : Nat, blocked : {<<>>}]
    PROVE  Upped(s) \in [value : Nat, blocked : {<<>>}] /\ Upped(s).value = s.value + 1
BY DEF Upped

(* A semaphore that nobody waits for lets the next one through. *)
LEMMA SemDowned ==
    ASSUME NEW s \in [value : Nat, blocked : {<<>>}], NEW t, s.value > 0
    PROVE  Downed(s, t) \in [value : Nat, blocked : {<<>>}] /\ Downed(s, t).value = s.value - 1
BY DEF Downed

-----------------------------------------------------------------------------
(* A ring of N places, with k items from place h on.                       *)

IsRing(h, d, N, S) == N \in Nat \ {0} /\ h \in 0 .. N - 1 /\ d \in [0 .. N - 1 -> S]

Ring(h, k, d, N) == [i \in 1 .. k |-> d[(h + i - 1) % N]]

(* Numbers below twice N are all that is taken modulo N. *)
LEMMA ModOnce ==
    ASSUME NEW N \in Nat \ {0}, NEW a \in Nat, a < N + N
    PROVE  a % N = IF a < N THEN a ELSE a - N
OBVIOUS

(* A step round the ring from a place in it ... *)
LEMMA ModNext ==
    ASSUME NEW N \in Nat \ {0}, NEW a \in Nat, a + 1 < N + N
    PROVE  ((a % N) + 1) % N = (a + 1) % N
<1>1. PICK b \in Nat, c \in Nat : b = a + 1 /\ c = (a % N) + 1
  OBVIOUS
<1>2. a < N + N
  OBVIOUS
<1>3. a % N = IF a < N THEN a ELSE a - N
  BY <1>2, ModOnce
<1>4. b % N = IF b < N THEN b ELSE b - N
  BY <1>1, ModOnce
<1>5. c < N + N
  BY <1>1, <1>3, <1>2
<1>6. c % N = IF c < N THEN c ELSE c - N
  BY <1>5, ModOnce
<1>7. c % N = b % N
  <2>1. CASE a < N
    BY <1>1, <1>3, <2>1
  <2>2. CASE ~(a < N)
    <3>1. c = a - N + 1 /\ b = N + c /\ c < N
      BY <1>1, <1>3, <2>2
    <3> QED BY <1>4, <1>6, <3>1
  <2> QED BY <2>1, <2>2
<1> QED BY <1>1, <1>7

(* ... and from the one after. *)
LEMMA ModSkip ==
    ASSUME NEW N \in Nat \ {0}, NEW h \in 0 .. N - 1, NEW k \in 1 .. N
    PROVE  (((h + 1) % N) + (k - 1)) % N = (h + k) % N
<1>1. PICK a \in Nat, b \in Nat : a = h + 1 /\ b = h + k /\ a < N + N /\ b < N + N
  OBVIOUS
<1>2. a % N = IF a < N THEN a ELSE a - N
  BY <1>1, ModOnce
<1>3. PICK c \in Nat : c = (a % N) + (k - 1)
  BY <1>1
<1>4. b % N = IF b < N THEN b ELSE b - N
  BY <1>1, ModOnce
<1>5. c < N + N
  BY <1>1, <1>2, <1>3
<1>6. c % N = IF c < N THEN c ELSE c - N
  BY <1>5, ModOnce
<1>7. c % N = b % N
  <2>1. CASE a < N
    BY <1>1, <1>2, <1>3, <2>1
  <2>2. CASE ~(a < N)
    <3>1. a = N /\ c = k - 1 /\ b = N + c /\ c < N
      BY <1>1, <1>2, <1>3, <2>2
    <3> QED BY <1>4, <1>6, <3>1
  <2> QED BY <2>1, <2>2
<1> QED BY <1>1, <1>3, <1>7

(* The ring holds k items. *)
LEMMA RingTyped ==
    ASSUME NEW N, NEW S, NEW h, NEW d, IsRing(h, d, N, S), NEW k \in 0 .. N
    PROVE  /\ Ring(h, k, d, N) \in Seq(S) /\ Len(Ring(h, k, d, N)) = k
           /\ \A i \in 1 .. k : Ring(h, k, d, N)[i] = d[(h + i - 1) % N]
<1> USE DEF IsRing
<1>1. \A i \in 1 .. k : (h + i - 1) % N \in 0 .. N - 1
  OBVIOUS
<1>2. k \in Nat /\ Ring(h, k, d, N) \in [1 .. k -> S]
  BY <1>1 DEF Ring
<1>3. Ring(h, k, d, N) \in Seq(S)
  BY <1>2
<1>4. Len(Ring(h, k, d, N)) = k
  BY <1>2
<1> QED BY <1>3, <1>4 DEF Ring

(* One more at the end ... *)
LEMMA RingAppends ==
    ASSUME NEW N, NEW S, NEW h, NEW d, IsRing(h, d, N, S), NEW k \in 0 .. N - 1
    PROVE  /\ (h + k) % N \in 0 .. N - 1 /\ d[(h + k) % N] \in S
           /\ Ring(h, k + 1, d, N) = Append(Ring(h, k, d, N), d[(h + k) % N])
<1>1. k \in 0 .. N /\ k + 1 \in 0 .. N /\ (h + k) % N \in 0 .. N - 1 /\ d[(h + k) % N] \in S
  BY DEF IsRing
<1> DEFINE x == d[(h + k) % N]
           s == Append(Ring(h, k, d, N), x)
<1>2. /\ Ring(h, k, d, N) \in Seq(S) /\ Len(Ring(h, k, d, N)) = k
      /\ \A i \in 1 .. k : Ring(h, k, d, N)[i] = d[(h + i - 1) % N]
  BY <1>1, RingTyped
<1>3. /\ Ring(h, k + 1, d, N) \in Seq(S) /\ Len(Ring(h, k + 1, d, N)) = k + 1
      /\ \A i \in 1 .. k + 1 : Ring(h, k + 1, d, N)[i] = d[(h + i - 1) % N]
  BY <1>1, RingTyped
<1>4. x \in S
  BY <1>1
<1> HIDE DEF x
<1>5. /\ s \in Seq(S) /\ Len(s) = k + 1
      /\ \A i \in 1 .. k : s[i] = Ring(h, k, d, N)[i]
      /\ s[k + 1] = x
  BY <1>2, <1>4, AppendProperties
<1>6. h + (k + 1) - 1 = h + k
  BY DEF IsRing
<1>7. ASSUME NEW i \in 1 .. k + 1 PROVE Ring(h, k + 1, d, N)[i] = s[i]
  <2>1. CASE i = k + 1
    BY <1>3, <1>5, <1>6, <2>1 DEF x
  <2>2. CASE i # k + 1
    <3>1. i \in 1 .. k
      BY <1>1, <2>2
    <3> QED BY <1>2, <1>3, <1>5, <3>1
  <2> QED BY <2>1, <2>2
<1> HIDE DEF s
<1>8. Ring(h, k + 1, d, N) = s
  BY <1>3, <1>5, <1>7, SeqEqual
<1> QED BY <1>1, <1>8 DEF s, x

(* ... in a place that is none of the others' ... *)
LEMMA RingSpares ==
    ASSUME NEW N, NEW S, NEW h, NEW d, IsRing(h, d, N, S), NEW k \in 0 .. N - 1, NEW j \in 0 .. k,
          NEW x
    PROVE  Ring(h, j, [d EXCEPT ![(h + k) % N] = x], N) = Ring(h, j, d, N)
<1> USE DEF IsRing
<1> DEFINE e == [d EXCEPT ![(h + k) % N] = x]
<1>1. ASSUME NEW i \in 1 .. j PROVE e[(h + i - 1) % N] = d[(h + i - 1) % N]
  <2>1. PICK a \in Nat, b \in Nat : a = h + i - 1 /\ b = h + k /\ a < N + N /\ b < N + N
    OBVIOUS
  <2>2. a % N = IF a < N THEN a ELSE a - N
    BY <2>1, ModOnce
  <2>3. b % N = IF b < N THEN b ELSE b - N
    BY <2>1, ModOnce
  <2>4. a % N # b % N
    <3>1. a < b /\ b - a < N /\ a \in Nat /\ b \in Nat /\ N \in Nat
      BY <2>1
    <3>2. (IF a < N THEN a ELSE a - N) # (IF b < N THEN b ELSE b - N)
      BY <3>1
    <3> QED BY <2>2, <2>3, <3>2
  <2>5. a % N \in 0 .. N - 1
    OBVIOUS
  <2> QED BY <2>1, <2>4, <2>5
<1> QED BY <1>1 DEF Ring

(* ... and one less at the front. *)
LEMMA RingTail ==
    ASSUME NEW N, NEW S, NEW h, NEW d, IsRing(h, d, N, S), NEW k \in 1 .. N
    PROVE  /\ (h + 1) % N \in 0 .. N - 1
           /\ Ring(h, k, d, N) # <<>> /\ Head(Ring(h, k, d, N)) = d[h]
           /\ Ring((h + 1) % N, k - 1, d, N) = Tail(Ring(h, k, d, N))
<1> DEFINE g == (h + 1) % N
           s == Tail(Ring(h, k, d, N))
<1>1. k \in 0 .. N /\ k - 1 \in 0 .. N /\ g \in 0 .. N - 1 /\ k # 0
  BY DEF IsRing
<1>2. /\ Ring(h, k, d, N) \in Seq(S) /\ Len(Ring(h, k, d, N)) = k
      /\ \A i \in 1 .. k : Ring(h, k, d, N)[i] = d[(h + i - 1) % N]
  BY <1>1, RingTyped
<1>3. g = (h + 1) % N
  OBVIOUS
<1>4. IsRing(g, d, N, S)
  BY <1>1 DEF IsRing
<1>5. Head(Ring(h, k, d, N)) = d[h]
  <2>1. PICK a \in Nat : a = h + 1 - 1 /\ a = h /\ a < N + N /\ a < N
    BY DEF IsRing
  <2>2. a % N = a
    BY <2>1, ModOnce DEF IsRing
  <2>3. 1 \in 1 .. k
    BY <1>1
  <2> QED BY <1>2, <2>1, <2>2, <2>3
<1> HIDE DEF g
<1>6. ASSUME NEW i \in 1 .. k - 1 PROVE (g + i - 1) % N = (h + (i + 1) - 1) % N
  <2> USE DEF IsRing
  <2>1. PICK a \in Nat, b \in Nat, c \in Nat :
             /\ a = h + 1 /\ b = h + i /\ c = g + i - 1
             /\ a < N + N /\ b < N + N /\ c < N + N
    <3>1. h + 1 \in Nat /\ h + i \in Nat /\ g + i - 1 \in Nat
      BY <1>1
    <3>2. h + 1 < N + N /\ h + i < N + N /\ g + i - 1 < N + N
      BY <1>1
    <3> QED BY <3>1, <3>2
  <2>2. g = IF a < N THEN a ELSE a - N
    BY <1>3, <2>1, ModOnce
  <2>3. b % N = IF b < N THEN b ELSE b - N
    BY <2>1, ModOnce
  <2>4. c % N = IF c < N THEN c ELSE c - N
    BY <2>1, ModOnce
  <2>5. h + (i + 1) - 1 = b
    BY <2>1
  <2>6. c % N = b % N
    <3>1. CASE a < N
      BY <2>1, <2>2, <3>1
    <3>2. CASE ~(a < N)
      <4>1. a = N /\ g = 0
        <5>1. h \in 0 .. N - 1 /\ N \in Nat /\ a = h + 1
          BY <2>1
        <5> HIDE DEF IsRing
        <5>2. a = N
          BY <3>2, <5>1
        <5> QED BY <2>2, <5>1, <5>2
      <4>2. c = i - 1 /\ b = N + c /\ c < N
        BY <2>1, <4>1
      <4> QED BY <2>3, <2>4, <4>1, <4>2
    <3> QED BY <3>1, <3>2
  <2> QED BY <2>1, <2>5, <2>6
<1>7. /\ Ring(g, k - 1, d, N) \in Seq(S) /\ Len(Ring(g, k - 1, d, N)) = k - 1
      /\ \A i \in 1 .. k - 1 : Ring(g, k - 1, d, N)[i] = d[(g + i - 1) % N]
  <2>1. k - 1 \in 0 .. N
    BY <1>1
  <2>2. \A m \in 0 .. N : /\ Ring(g, m, d, N) \in Seq(S) /\ Len(Ring(g, m, d, N)) = m
                          /\ \A i \in 1 .. m : Ring(g, m, d, N)[i] = d[(g + i - 1) % N]
    <3> SUFFICES ASSUME NEW m \in 0 .. N
                 PROVE  /\ Ring(g, m, d, N) \in Seq(S) /\ Len(Ring(g, m, d, N)) = m
                        /\ \A i \in 1 .. m : Ring(g, m, d, N)[i] = d[(g + i - 1) % N]
      OBVIOUS
    <3> HIDE DEF s
    <3> QED BY <1>4, RingTyped
  <2> QED BY <2>1, <2>2, Zenon
<1>8. Ring(h, k, d, N) # <<>>
  BY <1>1, <1>2
<1>9. s \in Seq(S) /\ Len(s) = k - 1 /\ \A i \in 1 .. k - 1 : s[i] = Ring(h, k, d, N)[i + 1]
  BY <1>2, <1>8, HeadTailProperties
<1>10. ASSUME NEW i \in 1 .. k - 1 PROVE Ring(g, k - 1, d, N)[i] = s[i]
  <2>1. i + 1 \in 1 .. k
    BY <1>1
  <2> QED BY <1>2, <1>6, <1>7, <1>9, <2>1
<1> HIDE DEF s
<1>11. Ring(g, k - 1, d, N) = s
  BY <1>7, <1>9, <1>10, SeqEqual
<1> QED BY <1>1, <1>3, <1>5, <1>8, <1>11 DEF s

(* The oldest of the items. *)
LEMMA RingPrefix ==
    ASSUME NEW N, NEW S, NEW h, NEW d, IsRing(h, d, N, S), NEW k \in 0 .. N, NEW j \in 0 .. k
    PROVE  SubSeq(Ring(h, k, d, N), 1, j) = Ring(h, j, d, N)
<1> DEFINE s == SubSeq(Ring(h, k, d, N), 1, j)
<1>1. j \in 0 .. N /\ j \in Int
  BY DEF IsRing
<1>2. /\ Ring(h, k, d, N) \in Seq(S) /\ Len(Ring(h, k, d, N)) = k
      /\ \A i \in 1 .. k : Ring(h, k, d, N)[i] = d[(h + i - 1) % N]
  BY RingTyped
<1>3. /\ Ring(h, j, d, N) \in Seq(S) /\ Len(Ring(h, j, d, N)) = j
      /\ \A i \in 1 .. j : Ring(h, j, d, N)[i] = d[(h + i - 1) % N]
  BY <1>1, RingTyped
<1>4. \A i \in 1 .. j : i \in 1 .. k /\ Ring(h, k, d, N)[i] \in S
  BY <1>1, <1>2, ElementOfSeq
<1>5. s \in Seq(S) /\ Len(s) = j /\ \A i \in 1 .. j : s[i] = Ring(h, k, d, N)[i]
  BY <1>1, <1>4, SubSeqProperties
<1> HIDE DEF s
<1>6. \A i \in 1 .. j : s[i] = Ring(h, j, d, N)[i]
  BY <1>2, <1>3, <1>4, <1>5
<1> QED BY <1>3, <1>5, <1>6, SeqEqual DEF s

-----------------------------------------------------------------------------
Label == {"out", "writeLock", "writeTest", "writeByte", "writeSignal", "wrote",
          "readLock", "readTest", "readByte", "readSignal", "got"}

PipeTypeOK ==
    /\ pc \in [Thread -> Label]
    /\ count \in Nat
    /\ lock \in SemType(Thread)
    /\ read_sem \in [value : Nat, blocked : {<<>>}]
    /\ write_sem \in [value : Nat, blocked : {<<>>}]

(* The lock is free, or one thread has it and others may wait for it.      *)
LockOK ==
    /\ OnePlace(lock)
    /\ \A t \in Thread : BlockedOn(lock, t) => pc[t] \in {"writeTest", "readTest"}
    /\ \A s, t \in Thread : Holds(s) /\ Holds(t) => s = t
    /\ \/ lock.value = 0 /\ \E t \in Thread : Holds(t)
       \/ lock.value = 1 /\ lock.blocked = <<>> /\ \A t \in Thread : ~Holds(t)

CountAt(l) ==
    /\ read_sem.value = count - (IF l \in {"writeSignal", "readByte"} THEN 1 ELSE 0)
    /\ write_sem.value =
          MAX_BUFFER_SIZE - count - (IF l \in {"writeByte", "readSignal"} THEN 1 ELSE 0)

CountOK ==
    /\ \A t \in Thread : Holds(t) => CountAt(pc[t])
    /\ (\A t \in Thread : ~Holds(t)) => CountAt("out")

Inv == PipeTypeOK /\ LockOK /\ CountOK

-----------------------------------------------------------------------------
(* Before any call the semaphores tell of an empty ring. *)
LEMMA InvInit == Init => Inv
<1> SUFFICES ASSUME Init PROVE Inv
  OBVIOUS
<1> USE PipeAssumption DEF Init, Sem
<1>1. PipeTypeOK
  BY DEF PipeTypeOK, Label, SemType
<1>2. \A t \in Thread : ~BlockedOn(lock, t) /\ ~Holds(t)
  BY EmptyBlocksNobody DEF Holds, InWrite, InRead
<1>3. LockOK
  BY <1>2 DEF LockOK, OnePlace
<1>4. read_sem.value = 0 /\ write_sem.value = MAX_BUFFER_SIZE /\ count = 0
  OBVIOUS
<1>5. CountAt("out")
  BY <1>4 DEF CountAt
<1>6. CountOK
  BY <1>2, <1>5 DEF CountOK
<1> QED BY <1>1, <1>3, <1>6 DEF Inv

(* A line of t, which moves nobody else. *)
LEMMA LineFacts ==
    ASSUME Inv, NEW t \in Thread, NEW l, NEW m \in Label, Line(t, l, m)
    PROVE  /\ pc[t] = l /\ pc'[t] = m /\ pc' \in [Thread -> Label]
           /\ \A s \in Thread \ {t} : pc'[s] = pc[s]
           /\ ~BlockedOn(lock, t)
BY DEF Inv, PipeTypeOK, Line, Blocked

(* Outside the lock: a call begins or returns. *)
LEMMA OutsideStep ==
    ASSUME Inv, NEW t \in Thread, NEW l, NEW m \in {"out", "writeLock", "readLock"}, Line(t, l, m),
           l \in {"out", "wrote", "got"}, UNCHANGED <<count, semaphores>>
    PROVE  Inv'
<1>1. /\ pc[t] = l /\ pc'[t] = m /\ pc' \in [Thread -> Label]
      /\ \A s \in Thread \ {t} : pc'[s] = pc[s]
      /\ ~BlockedOn(lock, t)
  BY LineFacts DEF Label
<1> USE DEF Inv, semaphores
<1>2. \A s \in Thread : Holds(s)' <=> Holds(s)
  BY <1>1 DEF Holds, InWrite, InRead, BlockedOn
<1>3. PipeTypeOK'
  BY <1>1 DEF PipeTypeOK
<1>4. LockOK'
  BY <1>1, <1>2 DEF LockOK, OnePlace, BlockedOn
<1>5. CountOK'
  BY <1>1, <1>2 DEF CountOK, CountAt, Holds, InWrite, InRead
<1> QED BY <1>3, <1>4, <1>5

(* lock->down(): t has the lock, or waits for it. *)
LEMMA LockStep ==
    ASSUME Inv, NEW t \in Thread, NEW l \in {"writeLock", "readLock"},
          NEW m \in {"writeTest", "readTest"},
           Line(t, l, m), lock' = Downed(lock, t), UNCHANGED <<count, read_sem, write_sem>>
    PROVE  Inv'
<1>1. /\ pc[t] = l /\ pc'[t] = m /\ pc' \in [Thread -> Label]
      /\ \A s \in Thread \ {t} : pc'[s] = pc[s]
      /\ ~BlockedOn(lock, t)
  BY LineFacts DEF Label
<1> USE DEF Inv
<1>2. lock \in SemType(Thread) /\ OnePlace(lock) /\ lock' \in SemType(Thread)
  BY DownedFacts DEF PipeTypeOK, LockOK
<1>3. PipeTypeOK'
  BY <1>1, <1>2 DEF PipeTypeOK
<1>4. ~Holds(t)
  BY <1>1 DEF Holds, InWrite, InRead
<1>5. CASE lock.value = 0
  <2>1. OnePlace(lock') /\ lock'.value = 0
    BY <1>1, <1>2, <1>5, DownedBlocks, DownedFacts
  <2>2. \A u \in Thread : BlockedOn(lock, u)' <=> BlockedOn(lock, u) \/ u = t
    <3>1. \A u \in Thread : BlockedOn(Downed(lock, t), u) <=> BlockedOn(lock, u) \/ u = t
      BY <1>1, <1>2, <1>5, DownedBlocks
    <3> QED BY <3>1 DEF BlockedOn
  <2>3. \A u \in Thread : Holds(u)' <=> Holds(u)
    BY <1>1, <1>4, <2>2 DEF Holds, InWrite, InRead
  <2>4. LockOK'
    BY <1>1, <1>5, <2>1, <2>2, <2>3 DEF LockOK, OnePlace
  <2>5. CountOK'
    BY <1>1, <1>4, <2>3 DEF CountOK, CountAt
  <2> QED BY <1>3, <2>4, <2>5
<1>6. CASE lock.value = 1
  <2>1. lock'.value = 0 /\ lock'.blocked = <<>> /\ lock.blocked = <<>>
    BY <1>2, <1>6, DownedFacts DEF LockOK
  <2>2. \A u \in Thread : ~BlockedOn(lock, u)' /\ ~BlockedOn(lock, u)
    BY <2>1 DEF BlockedOn
  <2>3. \A u \in Thread : Holds(u)' <=> u = t
    BY <1>1, <1>6, <2>2 DEF Holds, InWrite, InRead, LockOK
  <2>4. LockOK'
    BY <2>1, <2>2, <2>3 DEF LockOK, OnePlace
  <2>5. CountOK'
    BY <1>1, <1>6, <2>3 DEF CountOK, CountAt, LockOK
  <2> QED BY <1>3, <2>4, <2>5
<1> QED BY <1>5, <1>6 DEF LockOK

(* lock->up(): the lock goes to the first that waits for it. *)
LEMMA UnlockStep ==
    ASSUME Inv, NEW t \in Thread, NEW l \in {"writeTest", "readTest"}, NEW m \in {"wrote", "got"},
           Line(t, l, m), lock' = Upped(lock), UNCHANGED <<count, read_sem, write_sem>>
    PROVE  Inv'
<1>1. /\ pc[t] = l /\ pc'[t] = m /\ pc' \in [Thread -> Label]
      /\ \A s \in Thread \ {t} : pc'[s] = pc[s]
      /\ ~BlockedOn(lock, t)
  BY LineFacts DEF Label
<1> USE DEF Inv
<1>2. lock \in SemType(Thread) /\ OnePlace(lock) /\ lock' \in SemType(Thread)
  BY UppedFacts DEF PipeTypeOK, LockOK
<1>3. PipeTypeOK'
  BY <1>1, <1>2 DEF PipeTypeOK
<1>4. Holds(t) /\ lock.value = 0
  BY <1>1 DEF Holds, InWrite, InRead, LockOK
<1>5. CountAt("out")
  BY <1>1, <1>4 DEF CountOK, CountAt
<1>6. CountAt("out")'
  BY <1>5 DEF CountAt
<1>7. CASE lock.blocked = <<>>
  <2>1. lock'.value = 1 /\ lock'.blocked = <<>>
    BY <1>2, <1>4, <1>7, UppedFacts
  <2>2. \A u \in Thread : ~BlockedOn(lock, u)' /\ ~BlockedOn(lock, u)
    BY <1>7, <2>1 DEF BlockedOn
  <2>3. \A u \in Thread : ~Holds(u)'
    BY <1>1, <1>4, <2>2 DEF Holds, InWrite, InRead, LockOK
  <2>4. LockOK'
    BY <2>1, <2>2, <2>3 DEF LockOK, OnePlace
  <2>5. CountOK'
    BY <1>6, <2>3 DEF CountOK
  <2> QED BY <1>3, <2>4, <2>5
<1>8. CASE lock.blocked # <<>>
  <2>1. OnePlace(lock') /\ lock'.value = 0
    BY <1>2, <1>4, <1>8, UppedPasses, UppedFacts
  <2>2. PICK h \in Thread : /\ BlockedOn(lock, h)
                            /\ \A u \in Thread :
                                  BlockedOn(Upped(lock), u) <=> BlockedOn(lock, u) /\ u # h
    BY <1>2, <1>8, UppedPasses
  <2>3. \A u \in Thread : BlockedOn(lock, u)' <=> BlockedOn(lock, u) /\ u # h
    BY <2>2 DEF BlockedOn
  <2>4. h # t /\ pc'[h] \in {"writeTest", "readTest"}
    BY <1>1, <2>2 DEF LockOK
  <2>5. \A u \in Thread : Holds(u)' <=> u = h
    BY <1>1, <1>4, <2>3, <2>4 DEF Holds, InWrite, InRead, LockOK
  <2>6. LockOK'
    BY <1>1, <2>1, <2>3, <2>5 DEF LockOK, OnePlace
  <2>7. CountOK'
    BY <1>6, <2>4, <2>5 DEF CountOK, CountAt
  <2> QED BY <1>3, <2>6, <2>7
<1> QED BY <1>7, <1>8

(* A line of the thread that has the lock, which keeps it. *)
LEMMA HolderStep ==
    ASSUME Inv, NEW t \in Thread,
           NEW l \in {"writeTest", "writeByte", "writeSignal", "readTest", "readByte", "readSignal"},
           NEW m \in {"writeTest", "writeByte", "writeSignal", "readTest", "readByte", "readSignal"},
           Line(t, l, m), UNCHANGED lock, PipeTypeOK', CountAt(l) => CountAt(m)'
    PROVE  Inv'
<1>1. /\ pc[t] = l /\ pc'[t] = m
      /\ \A s \in Thread \ {t} : pc'[s] = pc[s]
      /\ ~BlockedOn(lock, t)
  BY LineFacts DEF Label
<1> USE DEF Inv
<1>2. \A u \in Thread : BlockedOn(lock, u)' <=> BlockedOn(lock, u)
  BY DEF BlockedOn
<1>3. Holds(t) /\ \A u \in Thread : Holds(u) <=> u = t
  BY <1>1 DEF Holds, InWrite, InRead, LockOK
<1>4. \A u \in Thread : Holds(u)' <=> Holds(u)
  BY <1>1, <1>2, <1>3 DEF Holds, InWrite, InRead
<1>5. LockOK'
  BY <1>1, <1>2, <1>4 DEF LockOK, OnePlace
<1>6. CountOK'
  BY <1>1, <1>3, <1>4 DEF CountOK
<1> QED BY <1>5, <1>6

(* What the holder knows of the ring when it is at l. *)
LEMMA HolderCount ==
    ASSUME Inv, NEW t \in Thread,
           NEW l \in {"writeTest", "writeByte", "writeSignal", "readTest", "readByte", "readSignal"},
           NEW m \in Label, Line(t, l, m)
    PROVE  CountAt(l)
BY LineFacts DEF Inv, CountOK, Holds, InWrite, InRead

(* The lines of write() inside the lock. *)
LEMMA WriteStep ==
    ASSUME Inv, NEW t \in Thread, WriteTest(t) \/ WriteByte(t) \/ WriteSignal(t)
    PROVE  Inv'
<1> USE PipeAssumption
<1>1. CASE WriteTest(t)
  <2> USE <1>1 DEF WriteTest
  <2>1. CountAt("writeTest") /\ PipeTypeOK /\ count < MAX_BUFFER_SIZE
    BY HolderCount DEF Label, Inv, WriteMore
  <2>2. write_sem.value > 0
    BY <2>1 DEF CountAt, PipeTypeOK
  <2>3. /\ write_sem' \in [value : Nat, blocked : {<<>>}]
        /\ write_sem'.value = write_sem.value - 1
    BY <2>1, <2>2, SemDowned DEF PipeTypeOK
  <2>4. PipeTypeOK'
    BY <2>1, <2>3, LineFacts DEF PipeTypeOK, ring, asked, Label
  <2>5. CountAt("writeByte")'
    BY <2>1, <2>3 DEF CountAt, PipeTypeOK, ring
  <2> QED BY <2>4, <2>5, HolderStep
<1>2. CASE WriteByte(t)
  <2> USE <1>2 DEF WriteByte
  <2>1. CountAt("writeByte") /\ PipeTypeOK
    BY HolderCount DEF Label, Inv
  <2>2. PipeTypeOK'
    BY <2>1, LineFacts DEF PipeTypeOK, semaphores, Label
  <2>3. CountAt("writeSignal")'
    BY <2>1 DEF CountAt, PipeTypeOK, semaphores
  <2> QED BY <2>2, <2>3, HolderStep DEF semaphores
<1>3. CASE WriteSignal(t)
  <2> USE <1>3 DEF WriteSignal
  <2>1. CountAt("writeSignal") /\ PipeTypeOK
    BY HolderCount DEF Label, Inv
  <2>2. /\ read_sem' \in [value : Nat, blocked : {<<>>}]
        /\ read_sem'.value = read_sem.value + 1
    BY <2>1, SemUpped DEF PipeTypeOK
  <2>3. PipeTypeOK'
    BY <2>1, <2>2, LineFacts DEF PipeTypeOK, ring, Label
  <2>4. CountAt("writeTest")'
    BY <2>1, <2>2 DEF CountAt, PipeTypeOK, ring
  <2> QED BY <2>3, <2>4, HolderStep
<1> QED BY <1>1, <1>2, <1>3

(* The lines of read() inside the lock. *)
LEMMA ReadStep ==
    ASSUME Inv, NEW t \in Thread, ReadTest(t) \/ ReadByte(t) \/ ReadSignal(t)
    PROVE  Inv'
<1> USE PipeAssumption
<1>1. CASE ReadTest(t)
  <2> USE <1>1 DEF ReadTest
  <2>1. CountAt("readTest") /\ PipeTypeOK /\ count > 0
    BY HolderCount DEF Label, Inv, ReadMore
  <2>2. read_sem.value > 0
    BY <2>1 DEF CountAt, PipeTypeOK
  <2>3. /\ read_sem' \in [value : Nat, blocked : {<<>>}]
        /\ read_sem'.value = read_sem.value - 1
    BY <2>1, <2>2, SemDowned DEF PipeTypeOK
  <2>4. PipeTypeOK'
    BY <2>1, <2>3, LineFacts DEF PipeTypeOK, ring, Label
  <2>5. CountAt("readByte")'
    BY <2>1, <2>3 DEF CountAt, PipeTypeOK, ring
  <2> QED BY <2>4, <2>5, HolderStep
<1>2. CASE ReadByte(t)
  <2> USE <1>2 DEF ReadByte
  <2>1. CountAt("readByte") /\ PipeTypeOK
    BY HolderCount DEF Label, Inv
  <2>2. PipeTypeOK'
    BY <2>1, LineFacts DEF PipeTypeOK, CountAt, semaphores, Label
  <2>3. CountAt("readSignal")'
    BY <2>1 DEF CountAt, PipeTypeOK, semaphores
  <2> QED BY <2>2, <2>3, HolderStep DEF semaphores
<1>3. CASE ReadSignal(t)
  <2> USE <1>3 DEF ReadSignal
  <2>1. CountAt("readSignal") /\ PipeTypeOK
    BY HolderCount DEF Label, Inv
  <2>2. /\ write_sem' \in [value : Nat, blocked : {<<>>}]
        /\ write_sem'.value = write_sem.value + 1
    BY <2>1, SemUpped DEF PipeTypeOK
  <2>3. PipeTypeOK'
    BY <2>1, <2>2, LineFacts DEF PipeTypeOK, ring, Label
  <2>4. CountAt("readTest")'
    BY <2>1, <2>2 DEF CountAt, PipeTypeOK, ring
  <2> QED BY <2>3, <2>4, HolderStep
<1> QED BY <1>1, <1>2, <1>3

(* Every line keeps the semaphores in step with `count'. *)
LEMMA InvNext == Inv /\ [Next]_vars => Inv'
<1> SUFFICES ASSUME Inv, [Next]_vars PROVE Inv'
  OBVIOUS
<1>1. CASE UNCHANGED vars
  BY <1>1 DEF vars, ring, semaphores, Inv, PipeTypeOK, LockOK, OnePlace, CountOK, CountAt, Holds,
              InWrite, InRead, BlockedOn
<1>2. ASSUME NEW t \in Thread, WriteCall(t) \/ ReadCall(t) \/ Return(t) PROVE Inv'
  BY <1>2, OutsideStep DEF WriteCall, ReadCall, Return, ring
<1>3. ASSUME NEW t \in Thread, WriteLock(t) \/ ReadLock(t) PROVE Inv'
  BY <1>3, LockStep DEF WriteLock, ReadLock, ring
<1>4. ASSUME NEW t \in Thread, WriteDone(t) \/ ReadDone(t) PROVE Inv'
  BY <1>4, UnlockStep DEF WriteDone, ReadDone, ring
<1> QED BY <1>1, <1>2, <1>3, <1>4, WriteStep, ReadStep DEF Next, Inside

(* down() inside the lock never blocks (Pipe.h:40, Pipe.h:61): the test of *)
(* `count' before it tells of the semaphore too.                           *)
THEOREM NoBlockInside == Spec => []NeverBlocksLocked
<1>1. Inv => NeverBlocksLocked
  BY EmptyBlocksNobody DEF Inv, PipeTypeOK, NeverBlocksLocked
<1> QED BY <1>1, InvInit, InvNext, PTL DEF Spec

-----------------------------------------------------------------------------
(* Sequences *)

(* An item at the end of the second sequence is at the end of both. *)
LEMMA AppendToConcat ==
    ASSUME NEW S, NEW p \in Seq(S), NEW q \in Seq(S), NEW x \in S
    PROVE  p \o Append(q, x) = Append(p \o q, x)
<1>1. <<x>> \in Seq(S) /\ p \o q \in Seq(S)
  BY ConcatProperties
<1>2. Append(p \o q, x) = (p \o q) \o <<x>> /\ Append(q, x) = q \o <<x>>
  BY <1>1, AppendIsConcat
<1> QED BY <1>1, <1>2, ConcatAssociative

(* read() moves the first byte from the ring to what it has got. *)
LEMMA HeadMoves ==
    ASSUME NEW S, NEW a \in Seq(S), NEW b \in Seq(S), b # <<>>
    PROVE  Append(a, Head(b)) \o Tail(b) = a \o b
<1>1. /\ Head(b) \in S /\ Tail(b) \in Seq(S) /\ Len(Tail(b)) = Len(b) - 1
      /\ \A i \in 1 .. Len(Tail(b)) : Tail(b)[i] = b[i + 1]
      /\ Head(b) = b[1] /\ Len(b) \in Nat \ {0} /\ Len(a) \in Nat
  BY HeadTailProperties, EmptySeq
<1> DEFINE h == Append(a, Head(b))
           s == h \o Tail(b)
           u == a \o b
<1>2. /\ h \in Seq(S) /\ Len(h) = Len(a) + 1
      /\ \A i \in 1 .. Len(a) : h[i] = a[i]
      /\ h[Len(a) + 1] = Head(b)
  BY <1>1, AppendProperties
<1> HIDE DEF h
<1>3. /\ s \in Seq(S) /\ Len(s) = Len(h) + Len(Tail(b))
      /\ \A i \in 1 .. Len(h) + Len(Tail(b)) : s[i] =
            IF i <= Len(h) THEN h[i] ELSE Tail(b)[i - Len(h)]
  BY <1>1, <1>2, ConcatProperties
<1>4. /\ u \in Seq(S) /\ Len(u) = Len(a) + Len(b)
      /\ \A i \in 1 .. Len(a) + Len(b) : u[i] = IF i <= Len(a) THEN a[i] ELSE b[i - Len(a)]
  BY ConcatProperties
<1> HIDE DEF s, u
<1>5. Len(s) = Len(u) /\ Len(u) = Len(a) + Len(b)
  BY <1>1, <1>2, <1>3, <1>4
<1>6. ASSUME NEW i \in 1 .. Len(s) PROVE s[i] = u[i]
  <2>1. CASE i <= Len(a)
    BY <1>1, <1>2, <1>3, <1>4, <1>5, <2>1
  <2>2. CASE i = Len(a) + 1
    BY <1>1, <1>2, <1>3, <1>4, <1>5, <2>2
  <2>3. CASE i > Len(a) + 1
    <3>1. i - Len(h) \in 1 .. Len(Tail(b)) /\ (i - Len(h)) + 1 = i - Len(a)
      BY <1>1, <1>2, <1>5, <2>3
    <3> QED BY <1>1, <1>2, <1>3, <1>4, <1>5, <2>3, <3>1
  <2> QED BY <1>1, <1>5, <2>1, <2>2, <2>3
<1> QED BY <1>3, <1>4, <1>5, <1>6, SeqEqual DEF s, u, h

(* write() takes one byte of its data after another. *)
LEMMA PrefixGrows ==
    ASSUME NEW S, NEW s \in Seq(S), NEW k \in 0 .. Len(s) - 1
    PROVE  SubSeq(s, 1, k + 1) = Append(SubSeq(s, 1, k), s[k + 1])
<1>1. Len(s) \in Nat /\ k + 1 \in 1 .. Len(s) /\ 1 \in 1 .. Len(s) /\ k + 1 - 1 = k
  OBVIOUS
<1>2. SubSeq(s, 1, k + 1) = SubSeq(s, 1, k) \o <<s[k + 1]>>
  <2>1. \A m \in 1 .. Len(s) : \A n \in m .. Len(s) :
              SubSeq(s, m, n) = SubSeq(s, m, n - 1) \o <<s[n]>>
    BY SubSeqRecursiveSecond
  <2> QED BY <1>1, <2>1
<1>3. s[k + 1] \in S /\ \A i \in 1 .. k : s[i] \in S
  BY <1>1, ElementOfSeq
<1>4. SubSeq(s, 1, k) \in Seq(S)
  BY <1>1, <1>3, SubSeqProperties
<1> QED BY <1>2, <1>3, <1>4, AppendIsConcat

(* A sequence made of two comes apart again. *)
LEMMA SplitConcat ==
    ASSUME NEW S, NEW a \in Seq(S), NEW b \in Seq(S)
    PROVE  /\ SubSeq(a \o b, 1, Len(a)) = a
           /\ SubSeq(a \o b, Len(a) + 1, Len(a \o b)) = b
<1> DEFINE c == a \o b
           p == SubSeq(c, 1, Len(a))
           q == SubSeq(c, Len(a) + 1, Len(c))
<1>1. /\ c \in Seq(S) /\ Len(c) = Len(a) + Len(b) /\ Len(a) \in Nat /\ Len(b) \in Nat
      /\ \A i \in 1 .. Len(a) + Len(b) : c[i] = IF i <= Len(a) THEN a[i] ELSE b[i - Len(a)]
  BY ConcatProperties
<1> HIDE DEF c
<1>2. \A i \in 1 .. Len(c) : c[i] \in S
  BY <1>1, ElementOfSeq
<1>3. p \in Seq(S) /\ Len(p) = Len(a) /\ \A i \in 1 .. Len(a) : p[i] = c[i]
  <2>1. \A i \in 1 .. Len(a) : c[i] \in S
    BY <1>1, <1>2
  <2> QED BY <1>1, <2>1, SubSeqProperties
<1>4. q \in Seq(S) /\ Len(q) = Len(b) /\ \A i \in 1 .. Len(b) : q[i] = c[Len(a) + 1 + i - 1]
  <2>1. \A i \in Len(a) + 1 .. Len(c) : c[i] \in S
    BY <1>1, <1>2
  <2>2. Len(a) + 1 \in Int /\ Len(c) \in Int /\ Len(c) - (Len(a) + 1) + 1 = Len(b)
    BY <1>1
  <2>3. /\ q \in Seq(S) /\ Len(q) = (IF Len(a) + 1 <= Len(c) THEN Len(c) - (Len(a) + 1) + 1 ELSE 0)
        /\ \A i \in 1 .. Len(c) - (Len(a) + 1) + 1 : q[i] = c[Len(a) + 1 + i - 1]
    BY <2>1, <2>2, SubSeqProperties
  <2> HIDE DEF q
  <2>4. (IF Len(a) + 1 <= Len(c) THEN Len(c) - (Len(a) + 1) + 1 ELSE 0) = Len(b)
    BY <1>1
  <2>5. q \in Seq(S) /\ Len(q) = Len(b)
    BY <2>3, <2>4
  <2> QED BY <2>2, <2>3, <2>5
<1> HIDE DEF p, q
<1>5. p = a
  BY <1>1, <1>3, SeqEqual
<1>6. \A i \in 1 .. Len(b) : q[i] = b[i]
  <2> TAKE i \in 1 .. Len(b)
  <2>1. Len(a) + 1 + i - 1 = Len(a) + i /\ Len(a) + i \in 1 .. Len(a) + Len(b)
        /\ ~(Len(a) + i <= Len(a)) /\ (Len(a) + i) - Len(a) = i
    BY <1>1
  <2> QED BY <1>1, <1>4, <2>1
<1>7. q = b
  BY <1>1, <1>4, <1>6, SeqEqual
<1> QED BY <1>5, <1>7 DEF p, q, c

-----------------------------------------------------------------------------
(* Where the calls stand: what a write() has written is the beginning of   *)
(* its data and the end of the ring's contents, and a call that has not    *)
(* got the lock has moved nothing.                                         *)

WriteLabels == {"writeLock", "writeTest", "writeByte", "writeSignal"}
ReadLabels == {"readLock", "readTest", "readByte", "readSignal"}

RingOK ==
    /\ IsRing(read_index, buffer, MAX_BUFFER_SIZE, Byte)
    /\ count \in 0 .. MAX_BUFFER_SIZE
    /\ write_index = (read_index + count) % MAX_BUFFER_SIZE

Before(t) == SubSeq(Contents, 1, count - Len(moved[t]))

Begun(t) ==
    /\ pc[t] \in WriteLabels =>
          size[t] = Len(data[t]) /\ moved[t] = SubSeq(data[t], 1, Len(moved[t]))
    /\ pc[t] \in WriteLabels \cup ReadLabels => Len(moved[t]) <= size[t]
    /\ pc[t] \in {"writeByte", "readByte"} => Len(moved[t]) < size[t]
    /\ pc[t] \in {"writeLock", "readLock"} \/ BlockedOn(lock, t) => moved[t] = <<>>

Written(t) == Len(moved[t]) <= count /\ Contents = Before(t) \o moved[t]

CallsOK ==
    /\ data \in [Thread -> Seq(Byte)] /\ size \in [Thread -> Nat] /\ moved \in [Thread -> Seq(Byte)]
    /\ \A t \in Thread : Begun(t)
    /\ \A t \in Thread : Holds(t) /\ InWrite(t) => Written(t)

RInv == Inv /\ RingOK /\ CallsOK

(* The contents are the bytes of the ring. *)
LEMMA ContentsIs == Contents = Ring(read_index, count, buffer, MAX_BUFFER_SIZE)
BY DEF Contents, Ring

(* There are `count' of them. *)
LEMMA ContentsTyped ==
    ASSUME RingOK
    PROVE  Contents \in Seq(Byte) /\ Len(Contents) = count /\ count \in Nat
<1>1. count \in 0 .. MAX_BUFFER_SIZE /\ IsRing(read_index, buffer, MAX_BUFFER_SIZE, Byte)
  BY DEF RingOK
<1> QED BY <1>1, ContentsIs, RingTyped

(* The ring is empty at first. *)
LEMMA RInvInit == Init => RInv
<1> SUFFICES ASSUME Init PROVE RInv
  OBVIOUS
<1> USE PipeAssumption DEF Init
<1>1. Inv /\ \A t \in Thread : pc[t] = "out" /\ ~BlockedOn(lock, t)
  BY InvInit, EmptyBlocksNobody DEF Sem
<1>2. RingOK
  BY DEF RingOK, IsRing
<1>3. CallsOK
  BY <1>1 DEF CallsOK, Begun, Holds, InWrite, InRead, WriteLabels, ReadLabels
<1> QED BY <1>1, <1>2, <1>3 DEF RInv

(* A call that has moved nothing finds everything as it was. *)
LEMMA NothingMoved ==
    ASSUME RingOK, NEW t \in Thread, UNCHANGED ring, moved'[t] = <<>>
    PROVE  Before(t)' = Contents /\ Written(t)' /\ moved'[t] \o Contents' = Contents
<1>1. Contents \in Seq(Byte) /\ Len(Contents) = count /\ count \in Nat
  BY ContentsTyped
<1>2. Contents' = Contents /\ count' = count
  BY DEF Contents, ring
<1>3. Len(moved'[t]) = 0 /\ count - 0 = count
  BY <1>1, EmptySeq
<1>4. SubSeq(Contents, 1, count) = Contents
  BY <1>1, SubSeqFull
<1>5. Before(t)' = Contents
  BY <1>2, <1>3, <1>4 DEF Before
<1>6. Contents \o <<>> = Contents /\ <<>> \o Contents = Contents
  BY <1>1, ConcatEmptySeq
<1>7. Written(t)'
  BY <1>1, <1>2, <1>3, <1>5, <1>6 DEF Written
<1> QED BY <1>2, <1>5, <1>6, <1>7

(* What one thread's call is does not change when its own state does not.  *)
LEMMA CallsKept ==
    ASSUME RInv, RingOK', Inv', NEW t \in Thread,
           \A s \in Thread \ {t} : /\ pc'[s] = pc[s] /\ data'[s] = data[s] /\ size'[s] = size[s]
                                   /\ moved'[s] = moved[s]
                                   /\ BlockedOn(lock, s)' => BlockedOn(lock, s),
           data' \in [Thread -> Seq(Byte)], size' \in [Thread -> Nat], moved' \in [Thread -> Seq(Byte)],
           Begun(t)', Holds(t)' /\ InWrite(t)' => Written(t)',
           UNCHANGED ring \/ Holds(t)'
    PROVE  CallsOK'
<1>1. \A s \in Thread \ {t} : Begun(s)'
  BY DEF RInv, CallsOK, Begun
<1>2. ASSUME NEW s \in Thread \ {t}, Holds(s)', InWrite(s)' PROVE Written(s)'
  <2>1. UNCHANGED ring
    BY <1>2 DEF Inv, LockOK
  <2>2. CASE BlockedOn(lock, s)
    <3>1. moved'[s] = <<>>
      BY <2>2 DEF RInv, CallsOK, Begun
    <3> QED BY <2>1, <3>1, NothingMoved DEF RInv
  <2>3. CASE ~BlockedOn(lock, s)
    <3>1. Holds(s) /\ InWrite(s)
      BY <1>2, <2>3 DEF Holds, InWrite, InRead
    <3>2. Written(s)
      BY <3>1 DEF RInv, CallsOK
    <3> QED BY <2>1, <3>2 DEF Written, Before, Contents, ring
  <2> QED BY <2>2, <2>3
<1> QED BY <1>1, <1>2 DEF CallsOK

-----------------------------------------------------------------------------
(* What the steps do to the pipe of PipeSpec.                              *)

By(t) == IF InWrite(t) THEN Before(t) ELSE moved[t] \o Contents

(* What is settled while a thread has the lock ... *)
LEMMA SettledHeld == ASSUME Inv, NEW t \in Thread, Holds(t) PROVE Settled = By(t)
<1>1. \A h \in Thread : Holds(h) <=> h = t
  BY DEF Inv, LockOK
<1>2. (CHOOSE h \in Thread : Holds(h)) = t
  BY <1>1
<1> QED BY <1>2 DEF Settled, By, Before

(* ... and after a step ... *)
LEMMA SettledHeldNext == ASSUME Inv', NEW t \in Thread, Holds(t)' PROVE Settled' = By(t)'
<1>1. \A h \in Thread : Holds(h)' <=> h = t
  BY DEF Inv, LockOK
<1>2. (CHOOSE h \in Thread : Holds(h)') = t
  BY <1>1
<1> QED BY <1>2 DEF Settled, By, Before

(* ... stays if the ring, the lock and what was moved do. *)
LEMMA SettledKept ==
    ASSUME Inv, Inv', UNCHANGED ring, \A s \in Thread : Holds(s)' <=> Holds(s),
           \A s \in Thread : Holds(s) => (InWrite(s)' <=> InWrite(s)) /\ moved'[s] = moved[s]
    PROVE  Settled' = Settled
<1>1. CASE \E t \in Thread : Holds(t)
  <2>1. PICK t \in Thread : Holds(t)
    BY <1>1
  <2>2. Settled = By(t) /\ Settled' = By(t)'
    BY <2>1, SettledHeld, SettledHeldNext
  <2>3. By(t)' = By(t)
    BY <2>1 DEF By, Before, Contents, ring
  <2> QED BY <2>2, <2>3
<1>2. CASE \A t \in Thread : ~Holds(t)
  BY <1>2 DEF Settled, Contents, ring
<1> QED BY <1>1, <1>2

(* A step of one thread changes no other's call. *)
LEMMA OneCall ==
    ASSUME NEW t \in Thread, NEW x, Call(t)' = x,
           \A s \in Thread \ {t} : /\ pc'[s] = pc[s] /\ data'[s] = data[s] /\ size'[s] = size[s]
                                   /\ moved'[s] = moved[s]
    PROVE  /\ Calls' = [Calls EXCEPT ![t] = x]
           /\ x = Call(t) => Calls' = Calls
<1>1. \A s \in Thread \ {t} : Call(s)' = Call(s)
  BY DEF Call, InWrite, InRead
<1> QED BY <1>1 DEF Calls

(* A call begins. *)
LEMMA CallBegins ==
    ASSUME RInv, Inv', NEW t \in Thread, WriteCall(t) \/ ReadCall(t)
    PROVE  RInv' /\ Spec0!Invoke(t)
<1>1. /\ pc[t] = "out" /\ pc'[t] \in {"writeLock", "readLock"} /\ moved'[t] = <<>>
      /\ ~BlockedOn(lock, t)
      /\ \A s \in Thread \ {t} : /\ pc'[s] = pc[s] /\ data'[s] = data[s] /\ size'[s] = size[s]
                                 /\ moved'[s] = moved[s]
      /\ UNCHANGED <<ring, semaphores>>
  BY LineFacts DEF WriteCall, ReadCall, RInv, CallsOK, Label
<1>2. \A s \in Thread : BlockedOn(lock, s)' <=> BlockedOn(lock, s)
  BY <1>1 DEF BlockedOn, semaphores
<1>3. \A s \in Thread : Holds(s)' <=> Holds(s)
  BY <1>1, <1>2 DEF Holds, InWrite, InRead
<1>4. ~Holds(t) /\ ~Holds(t)'
  BY <1>1 DEF Holds, InWrite, InRead
<1>5. Settled' = Settled
  <2>1. \A s \in Thread : Holds(s) => (InWrite(s)' <=> InWrite(s)) /\ moved'[s] = moved[s]
    BY <1>1, <1>4 DEF InWrite
  <2> QED BY <1>1, <1>3, <2>1, SettledKept DEF RInv
<1>6. RingOK'
  BY <1>1 DEF RInv, RingOK, ring
<1>7. Len(moved'[t]) = 0 /\ moved'[t] = SubSeq(data'[t], 1, 0)
  BY <1>1, SubSeqEmpty
<1>8. CASE WriteCall(t)
  <2>1. PICK s \in Text : data' = [data EXCEPT ![t] = s] /\ size' = [size EXCEPT ![t] = Len(s)]
    BY <1>8 DEF WriteCall
  <2>2. s \in Seq(Byte) /\ Len(s) \in Nat /\ t \in Writer /\ pc'[t] = "writeLock"
    BY <1>1, <1>8, PipeAssumption, LineFacts DEF WriteCall, RInv, Label
  <2>3. data'[t] = s /\ size'[t] = Len(s)
    BY <2>1 DEF RInv, CallsOK
  <2>4. Begun(t)'
    BY <1>1, <1>7, <2>2, <2>3 DEF Begun, WriteLabels, ReadLabels
  <2>5. /\ data' \in [Thread -> Seq(Byte)] /\ size' \in [Thread -> Nat]
        /\ moved' \in [Thread -> Seq(Byte)]
    BY <1>8, <2>1, <2>2 DEF WriteCall, RInv, CallsOK
  <2>6. RInv'
    BY <1>1, <1>2, <1>4, <1>6, <2>4, <2>5, CallsKept DEF RInv
  <2>7. Call(t) = Spec0!None /\ Call(t)' = Spec0!Writing(s)
    BY <1>1, <2>2, <2>3 DEF Call, Spec0!None, Spec0!Writing, InWrite, InRead
  <2>8. Calls' = [Calls EXCEPT ![t] = Spec0!Writing(s)] /\ Calls[t] = Spec0!None
    BY <1>1, <2>7, OneCall DEF Calls
  <2> QED BY <1>5, <2>2, <2>6, <2>8 DEF Spec0!Invoke
<1>9. CASE ReadCall(t)
  <2>1. PICK k \in 0 .. MaxSize : size' = [size EXCEPT ![t] = k]
    BY <1>9 DEF ReadCall
  <2>2. k \in Nat /\ t \in Reader /\ pc'[t] = "readLock"
    BY <1>1, <1>9, PipeAssumption, LineFacts DEF ReadCall, RInv, Label
  <2>3. size'[t] = k
    BY <2>1 DEF RInv, CallsOK
  <2>4. Begun(t)'
    BY <1>1, <1>7, <2>2, <2>3 DEF Begun, WriteLabels, ReadLabels
  <2>5. /\ data' \in [Thread -> Seq(Byte)] /\ size' \in [Thread -> Nat]
        /\ moved' \in [Thread -> Seq(Byte)]
    BY <1>9, <2>1, <2>2 DEF ReadCall, RInv, CallsOK
  <2>6. RInv'
    BY <1>1, <1>2, <1>4, <1>6, <2>4, <2>5, CallsKept DEF RInv
  <2>7. Call(t) = Spec0!None /\ Call(t)' = Spec0!Reading(k)
    BY <1>1, <2>2, <2>3 DEF Call, Spec0!None, Spec0!Reading, InWrite, InRead
  <2>8. Calls' = [Calls EXCEPT ![t] = Spec0!Reading(k)] /\ Calls[t] = Spec0!None
    BY <1>1, <2>7, OneCall DEF Calls
  <2> QED BY <1>5, <2>2, <2>6, <2>8 DEF Spec0!Invoke
<1> QED BY <1>8, <1>9

(* A call returns. *)
LEMMA CallReturns ==
    ASSUME RInv, Inv', NEW t \in Thread, Return(t)
    PROVE  RInv' /\ Spec0!Return(t)
<1>1. /\ pc[t] \in {"wrote", "got"} /\ pc'[t] = "out" /\ ~BlockedOn(lock, t)
      /\ \A s \in Thread \ {t} : /\ pc'[s] = pc[s] /\ data'[s] = data[s] /\ size'[s] = size[s]
                                 /\ moved'[s] = moved[s]
      /\ UNCHANGED <<ring, semaphores>>
  BY LineFacts DEF Return, RInv, CallsOK, Label
<1>2. \A s \in Thread : BlockedOn(lock, s)' <=> BlockedOn(lock, s)
  BY <1>1 DEF BlockedOn, semaphores
<1>3. \A s \in Thread : Holds(s)' <=> Holds(s)
  BY <1>1, <1>2 DEF Holds, InWrite, InRead
<1>4. ~Holds(t) /\ ~Holds(t)'
  BY <1>1 DEF Holds, InWrite, InRead
<1>5. Settled' = Settled
  <2>1. \A s \in Thread : Holds(s) => (InWrite(s)' <=> InWrite(s)) /\ moved'[s] = moved[s]
    BY <1>1, <1>4 DEF InWrite
  <2> QED BY <1>1, <1>3, <2>1, SettledKept DEF RInv
<1>6. RingOK'
  BY <1>1 DEF RInv, RingOK, ring
<1>7. Begun(t)'
  BY <1>1, <1>2 DEF Begun, WriteLabels, ReadLabels
<1>8. /\ data' \in [Thread -> Seq(Byte)] /\ size' \in [Thread -> Nat]
      /\ moved' \in [Thread -> Seq(Byte)]
  BY DEF Return, RInv, CallsOK
<1>9. RInv'
  BY <1>1, <1>2, <1>4, <1>6, <1>7, <1>8, CallsKept DEF RInv
<1>10. Call(t).state \in {"wrote", "got"} /\ Call(t)' = Spec0!None
  BY <1>1 DEF Call, Spec0!None, InWrite, InRead
<1>11. Calls' = [Calls EXCEPT ![t] = Spec0!None] /\ Calls[t].state \in {"wrote", "got"}
  BY <1>1, <1>10, OneCall DEF Calls
<1> QED BY <1>5, <1>9, <1>11 DEF Spec0!Return

(* lock->down() *)
LEMMA DownedOthers ==
    ASSUME NEW S, NEW s \in SemType(S), NEW t \in S, NEW u \in S, u # t, OnePlace(s),
          ~BlockedOn(s, t)
    PROVE  BlockedOn(Downed(s, t), u) <=> BlockedOn(s, u)
<1>1. CASE s.value = 0
  BY <1>1, DownedBlocks
<1>2. CASE s.value > 0
  BY <1>2, DownedFacts DEF BlockedOn
<1> QED BY <1>1, <1>2 DEF SemType

(* lock.lock() settles nothing. *)
LEMMA LockSeen ==
    ASSUME RInv, Inv', NEW t \in Thread, WriteLock(t) \/ ReadLock(t)
    PROVE  RInv' /\ Settled' = Settled /\ Calls' = Calls
<1>1. /\ \/ pc[t] = "writeLock" /\ pc'[t] = "writeTest"
         \/ pc[t] = "readLock" /\ pc'[t] = "readTest"
      /\ ~BlockedOn(lock, t) /\ lock' = Downed(lock, t)
      /\ \A s \in Thread \ {t} : pc'[s] = pc[s]
      /\ UNCHANGED <<ring, asked, moved>>
  BY LineFacts DEF WriteLock, ReadLock, RInv, Label
<1>2. \A s \in Thread \ {t} : BlockedOn(lock, s)' <=> BlockedOn(lock, s)
  <2>1. \A s \in Thread \ {t} : BlockedOn(Downed(lock, t), s) <=> BlockedOn(lock, s)
    BY <1>1, DownedOthers DEF RInv, Inv, PipeTypeOK, LockOK
  <2> QED BY <1>1, <2>1 DEF BlockedOn
<1>3. \A s \in Thread \ {t} : Holds(s)' <=> Holds(s)
  BY <1>1, <1>2 DEF Holds, InWrite, InRead
<1>4. ~Holds(t) /\ moved[t] = <<>> /\ moved'[t] = <<>>
  BY <1>1 DEF Holds, InWrite, InRead, RInv, CallsOK, Begun
<1>5. RingOK'
  BY <1>1 DEF RInv, RingOK, ring
<1>6. /\ Before(t)' = Contents /\ Written(t)' /\ moved'[t] \o Contents' = Contents
      /\ Contents' = Contents
  BY <1>1, <1>4, NothingMoved DEF RInv, Contents, ring
<1>7. Begun(t)'
  BY <1>1, <1>4 DEF RInv, CallsOK, Begun, WriteLabels, ReadLabels, asked
<1>8. RInv'
  BY <1>1, <1>2, <1>5, <1>6, <1>7, CallsKept DEF RInv, CallsOK, asked
<1>9. Settled' = Settled
  <2>1. CASE \E u \in Thread : Holds(u)
    <3>1. PICK u \in Thread : Holds(u)
      BY <2>1
    <3>2. u # t /\ Holds(u)'
      BY <1>3, <1>4, <3>1
    <3>3. Settled = By(u) /\ Settled' = By(u)'
      BY <3>1, <3>2, SettledHeld, SettledHeldNext DEF RInv
    <3>4. By(u)' = By(u)
      BY <1>1, <3>2 DEF By, Before, Contents, InWrite, ring
    <3> QED BY <3>3, <3>4
  <2>2. CASE \A u \in Thread : ~Holds(u)
    <3>1. Settled = Contents
      BY <2>2 DEF Settled
    <3>2. CASE Holds(t)'
      <4>1. Settled' = By(t)'
        BY <3>2, SettledHeldNext
      <4> QED BY <1>6, <3>1, <4>1 DEF By
    <3>3. CASE ~Holds(t)'
      <4>1. \A u \in Thread : ~Holds(u)'
        BY <1>3, <2>2, <3>3
      <4>2. Settled' = Contents'
        BY <4>1 DEF Settled
      <4> QED BY <1>6, <3>1, <4>2
    <3> QED BY <3>2, <3>3
  <2> QED BY <2>1, <2>2
<1>10. Calls' = Calls
  <2>1. Call(t)' = Call(t)
    BY <1>1 DEF Call, InWrite, InRead, asked
  <2> QED BY <1>1, <2>1, OneCall DEF asked
<1> QED BY <1>8, <1>9, <1>10

(* A line of the holder that moves no byte. *)
LEMMA LineSeen ==
    ASSUME RInv, Inv', NEW t \in Thread,
           WriteTest(t) \/ WriteSignal(t) \/ ReadTest(t) \/ ReadSignal(t)
    PROVE  RInv' /\ Settled' = Settled /\ Calls' = Calls
<1>1. /\ \/ pc[t] = "writeTest" /\ pc'[t] = "writeByte" /\ WriteMore(t)
         \/ pc[t] = "writeSignal" /\ pc'[t] = "writeTest"
         \/ pc[t] = "readTest" /\ pc'[t] = "readByte" /\ ReadMore(t)
         \/ pc[t] = "readSignal" /\ pc'[t] = "readTest"
      /\ ~BlockedOn(lock, t)
      /\ \A s \in Thread \ {t} : pc'[s] = pc[s]
      /\ UNCHANGED <<ring, asked, moved, lock>>
  BY LineFacts DEF WriteTest, WriteSignal, ReadTest, ReadSignal, RInv, Label
<1>2. \A s \in Thread : BlockedOn(lock, s)' <=> BlockedOn(lock, s)
  BY <1>1 DEF BlockedOn
<1>3. \A s \in Thread : Holds(s)' <=> Holds(s)
  BY <1>1, <1>2 DEF Holds, InWrite, InRead
<1>4. \A s \in Thread : InWrite(s)' <=> InWrite(s)
  BY <1>1 DEF InWrite
<1>5. RingOK'
  BY <1>1 DEF RInv, RingOK, ring
<1>6. Begun(t)'
  BY <1>1, <1>2 DEF RInv, CallsOK, Begun, WriteLabels, ReadLabels, asked, WriteMore, ReadMore
<1>7. Holds(t)' /\ InWrite(t)' => Written(t)'
  BY <1>1, <1>3, <1>4 DEF RInv, CallsOK, Written, Before, Contents, ring
<1>8. RInv'
  BY <1>1, <1>2, <1>5, <1>6, <1>7, CallsKept DEF RInv, CallsOK, asked
<1>9. Settled' = Settled
  BY <1>1, <1>3, <1>4, SettledKept DEF RInv
<1>10. Calls' = Calls
  <2>1. Call(t)' = Call(t)
    BY <1>1 DEF Call, InWrite, InRead, asked
  <2> QED BY <1>1, <2>1, OneCall DEF asked
<1> QED BY <1>8, <1>9, <1>10

(* lock->up(): the call has happened. *)
LEMMA UnlockSettles ==
    ASSUME RInv, Inv', NEW t \in Thread, WriteDone(t) \/ ReadDone(t)
    PROVE  RInv' /\ Settled' = Contents /\ Settled = By(t) /\ (InWrite(t) => Written(t))
<1>1. /\ \/ pc[t] = "writeTest" /\ pc'[t] = "wrote"
         \/ pc[t] = "readTest" /\ pc'[t] = "got"
      /\ ~BlockedOn(lock, t) /\ lock' = Upped(lock)
      /\ \A s \in Thread \ {t} : pc'[s] = pc[s]
      /\ UNCHANGED <<ring, asked, moved>>
  BY LineFacts DEF WriteDone, ReadDone, RInv, Label
<1>2. Holds(t) /\ ~Holds(t)' /\ \A s \in Thread : Holds(s) => s = t
  BY <1>1 DEF Holds, InWrite, InRead, RInv, Inv, LockOK
<1>3. \A s \in Thread : BlockedOn(lock, s)' => BlockedOn(lock, s)
  <2>1. CASE lock.blocked = <<>>
    <3>1. lock'.blocked = <<>>
      BY <1>1, <2>1, UppedFacts DEF RInv, Inv, PipeTypeOK
    <3> QED BY <3>1, EmptyBlocksNobody DEF BlockedOn
  <2>2. CASE lock.blocked # <<>>
    <3>1. \E h \in Thread : \A s \in Thread :
                BlockedOn(Upped(lock), s) <=> BlockedOn(lock, s) /\ s # h
      BY <2>2, UppedPasses DEF RInv, Inv, PipeTypeOK, LockOK
    <3> QED BY <1>1, <3>1 DEF BlockedOn
  <2> QED BY <2>1, <2>2
<1>4. \A s \in Thread : Holds(s)' => s # t /\ BlockedOn(lock, s)
  BY <1>1, <1>2 DEF Holds, InWrite, InRead
<1>5. RingOK' /\ Contents' = Contents
  BY <1>1 DEF RInv, RingOK, Contents, ring
<1>6. Begun(t)'
  BY <1>1, <1>3 DEF RInv, CallsOK, Begun, WriteLabels, ReadLabels, asked
<1>7. RInv'
  BY <1>1, <1>2, <1>3, <1>5, <1>6, CallsKept DEF RInv, CallsOK, asked
<1>8. Settled' = Contents
  <2>1. CASE \E h \in Thread : Holds(h)'
    <3>1. PICK h \in Thread : Holds(h)'
      BY <2>1
    <3>2. moved'[h] = <<>>
      BY <1>1, <1>4, <3>1 DEF RInv, CallsOK, Begun
    <3>3. Before(h)' = Contents /\ moved'[h] \o Contents' = Contents
      BY <1>1, <3>2, NothingMoved DEF RInv
    <3>4. Settled' = By(h)'
      BY <3>1, SettledHeldNext
    <3> QED BY <3>3, <3>4 DEF By
  <2>2. CASE \A h \in Thread : ~Holds(h)'
    <3>1. Settled' = Contents'
      BY <2>2 DEF Settled
    <3> QED BY <1>5, <3>1
  <2> QED BY <2>1, <2>2
<1>9. Settled = By(t) /\ (InWrite(t) => Written(t))
  BY <1>2, SettledHeld DEF RInv, CallsOK
<1> QED BY <1>7, <1>8, <1>9

(* The whole write() is seen when it gives the lock back. *)
LEMMA WriteSeen == ASSUME RInv, Inv', NEW t \in Thread, WriteDone(t) PROVE RInv' /\ Spec0!Write(t)
<1>1. RInv' /\ Settled' = Contents /\ Settled = By(t) /\ (InWrite(t) => Written(t))
  BY UnlockSettles
<1>2. /\ pc[t] = "writeTest" /\ pc'[t] = "wrote" /\ ~WriteMore(t)
      /\ \A s \in Thread \ {t} : pc'[s] = pc[s]
      /\ UNCHANGED <<asked, moved>>
  BY LineFacts DEF WriteDone, RInv, Label
<1> DEFINE d == data[t]
           m == Len(moved[t])
           k == Spec0!Least(Len(d), MAX_BUFFER_SIZE - Len(Settled))
<1>3. /\ d \in Seq(Byte) /\ moved[t] \in Seq(Byte) /\ m \in Nat /\ size[t] = Len(d) /\ m <= Len(d)
      /\ moved[t] = SubSeq(d, 1, m) /\ Len(d) \in Nat
  BY <1>2 DEF RInv, CallsOK, Begun, WriteLabels
<1>4. /\ Settled = Before(t) /\ Contents = Before(t) \o moved[t] /\ m <= count
      /\ count \in 0 .. MAX_BUFFER_SIZE /\ MAX_BUFFER_SIZE \in Nat
  BY <1>1, <1>2, PipeAssumption DEF By, InWrite, Written, RInv, RingOK
<1>5. Len(Settled) = count - m
  <2>1. Contents \in Seq(Byte) /\ Len(Contents) = count /\ count \in Nat
    BY ContentsTyped DEF RInv
  <2>2. \A i \in 1 .. count - m : Contents[i] \in Byte
    BY <1>3, <1>4, <2>1, ElementOfSeq
  <2>3. Len(SubSeq(Contents, 1, count - m)) = IF 1 <= count - m THEN count - m - 1 + 1 ELSE 0
    BY <1>3, <1>4, <2>2, SubSeqProperties
  <2>4. Len(Settled) = Len(SubSeq(Contents, 1, count - m))
    BY <1>4 DEF Before
  <2> HIDE DEF m
  <2>5. (IF 1 <= count - m THEN count - m - 1 + 1 ELSE 0) = count - m
    BY <1>3, <1>4
  <2> QED BY <2>3, <2>4, <2>5
<1>6. k = m
  <2>1. m = Len(d) \/ count = MAX_BUFFER_SIZE
    BY <1>2, <1>3, <1>4 DEF WriteMore
  <2> HIDE DEF m, d
  <2> QED BY <1>3, <1>4, <1>5, <2>1 DEF Spec0!Least
<1>7. Call(t) = Spec0!Writing(d) /\ Call(t)' = Spec0!Wrote(m)
  BY <1>2 DEF Call, Spec0!Writing, Spec0!Wrote, InWrite, InRead, asked
<1>8. Calls' = [Calls EXCEPT ![t] = Spec0!Wrote(m)] /\ Calls[t] = Spec0!Writing(d)
  BY <1>2, <1>7, OneCall DEF Calls, asked
<1>9. Calls[t].state = "writing" /\ Calls[t].bytes = d
  BY <1>8 DEF Spec0!Writing
<1>10. Settled' = Settled \o Spec0!Prefix(d, k)
  BY <1>1, <1>3, <1>4, <1>6 DEF Spec0!Prefix
<1> HIDE DEF m, d
<1> QED BY <1>1, <1>6, <1>8, <1>9, <1>10 DEF Spec0!Write

(* read() happens when it gives the lock back. *)
LEMMA ReadSeen == ASSUME RInv, Inv', NEW t \in Thread, ReadDone(t) PROVE RInv' /\ Spec0!Read(t)
<1>1. RInv' /\ Settled' = Contents /\ Settled = By(t)
  BY UnlockSettles
<1>2. /\ pc[t] = "readTest" /\ pc'[t] = "got" /\ ~ReadMore(t)
      /\ \A s \in Thread \ {t} : pc'[s] = pc[s]
      /\ UNCHANGED <<asked, moved>>
  BY LineFacts DEF ReadDone, RInv, Label
<1> DEFINE a == moved[t]
           m == Len(a)
           k == Spec0!Least(size[t], Len(Settled))
<1>3. a \in Seq(Byte) /\ m \in Nat /\ size[t] \in Nat /\ m <= size[t]
  BY <1>2 DEF RInv, CallsOK, Begun, ReadLabels
<1>4. Settled = a \o Contents
  BY <1>1, <1>2 DEF By, InWrite
<1>5. Contents \in Seq(Byte) /\ Len(Contents) = count /\ count \in Nat
  BY ContentsTyped DEF RInv
<1>6. Len(Settled) = m + count
  BY <1>3, <1>4, <1>5, ConcatProperties
<1>7. k = m
  <2>1. m = size[t] \/ count = 0
    BY <1>2, <1>3, <1>5 DEF ReadMore
  <2> HIDE DEF m
  <2> QED BY <1>3, <1>5, <1>6, <2>1 DEF Spec0!Least
<1>8. SubSeq(Settled, 1, m) = a /\ SubSeq(Settled, m + 1, Len(Settled)) = Contents
  BY <1>3, <1>4, <1>5, SplitConcat
<1>9. Call(t) = Spec0!Reading(size[t]) /\ Call(t)' = Spec0!Got(a)
  BY <1>2 DEF Call, Spec0!Reading, Spec0!Got, InWrite, InRead, asked
<1>10. Calls' = [Calls EXCEPT ![t] = Spec0!Got(a)] /\ Calls[t] = Spec0!Reading(size[t])
  BY <1>2, <1>9, OneCall DEF Calls, asked
<1>11. Calls[t].state = "reading" /\ Calls[t].size = size[t]
  BY <1>10 DEF Spec0!Reading
<1> HIDE DEF m, a
<1> QED BY <1>1, <1>7, <1>8, <1>10, <1>11 DEF Spec0!Read, Spec0!Prefix

(* A byte goes into the ring ... *)
LEMMA ByteWritten ==
    ASSUME RInv, Inv', NEW t \in Thread, WriteByte(t)
    PROVE  RInv' /\ Settled' = Settled /\ Calls' = Calls
<1>1. /\ pc[t] = "writeByte" /\ pc'[t] = "writeSignal" /\ ~BlockedOn(lock, t)
      /\ \A s \in Thread \ {t} : pc'[s] = pc[s]
      /\ UNCHANGED <<read_index, semaphores, asked>>
  BY LineFacts DEF WriteByte, RInv, Label
<1> DEFINE M == MAX_BUFFER_SIZE
           d == data[t]
           a == moved[t]
           m == Len(a)
           b == d[m + 1]
           j == count - m
<1>2. Holds(t) /\ InWrite(t) /\ Holds(t)' /\ InWrite(t)'
  BY <1>1 DEF Holds, InWrite, BlockedOn, semaphores
<1>3. /\ d \in Seq(Byte) /\ a \in Seq(Byte) /\ m \in Nat /\ size[t] = Len(d) /\ m < Len(d)
      /\ a = SubSeq(d, 1, m) /\ Len(d) \in Nat
  BY <1>1 DEF RInv, CallsOK, Begun, WriteLabels
<1>4. b \in Byte
  BY <1>3, ElementOfSeq
<1>5. /\ buffer' = [buffer EXCEPT ![write_index] = b] /\ count' = count + 1
      /\ write_index' = (write_index + 1) % M /\ read_index' = read_index
      /\ moved' = [moved EXCEPT ![t] = Append(a, b)]
  BY <1>1 DEF WriteByte, RInv, CallsOK
<1>6. /\ moved' \in [Thread -> Seq(Byte)] /\ moved'[t] = Append(a, b)
      /\ \A s \in Thread \ {t} : moved'[s] = moved[s]
  <2>1. Append(a, b) \in Seq(Byte)
    BY <1>3, <1>4, AppendProperties
  <2> HIDE DEF a, b
  <2> QED BY <1>5, <2>1 DEF RInv, CallsOK
<1>7. Len(moved'[t]) = m + 1 /\ moved'[t] = SubSeq(d, 1, m + 1)
  <2>1. m \in 0 .. Len(d) - 1
    BY <1>3
  <2>2. Len(Append(a, b)) = m + 1
    BY <1>3, <1>4, AppendProperties
  <2>3. SubSeq(d, 1, m + 1) = Append(SubSeq(d, 1, m), b)
    BY <1>3, <2>1, PrefixGrows
  <2> QED BY <1>3, <1>6, <2>2, <2>3
<1>8. /\ IsRing(read_index, buffer, M, Byte) /\ M \in Nat \ {0} /\ read_index \in 0 .. M - 1
      /\ write_index = (read_index + count) % M /\ count \in 0 .. M - 1
  <2>1. CountAt("writeByte") /\ write_sem.value \in Nat
    BY <1>1, <1>2 DEF RInv, Inv, CountOK, PipeTypeOK
  <2>2. count \in 0 .. M - 1
    BY <2>1, PipeAssumption DEF CountAt, RInv, RingOK
  <2> QED BY <2>2, PipeAssumption DEF RInv, RingOK, IsRing
<1>9. IsRing(read_index, buffer', M, Byte)
  BY <1>4, <1>5, <1>8 DEF IsRing
<1> HIDE DEF M, d, a, m, b
<1>10. m <= count /\ Contents = Before(t) \o a /\ j \in 0 .. count /\ count \in 0 .. count
  BY <1>2, <1>3, <1>8 DEF RInv, CallsOK, Written, m, a
<1>11. Contents' = Append(Contents, b)
  <2>1. Contents' = Ring(read_index, count + 1, buffer', M)
    BY <1>5 DEF Contents, Ring, M
  <2>2. /\ (read_index + count) % M \in 0 .. M - 1
        /\ Ring(read_index, count + 1, buffer', M)
             = Append(Ring(read_index, count, buffer', M), buffer'[(read_index + count) % M])
    <3>1. count \in 0 .. M - 1
      BY <1>8
    <3> QED BY <1>9, <3>1, RingAppends
  <2>3. buffer'[(read_index + count) % M] = b
    BY <1>5, <1>8, <2>2 DEF IsRing
  <2>4. Ring(read_index, count, buffer', M) = Ring(read_index, count, buffer, M)
    <3>1. /\ IsRing(read_index, buffer, M, Byte)
          /\ count \in 0 .. M - 1 /\ count \in 0 .. count
      BY <1>8, <1>10
    <3>2. Ring(read_index, count, [buffer EXCEPT ![(read_index + count) % M] = b], M)
            = Ring(read_index, count, buffer, M)
      BY ONLY <3>1, RingSpares, ZenonT(60)
    <3> QED BY <1>5, <1>8, <3>2
  <2>5. Contents = Ring(read_index, count, buffer, M)
    BY ContentsIs DEF M
  <2> QED BY <2>1, <2>2, <2>3, <2>4, <2>5
<1>12. Before(t)' = Before(t)
  <2>1. Contents' = Ring(read_index, count + 1, buffer', M) /\ count' - Len(moved'[t]) = j
    <3>1. count \in Nat
      BY <1>8
    <3>2. count + 1 - (m + 1) = j
      BY <1>3, <3>1
    <3>3. count' - Len(moved'[t]) = j
      <4>1. count' = count + 1 /\ Len(moved'[t]) = m + 1
        BY <1>5, <1>7
      <4>2. count \in Nat /\ m \in Nat
        BY <1>3, <3>1
      <4> QED BY <4>1, <4>2
    <3>4. Contents' = Ring(read_index, count + 1, buffer', M)
      BY <1>5 DEF Contents, Ring, M
    <3> QED BY <3>3, <3>4
  <2>2. SubSeq(Ring(read_index, count + 1, buffer', M), 1, j) = Ring(read_index, j, buffer', M)
    <3>1. count + 1 \in 0 .. M /\ j \in 0 .. count + 1
      BY <1>8, <1>10
    <3> QED BY <1>9, <3>1, RingPrefix
  <2>3. SubSeq(Ring(read_index, count, buffer, M), 1, j) = Ring(read_index, j, buffer, M)
    <3>1. count \in 0 .. M
      BY <1>8
    <3> QED BY <1>8, <1>10, <3>1, RingPrefix
  <2>4. Ring(read_index, j, buffer', M) = Ring(read_index, j, buffer, M)
    <3>1. /\ IsRing(read_index, buffer, M, Byte)
          /\ count \in 0 .. M - 1 /\ j \in 0 .. count
      BY <1>8, <1>10
    <3>2. Ring(read_index, j, [buffer EXCEPT ![(read_index + count) % M] = b], M)
            = Ring(read_index, j, buffer, M)
      BY ONLY <3>1, RingSpares, ZenonT(60)
    <3> QED BY <1>5, <1>8, <3>2
  <2>5. Contents = Ring(read_index, count, buffer, M)
    BY ContentsIs DEF M
  <2>6. /\ Before(t) = SubSeq(Contents, 1, j)
        /\ Before(t)' = SubSeq(Contents', 1, count' - Len(moved'[t]))
    BY DEF Before, m, a
  <2> QED BY <2>1, <2>2, <2>3, <2>4, <2>5, <2>6
<1>13. Written(t)'
  <2>1. Before(t) \in Seq(Byte)
    <3>1. Contents \in Seq(Byte) /\ Len(Contents) = count /\ count \in Nat
      BY ContentsTyped DEF RInv
    <3>2. \A i \in 1 .. j : Contents[i] \in Byte
      BY <1>3, <1>10, <3>1, ElementOfSeq
    <3>3. SubSeq(Contents, 1, j) \in Seq(Byte)
      BY <1>10, <3>1, <3>2, SubSeqProperties
    <3> QED BY <3>3 DEF Before, m, a
  <2>2. Before(t) \o Append(a, b) = Append(Before(t) \o a, b)
    <3>1. a \in Seq(Byte)
      BY <1>3
    <3> QED BY <1>4, <2>1, <3>1, AppendToConcat
  <2>3. Len(moved'[t]) <= count'
    BY <1>3, <1>5, <1>7, <1>8, <1>10
  <2>4. Contents' = Before(t)' \o moved'[t]
    BY <1>6, <1>10, <1>11, <1>12, <2>2
  <2> QED BY <2>3, <2>4 DEF Written
<1>14. RingOK'
  <2>1. PICK x \in Nat : x = read_index + count /\ x + 1 < M + M
    BY <1>8
  <2>2. ((x % M) + 1) % M = (x + 1) % M
    BY <1>8, <2>1, ModNext
  <2>3. write_index' = (read_index + (count + 1)) % M
    BY <1>5, <1>8, <2>1, <2>2
  <2>4. count + 1 \in 0 .. M
    BY <1>8
  <2> QED BY <1>5, <1>9, <2>3, <2>4 DEF RingOK, M
<1>15. Begun(t)'
  <2>1. data'[t] = d /\ size'[t] = Len(d) /\ ~BlockedOn(lock, t)'
    BY <1>1, <1>3 DEF asked, d, BlockedOn, semaphores
  <2> QED BY <1>1, <1>3, <1>7, <2>1 DEF Begun
<1>16. RInv'
  <2>1. \A s \in Thread \ {t} : BlockedOn(lock, s)' => BlockedOn(lock, s)
    BY <1>1 DEF BlockedOn, semaphores
  <2> QED BY <1>1, <1>2, <1>6, <1>13, <1>14, <1>15, <2>1, CallsKept DEF RInv, CallsOK, asked
<1>17. Settled' = Settled
  <2>1. Settled = By(t) /\ Settled' = By(t)'
    BY <1>2, SettledHeld, SettledHeldNext DEF RInv
  <2> QED BY <1>2, <1>12, <2>1 DEF By
<1>18. Calls' = Calls
  <2>1. Call(t)' = Call(t)
    BY <1>1 DEF Call, InWrite, InRead, asked
  <2> QED BY <1>1, <1>6, <2>1, OneCall DEF asked
<1> QED BY <1>16, <1>17, <1>18

(* ... and the oldest comes out. *)
LEMMA ByteRead ==
    ASSUME RInv, Inv', NEW t \in Thread, ReadByte(t)
    PROVE  RInv' /\ Settled' = Settled /\ Calls' = Calls
<1>1. /\ pc[t] = "readByte" /\ pc'[t] = "readSignal" /\ ~BlockedOn(lock, t)
      /\ \A s \in Thread \ {t} : pc'[s] = pc[s]
      /\ UNCHANGED <<buffer, write_index, semaphores, asked>>
  BY LineFacts DEF ReadByte, RInv, Label
<1> DEFINE M == MAX_BUFFER_SIZE
           a == moved[t]
           m == Len(a)
           b == buffer[read_index]
<1>2. Holds(t) /\ ~InWrite(t) /\ Holds(t)' /\ ~InWrite(t)'
  BY <1>1 DEF Holds, InWrite, InRead, BlockedOn, semaphores
<1>3. a \in Seq(Byte) /\ m \in Nat /\ size[t] \in Nat /\ m < size[t]
  BY <1>1 DEF RInv, CallsOK, Begun
<1>4. /\ IsRing(read_index, buffer, M, Byte) /\ M \in Nat \ {0} /\ read_index \in 0 .. M - 1
      /\ write_index = (read_index + count) % M /\ count \in 1 .. M /\ b \in Byte
  <2>1. CountAt("readByte") /\ read_sem.value \in Nat
    BY <1>1, <1>2 DEF RInv, Inv, CountOK, PipeTypeOK
  <2>2. count \in 1 .. M
    BY <2>1, PipeAssumption DEF CountAt, RInv, RingOK
  <2> QED BY <2>2, PipeAssumption DEF RInv, RingOK, IsRing
<1>5. /\ count' = count - 1 /\ read_index' = (read_index + 1) % M
      /\ moved' = [moved EXCEPT ![t] = Append(a, b)]
  BY <1>1 DEF ReadByte, RInv, CallsOK
<1>6. /\ moved' \in [Thread -> Seq(Byte)] /\ moved'[t] = Append(a, b) /\ Len(moved'[t]) = m + 1
      /\ \A s \in Thread \ {t} : moved'[s] = moved[s]
  <2>1. Append(a, b) \in Seq(Byte) /\ Len(Append(a, b)) = m + 1
    BY <1>3, <1>4, AppendProperties
  <2> HIDE DEF a, b, m
  <2> QED BY <1>5, <2>1 DEF RInv, CallsOK
<1> HIDE DEF M, a, m, b
<1>7. Contents \in Seq(Byte) /\ Contents # <<>> /\ Head(Contents) = b /\ Contents' = Tail(Contents)
      /\ (read_index + 1) % M \in 0 .. M - 1
  <2>1. Contents = Ring(read_index, count, buffer, M) /\ Contents \in Seq(Byte)
    BY ContentsIs, ContentsTyped DEF M, RInv
  <2>2. Contents' = Ring((read_index + 1) % M, count - 1, buffer, M)
    BY <1>1, <1>5 DEF Contents, Ring, M
  <2>3. /\ (read_index + 1) % M \in 0 .. M - 1
        /\ Ring(read_index, count, buffer, M) # <<>>
        /\ Head(Ring(read_index, count, buffer, M)) = buffer[read_index]
        /\ Ring((read_index + 1) % M, count - 1, buffer, M) = Tail(Ring(read_index, count, buffer, M))
    BY <1>4, RingTail, SMTT(40)
  <2> QED BY <2>1, <2>2, <2>3 DEF b
<1>8. moved'[t] \o Contents' = a \o Contents
  BY <1>3, <1>6, <1>7, HeadMoves
<1>9. RingOK'
  <2>1. (((read_index + 1) % M) + (count - 1)) % M = (read_index + count) % M
    BY <1>4, ModSkip
  <2>2. count - 1 \in 0 .. M
    BY <1>4
  <2>3. IsRing((read_index + 1) % M, buffer, M, Byte)
    BY <1>4, <1>7 DEF IsRing
  <2> QED BY <1>1, <1>4, <1>5, <2>1, <2>2, <2>3 DEF RingOK, M
<1>10. Begun(t)'
  <2>1. size'[t] = size[t] /\ ~BlockedOn(lock, t)'
    BY <1>1 DEF asked, BlockedOn, semaphores
  <2> QED BY <1>1, <1>3, <1>6, <2>1 DEF Begun, WriteLabels
<1>11. RInv'
  <2>1. \A s \in Thread \ {t} : BlockedOn(lock, s)' => BlockedOn(lock, s)
    BY <1>1 DEF BlockedOn, semaphores
  <2> QED BY <1>1, <1>2, <1>6, <1>9, <1>10, <2>1, CallsKept DEF RInv, CallsOK, asked
<1>12. Settled' = Settled
  <2>1. Settled = By(t) /\ Settled' = By(t)'
    BY <1>2, SettledHeld, SettledHeldNext DEF RInv
  <2> QED BY <1>2, <1>8, <2>1 DEF By, a
<1>13. Calls' = Calls
  <2>1. Call(t)' = Call(t)
    BY <1>1 DEF Call, InWrite, InRead, asked
  <2> QED BY <1>1, <1>6, <2>1, OneCall DEF asked
<1> QED BY <1>11, <1>12, <1>13

(* Every line preserves the invariant, and is a step of the pipe or none. *)
LEMMA RInvNext ==
    ASSUME RInv, [Next]_vars
    PROVE  RInv' /\ [Spec0!Next]_<<Settled, Calls>>
<1>1. Inv'
  BY InvNext DEF RInv
<1>2. CASE UNCHANGED vars
  <2>1. RInv'
    BY <1>1, <1>2 DEF RInv, RingOK, CallsOK, Begun, Written, Before, Contents, Holds, InWrite,
        InRead,
                      BlockedOn, vars, ring, semaphores, asked
  <2>2. Settled' = Settled /\ Calls' = Calls
    BY <1>2 DEF Settled, Calls, Call, Contents, Holds, InWrite, InRead, BlockedOn, vars, ring,
                semaphores, asked
  <2> QED BY <2>1, <2>2
<1>3. ASSUME NEW t \in Thread,
            WriteCall(t) \/ ReadCall(t) \/ Return(t) \/ WriteDone(t) \/ ReadDone(t)
      PROVE  RInv' /\ Spec0!Next
  <2>1. RInv' /\ (Spec0!Invoke(t) \/ Spec0!Write(t) \/ Spec0!Read(t) \/ Spec0!Return(t))
    BY <1>1, <1>3, CallBegins, CallReturns, WriteSeen, ReadSeen
  <2>2. t \in Spec0!Thread
    BY DEF Spec0!Thread, Thread
  <2> QED BY <2>1, <2>2 DEF Spec0!Next
<1>4. ASSUME NEW t \in Thread,
             \/ WriteLock(t) \/ WriteTest(t) \/ WriteByte(t) \/ WriteSignal(t)
             \/ ReadLock(t) \/ ReadTest(t) \/ ReadByte(t) \/ ReadSignal(t)
      PROVE  RInv' /\ UNCHANGED <<Settled, Calls>>
  BY <1>1, <1>4, LockSeen, LineSeen, ByteWritten, ByteRead
<1> QED BY <1>2, <1>3, <1>4 DEF Next, Inside

(* Every call of write() and read() (Pipe.h:36, Pipe.h:56) happens at one  *)
(* instant, when it gives the lock back: however the lines of several      *)
(* threads interleave, the ring implements the pipe of PipeSpec.           *)
THEOREM CallsAtOnce == Spec => ImplementsPipe
<1>1. Init => Spec0!Init
  <2> SUFFICES ASSUME Init PROVE Spec0!Init
    OBVIOUS
  <2>1. \A t \in Thread : ~Holds(t) /\ Call(t) = Spec0!None
    BY DEF Init, Holds, InWrite, InRead, Call, Spec0!None
  <2>2. Contents \in Seq(Byte) /\ Len(Contents) = 0
    BY RInvInit, ContentsTyped DEF RInv, Init
  <2>3. Settled = <<>>
    BY <2>1, <2>2 DEF Settled
  <2>4. Calls = [t \in Spec0!Thread |-> Spec0!None]
    BY <2>1 DEF Calls, Spec0!Thread, Thread
  <2> QED BY <2>3, <2>4 DEF Spec0!Init
<1>2. RInv /\ [Next]_vars => RInv' /\ [Spec0!Next]_<<Settled, Calls>>
  BY RInvNext
<1> QED BY <1>1, <1>2, RInvInit, PTL DEF Spec, ImplementsPipe, Spec0!Spec

-----------------------------------------------------------------------------
(* Files: arithmetic of offsets and blocks *)

LEMMA DivFacts ==
    ASSUME NEW a \in Nat, NEW b \in Nat \ {0}
    PROVE  /\ a \div b \in Nat /\ a % b \in Nat /\ a % b < b
           /\ a = (a \div b) * b + (a % b)
  OBVIOUS

LEMMA ProductsApart ==
    ASSUME NEW b \in Nat \ {0}, NEW p \in Int, NEW q \in Int, p < q
    PROVE  p * b + b <= q * b
<1> DEFINE d == q - p - 1
<1>1. d \in Nat /\ q = p + 1 + d
  OBVIOUS
<1>2. d * b \in Nat
  BY <1>1
<1>3. q * b = p * b + b + d * b
  BY <1>1
<1> QED BY <1>2, <1>3

LEMMA DivUnique ==
    ASSUME NEW b \in Nat \ {0}, NEW q \in Nat, NEW r \in 0 .. b - 1
    PROVE  (q * b + r) \div b = q /\ (q * b + r) % b = r
<1> DEFINE a == q * b + r
           p == a \div b
           s == a % b
<1>0. q * b \in Nat /\ a \in Nat
  OBVIOUS
<1>1. p \in Nat /\ s \in Nat /\ s < b /\ a = p * b + s
  BY <1>0, DivFacts
<1> HIDE DEF p, s
<1>2. ~(p < q)
  <2> SUFFICES ASSUME p < q PROVE FALSE
    OBVIOUS
  <2>1. p * b + b <= q * b /\ p * b \in Nat
    BY <1>1, ProductsApart
  <2> QED BY <2>1, <1>0, <1>1
<1>3. ~(q < p)
  <2> SUFFICES ASSUME q < p PROVE FALSE
    OBVIOUS
  <2>1. q * b + b <= p * b /\ p * b \in Nat
    BY <1>1, ProductsApart
  <2> QED BY <2>1, <1>0, <1>1
<1>4. p = q
  BY <1>1, <1>2, <1>3
<1>5. s = r
  BY <1>0, <1>1, <1>4
<1> QED BY <1>4, <1>5 DEF p, s

LEMMA LeastNat == ASSUME NEW S, S \subseteq Nat, S # {}
                  PROVE \E n \in S : \A m \in S : n <= m
<1> DEFINE T == {0 .. n : n \in S}
<1>1. T \subseteq FiniteSubsetsOf(Nat) /\ T # {}
  <2>1. \A n \in S : IsFiniteSet(0 .. n) /\ 0 .. n \in SUBSET Nat
    BY FS_Interval
  <2>2. \A x \in T : x \in FiniteSubsetsOf(Nat)
    BY <2>1 DEF FiniteSubsetsOf
  <2> QED BY <2>2
<1>2. PICK x \in T : \A y \in T : ~ (<<y, x>> \in StrictSubsetOrdering(Nat))
  BY <1>1, FS_StrictSubsetOrderingWellFounded, WFMin
<1>3. PICK n \in S : x = 0 .. n
  BY <1>2
<1>4. ASSUME NEW m \in S, m < n PROVE FALSE
  <2>1. 0 .. m \in T
    OBVIOUS
  <2>2. 0 .. m \subseteq 0 .. n /\ 0 .. m # 0 .. n
    BY <1>3, <1>4
  <2>3. 0 .. m \in SUBSET Nat /\ 0 .. n \in SUBSET Nat
    BY <1>3, <1>4
  <2>4. <<0 .. m, 0 .. n>> \in StrictSubsetOrdering(Nat)
    BY <2>2, <2>3 DEF StrictSubsetOrdering
  <2> QED BY <1>2, <1>3, <2>1, <2>4
<1> QED BY <1>4

-----------------------------------------------------------------------------
(* What read_all() returns. *)

(* The byte at x, by the block that it is in. *)
ByteAt(io, x) == io.block[x \div io.block_size][(x % io.block_size) + 1]
Bytes(io, start, n) == [j \in 1 .. n |-> ByteAt(io, start + j - 1)]

(* An object with all the blocks that there are bytes of from start on. *)
Whole(io, S, start, n) ==
    /\ io.block_size \in Nat \ {0} /\ io.size \in Nat /\ start + n <= io.size
    /\ \A x \in start .. start + n - 1 :
          /\ io.block[x \div io.block_size] \in Seq(S)
          /\ Len(io.block[x \div io.block_size]) = io.block_size

LEMMA SubSeqValue ==
    ASSUME NEW S, NEW s \in Seq(S), NEW r \in Nat, NEW k \in Nat, r + k <= Len(s)
    PROVE  /\ SubSeq(s, r + 1, r + k) \in Seq(S) /\ Len(SubSeq(s, r + 1, r + k)) = k
           /\ \A i \in 1 .. k : SubSeq(s, r + 1, r + k)[i] = s[r + i]
           /\ SubSeq(s, r + 1, r + k) = [i \in 1 .. k |-> s[r + i]]
<1>1. SubSeq(s, r + 1, r + k) \in Seq(S) /\ Len(SubSeq(s, r + 1, r + k)) = k
  OBVIOUS
<1>2. \A i \in 1 .. k : SubSeq(s, r + 1, r + k)[i] = s[r + i]
  OBVIOUS
<1> QED BY <1>1, <1>2

(* One turn of the loop. *)
LEMMA PieceOfBytes ==
    ASSUME NEW io, NEW S, NEW start \in Nat, NEW n \in Nat \ {0}, Whole(io, S, start, n),
           NEW k, k = PieceSize(io.size, io.block_size, start, n)
    PROVE  /\ k \in 1 .. n
           /\ Piece(io.block[start \div io.block_size], io.block_size, start, k) = Bytes(io, start, k)
           /\ Bytes(io, start, k) \in Seq(S)
<1> DEFINE b == io.block_size
           q == start \div b
           r == start % b
<1>1. b \in Nat \ {0} /\ io.size \in Nat /\ start + n <= io.size
  BY DEF Whole
<1>2. q \in Nat /\ r \in Nat /\ r < b /\ start = q * b + r /\ q * b \in Nat
  <2> HIDE DEF b
  <2>1. q \in Nat /\ r \in Nat /\ r < b /\ start = q * b + r
    BY <1>1, DivFacts
  <2> HIDE DEF q, r
  <2> QED BY <1>1, <2>1
<1>3. io.block[q] \in Seq(S) /\ Len(io.block[q]) = b
  <2>1. start \in start .. start + n - 1
    OBVIOUS
  <2> QED BY <2>1 DEF Whole
<1>4. k \in 1 .. n /\ r + k <= b
  <2> HIDE DEF q
  <2>1. k = Least(b - r, Least(n, io.size - start))
    BY DEF PieceSize
  <2> HIDE DEF b, r
  <2> QED BY <1>1, <1>2, <2>1 DEF Least
<1>5. Piece(io.block[q], b, start, k) = [i \in 1 .. k |-> io.block[q][r + i]]
  <2>1. Piece(io.block[q], b, start, k) = SubSeq(io.block[q], r + 1, r + k)
    BY DEF Piece
  <2> HIDE DEF b, q, r
  <2>2. r \in Nat /\ k \in Nat /\ r + k <= Len(io.block[q])
    BY <1>2, <1>3, <1>4
  <2>3. SubSeq(io.block[q], r + 1, r + k) = [i \in 1 .. k |-> io.block[q][r + i]]
    BY <1>3, <2>2, SubSeqValue
  <2> QED BY <2>1, <2>3
<1>6. ASSUME NEW i \in 1 .. k PROVE ByteAt(io, start + i - 1) = io.block[q][r + i]
  <2> HIDE DEF b, q, r
  <2>1. r + i - 1 \in 0 .. b - 1 /\ start + i - 1 = q * b + (r + i - 1) /\ i \in Int
    BY <1>1, <1>2, <1>4
  <2>2. (start + i - 1) \div b = q /\ (start + i - 1) % b = r + i - 1
    <3> DEFINE x == r + i - 1
    <3>1. x \in 0 .. b - 1 /\ start + i - 1 = q * b + x
      BY <2>1
    <3> HIDE DEF x
    <3>2. (q * b + x) \div b = q /\ (q * b + x) % b = x
      BY <1>1, <1>2, <3>1, DivUnique
    <3> QED BY <3>1, <3>2 DEF x
  <2>3. (r + i - 1) + 1 = r + i
    BY <1>2
  <2> QED BY <2>2, <2>3 DEF ByteAt, b
<1>7. \A i \in 1 .. k : io.block[q][r + i] \in S
  <2> HIDE DEF b, q, r
  <2>1. \A i \in 1 .. k : r + i \in 1 .. Len(io.block[q])
    BY <1>1, <1>2, <1>3, <1>4
  <2> QED BY <1>3, <2>1
<1> HIDE DEF b, q, r
<1>8. Bytes(io, start, k) = [i \in 1 .. k |-> io.block[q][r + i]]
  BY <1>6 DEF Bytes
<1>9. Bytes(io, start, k) \in Seq(S)
  BY <1>4, <1>7, <1>8
<1> QED BY <1>4, <1>5, <1>8, <1>9 DEF b, q

LEMMA Tabulated ==
    ASSUME NEW S, NEW n \in Nat, NEW s \in [1 .. n -> S]
    PROVE  s \in Seq(S) /\ Len(s) = n
OBVIOUS

LEMMA Joined ==
    ASSUME NEW S, NEW A \in Seq(S), NEW B \in Seq(S), NEW C \in Seq(S),
           Len(C) = Len(A) + Len(B),
           \A j \in 1 .. Len(A) : A[j] = C[j], \A i \in 1 .. Len(B) : B[i] = C[Len(A) + i]
    PROVE  A \o B = C
<1> DEFINE k == Len(A)
           z == Len(B)
<1>0. /\ k \in Nat /\ z \in Nat /\ Len(A) = k /\ Len(B) = z /\ Len(C) = k + z
      /\ \A j \in 1 .. k : A[j] = C[j]
      /\ \A i \in 1 .. z : B[i] = C[k + i]
  OBVIOUS
<1> HIDE DEF k, z
<1>1. A \o B = [j \in 1 .. k + z |-> IF j <= k THEN A[j] ELSE B[j - k]]
  <2>1. Len(A \o B) = k + z /\ A \o B \in Seq(S)
    BY <1>0, ConcatProperties
  <2>2. A \o B = [j \in 1 .. k + z |-> (A \o B)[j]]
    BY <2>1, LenProperties
  <2>3. ASSUME NEW j \in 1 .. k + z PROVE (A \o B)[j] = IF j <= k THEN A[j] ELSE B[j - k]
    <3>1. j \in 1 .. Len(A) + Len(B) /\ k = Len(A)
      BY <1>0
    <3>2. (A \o B)[j] = IF j <= Len(A) THEN A[j] ELSE B[j - Len(A)]
      BY <3>1, ConcatProperties
    <3> QED BY <3>1, <3>2
  <2> QED BY <2>2, <2>3
<1>2. ASSUME NEW j \in 1 .. k + z PROVE (IF j <= k THEN A[j] ELSE B[j - k]) = C[j]
  <2>1. CASE j <= k
    BY <1>0, <2>1
  <2>2. CASE ~(j <= k)
    <3>1. j - k \in 1 .. z /\ k + (j - k) = j
      BY <1>0, <2>2
    <3> QED BY <1>0, <2>2, <3>1
  <2> QED BY <2>1, <2>2
<1>3. C = [j \in 1 .. k + z |-> C[j]]
  BY <1>0, LenProperties
<1> QED BY <1>1, <1>2, <1>3

(* ... and all of them. *)
LEMMA BytesJoin ==
    ASSUME NEW io, NEW S, NEW start \in Nat, NEW n \in Nat, NEW k \in 0 .. n,
           Bytes(io, start, k) \in Seq(S), Bytes(io, start + k, n - k) \in Seq(S)
    PROVE  Bytes(io, start, k) \o Bytes(io, start + k, n - k) = Bytes(io, start, n)
<1> DEFINE A == Bytes(io, start, k)
           B == Bytes(io, start + k, n - k)
           C == Bytes(io, start, n)
<1>1. /\ A = [j \in 1 .. k |-> ByteAt(io, start + j - 1)]
      /\ B = [j \in 1 .. n - k |-> ByteAt(io, start + k + j - 1)]
      /\ C = [j \in 1 .. n |-> ByteAt(io, start + j - 1)]
  BY DEF Bytes
<1> HIDE DEF A, B, C
<1>2. A \in Seq(S) /\ B \in Seq(S) /\ Len(A) = k /\ Len(B) = n - k
  <2>1. A \in Seq(S) /\ B \in Seq(S)
    BY DEF A, B
  <2>2. k \in Nat /\ n - k \in Nat
    OBVIOUS
  <2> QED BY <1>1, <2>1, <2>2
<1>3. A \o B = [j \in 1 .. n |-> IF j <= k THEN A[j] ELSE B[j - k]]
  <2>1. Len(A \o B) = Len(A) + Len(B) /\ A \o B \in Seq(S)
    BY <1>2, ConcatProperties
  <2>2. Len(A \o B) = n
    BY <1>2, <2>1
  <2>3. A \o B = [j \in 1 .. n |-> (A \o B)[j]]
    BY <2>1, <2>2, LenProperties
  <2>4. ASSUME NEW j \in 1 .. n PROVE (A \o B)[j] = IF j <= k THEN A[j] ELSE B[j - k]
    BY <1>2
  <2> QED BY <2>3, <2>4
<1>4. ASSUME NEW j \in 1 .. n
      PROVE  (IF j <= k THEN A[j] ELSE B[j - k]) = ByteAt(io, start + j - 1)
  <2>1. CASE j <= k
    BY <2>1, <1>1
  <2>2. CASE ~(j <= k)
    <3>1. j - k \in 1 .. n - k /\ start + k + (j - k) - 1 = start + j - 1
      BY <2>2
    <3> QED BY <1>1, <2>2, <3>1
  <2> QED BY <2>1, <2>2
<1>5. A \o B = C
  BY <1>1, <1>3, <1>4
<1> QED BY <1>5 DEF A, B, C

(* The recursive function of ReadAll(), and one turn of it. *)
Turn(io, start, total, f, n) ==
    LET offset == start + total - n
        k == PieceSize(io.size, io.block_size, offset, n)
    IN  IF n = 0 \/ offset >= io.size THEN <<>>
        ELSE Piece(io.block[offset \div io.block_size], io.block_size, offset, k) \o f[n - k]

Reads(io, start, total, f) == f = [n \in 0 .. total |-> Turn(io, start, total, f, n)]

(* It takes the bytes that are left from those that are left after it. *)
LEMMA TurnOfBytes ==
    ASSUME NEW io, NEW S, NEW start \in Nat, NEW total \in Nat, Whole(io, S, start, total),
           NEW f, NEW n \in 0 .. total,
           \A m \in 0 .. n - 1 : f[m] = Bytes(io, start + total - m, m) /\ f[m] \in Seq(S)
    PROVE  /\ Turn(io, start, total, f, n) = Bytes(io, start + total - n, n)
           /\ Bytes(io, start + total - n, n) \in Seq(S)
<1> DEFINE offset == start + total - n
           k == PieceSize(io.size, io.block_size, offset, n)
<1>1. CASE n = 0
  <2>1. Bytes(io, offset, n) = <<>>
    BY <1>1 DEF Bytes
  <2>2. Turn(io, start, total, f, n) = <<>>
    BY <1>1 DEF Turn
  <2>3. <<>> \in Seq(S)
    OBVIOUS
  <2> QED BY <2>1, <2>2, <2>3
<1>2. CASE n # 0
  <2>1. offset \in Nat /\ n \in Nat \ {0} /\ ~(offset >= io.size) /\ Whole(io, S, offset, n)
    BY <1>2 DEF Whole
  <2> HIDE DEF k
  <2>2. /\ k \in 1 .. n
        /\ Piece(io.block[offset \div io.block_size], io.block_size, offset, k) = Bytes(io, offset, k)
        /\ Bytes(io, offset, k) \in Seq(S)
    <3> HIDE DEF offset
    <3> QED BY <2>1, PieceOfBytes DEF k
  <2>3. n - k \in 0 .. n - 1 /\ start + total - (n - k) = offset + k
    BY <2>2
  <2>4. f[n - k] = Bytes(io, offset + k, n - k) /\ f[n - k] \in Seq(S)
    BY <2>3
  <2> HIDE DEF offset
  <2>5. Bytes(io, offset, k) \o f[n - k] = Bytes(io, offset, n)
    <3>1. n \in Nat /\ k \in 0 .. n /\ Bytes(io, offset + k, n - k) \in Seq(S)
      BY <2>1, <2>2, <2>4
    <3>2. Bytes(io, offset, k) \o Bytes(io, offset + k, n - k) = Bytes(io, offset, n)
      BY <2>1, <2>2, <3>1, BytesJoin
    <3> QED BY <2>4, <3>2
  <2>6. Turn(io, start, total, f, n) = Bytes(io, offset, k) \o f[n - k]
    BY <1>2, <2>1, <2>2 DEF Turn, offset, k
  <2>7. Bytes(io, offset, n) \in Seq(S)
    BY <2>2, <2>4, <2>5, ConcatProperties
  <2> QED BY <2>5, <2>6, <2>7 DEF offset
<1> QED BY <1>1, <1>2

(* So there is such a function ... *)
LEMMA BytesRead ==
    ASSUME NEW io, NEW S, NEW start \in Nat, NEW total \in Nat, Whole(io, S, start, total)
    PROVE  Reads(io, start, total, [n \in 0 .. total |-> Bytes(io, start + total - n, n)])
<1> DEFINE g == [n \in 0 .. total |-> Bytes(io, start + total - n, n)]
<1>1. ASSUME NEW n \in 0 .. total PROVE Bytes(io, start + total - n, n) \in Seq(S)
  <2>1. n \in Nat /\ start + total - n \in Nat /\ Whole(io, S, start + total - n, n)
    BY DEF Whole
  <2>2. \A x \in start + total - n .. start + total - 1 : ByteAt(io, x) \in S
    <3> SUFFICES ASSUME NEW x \in start + total - n .. start + total - 1 PROVE ByteAt(io, x) \in S
      OBVIOUS
    <3> DEFINE q == x \div io.block_size
               r == x % io.block_size
    <3>1. io.block_size \in Nat \ {0} /\ io.block[q] \in Seq(S) /\ Len(io.block[q]) = io.block_size
      BY DEF Whole
    <3>2. r \in Nat /\ r < io.block_size
      <4>1. x \in Nat
        OBVIOUS
      <4> QED BY <3>1, <4>1, DivFacts
    <3> HIDE DEF q, r
    <3>3. r + 1 \in 1 .. Len(io.block[q])
      BY <3>1, <3>2
    <3>4. io.block[q][r + 1] \in S
      BY <3>1, <3>3
    <3> QED BY <3>4 DEF ByteAt, q, r
  <2>3. \A j \in 1 .. n : ByteAt(io, start + total - n + j - 1) \in S
    BY <2>1, <2>2
  <2> QED BY <2>1, <2>3 DEF Bytes
<1>2. ASSUME NEW n \in 0 .. total PROVE g[n] = Turn(io, start, total, g, n)
  <2>1. \A m \in 0 .. n - 1 : g[m] = Bytes(io, start + total - m, m) /\ g[m] \in Seq(S)
    BY <1>1
  <2>2. g[n] = Bytes(io, start + total - n, n)
    OBVIOUS
  <2> HIDE DEF g
  <2>3. /\ Turn(io, start, total, g, n) = Bytes(io, start + total - n, n)
        /\ Bytes(io, start + total - n, n) \in Seq(S)
    BY <2>1, TurnOfBytes
  <2> QED BY <2>2, <2>3
<1>3. [n \in 0 .. total |-> g[n]] = [n \in 0 .. total |-> Turn(io, start, total, g, n)]
  <2> HIDE DEF g
  <2> QED BY <1>2
<1>4. g = [n \in 0 .. total |-> g[n]]
  OBVIOUS
<1> HIDE DEF g
<1>5. Reads(io, start, total, g)
  BY <1>3, <1>4 DEF Reads
<1> QED BY <1>5 DEF g

(* ... and no other. *)
LEMMA ReadsBytes ==
    ASSUME NEW io, NEW S, NEW start \in Nat, NEW total \in Nat, Whole(io, S, start, total),
           NEW f, Reads(io, start, total, f)
    PROVE  f[total] = Bytes(io, start, total) /\ f[total] \in Seq(S)
<1> DEFINE Right(n) == f[n] = Bytes(io, start + total - n, n) /\ f[n] \in Seq(S)
           Bad == {n \in 0 .. total : ~Right(n)}
<1>1. CASE Bad = {}
  <2>1. Right(total)
    BY <1>1
  <2>2. start + total - total = start
    OBVIOUS
  <2> QED BY <2>1, <2>2
<1>2. CASE Bad # {}
  <2>1. PICK n \in Bad : \A m \in Bad : n <= m
    BY <1>2, LeastNat, Bad \subseteq Nat
  <2>2. n \in 0 .. total /\ ~Right(n)
    OBVIOUS
  <2>3. \A m \in 0 .. n - 1 : m \notin Bad /\ m \in 0 .. total
    <3> HIDE DEF Bad
    <3> QED BY <2>1, <2>2
  <2>4. \A m \in 0 .. n - 1 : f[m] = Bytes(io, start + total - m, m) /\ f[m] \in Seq(S)
    BY <2>3
  <2> HIDE DEF Bad
  <2>5. f[n] = Turn(io, start, total, f, n)
    <3> DEFINE T(m) == Turn(io, start, total, f, m)
    <3>1. f = [m \in 0 .. total |-> T(m)]
      BY DEF Reads
    <3> HIDE DEF T
    <3>2. f[n] = T(n)
      BY <2>2, <3>1
    <3> QED BY <3>2 DEF T
  <2>6. /\ Turn(io, start, total, f, n) = Bytes(io, start + total - n, n)
        /\ Bytes(io, start + total - n, n) \in Seq(S)
    BY <2>2, <2>4, TurnOfBytes
  <2> QED BY <2>2, <2>5, <2>6
<1> QED BY <1>1, <1>2

LEMMA ReadAllValue ==
    ASSUME NEW io, NEW S, NEW start \in Nat, NEW total \in Nat, Whole(io, S, start, total)
    PROVE  ReadAll(io, start, total) = Bytes(io, start, total) /\ ReadAll(io, start, total) \in Seq(S)
<1> DEFINE read == CHOOSE f : Reads(io, start, total, f)
<1>1. \E f : Reads(io, start, total, f)
  BY BytesRead
<1>2. Reads(io, start, total, read)
  BY <1>1
<1>3. ReadAll(io, start, total) = read[total]
  BY DEF ReadAll, Reads, Turn
<1> HIDE DEF read
<1> QED BY <1>2, <1>3, ReadsBytes

-----------------------------------------------------------------------------
(* The disk *)

Cells == {Disk[x] : x \in Int}

(* Cells of the disk from x on. *)
CellsAt(x, n) == [j \in 1 .. n |-> Disk[x + j - 1]]

LEMMA SectorValue ==
    ASSUME NEW s \in Nat
    PROVE  Sector(s) \in Seq(Cells) /\ Len(Sector(s)) = sector_size
<1>1. sector_size \in Nat
  BY Ext2Assumption
<1>2. \A i \in 1 .. sector_size : Disk[s * sector_size + i - 1] \in Cells
  <2> SUFFICES ASSUME NEW i \in 1 .. sector_size PROVE Disk[s * sector_size + i - 1] \in Cells
    OBVIOUS
  <2>1. s * sector_size + i - 1 \in Int
    BY <1>1
  <2> QED BY <2>1 DEF Cells
<1> QED BY <1>1, <1>2 DEF Sector

(* BlockIO on the drive reads its cells. *)
LEMMA IdeReadAll ==
    ASSUME NEW x \in Nat, NEW n \in Nat \ {0}, \A j \in 0 .. n - 1 : x + j \in DOMAIN Disk
    PROVE  ReadAll(Ide, x, n) = CellsAt(x, n)
<1> DEFINE b == sector_size
<1>1. b \in Nat \ {0} /\ IdeSize \in Nat
  BY Ext2Assumption
<1>2. /\ Ide.size = IdeSize /\ Ide.block_size = b
      /\ Ide.block = [s \in {d \div sector_size : d \in DOMAIN Disk} |-> Sector(s)]
  BY DEF Ide
<1> HIDE DEF b
<1>3. ASSUME NEW y \in x .. x + n - 1
      PROVE  /\ y \in Nat /\ y \div b \in Nat /\ Ide.block[y \div b] = Sector(y \div b)
             /\ y % b \in Nat /\ y % b < b /\ y = (y \div b) * b + (y % b)
  <2>1. y \in Nat /\ y = x + (y - x) /\ y - x \in 0 .. n - 1
    OBVIOUS
  <2>2. y \in DOMAIN Disk
    BY <2>1
  <2>3. y \div b \in {d \div sector_size : d \in DOMAIN Disk}
    BY <2>2 DEF b
  <2>4. Ide.block[y \div b] = Sector(y \div b)
    BY <1>2, <2>3
  <2> QED BY <1>1, <2>1, <2>4, DivFacts
<1>4. Whole(Ide, Cells, x, n)
  <2>1. x + n <= IdeSize
    <3>1. n - 1 \in 0 .. n - 1
      OBVIOUS
    <3>2. x + (n - 1) \in DOMAIN Disk
      BY <3>1
    <3>3. x + (n - 1) \in 0 .. IdeSize - 1
      BY <3>2, Ext2Assumption
    <3> QED BY <1>1, <3>3
  <2>2. \A y \in x .. x + n - 1 :
           Ide.block[y \div b] \in Seq(Cells) /\ Len(Ide.block[y \div b]) = b
    BY <1>3, SectorValue DEF b
  <2> QED BY <1>1, <1>2, <2>1, <2>2 DEF Whole
<1>5. ReadAll(Ide, x, n) = Bytes(Ide, x, n)
  BY <1>4, ReadAllValue
<1>6. ASSUME NEW y \in x .. x + n - 1 PROVE ByteAt(Ide, y) = Disk[y]
  <2> DEFINE q == y \div b
             r == y % b
  <2>1. q \in Nat /\ r \in Nat /\ r < b /\ y = q * b + r /\ Ide.block[q] = Sector(q)
    BY <1>3
  <2>2. ByteAt(Ide, y) = Ide.block[q][r + 1]
    BY <1>2 DEF ByteAt
  <2> HIDE DEF q, r
  <2>3. r + 1 \in 1 .. b /\ q * b + (r + 1) - 1 = y
    BY <1>1, <2>1
  <2>4. Sector(q)[r + 1] = Disk[q * b + (r + 1) - 1]
    BY <2>3 DEF Sector, b
  <2> QED BY <2>1, <2>2, <2>3, <2>4
<1>7. \A j \in 1 .. n : x + j - 1 \in x .. x + n - 1
  OBVIOUS
<1>8. Bytes(Ide, x, n) = CellsAt(x, n)
  BY <1>6, <1>7 DEF Bytes, CellsAt
<1> QED BY <1>5, <1>8

-----------------------------------------------------------------------------
(* What a node holds: the cells of its blocks. *)

CellOf(node, x) ==
    Disk[BlockNumber(node, x \div blockSize) * blockSize + (x % blockSize)]

Content(node) == [j \in 1 .. node.size |-> CellOf(node, j - 1)]

(* The offset x of a node is in one of its blocks. *)
LEMMA BlockOf ==
    ASSUME NEW node, OnDisk(node), NEW x \in Nat, x < node.size
    PROVE  x \div blockSize \in 0 .. SizeInBlocks(node.size, blockSize) - 1
<1> DEFINE b == blockSize
           q == x \div b
           r == x % b
           m == node.size + b - 1
           p == m \div b
           s == m % b
<1>1. b \in Nat \ {0} /\ node.size \in Nat
  BY BlockAssumption, FilesAssumption DEF OnDisk
<1> HIDE DEF b
<1>2. q \in Nat /\ r \in Nat /\ r < b /\ x = q * b + r
  BY <1>1, DivFacts
<1>3. m \in Nat
  BY <1>1
<1>4. p \in Nat /\ s \in Nat /\ s < b /\ m = p * b + s
  <2> HIDE DEF m
  <2> QED BY <1>1, <1>3, DivFacts
<1>5. SizeInBlocks(node.size, blockSize) = p
  BY DEF SizeInBlocks, b
<1> HIDE DEF q, r, p, s
<1>6. q < p
  <2> SUFFICES ASSUME p <= q PROVE FALSE
    BY <1>2, <1>4
  <2>1. p * b <= q * b
    <3>1. CASE p = q
      BY <3>1, <1>1, <1>2
    <3>2. CASE p < q
      <4>1. p * b + b <= q * b /\ p * b \in Nat /\ q * b \in Nat
        BY <3>2, <1>1, <1>2, <1>4, ProductsApart
      <4> QED BY <4>1, <1>1
    <3> QED BY <3>1, <3>2, <1>2, <1>4
  <2>2. p * b \in Nat /\ q * b \in Nat
    BY <1>1, <1>2, <1>4
  <2> QED BY <2>1, <2>2, <1>1, <1>2, <1>4
<1>7. q \in 0 .. p - 1
  BY <1>2, <1>4, <1>6
<1> QED BY <1>5, <1>7 DEF q, b

(* BlockIO on a node: the blocks that read_all() goes through, and what it *)
(* finds in them.                                                          *)
LEMMA NodeBlocks ==
    ASSUME NEW node, OnDisk(node), NEW start \in Nat, NEW n \in Nat, start + n <= node.size
    PROVE  /\ Whole(NodeIO(node), Cells, start, n)
           /\ \A i \in 0 .. SizeInBlocks(node.size, blockSize) - 1 :
                 NodeIO(node).block[i] = CellsAt(BlockNumber(node, i) * blockSize, blockSize)
           /\ Bytes(NodeIO(node), start, n) = [j \in 1 .. n |-> CellOf(node, start + j - 1)]
<1> DEFINE b == blockSize
           last_ == SizeInBlocks(node.size, blockSize) - 1
<1>1. b \in Nat \ {0} /\ node.size \in Nat
  BY BlockAssumption, FilesAssumption DEF OnDisk
<1>2. /\ NodeIO(node).size = node.size /\ NodeIO(node).block_size = b
      /\ NodeIO(node).block = [i \in 0 .. last_ |-> ReadBlock(node, i)]
  BY DEF NodeIO
<1>3. ASSUME NEW i \in 0 .. last_
      PROVE  /\ NodeIO(node).block[i] = CellsAt(BlockNumber(node, i) * b, b)
             /\ NodeIO(node).block[i] \in Seq(Cells) /\ Len(NodeIO(node).block[i]) = b
  <2> DEFINE x == BlockNumber(node, i) * b
  <2>1. BlockNumber(node, i) \in Nat /\ \A j \in 0 .. b - 1 : x + j \in DOMAIN Disk
    BY DEF OnDisk
  <2> HIDE DEF b
  <2>2. x \in Nat
    BY <1>1, <2>1
  <2>3. NodeIO(node).block[i] = ReadAll(Ide, x, b)
    BY <1>2 DEF ReadBlock, b
  <2> HIDE DEF x
  <2>4. ReadAll(Ide, x, b) = CellsAt(x, b)
    BY <1>1, <2>1, <2>2, IdeReadAll
  <2>5. \A j \in 1 .. b : Disk[x + j - 1] \in Cells
    BY <2>2 DEF Cells
  <2>6. CellsAt(x, b) \in Seq(Cells) /\ Len(CellsAt(x, b)) = b
    BY <1>1, <2>5 DEF CellsAt
  <2> QED BY <2>3, <2>4, <2>6 DEF x
<1> HIDE DEF b, last_
<1>4. ASSUME NEW x \in 0 .. node.size - 1
      PROVE  /\ x \div b \in 0 .. last_
             /\ NodeIO(node).block[x \div b][(x % b) + 1] = CellOf(node, x)
  <2> DEFINE q == x \div b
             r == x % b
  <2>1. x \in Nat /\ x < node.size
    BY <1>1
  <2>2. q \in 0 .. last_
    BY <2>1, BlockOf DEF b, last_
  <2>3. r \in Nat /\ r < b
    BY <1>1, <2>1, DivFacts
  <2>4. CellOf(node, x) = Disk[BlockNumber(node, q) * b + r]
    BY DEF CellOf, b
  <2> HIDE DEF q, r
  <2>5. NodeIO(node).block[q][r + 1] = Disk[BlockNumber(node, q) * b + (r + 1) - 1]
    <3>1. r + 1 \in 1 .. b
      BY <1>1, <2>3
    <3> QED BY <1>3, <2>2, <3>1 DEF CellsAt
  <2>6. BlockNumber(node, q) * b \in Nat
    BY <1>1, <2>2 DEF OnDisk, last_
  <2>7. BlockNumber(node, q) * b + (r + 1) - 1 = BlockNumber(node, q) * b + r
    BY <2>3, <2>6
  <2> QED BY <2>2, <2>4, <2>5, <2>7 DEF q, r
<1>5. Whole(NodeIO(node), Cells, start, n)
  <2>1. \A x \in start .. start + n - 1 : x \in 0 .. node.size - 1
    BY <1>1
  <2>2. \A x \in start .. start + n - 1 :
           /\ NodeIO(node).block[x \div b] \in Seq(Cells)
           /\ Len(NodeIO(node).block[x \div b]) = b
    BY <1>3, <1>4, <2>1
  <2> QED BY <1>1, <1>2, <2>2 DEF Whole
<1>6. ASSUME NEW j \in 1 .. n
      PROVE  ByteAt(NodeIO(node), start + j - 1) = CellOf(node, start + j - 1)
  <2>1. start + j - 1 \in 0 .. node.size - 1
    BY <1>1
  <2> QED BY <1>2, <1>4, <2>1 DEF ByteAt
<1>7. Bytes(NodeIO(node), start, n) = [j \in 1 .. n |-> CellOf(node, start + j - 1)]
  BY <1>6 DEF Bytes
<1> QED BY <1>3, <1>5, <1>7 DEF b, last_

LEMMA NodeContent ==
    ASSUME NEW node, OnDisk(node)
    PROVE  NodeReadAll(node, 0, node.size) = Content(node)
<1>1. node.size \in Nat /\ 0 + node.size <= node.size
  BY FilesAssumption DEF OnDisk
<1>2. NodeReadAll(node, 0, node.size) = Bytes(NodeIO(node), 0, node.size)
  <2>1. Whole(NodeIO(node), Cells, 0, node.size)
    BY <1>1, NodeBlocks
  <2>2. ReadAll(NodeIO(node), 0, node.size) = Bytes(NodeIO(node), 0, node.size)
    BY <1>1, <2>1, ReadAllValue
  <2> QED BY <2>2 DEF NodeReadAll
<1>3. \A j \in 1 .. node.size : 0 + j - 1 = j - 1
  BY <1>1
<1>4. Bytes(NodeIO(node), 0, node.size) = [j \in 1 .. node.size |-> CellOf(node, 0 + j - 1)]
  <2>1. \A start, n \in Nat : start + n <= node.size =>
           Bytes(NodeIO(node), start, n) = [j \in 1 .. n |-> CellOf(node, start + j - 1)]
    BY NodeBlocks
  <2> QED BY <1>1, <2>1
<1> QED BY <1>2, <1>3, <1>4 DEF Content

-----------------------------------------------------------------------------
(* The invariant *)

Fetching == {"indirect", "block"}

FileCall ==
    [at : {"returned", "read_all", "add"} \cup Fetching,
     io : {"out", "registers", "command", "data"}, file : File \cup {Closed},
     bytes_read : Nat, offset : Nat, n : Nat, buffer : Seq(Cells),
     sectors : Seq(Nat), temp : Seq(Cells), loaded : Nat]

Opened == {path \in Paths : Found[path] \notin Missing}

FileTypes ==
    /\ call \in [Process -> FileCall]
    /\ file \in [File -> {Closed} \cup {[node |-> Found[path], path |-> path] : path \in Opened}]
    /\ totalOffset \in [File -> Nat]
    /\ last \in [Own -> Seq(Cells)]

(* The sectors that a call wants, of its block or of one reference to it. *)
FirstWanted(c, node) ==
    LET index == c.offset \div blockSize
    IN  IF c.at = "indirect" THEN RefOffset(node, index) \div sector_size
        ELSE BlockNumber(node, index) * (blockSize \div sector_size)

Wanted(c) == IF c.at = "indirect" THEN 1 ELSE blockSize \div sector_size

(* Some of them are in temp, the others are still to come. *)
Fetched(c, node, m) ==
    /\ c.sectors = [i \in 1 .. Wanted(c) - m |-> FirstWanted(c, node) + m + i - 1]
    /\ c.temp = CellsAt(FirstWanted(c, node) * sector_size, m * sector_size)

Got(c) == c.bytes_read - c.n

(* What a call has put into its buffer, and what it is about to put there. *)
ReadOK(c, node) ==
    /\ c.n <= c.bytes_read /\ Got(c) <= c.offset /\ c.offset + c.n <= node.size
    /\ c.buffer = [j \in 1 .. Got(c) |-> CellOf(node, c.offset - Got(c) + j - 1)]
    /\ c.at = "add" => c.n = 0
    /\ IF c.at \in Fetching
       THEN /\ c.n > 0
            /\ c.at = "indirect" => c.offset \div blockSize >= NDirect
            /\ \E m \in 0 .. Wanted(c) : Fetched(c, node, m)
       ELSE c.sectors = <<>>

OneReadOK(p, c) ==
    IF c.at = "returned" THEN c = Returned
    ELSE /\ c.file \in File /\ c.file \in Uses[p] /\ file[c.file] # Closed
         /\ ReadOK(c, file[c.file].node)

(* Nobody else moves the offset of an unshared file during a read(). *)
OffsetOK(c) ==
    c.file \in Own =>
        /\ c.offset = totalOffset[c.file] + Got(c)
        /\ \E n \in Sizes : c.bytes_read = Least(n, Size(c.file) - totalOffset[c.file])
        /\ c.at = "add" => c.loaded = totalOffset[c.file]

(* The registers are the lock holder's. *)
RegistersOK(p, c) ==
    IF c.io = "out" THEN ideLock # p
    ELSE /\ ideLock = p /\ c.sectors # <<>>
         /\ c.io \in {"command", "data"} => sector = Head(c.sectors)

ReadsOK == \A p \in Process : OneReadOK(p, call[p]) /\ OffsetOK(call[p])
DriveOK == \A p \in Process : RegistersOK(p, call[p])

FilesInv == FileTypes /\ ReadsOK /\ DriveOK

-----------------------------------------------------------------------------
(* The calls *)

LEMMA SectorsPerBlock ==
    /\ sector_size \in Nat \ {0} /\ blockSize \in Nat \ {0}
    /\ blockSize \div sector_size \in Nat
    /\ (blockSize \div sector_size) * sector_size = blockSize
<1> DEFINE q == blockSize \div sector_size
           r == blockSize % sector_size
<1>1. sector_size \in Nat \ {0} /\ blockSize \in Nat \ {0} /\ r = 0
  BY Ext2Assumption, BlockAssumption
<1>2. q \in Nat /\ blockSize = q * sector_size + r
  BY <1>1, DivFacts
<1> HIDE DEF q, r
<1>3. q * sector_size \in Nat
  BY <1>1, <1>2
<1>4. q * sector_size = blockSize
  BY <1>1, <1>2, <1>3
<1> QED BY <1>1, <1>2, <1>4 DEF q

(* One cell of the disk. *)
LEMMA IdeReadValue == ASSUME NEW x \in DOMAIN Disk PROVE x \in Nat /\ IdeRead(x) = Disk[x]
<1>1. x \in Nat /\ \A j \in 0 .. 1 - 1 : x + j \in DOMAIN Disk
  BY Ext2Assumption
<1>2. ReadAll(Ide, x, 1) = CellsAt(x, 1)
  BY <1>1, IdeReadAll
<1>3. CellsAt(x, 1)[1] = Disk[x + 1 - 1] /\ x + 1 - 1 = x
  BY <1>1 DEF CellsAt
<1> QED BY <1>1, <1>2, <1>3 DEF IdeRead

(* The next sector comes behind the ones before it. *)
LEMMA CellsGrow ==
    ASSUME NEW s \in Nat, NEW m \in Nat
    PROVE  /\ CellsAt(s * sector_size, m * sector_size) \o Sector(s + m)
                  = CellsAt(s * sector_size, (m + 1) * sector_size)
           /\ CellsAt(s * sector_size, m * sector_size) \in Seq(Cells)
<1> DEFINE z == sector_size
           x == s * z
           k == m * z
<1>1. z \in Nat /\ x \in Nat /\ k \in Nat
  BY Ext2Assumption
<1>2. (m + 1) * z = k + z /\ (s + m) * z = x + k
  BY Ext2Assumption
<1>3. Sector(s + m) = [i \in 1 .. z |-> Disk[x + k + i - 1]]
  BY <1>2 DEF Sector
<1> HIDE DEF z, x, k
<1>4. \A j \in 1 .. k + z : Disk[x + j - 1] \in Cells
  BY <1>1 DEF Cells
<1>5. \A i \in 1 .. z : Disk[x + k + i - 1] \in Cells
  BY <1>1 DEF Cells
<1>6. CellsAt(x, k) \in Seq(Cells) /\ Len(CellsAt(x, k)) = k
  BY <1>1, <1>4 DEF CellsAt
<1>7. CellsAt(x, k + z) \in Seq(Cells) /\ Len(CellsAt(x, k + z)) = k + z
  BY <1>1, <1>4 DEF CellsAt
<1>8. Sector(s + m) \in Seq(Cells) /\ Len(Sector(s + m)) = z
  <2>1. s + m \in Nat
    OBVIOUS
  <2> QED BY <2>1, SectorValue DEF z
<1>9. CellsAt(x, k) \o Sector(s + m) = CellsAt(x, k + z)
  <2> DEFINE A == CellsAt(x, k)
             B == Sector(s + m)
             C == CellsAt(x, k + z)
  <2>1. \A j \in 1 .. k : A[j] = C[j]
    BY <1>1 DEF CellsAt
  <2>2. \A i \in 1 .. z : B[i] = C[k + i]
    <3> SUFFICES ASSUME NEW i \in 1 .. z PROVE B[i] = C[k + i]
      OBVIOUS
    <3>1. k + i \in 1 .. k + z /\ x + (k + i) - 1 = x + k + i - 1
      BY <1>1
    <3> QED BY <1>3, <3>1 DEF CellsAt
  <2>3. A \in Seq(Cells) /\ Len(A) = k /\ B \in Seq(Cells) /\ Len(B) = z /\ C \in Seq(Cells) /\ Len(C) = k + z
    BY <1>6, <1>7, <1>8
  <2> HIDE DEF A, B, C
  <2>4. /\ A \in Seq(Cells) /\ B \in Seq(Cells) /\ C \in Seq(Cells) /\ Len(C) = Len(A) + Len(B)
        /\ \A j \in 1 .. Len(A) : A[j] = C[j]
        /\ \A i \in 1 .. Len(B) : B[i] = C[Len(A) + i]
    BY <2>1, <2>2, <2>3
  <2>5. A \o B = C
    BY <2>4, Joined
  <2> QED BY <2>5 DEF A, B, C
<1> QED BY <1>2, <1>6, <1>9 DEF x, k, z

(* Where a call stands in its file. *)
LEMMA BlockFacts ==
    ASSUME NEW node, OnDisk(node), NEW x \in Nat, x < node.size
    PROVE  /\ x \div blockSize \in Nat /\ BlockInBounds(node, x \div blockSize)
           /\ BlockNumber(node, x \div blockSize) \in Nat
           /\ x \div blockSize >= NDirect => RefOffset(node, x \div blockSize) \in DOMAIN Disk
<1>1. x \div blockSize \in 0 .. SizeInBlocks(node.size, blockSize) - 1
  BY BlockOf
<1>2. x \div blockSize \in Nat
  BY SectorsPerBlock, DivFacts
<1> QED BY <1>1, <1>2 DEF OnDisk

FetchOf(c, label, sectors) ==
    [c EXCEPT !.at = label, !.sectors = sectors, !.temp = <<>>]

(* A call that begins to fetch has nothing yet. *)
LEMMA FetchOK ==
    ASSUME NEW c \in FileCall, NEW node, ReadOK(c, node), c.n > 0,
           NEW label \in Fetching, label = "indirect" => c.offset \div blockSize >= NDirect,
           NEW d, NEW sectors, d = FetchOf(c, label, sectors),
           FirstWanted(d, node) \in Nat,
           sectors = [i \in 1 .. Wanted(d) |-> FirstWanted(d, node) + i - 1]
    PROVE  d \in FileCall /\ ReadOK(d, node)
<1>1. Wanted(d) \in Nat
  BY SectorsPerBlock DEF Wanted
<1>2. sectors \in Seq(Nat)
  <2> DEFINE w == Wanted(d)
             x == FirstWanted(d, node)
  <2>1. w \in Nat /\ x \in Nat /\ sectors = [i \in 1 .. w |-> x + i - 1]
    BY <1>1
  <2> HIDE DEF w, x
  <2>2. sectors \in [1 .. w -> Nat]
    <3>1. \A i \in 1 .. w : x + i - 1 \in Nat
      BY <2>1
    <3> QED BY <2>1, <3>1
  <2> QED BY <2>1, <2>2, Tabulated
<1>3. d = [c EXCEPT !.at = label, !.sectors = sectors, !.temp = <<>>]
  BY DEF FetchOf
<1>4. d \in FileCall
  <2>1. <<>> \in Seq(Cells) /\ label \in {"returned", "read_all", "add"} \cup Fetching
    OBVIOUS
  <2> QED BY <1>2, <1>3, <2>1 DEF FileCall
<1>5. /\ d.at = label /\ d.sectors = sectors /\ d.temp = <<>> /\ d.n = c.n /\ d.offset = c.offset
      /\ d.buffer = c.buffer /\ d.bytes_read = c.bytes_read
  BY <1>3 DEF FileCall
<1>6. Fetched(d, node, 0)
  <2> DEFINE w == Wanted(d)
             x == FirstWanted(d, node)
             z == sector_size
  <2>1. w \in Nat /\ x \in Nat /\ z \in Nat /\ sectors = [i \in 1 .. w |-> x + i - 1]
    BY <1>1, SectorsPerBlock
  <2> HIDE DEF w, x, z
  <2>2. [i \in 1 .. w - 0 |-> x + 0 + i - 1] = sectors
    <3>1. w - 0 = w /\ \A i \in 1 .. w : x + 0 + i - 1 = x + i - 1
      BY <2>1
    <3> QED BY <2>1, <3>1
  <2>3. CellsAt(x * z, 0 * z) = <<>>
    <3>1. 0 * z = 0
      BY <2>1
    <3> QED BY <3>1 DEF CellsAt
  <2> QED BY <1>5, <2>2, <2>3 DEF Fetched, w, x, z
<1>7. 0 \in 0 .. Wanted(d)
  BY <1>1
<1>8. Got(d) = Got(c) /\ d.at # "add" /\ d.at \in Fetching
  BY <1>5 DEF Got, Fetching
<1> QED BY <1>4, <1>5, <1>6, <1>7, <1>8 DEF ReadOK

(* NextBlock *)
LEMMA DirectOK ==
    ASSUME NEW c \in FileCall, NEW node, OnDisk(node), ReadOK(c, node), c.n > 0,
           NEW b, b = BlockNumber(node, c.offset \div blockSize),
           NEW d, d = FetchOf(c, "block", SectorsOf(b))
    PROVE  d \in FileCall /\ ReadOK(d, node)
<1>1. c.offset \in Nat /\ c.n \in Nat /\ node.size \in Nat /\ c.offset + c.n <= node.size
  BY FilesAssumption DEF FileCall, OnDisk, ReadOK
<1>2. c.offset < node.size
  BY <1>1
<1>3. b \in Nat
  BY <1>1, <1>2, BlockFacts
<1>4. d.at = "block" /\ d.offset = c.offset
  BY DEF FetchOf, FileCall
<1>5. Wanted(d) = blockSize \div sector_size /\ FirstWanted(d, node) = b * (blockSize \div sector_size)
  BY <1>4 DEF Wanted, FirstWanted
<1>6. FirstWanted(d, node) \in Nat
  BY <1>3, <1>5, SectorsPerBlock
<1>7. SectorsOf(b) = [i \in 1 .. Wanted(d) |-> FirstWanted(d, node) + i - 1]
  BY <1>5 DEF SectorsOf
<1>8. "block" \in Fetching
  BY DEF Fetching
<1> QED BY <1>6, <1>7, <1>8, FetchOK

LEMMA IndirectOK ==
    ASSUME NEW c \in FileCall, NEW node, OnDisk(node), ReadOK(c, node), c.n > 0,
           c.offset \div blockSize >= NDirect,
           NEW s, s = RefOffset(node, c.offset \div blockSize) \div sector_size,
           NEW d, d = FetchOf(c, "indirect", <<s>>)
    PROVE  d \in FileCall /\ ReadOK(d, node)
<1>1. c.offset \in Nat /\ c.n \in Nat /\ node.size \in Nat /\ c.offset + c.n <= node.size
  BY FilesAssumption DEF FileCall, OnDisk, ReadOK
<1>2. c.offset < node.size
  BY <1>1
<1>3. RefOffset(node, c.offset \div blockSize) \in Nat
  BY <1>1, <1>2, BlockFacts, IdeReadValue
<1>4. s \in Nat
  BY <1>3, SectorsPerBlock, DivFacts
<1>5. d.at = "indirect" /\ d.offset = c.offset
  BY DEF FetchOf, FileCall
<1>6. Wanted(d) = 1 /\ FirstWanted(d, node) = s
  BY <1>5 DEF Wanted, FirstWanted
<1>7. <<s>> = [i \in 1 .. Wanted(d) |-> FirstWanted(d, node) + i - 1]
  <2>1. \A i \in 1 .. 1 : s + i - 1 = s
    BY <1>4
  <2>2. [i \in 1 .. 1 |-> s + i - 1] = [i \in 1 .. 1 |-> s]
    BY <2>1
  <2>3. <<s>> = [i \in 1 .. 1 |-> s]
    OBVIOUS
  <2> QED BY <1>6, <2>2, <2>3
<1>8. "indirect" \in Fetching
  BY DEF Fetching
<1> QED BY <1>4, <1>6, <1>7, <1>8, FetchOK

LEMMA WantedFacts ==
    ASSUME NEW c \in FileCall, NEW node, OnDisk(node), ReadOK(c, node), c.at \in Fetching
    PROVE  FirstWanted(c, node) \in Nat /\ Wanted(c) \in Nat /\ c.n > 0
<1>1. c.offset \in Nat /\ c.n \in Nat /\ node.size \in Nat /\ c.offset + c.n <= node.size /\ c.n > 0
  BY FilesAssumption DEF FileCall, OnDisk, ReadOK
<1>2. c.offset < node.size
  BY <1>1
<1>3. CASE c.at = "indirect"
  <2>1. c.offset \div blockSize >= NDirect
    BY <1>3 DEF ReadOK, Fetching
  <2>2. RefOffset(node, c.offset \div blockSize) \in Nat
    BY <1>1, <1>2, <2>1, BlockFacts, IdeReadValue
  <2>3. RefOffset(node, c.offset \div blockSize) \div sector_size \in Nat
    BY <2>2, SectorsPerBlock, DivFacts
  <2> QED BY <1>1, <1>3, <2>3 DEF FirstWanted, Wanted
<1>4. CASE c.at # "indirect"
  <2>1. BlockNumber(node, c.offset \div blockSize) \in Nat
    BY <1>1, <1>2, BlockFacts
  <2>2. BlockNumber(node, c.offset \div blockSize) * (blockSize \div sector_size) \in Nat
    BY <2>1, SectorsPerBlock
  <2> QED BY <1>1, <1>4, <2>2, SectorsPerBlock DEF FirstWanted, Wanted
<1> QED BY <1>3, <1>4

LEMMA ShiftedIndex ==
    ASSUME NEW w \in Nat, NEW m \in Nat, NEW x \in Nat, NEW i \in 1 .. w - (m + 1)
    PROVE  i + 1 \in 1 .. w - m /\ x + m + (i + 1) - 1 = x + (m + 1) + i - 1
OBVIOUS

(* Transfer *)
LEMMA TransferOK ==
    ASSUME NEW c \in FileCall, NEW node, OnDisk(node), ReadOK(c, node), c.sectors # <<>>,
           NEW d, d = [c EXCEPT !.io = "out", !.sectors = Tail(@),
                                !.temp = @ \o Sector(Head(c.sectors))]
    PROVE  d \in FileCall /\ ReadOK(d, node)
<1> DEFINE w == Wanted(c)
           x == FirstWanted(c, node)
<1>1. c.at \in Fetching
  BY DEF ReadOK
<1>2. x \in Nat /\ w \in Nat
  BY <1>1, WantedFacts
<1>3. PICK m \in 0 .. w : Fetched(c, node, m)
  BY <1>1 DEF ReadOK
<1>4. /\ c.sectors = [i \in 1 .. w - m |-> x + m + i - 1]
      /\ c.temp = CellsAt(x * sector_size, m * sector_size)
  BY <1>3 DEF Fetched
<1>5. w - m \in Nat /\ w - m # 0 /\ m \in Nat
  BY <1>2, <1>4
<1>6. d \in FileCall => /\ d.at = c.at /\ d.sectors = Tail(c.sectors) /\ d.temp = c.temp \o Sector(Head(c.sectors))
                    /\ d.n = c.n /\ d.offset = c.offset /\ d.buffer = c.buffer /\ d.bytes_read = c.bytes_read
  BY DEF FileCall
<1> HIDE DEF w, x
<1>7. Head(c.sectors) = x + m
  <2>1. Head(c.sectors) = c.sectors[1]
    BY DEF FileCall
  <2>2. 1 \in 1 .. w - m
    BY <1>5
  <2>3. c.sectors[1] = x + m + 1 - 1
    BY <1>4, <2>2
  <2> QED BY <1>2, <1>5, <2>1, <2>3
<1>8. Tail(c.sectors) = [i \in 1 .. w - (m + 1) |-> x + (m + 1) + i - 1]
  <2>1. c.sectors \in Seq(Nat) /\ Len(c.sectors) = w - m
    <3>1. c.sectors \in Seq(Nat) /\ DOMAIN c.sectors = 1 .. w - m
      BY <1>4 DEF FileCall
    <3> QED BY <1>5, <3>1
  <2>2. Tail(c.sectors) = [i \in 1 .. Len(c.sectors) - 1 |-> c.sectors[i + 1]]
    BY <2>1, HeadTailProperties, LenProperties
  <2>3. w - (m + 1) = Len(c.sectors) - 1
    BY <1>2, <1>5, <2>1
  <2>4. \A i \in 1 .. w - (m + 1) : c.sectors[i + 1] = x + (m + 1) + i - 1
    <3> SUFFICES ASSUME NEW i \in 1 .. w - (m + 1) PROVE c.sectors[i + 1] = x + (m + 1) + i - 1
      OBVIOUS
    <3>1. i + 1 \in 1 .. w - m /\ x + m + (i + 1) - 1 = x + (m + 1) + i - 1
      BY <1>2, <1>5, ShiftedIndex
    <3> QED BY <1>4, <3>1
  <2>5. Tail(c.sectors) = [i \in 1 .. w - (m + 1) |-> c.sectors[i + 1]]
    BY <2>2, <2>3
  <2> QED BY <2>4, <2>5
<1>9. /\ c.temp \o Sector(Head(c.sectors)) = CellsAt(x * sector_size, (m + 1) * sector_size)
      /\ c.temp \o Sector(Head(c.sectors)) \in Seq(Cells)
  <2>1. c.temp \o Sector(x + m) = CellsAt(x * sector_size, (m + 1) * sector_size)
    BY <1>2, <1>4, <1>5, CellsGrow
  <2>2. CellsAt(x * sector_size, (m + 1) * sector_size) \in Seq(Cells)
    <3>1. m + 1 \in Nat
      BY <1>5
    <3> QED BY <1>2, <3>1, CellsGrow
  <2> QED BY <1>7, <2>1, <2>2
<1>10. Tail(c.sectors) \in Seq(Nat)
  <2>1. c.sectors \in Seq(Nat)
    BY DEF FileCall
  <2> QED BY <2>1, HeadTailProperties
<1>11. d \in FileCall
  BY <1>9, <1>10 DEF FileCall
<1>12. Fetched(d, node, m + 1) /\ m + 1 \in 0 .. Wanted(d)
  <2>1. Wanted(d) = w /\ FirstWanted(d, node) = x
    BY <1>6, <1>11 DEF Wanted, FirstWanted, w, x
  <2>2. m + 1 \in 0 .. w
    BY <1>2, <1>5
  <2> QED BY <1>6, <1>8, <1>9, <1>11, <2>1, <2>2 DEF Fetched
<1>13. Got(d) = Got(c)
  BY <1>6, <1>11 DEF Got
<1> QED BY <1>1, <1>6, <1>11, <1>12, <1>13 DEF ReadOK, Fetching

(* A call that wants no more sectors has them all. *)
LEMMA AllFetched ==
    ASSUME NEW c \in FileCall, NEW node, OnDisk(node), ReadOK(c, node), c.at \in Fetching, c.sectors = <<>>
    PROVE  c.temp = CellsAt(FirstWanted(c, node) * sector_size, Wanted(c) * sector_size)
<1> DEFINE w == Wanted(c)
<1>1. w \in Nat
  BY WantedFacts
<1>2. PICK m \in 0 .. w : Fetched(c, node, m)
  BY DEF ReadOK
<1>3. w - m = 0
  <2>1. w - m \in Nat
    BY <1>1
  <2>2. c.sectors = [i \in 1 .. w - m |-> FirstWanted(c, node) + m + i - 1]
    BY <1>2 DEF Fetched
  <2> HIDE DEF w
  <2>3. Len(c.sectors) = 0 /\ DOMAIN c.sectors = {}
    OBVIOUS
  <2>4. 1 .. w - m = {}
    BY <2>2, <2>3
  <2>5. w - m > 0 => 1 \in 1 .. w - m
    BY <2>1
  <2> QED BY <2>1, <2>4, <2>5
<1>4. m = w
  BY <1>1, <1>3
<1> QED BY <1>2, <1>4 DEF Fetched

LEMMA GotIndirectOK ==
    ASSUME NEW c \in FileCall, NEW node, OnDisk(node), ReadOK(c, node), c.at = "indirect", c.sectors = <<>>,
           NEW ref, ref = RefOffset(node, c.offset \div blockSize),
           NEW d, d = FetchOf(c, "block", SectorsOf(c.temp[(ref % sector_size) + 1]))
    PROVE  d \in FileCall /\ ReadOK(d, node)
<1> DEFINE z == sector_size
           q == ref \div z
           r == ref % z
<1>1. c.offset \in Nat /\ c.n \in Nat /\ node.size \in Nat /\ c.offset + c.n <= node.size
  BY FilesAssumption DEF FileCall, OnDisk, ReadOK
<1>2. c.at \in Fetching
  BY DEF Fetching
<1>3. c.n > 0 /\ c.offset \div blockSize >= NDirect
  BY <1>2 DEF ReadOK
<1>4. c.offset < node.size
  BY <1>1, <1>3
<1>5. ref \in DOMAIN Disk /\ ref \in Nat /\ IdeRead(ref) = Disk[ref]
  BY <1>1, <1>3, <1>4, BlockFacts, IdeReadValue
<1>6. z \in Nat \ {0} /\ q \in Nat /\ r \in Nat /\ r < z /\ ref = q * z + r
  BY <1>5, SectorsPerBlock, DivFacts
<1>7. c.temp = CellsAt(q * z, 1 * z)
  <2>1. FirstWanted(c, node) = q /\ Wanted(c) = 1
    BY DEF FirstWanted, Wanted
  <2> QED BY <1>2, <2>1, AllFetched
<1> HIDE DEF z, q, r
<1>8. q * z \in Nat /\ 1 * z = z
  BY <1>6
<1>9. c.temp[r + 1] = Disk[ref]
  <2>1. r + 1 \in 1 .. z
    BY <1>6
  <2>2. q * z + (r + 1) - 1 = ref
    BY <1>6, <1>8
  <2> QED BY <1>7, <1>8, <2>1, <2>2 DEF CellsAt
<1>10. c.offset \div blockSize \in Nat /\ NDirect \in Nat
  BY <1>1, <1>4, BlockFacts, Ext2Assumption
<1>11. BlockNumber(node, c.offset \div blockSize) = c.temp[r + 1]
  <2>1. ~(c.offset \div blockSize < NDirect)
    BY <1>3, <1>10
  <2> QED BY <1>5, <1>9, <2>1 DEF BlockNumber
<1>12. d = FetchOf(c, "block", SectorsOf(c.temp[r + 1]))
  BY DEF r, z
<1> QED BY <1>3, <1>11, <1>12, DirectOK

LEMMA CellOfNode ==
    ASSUME NEW node, OnDisk(node), NEW x \in Nat, x < node.size
    PROVE  CellOf(node, x) \in Cells
<1>1. BlockNumber(node, x \div blockSize) * blockSize \in Int /\ x % blockSize \in Int
  BY BlockFacts, SectorsPerBlock, DivFacts
<1>2. BlockNumber(node, x \div blockSize) * blockSize + (x % blockSize) \in Int
  BY <1>1
<1> QED BY <1>2 DEF CellOf, Cells

LEMMA GotBlockOK ==
    ASSUME NEW c \in FileCall, NEW node, OnDisk(node), ReadOK(c, node), c.at = "block", c.sectors = <<>>,
           NEW k, k = PieceSize(node.size, blockSize, c.offset, c.n),
           NEW d, d = [c EXCEPT !.at = "read_all", !.offset = @ + k, !.n = @ - k,
                                !.buffer = @ \o Piece(c.temp, blockSize, c.offset, k)]
    PROVE  /\ k \in 1 .. c.n
           /\ d \in FileCall /\ ReadOK(d, node)
<1> DEFINE io == NodeIO(node)
           x == c.offset
           g == Got(c)
           A == c.buffer
           B == Piece(c.temp, blockSize, x, k)
           C == [j \in 1 .. g + k |-> CellOf(node, x - g + j - 1)]
<1>1. /\ x \in Nat /\ c.n \in Nat /\ c.bytes_read \in Nat /\ node.size \in Nat /\ x + c.n <= node.size
      /\ c.n <= c.bytes_read /\ g <= x /\ g = c.bytes_read - c.n /\ g \in Nat
  BY FilesAssumption DEF FileCall, OnDisk, ReadOK, Got
<1>2. c.at \in Fetching
  BY DEF Fetching
<1>3. c.n > 0 /\ x < node.size
  BY <1>1, <1>2 DEF ReadOK
<1>4. Whole(io, Cells, x, c.n) /\ io.size = node.size /\ io.block_size = blockSize
  <2>1. Whole(io, Cells, x, c.n)
    BY <1>1, NodeBlocks
  <2> QED BY <2>1 DEF NodeIO
<1>5. k \in 1 .. c.n /\ Piece(io.block[x \div blockSize], blockSize, x, k) = Bytes(io, x, k)
      /\ Bytes(io, x, k) \in Seq(Cells)
  <2>1. c.n \in Nat \ {0} /\ k = PieceSize(io.size, io.block_size, x, c.n)
    BY <1>1, <1>3, <1>4
  <2>2. /\ k \in 1 .. c.n
        /\ Piece(io.block[x \div io.block_size], io.block_size, x, k) = Bytes(io, x, k)
        /\ Bytes(io, x, k) \in Seq(Cells)
    BY <1>1, <1>4, <2>1, PieceOfBytes
  <2> QED BY <1>4, <2>2
<1>6. c.temp = io.block[x \div blockSize]
  <2> DEFINE b == BlockNumber(node, x \div blockSize)
             m == blockSize \div sector_size
  <2>1. FirstWanted(c, node) = b * m /\ Wanted(c) = m
    BY DEF FirstWanted, Wanted
  <2>2. b \in Nat
    BY <1>1, <1>3, BlockFacts
  <2>3. m \in Nat /\ m * sector_size = blockSize /\ sector_size \in Nat
    BY SectorsPerBlock
  <2>4. c.temp = CellsAt((b * m) * sector_size, m * sector_size)
    BY <1>2, <2>1, AllFetched
  <2>5. io.block[x \div blockSize] = CellsAt(b * blockSize, blockSize)
    <3>1. x \div blockSize \in 0 .. SizeInBlocks(node.size, blockSize) - 1
      BY <1>1, <1>3, BlockOf
    <3> QED BY <1>1, <3>1, NodeBlocks
  <2> HIDE DEF b, m
  <2>6. (b * m) * sector_size = b * (m * sector_size)
    BY <2>2, <2>3
  <2> QED BY <2>3, <2>4, <2>5, <2>6
<1>7. B = [j \in 1 .. k |-> CellOf(node, x + j - 1)] /\ B \in Seq(Cells)
  <2>1. B = Bytes(io, x, k)
    BY <1>5, <1>6
  <2>2. k \in Nat /\ x + k <= node.size
    BY <1>1, <1>5
  <2>3. Bytes(io, x, k) = [j \in 1 .. k |-> CellOf(node, x + j - 1)]
    <3>1. \A start, n \in Nat : start + n <= node.size =>
             Bytes(io, start, n) = [j \in 1 .. n |-> CellOf(node, start + j - 1)]
      BY NodeBlocks
    <3> QED BY <1>1, <2>2, <3>1
  <2> QED BY <1>5, <2>1, <2>3
<1>8. A = [j \in 1 .. g |-> CellOf(node, x - g + j - 1)] /\ A \in Seq(Cells)
  BY DEF ReadOK, FileCall
<1>9. d = [c EXCEPT !.at = "read_all", !.offset = @ + k, !.n = @ - k, !.buffer = @ \o B]
  OBVIOUS
<1> HIDE DEF io, A, B, C, g, x
<1>11. Len(A) = g /\ Len(B) = k /\ k \in Nat
  BY <1>1, <1>5, <1>7, <1>8
<1>12. C \in Seq(Cells) /\ Len(C) = g + k
  <2>1. \A j \in 1 .. g + k : CellOf(node, x - g + j - 1) \in Cells
    <3> SUFFICES ASSUME NEW j \in 1 .. g + k PROVE CellOf(node, x - g + j - 1) \in Cells
      OBVIOUS
    <3>1. x \in Nat /\ g \in Nat /\ g <= x /\ k \in Nat /\ node.size \in Nat /\ x + k <= node.size
      BY <1>1, <1>5, <1>11
    <3>2. x - g + j - 1 \in Nat /\ x - g + j - 1 < node.size
      BY <3>1
    <3> QED BY <3>2, CellOfNode
  <2>2. C \in [1 .. g + k -> Cells] /\ g + k \in Nat
    BY <1>1, <1>11, <2>1 DEF C
  <2> QED BY <2>2, Tabulated
<1>13. A \o B = C
  <2>1. \A j \in 1 .. Len(A) : A[j] = C[j]
    BY <1>1, <1>8, <1>11 DEF C
  <2>2. \A i \in 1 .. Len(B) : B[i] = C[Len(A) + i]
    <3> SUFFICES ASSUME NEW i \in 1 .. k PROVE B[i] = C[g + i]
      BY <1>11
    <3>1. g + i \in 1 .. g + k
      BY <1>1, <1>11
    <3>2. x - g + (g + i) - 1 = x + i - 1
      BY <1>1, <1>11
    <3> QED BY <1>7, <3>1, <3>2 DEF C
  <2>3. A \in Seq(Cells) /\ B \in Seq(Cells) /\ C \in Seq(Cells) /\ Len(C) = Len(A) + Len(B)
    BY <1>7, <1>8, <1>11, <1>12
  <2> QED BY <2>1, <2>2, <2>3, Joined, Zenon
<1>14. d \in FileCall
  <2>1. x + k \in Nat /\ c.n - k \in Nat /\ c.buffer \o B \in Seq(Cells)
    BY <1>1, <1>5, <1>11, <1>12, <1>13 DEF A
  <2> QED BY <1>9, <2>1 DEF FileCall, x
<1>15. /\ d.at = "read_all" /\ d.offset = x + k /\ d.n = c.n - k /\ d.bytes_read = c.bytes_read
       /\ d.buffer = C /\ d.sectors = <<>>
  BY <1>9, <1>13 DEF FileCall, A, x
<1>16. Got(d) = g + k
  BY <1>1, <1>5, <1>15 DEF Got
<1>17. ReadOK(d, node)
  <2>1. d.n <= d.bytes_read /\ g + k <= d.offset /\ d.offset + d.n <= node.size
    BY <1>1, <1>5, <1>15
  <2>2. C = [j \in 1 .. Got(d) |-> CellOf(node, d.offset - Got(d) + j - 1)]
    <3> DEFINE h == Got(d)
               y == d.offset
    <3>1. h = g + k /\ y = x + k
      BY <1>15, <1>16
    <3> HIDE DEF h, y
    <3>2. \A j \in 1 .. g + k : x - g + j - 1 = y - h + j - 1
      BY <1>1, <1>11, <3>1
    <3>3. C = [j \in 1 .. h |-> CellOf(node, y - h + j - 1)]
      BY <3>1, <3>2 DEF C
    <3> QED BY <3>3 DEF h, y
  <2>3. d.buffer = [j \in 1 .. Got(d) |-> CellOf(node, d.offset - Got(d) + j - 1)]
    BY <1>15, <2>2, Zenon
  <2>4. Got(d) <= d.offset
    BY <1>16, <2>1
  <2>5. d.at # "add" /\ d.at \notin Fetching /\ d.sectors = <<>>
    BY <1>15 DEF Fetching
  <2> QED BY <2>1, <2>3, <2>4, <2>5 DEF ReadOK
<1> QED BY <1>5, <1>14, <1>17

-----------------------------------------------------------------------------
(* The steps *)

LEMMA OpenedNode ==
    ASSUME FileTypes, NEW f \in File, file[f] # Closed
    PROVE  /\ file[f].path \in Opened /\ file[f].node = Found[file[f].path]
           /\ OnDisk(file[f].node) /\ file[f].node.size \in Nat /\ file[f].node.size < Wrap
<1>1. PICK path \in Opened : file[f] = [node |-> Found[path], path |-> path]
  BY DEF FileTypes
<1>2. OnDisk(Found[path])
  BY FilesAssumption DEF Opened
<1>3. Found[path].size \in 0 .. Wrap - 1 /\ Wrap \in Nat
  BY <1>2, FilesAssumption DEF OnDisk
<1> QED BY <1>1, <1>2, <1>3

(* What the invariant says of one call. *)
LEMMA CallFacts ==
    ASSUME FilesInv, NEW p \in Process
    PROVE  /\ call[p] \in FileCall /\ OneReadOK(p, call[p]) /\ OffsetOK(call[p]) /\ RegistersOK(p, call[p])
           /\ call[p].sectors = <<>> => call[p].io = "out"
           /\ call[p].at # "returned" =>
                 /\ call[p].file \in File /\ call[p].file \in Uses[p] /\ file[call[p].file] # Closed
                 /\ OnDisk(CallNode(p)) /\ ReadOK(call[p], CallNode(p))
           /\ call[p].at = "returned" => call[p] = Returned
<1>1. call[p] \in FileCall /\ OneReadOK(p, call[p]) /\ OffsetOK(call[p]) /\ RegistersOK(p, call[p])
  BY DEF FilesInv, FileTypes, ReadsOK, DriveOK
<1>2. call[p].sectors = <<>> => call[p].io = "out"
  BY <1>1 DEF RegistersOK
<1>3. ASSUME call[p].at # "returned"
      PROVE  /\ call[p].file \in File /\ call[p].file \in Uses[p] /\ file[call[p].file] # Closed
             /\ OnDisk(CallNode(p)) /\ ReadOK(call[p], CallNode(p))
  <2>1. /\ call[p].file \in File /\ call[p].file \in Uses[p] /\ file[call[p].file] # Closed
        /\ ReadOK(call[p], CallNode(p))
    BY <1>1, <1>3 DEF OneReadOK, CallNode
  <2> QED BY <2>1, OpenedNode DEF FilesInv, CallNode
<1>4. call[p].at = "returned" => call[p] = Returned
  BY <1>1 DEF OneReadOK
<1> QED BY <1>1, <1>2, <1>3, <1>4

(* A step of one call that leaves the files alone. *)
LEMMA StepOfCall ==
    ASSUME FilesInv, NEW p \in Process, NEW d \in FileCall, call' = [call EXCEPT ![p] = d],
           UNCHANGED files, OneReadOK(p, d), OffsetOK(d)
    PROVE  FileTypes' /\ ReadsOK'
<1>1. file' = file /\ totalOffset' = totalOffset /\ last' = last
  BY DEF files
<1>2. FileTypes'
  BY <1>1 DEF FilesInv, FileTypes
<1>3. ASSUME NEW q \in Process PROVE (OneReadOK(q, call[q]) /\ OffsetOK(call[q]))'
  <2>1. call'[q] = IF q = p THEN d ELSE call[q]
    BY DEF FilesInv, FileTypes
  <2>2. OneReadOK(q, call'[q]) /\ OffsetOK(call'[q])
    BY <2>1 DEF FilesInv, ReadsOK
  <2>3. OneReadOK(q, call[q])'
    BY <1>1, <2>2 DEF OneReadOK
  <2>4. OffsetOK(call[q])'
    BY <1>1, <2>2 DEF OffsetOK, Size
  <2> QED BY <2>3, <2>4
<1> QED BY <1>2, <1>3 DEF ReadsOK

LEMMA DriveKept ==
    ASSUME FilesInv, NEW p \in Process, NEW d, call' = [call EXCEPT ![p] = d],
           UNCHANGED drive, call[p].io = "out", d.io = "out"
    PROVE  DriveOK'
<1>1. ideLock' = ideLock /\ sector' = sector
  BY DEF drive
<1> SUFFICES ASSUME NEW q \in Process PROVE RegistersOK(q, call[q])'
  BY DEF DriveOK
<1>2. call'[q] = (IF q = p THEN d ELSE call[q]) /\ RegistersOK(q, call[q])
  BY DEF FilesInv, FileTypes, DriveOK
<1> QED BY <1>1, <1>2 DEF RegistersOK

(* Both, for a call that goes on with the bytes that it has: k more. *)
LEMMA GoesOn ==
    ASSUME FilesInv, NEW p \in Process, call[p].at # "returned", NEW d \in FileCall,
           ReadOK(d, CallNode(p)), d.at \notin {"returned", "add"}, d.file = call[p].file,
           d.bytes_read = call[p].bytes_read,
           NEW k \in Int, d.n = call[p].n - k, d.offset = call[p].offset + k
    PROVE  OneReadOK(p, d) /\ OffsetOK(d)
<1> DEFINE c == call[p]
<1>1. c \in FileCall /\ OneReadOK(p, c) /\ OffsetOK(c)
  BY CallFacts
<1>2. OneReadOK(p, d)
  BY <1>1 DEF OneReadOK, CallNode
<1>3. ASSUME d.file \in Own PROVE d.offset = totalOffset[d.file] + Got(d)
  <2>1. c.offset = totalOffset[c.file] + Got(c)
    BY <1>1, <1>3 DEF OffsetOK
  <2>2. totalOffset[c.file] \in Nat
    BY <1>3 DEF FilesInv, FileTypes, Own
  <2>3. c.bytes_read \in Nat /\ c.n \in Nat /\ c.offset \in Nat
    BY <1>1 DEF FileCall
  <2> QED BY <2>1, <2>2, <2>3 DEF Got
<1> QED BY <1>1, <1>2, <1>3 DEF OffsetOK

LEMMA ReadSomeKeeps ==
    ASSUME FilesInv, NEW p \in Process, NEW f \in File, NEW n \in Sizes, ReadSome(p, f, n)
    PROVE  FilesInv'
<1> DEFINE k == Least(n, Size(f) - totalOffset[f])
           d == [call[p] EXCEPT !.at = "read_all", !.file = f, !.bytes_read = k,
                                !.offset = totalOffset[f], !.n = k]
<1>1. /\ call[p] = Returned /\ file[f] # Closed /\ f \in Uses[p] /\ totalOffset[f] < Size(f) /\ n > 0
      /\ call' = [call EXCEPT ![p] = d] /\ UNCHANGED files /\ UNCHANGED drive
  BY CallFacts DEF ReadSome, At
<1>2. OnDisk(file[f].node) /\ file[f].node.size \in Nat /\ totalOffset[f] \in Nat /\ n \in Nat
  BY <1>1, OpenedNode, FilesAssumption DEF FilesInv, FileTypes
<1>3. k \in Nat /\ totalOffset[f] + k <= file[f].node.size
  BY <1>1, <1>2 DEF Least, Size
<1> HIDE DEF k
<1>4. /\ d.at = "read_all" /\ d.io = "out" /\ d.file = f /\ d.bytes_read = k /\ d.offset = totalOffset[f]
      /\ d.n = k /\ d.buffer = <<>> /\ d.sectors = <<>> /\ d.temp = <<>>
  BY <1>1 DEF Returned
<1>5. d \in FileCall
  <2>1. call[p] \in FileCall
    BY CallFacts
  <2> QED BY <1>2, <1>3, <2>1 DEF FileCall
<1> HIDE DEF d
<1>6. Got(d) = 0
  BY <1>3, <1>4 DEF Got
<1>7. ReadOK(d, file[f].node)
  <2>1. [j \in 1 .. Got(d) |-> CellOf(file[f].node, d.offset - Got(d) + j - 1)] = <<>>
    BY <1>6
  <2> QED BY <1>2, <1>3, <1>4, <1>6, <2>1 DEF ReadOK, Fetching
<1>8. OneReadOK(p, d)
  BY <1>1, <1>4, <1>7 DEF OneReadOK
<1>9. OffsetOK(d)
  BY <1>2, <1>4, <1>6 DEF OffsetOK, k
<1>10. FileTypes' /\ ReadsOK'
  BY <1>1, <1>5, <1>8, <1>9, StepOfCall
<1>11. DriveOK'
  <2>1. call[p].io = "out"
    BY <1>1 DEF Returned
  <2> QED BY <1>1, <1>4, <2>1, DriveKept
<1> QED BY <1>10, <1>11 DEF FilesInv

(* What AddLoad finds is that everything has been read. *)
LEMMA AllRead ==
    ASSUME FilesInv, NEW p \in Process, At(p, "read_all"),
           call[p].n = 0 \/ call[p].offset >= Size(call[p].file)
    PROVE  call[p].n = 0
<1>1. /\ call[p] \in FileCall /\ OnDisk(CallNode(p)) /\ ReadOK(call[p], CallNode(p))
      /\ CallNode(p).size = Size(call[p].file)
  BY CallFacts DEF At, CallNode, Size
<1>2. call[p].offset + call[p].n <= CallNode(p).size /\ CallNode(p).size \in Nat
  BY <1>1, FilesAssumption DEF ReadOK, OnDisk
<1> QED BY <1>1, <1>2 DEF FileCall

LEMMA AddLoadKeeps ==
    ASSUME FilesInv, NEW p \in Process, AddLoad(p)
    PROVE  FilesInv'
<1> DEFINE c == call[p]
           d == [c EXCEPT !.at = "add", !.loaded = totalOffset[c.file]]
<1>1. /\ c.at = "read_all" /\ c.n = 0 /\ UNCHANGED files /\ UNCHANGED drive
  BY AllRead DEF AddLoad, At
<1>2. /\ c \in FileCall /\ OneReadOK(p, c) /\ OffsetOK(c) /\ c.file \in File /\ c.file \in Uses[p]
      /\ file[c.file] # Closed /\ ReadOK(c, file[c.file].node)
  BY <1>1, CallFacts DEF CallNode
<1>3. call' = [call EXCEPT ![p] = d]
  BY DEF AddLoad, FilesInv, FileTypes
<1>4. c.sectors = <<>> /\ c.io = "out"
  BY <1>1, <1>2, CallFacts DEF ReadOK, Fetching
<1>5. totalOffset[c.file] \in Nat
  BY <1>2 DEF FilesInv, FileTypes
<1>6. d \in FileCall
  BY <1>2, <1>5 DEF FileCall
<1>7. /\ d.at = "add" /\ d.loaded = totalOffset[c.file] /\ d.file = c.file /\ d.n = c.n /\ d.io = c.io
      /\ d.offset = c.offset /\ d.bytes_read = c.bytes_read /\ d.buffer = c.buffer /\ d.sectors = c.sectors
  BY <1>2 DEF FileCall
<1> HIDE DEF c, d
<1>8. Got(d) = Got(c)
  BY <1>7 DEF Got
<1>9. ReadOK(d, file[c.file].node)
  BY <1>1, <1>2, <1>4, <1>7, <1>8 DEF ReadOK, Fetching
<1>10. OneReadOK(p, d)
  BY <1>2, <1>7, <1>9 DEF OneReadOK
<1>11. OffsetOK(d)
  BY <1>2, <1>7, <1>8 DEF OffsetOK
<1>12. FileTypes' /\ ReadsOK'
  BY <1>1, <1>3, <1>6, <1>10, <1>11, StepOfCall
<1>13. DriveOK'
  <2>1. call[p].io = "out" /\ d.io = "out"
    BY <1>4, <1>7 DEF c
  <2> QED BY <1>1, <1>3, <2>1, DriveKept
<1> QED BY <1>12, <1>13 DEF FilesInv

(* NextBlock and GotIndirect: the call begins to fetch. *)
LEMMA FetchKeeps ==
    ASSUME FilesInv, NEW p \in Process, call[p].at # "returned", call[p].sectors = <<>>,
           UNCHANGED files, UNCHANGED drive, NEW label \in Fetching, NEW sectors, Fetch(p, label, sectors),
           NEW d, d = FetchOf(call[p], label, sectors), d \in FileCall, ReadOK(d, CallNode(p))
    PROVE  FilesInv'
<1> DEFINE c == call[p]
<1>1. c \in FileCall /\ c.io = "out"
  BY CallFacts
<1>2. call' = [call EXCEPT ![p] = d]
  BY DEF Fetch, FetchOf, FilesInv, FileTypes
<1>3. /\ d.at = label /\ d.file = c.file /\ d.bytes_read = c.bytes_read /\ d.n = c.n - 0 /\ d.io = c.io
      /\ d.offset = c.offset + 0
  BY <1>1 DEF FetchOf, FileCall
<1>4. OneReadOK(p, d) /\ OffsetOK(d)
  BY <1>3, GoesOn DEF Fetching
<1>5. FileTypes' /\ ReadsOK'
  BY <1>2, <1>4, StepOfCall
<1>6. DriveOK'
  BY <1>1, <1>2, <1>3, DriveKept
<1> QED BY <1>5, <1>6 DEF FilesInv

LEMMA NextBlockKeeps ==
    ASSUME FilesInv, NEW p \in Process, NextBlock(p)
    PROVE  FilesInv'
<1> DEFINE c == call[p]
           index == c.offset \div blockSize
<1>1. c.at = "read_all" /\ c.n > 0 /\ UNCHANGED files /\ UNCHANGED drive
  BY DEF NextBlock, At
<1>2. c \in FileCall /\ OnDisk(CallNode(p)) /\ ReadOK(c, CallNode(p))
  BY <1>1, CallFacts
<1>3. c.sectors = <<>>
  BY <1>1, <1>2 DEF ReadOK, Fetching
<1>4. index \in Int /\ NDirect \in Nat
  <2>1. c.offset \in Nat
    BY <1>2 DEF FileCall
  <2>2. blockSize \in Nat \ {0}
    BY SectorsPerBlock
  <2>3. index \in Nat
    BY <2>1, <2>2, DivFacts
  <2> QED BY <2>3, Ext2Assumption
<1>5. "block" \in Fetching /\ "indirect" \in Fetching
  BY DEF Fetching
<1>6. CASE index < NDirect
  <2> DEFINE b == CallNode(p).direct[index + 1]
  <2>1. Fetch(p, "block", SectorsOf(b))
    BY <1>6 DEF NextBlock
  <2>2. b = BlockNumber(CallNode(p), index)
    BY <1>6 DEF BlockNumber
  <2>3. /\ FetchOf(c, "block", SectorsOf(b)) \in FileCall
        /\ ReadOK(FetchOf(c, "block", SectorsOf(b)), CallNode(p))
    BY <1>1, <1>2, <2>2, DirectOK
  <2> QED BY <1>1, <1>3, <1>5, <2>1, <2>3, FetchKeeps
<1>7. CASE ~(index < NDirect)
  <2> DEFINE s == RefOffset(CallNode(p), index) \div sector_size
  <2>1. Fetch(p, "indirect", <<s>>)
    BY <1>7 DEF NextBlock
  <2>2. index >= NDirect
    BY <1>4, <1>7
  <2>3. /\ FetchOf(c, "indirect", <<s>>) \in FileCall
        /\ ReadOK(FetchOf(c, "indirect", <<s>>), CallNode(p))
    BY <1>1, <1>2, <2>2, IndirectOK
  <2> QED BY <1>1, <1>3, <1>5, <2>1, <2>3, FetchKeeps
<1> QED BY <1>6, <1>7

LEMMA GotIndirectKeeps ==
    ASSUME FilesInv, NEW p \in Process, GotIndirect(p)
    PROVE  FilesInv'
<1> DEFINE c == call[p]
           ref == RefOffset(CallNode(p), c.offset \div blockSize)
           sectors == SectorsOf(c.temp[(ref % sector_size) + 1])
<1>1. c.at = "indirect" /\ c.sectors = <<>> /\ UNCHANGED files /\ UNCHANGED drive
  BY DEF GotIndirect, At
<1>2. c \in FileCall /\ OnDisk(CallNode(p)) /\ ReadOK(c, CallNode(p))
  BY <1>1, CallFacts
<1>3. Fetch(p, "block", sectors)
  BY DEF GotIndirect
<1>4. FetchOf(c, "block", sectors) \in FileCall /\ ReadOK(FetchOf(c, "block", sectors), CallNode(p))
  BY <1>1, <1>2, GotIndirectOK
<1>5. "block" \in Fetching
  BY DEF Fetching
<1> QED BY <1>1, <1>3, <1>4, <1>5, FetchKeeps

LEMMA GotBlockKeeps ==
    ASSUME FilesInv, NEW p \in Process, GotBlock(p)
    PROVE  FilesInv'
<1> DEFINE c == call[p]
           k == PieceSize(CallNode(p).size, blockSize, c.offset, c.n)
           d == [c EXCEPT !.at = "read_all", !.offset = @ + k, !.n = @ - k,
                          !.buffer = @ \o Piece(c.temp, blockSize, c.offset, k)]
<1>1. /\ c.at = "block" /\ c.sectors = <<>> /\ UNCHANGED files /\ UNCHANGED drive
      /\ call' = [call EXCEPT ![p] = d]
  BY DEF GotBlock, At
<1>2. c \in FileCall /\ OnDisk(CallNode(p)) /\ ReadOK(c, CallNode(p)) /\ c.io = "out"
  BY <1>1, CallFacts
<1> HIDE DEF k
<1>3. k \in 1 .. c.n /\ d \in FileCall /\ ReadOK(d, CallNode(p))
  BY <1>1, <1>2, GotBlockOK DEF k
<1>4. /\ d.at = "read_all" /\ d.file = c.file /\ d.bytes_read = c.bytes_read /\ d.n = c.n - k
      /\ d.offset = c.offset + k /\ d.io = c.io
  BY <1>2 DEF FileCall
<1>5. k \in Int
  BY <1>3
<1> HIDE DEF d
<1>6. OneReadOK(p, d) /\ OffsetOK(d)
  BY <1>1, <1>3, <1>4, <1>5, GoesOn
<1>7. FileTypes' /\ ReadsOK'
  BY <1>1, <1>3, <1>6, StepOfCall
<1>8. DriveOK'
  BY <1>1, <1>2, <1>4, DriveKept
<1> QED BY <1>7, <1>8 DEF FilesInv

(* The steps of Ide::read_block(): the file's side of a call stays.        *)
LEMMA RegistersMove ==
    ASSUME FilesInv, NEW p \in Process, call[p].sectors # <<>>, UNCHANGED files,
           NEW io \in {"out", "registers", "command", "data"},
           NEW d, d = [call[p] EXCEPT !.io = io], call' = [call EXCEPT ![p] = d]
    PROVE  /\ FileTypes' /\ ReadsOK'
           /\ call'[p].io = io /\ call'[p].sectors = call[p].sectors
<1> DEFINE c == call[p]
<1>1. c.at # "returned"
  BY CallFacts DEF Returned
<1>2. c \in FileCall /\ ReadOK(c, CallNode(p))
  BY <1>1, CallFacts
<1>3. d \in FileCall
  BY <1>2 DEF FileCall
<1>4. /\ d.at = c.at /\ d.file = c.file /\ d.bytes_read = c.bytes_read /\ d.n = c.n - 0
      /\ d.offset = c.offset + 0 /\ d.io = io /\ d.sectors = c.sectors
      /\ d.n = c.n /\ d.offset = c.offset /\ d.temp = c.temp /\ d.buffer = c.buffer
  BY <1>2 DEF FileCall
<1> HIDE DEF c
<1>5. ReadOK(d, CallNode(p))
  <2>1. Got(d) = Got(c) /\ Wanted(d) = Wanted(c) /\ FirstWanted(d, CallNode(p)) = FirstWanted(c, CallNode(p))
    BY <1>4 DEF Got, Wanted, FirstWanted
  <2>2. \A m : Fetched(c, CallNode(p), m) => Fetched(d, CallNode(p), m)
    BY <1>4, <2>1 DEF Fetched
  <2> QED BY <1>2, <1>4, <2>1, <2>2 DEF ReadOK
<1>6. d.at \notin {"returned", "add"}
  <2>1. c.sectors # <<>>
    BY DEF c
  <2> QED BY <1>1, <1>2, <1>4, <2>1 DEF ReadOK, Fetching
<1>7. OneReadOK(p, d) /\ OffsetOK(d)
  <2>1. d.file = call[p].file /\ d.bytes_read = call[p].bytes_read /\ d.n = call[p].n - 0
        /\ d.offset = call[p].offset + 0 /\ call[p].at # "returned"
    BY <1>1, <1>4 DEF c
  <2>2. 0 \in Int
    OBVIOUS
  <2> QED BY <1>3, <1>5, <1>6, <2>1, <2>2, GoesOn, Zenon
<1>8. FileTypes' /\ ReadsOK'
  BY <1>3, <1>7, StepOfCall
<1>9. call'[p] = d
  BY DEF FilesInv, FileTypes
<1> QED BY <1>4, <1>8, <1>9 DEF c

(* The drive's side: the registers are p's, before the step or after it.   *)
LEMMA RegistersOf ==
    ASSUME FilesInv, NEW p \in Process, NEW d, call' = [call EXCEPT ![p] = d], RegistersOK(p, call[p])',
           \A q \in Process \ {p} : ideLock # q /\ ideLock' # q
    PROVE  DriveOK'
<1> SUFFICES ASSUME NEW q \in Process PROVE RegistersOK(q, call[q])'
  BY DEF DriveOK
<1>1. call'[q] = IF q = p THEN d ELSE call[q]
  BY DEF FilesInv, FileTypes
<1>2. CASE q = p
  BY <1>2
<1>3. CASE q # p
  <2>1. RegistersOK(q, call[q]) /\ ideLock # q /\ ideLock' # q
    BY <1>3 DEF FilesInv, DriveOK
  <2>2. call[q].io = "out"
    BY <2>1 DEF RegistersOK
  <2> QED BY <1>1, <1>3, <2>1, <2>2 DEF RegistersOK
<1> QED BY <1>2, <1>3

LEMMA LockDriveKeeps ==
    ASSUME FilesInv, NEW p \in Process, LockDrive(p)
    PROVE  FilesInv'
<1> DEFINE d == [call[p] EXCEPT !.io = "registers"]
<1>1. /\ call[p].sectors # <<>> /\ ideLock = NoProcess /\ ideLock' = p /\ UNCHANGED files
      /\ call' = [call EXCEPT ![p] = d]
  BY DEF LockDrive, FilesInv, FileTypes
<1> HIDE DEF d
<1>2. FileTypes' /\ ReadsOK' /\ call'[p].io = "registers" /\ call'[p].sectors = call[p].sectors
  BY <1>1, RegistersMove DEF d
<1>3. RegistersOK(p, call[p])'
  BY <1>1, <1>2 DEF RegistersOK
<1>4. \A q \in Process \ {p} : ideLock # q /\ ideLock' # q
  BY <1>1, FilesAssumption
<1>5. DriveOK'
  BY <1>1, <1>3, <1>4, RegistersOf
<1> QED BY <1>2, <1>5 DEF FilesInv

(* A call that is at the registers holds the lock. *)
LEMMA HoldsDrive ==
    ASSUME FilesInv, NEW p \in Process, call[p].io # "out"
    PROVE  ideLock = p /\ call[p].sectors # <<>> /\ \A q \in Process \ {p} : ideLock # q
BY CallFacts DEF RegistersOK

LEMMA WriteRegistersKeeps ==
    ASSUME FilesInv, NEW p \in Process, WriteRegisters(p)
    PROVE  FilesInv'
<1> DEFINE d == [call[p] EXCEPT !.io = "command"]
<1>1. /\ call[p].io # "out" /\ ideLock' = ideLock /\ sector' = Head(call[p].sectors) /\ UNCHANGED files
      /\ call' = [call EXCEPT ![p] = d]
  BY DEF WriteRegisters, FilesInv, FileTypes
<1> HIDE DEF d
<1>2. ideLock = p /\ call[p].sectors # <<>> /\ \A q \in Process \ {p} : ideLock # q
  BY <1>1, HoldsDrive
<1>3. FileTypes' /\ ReadsOK' /\ call'[p].io = "command" /\ call'[p].sectors = call[p].sectors
  BY <1>1, <1>2, RegistersMove DEF d
<1>4. RegistersOK(p, call[p])'
  BY <1>1, <1>2, <1>3 DEF RegistersOK
<1>5. DriveOK'
  BY <1>1, <1>2, <1>4, RegistersOf
<1> QED BY <1>3, <1>5 DEF FilesInv

LEMMA CommandKeeps ==
    ASSUME FilesInv, NEW p \in Process, Command(p)
    PROVE  FilesInv'
<1> DEFINE d == [call[p] EXCEPT !.io = "data"]
<1>1. /\ call[p].io = "command" /\ ideLock' = ideLock /\ sector' = sector /\ UNCHANGED files
      /\ call' = [call EXCEPT ![p] = d]
  BY DEF Command, FilesInv, FileTypes
<1> HIDE DEF d
<1>2. /\ ideLock = p /\ call[p].sectors # <<>> /\ \A q \in Process \ {p} : ideLock # q
      /\ sector = Head(call[p].sectors)
  BY <1>1, HoldsDrive, CallFacts DEF RegistersOK
<1>3. FileTypes' /\ ReadsOK' /\ call'[p].io = "data" /\ call'[p].sectors = call[p].sectors
  BY <1>1, <1>2, RegistersMove DEF d
<1>4. RegistersOK(p, call[p])'
  BY <1>1, <1>2, <1>3 DEF RegistersOK
<1>5. DriveOK'
  BY <1>1, <1>2, <1>4, RegistersOf
<1> QED BY <1>3, <1>5 DEF FilesInv

LEMMA TransferKeeps ==
    ASSUME FilesInv, NEW p \in Process, Transfer(p)
    PROVE  FilesInv'
<1> DEFINE c == call[p]
           d == [c EXCEPT !.io = "out", !.sectors = Tail(@), !.temp = @ \o Sector(Head(c.sectors))]
<1>1. /\ c.io = "data" /\ ideLock' = NoProcess /\ UNCHANGED files
      /\ call' = [call EXCEPT ![p].io = "out", ![p].sectors = Tail(@), ![p].temp = @ \o Sector(sector)]
  BY DEF Transfer
<1>2. /\ ideLock = p /\ c.sectors # <<>> /\ \A q \in Process \ {p} : ideLock # q
      /\ sector = Head(c.sectors)
  BY <1>1, HoldsDrive, CallFacts DEF RegistersOK
<1>3. call' = [call EXCEPT ![p] = d]
  BY <1>1, <1>2 DEF FilesInv, FileTypes
<1>4. c.at # "returned"
  BY <1>2, CallFacts DEF Returned
<1>5. c \in FileCall /\ OnDisk(CallNode(p)) /\ ReadOK(c, CallNode(p))
  BY <1>4, CallFacts
<1>6. d \in FileCall /\ ReadOK(d, CallNode(p))
  BY <1>2, <1>5, TransferOK
<1>7. /\ d.at = c.at /\ d.file = c.file /\ d.bytes_read = c.bytes_read /\ d.n = c.n - 0
      /\ d.offset = c.offset + 0 /\ d.io = "out"
  BY <1>5 DEF FileCall
<1>8. d.at \notin {"returned", "add"}
  BY <1>2, <1>4, <1>5, <1>7 DEF ReadOK, Fetching
<1> HIDE DEF d
<1>9. OneReadOK(p, d) /\ OffsetOK(d)
  BY <1>4, <1>6, <1>7, <1>8, GoesOn
<1>10. FileTypes' /\ ReadsOK'
  BY <1>1, <1>3, <1>6, <1>9, StepOfCall
<1>11. RegistersOK(p, call[p])'
  <2>1. call'[p].io = "out"
    BY <1>3, <1>7 DEF FilesInv, FileTypes
  <2> QED BY <1>1, <2>1, FilesAssumption DEF RegistersOK
<1>12. DriveOK'
  <2>1. \A q \in Process \ {p} : ideLock # q /\ ideLock' # q
    BY <1>1, <1>2, FilesAssumption
  <2> QED BY <1>3, <1>11, <2>1, RegistersOf
<1> QED BY <1>10, <1>12 DEF FilesInv

LEMMA DriveReadyKeeps == ASSUME FilesInv, DriveReady PROVE FilesInv'
<1>1. /\ file' = file /\ totalOffset' = totalOffset /\ last' = last /\ call' = call
      /\ ideLock' = ideLock /\ sector' = sector
  BY DEF DriveReady, files
<1>2. FileTypes' /\ ReadsOK'
  BY <1>1 DEF FilesInv, FileTypes, ReadsOK, OneReadOK, OffsetOK, Size
<1>3. DriveOK'
  BY <1>1 DEF FilesInv, DriveOK, RegistersOK
<1> QED BY <1>2, <1>3 DEF FilesInv

(* A file that one process has for itself: only its own call is in it.     *)
LEMMA OnlyUser ==
    ASSUME FilesInv, NEW p \in Process, NEW f \in Uses[p], NEW q \in Process, call[q].file = f, f \in File
    PROVE  call[q].at # "returned" /\ (f \in Own => q = p)
<1>1. call[q].at # "returned"
  BY CallFacts, FilesAssumption DEF Returned
<1>2. f \in Uses[q]
  BY <1>1, CallFacts
<1> QED BY <1>1, <1>2 DEF Own

LEMMA KeptType ==
    ASSUME FileTypes, NEW f, NEW bytes \in Seq(Cells), Kept(f, bytes)
    PROVE  last' \in [Own -> Seq(Cells)]
BY DEF FileTypes, Kept

(* A step on one file that no read() is in, or that leaves what they need. *)
LEMMA StepOfFile ==
    ASSUME FilesInv, NEW f \in File, UNCHANGED call, UNCHANGED drive, FileTypes',
           \A g \in File \ {f} : file'[g] = file[g] /\ totalOffset'[g] = totalOffset[g],
           \A q \in Process : call[q].file = f =>
               file'[f] = file[f] /\ (f \in Own => totalOffset'[f] = totalOffset[f])
    PROVE  FilesInv'
<1>1. call' = call /\ ideLock' = ideLock /\ sector' = sector
  BY DEF drive
<1>2. DriveOK'
  BY <1>1 DEF FilesInv, DriveOK, RegistersOK
<1>3. ASSUME NEW q \in Process PROVE (OneReadOK(q, call[q]) /\ OffsetOK(call[q]))'
  <2>1. OneReadOK(q, call[q]) /\ OffsetOK(call[q])
    BY CallFacts
  <2>2. call[q].file \in File =>
            /\ file'[call[q].file] = file[call[q].file]
            /\ call[q].file \in Own => totalOffset'[call[q].file] = totalOffset[call[q].file]
    OBVIOUS
  <2>3. call[q].file \in Own => call[q].file \in File
    BY DEF Own
  <2>4. OneReadOK(q, call[q])'
    BY <1>1, <2>1, <2>2 DEF OneReadOK
  <2>5. OffsetOK(call[q])'
    BY <1>1, <2>1, <2>2, <2>3 DEF OffsetOK, Size
  <2> QED BY <2>4, <2>5
<1> QED BY <1>2, <1>3 DEF FilesInv, ReadsOK

LEMMA OpenKeeps ==
    ASSUME FilesInv, NEW p \in Process, NEW f \in File, NEW path \in Paths, Open(p, f, path)
    PROVE  FilesInv'
<1>1. /\ file[f] = Closed /\ UNCHANGED call /\ UNCHANGED drive /\ path \in Opened
      /\ file' = [file EXCEPT ![f] = [node |-> Found[path], path |-> path]]
      /\ totalOffset' = [totalOffset EXCEPT ![f] = 0] /\ Kept(f, <<>>)
  BY DEF Open, Opened
<1>2. FileTypes'
  <2>1. last' \in [Own -> Seq(Cells)]
    <3>1. <<>> \in Seq(Cells)
      OBVIOUS
    <3> QED BY <1>1, <3>1, KeptType DEF FilesInv
  <2> QED BY <1>1, <2>1 DEF FilesInv, FileTypes
<1>3. ASSUME NEW q \in Process PROVE call[q].file # f
  BY <1>1, CallFacts, FilesAssumption DEF Returned
<1>4. \A g \in File \ {f} : file'[g] = file[g] /\ totalOffset'[g] = totalOffset[g]
  BY <1>1 DEF FilesInv, FileTypes
<1> QED BY <1>1, <1>2, <1>3, <1>4, StepOfFile

LEMMA CloseKeeps ==
    ASSUME FilesInv, NEW p \in Process, NEW f \in File, Close(p, f)
    PROVE  FilesInv'
<1>1. /\ \A q \in Process : call[q].file # f
      /\ UNCHANGED call /\ UNCHANGED drive /\ file' = [file EXCEPT ![f] = Closed]
      /\ totalOffset' = totalOffset /\ last' = last
  BY DEF Close, InUse
<1>2. FileTypes'
  BY <1>1 DEF FilesInv, FileTypes
<1>3. \A g \in File \ {f} : file'[g] = file[g] /\ totalOffset'[g] = totalOffset[g]
  BY <1>1 DEF FilesInv, FileTypes
<1> QED BY <1>1, <1>2, <1>3, StepOfFile

LEMMA SeekKeeps ==
    ASSUME FilesInv, NEW p \in Process, NEW f \in File, NEW offset \in Seeks, Seek(p, f, offset)
    PROVE  FilesInv'
<1>1. /\ call[p].at = "returned" /\ f \in Uses[p]
      /\ UNCHANGED call /\ UNCHANGED drive /\ totalOffset' = [totalOffset EXCEPT ![f] = offset]
      /\ file' = file /\ last' = last
  BY DEF Seek, At
<1>2. FileTypes'
  BY <1>1, FilesAssumption DEF FilesInv, FileTypes
<1>3. \A g \in File \ {f} : file'[g] = file[g] /\ totalOffset'[g] = totalOffset[g]
  BY <1>1 DEF FilesInv, FileTypes
<1>4. ASSUME NEW q \in Process, call[q].file = f PROVE f \notin Own
  BY <1>1, <1>4, OnlyUser
<1> QED BY <1>1, <1>2, <1>3, <1>4, StepOfFile

LEMMA ReadNothingKeeps ==
    ASSUME FilesInv, NEW p \in Process, NEW f \in File, NEW n \in Sizes, ReadNothing(p, f, n)
    PROVE  FilesInv'
<1>1. UNCHANGED call /\ UNCHANGED drive /\ file' = file /\ totalOffset' = totalOffset /\ Kept(f, <<>>)
  BY DEF ReadNothing
<1>2. FileTypes'
  <2>1. last' \in [Own -> Seq(Cells)]
    <3>1. <<>> \in Seq(Cells)
      OBVIOUS
    <3> QED BY <1>1, <3>1, KeptType DEF FilesInv
  <2> QED BY <1>1, <2>1 DEF FilesInv, FileTypes
<1> QED BY <1>1, <1>2, StepOfFile

LEMMA AddStoreKeeps ==
    ASSUME FilesInv, NEW p \in Process, AddStore(p)
    PROVE  FilesInv'
<1> DEFINE c == call[p]
           f == c.file
           sum == (c.loaded + c.bytes_read) % Wrap
<1>1. /\ c.at = "add" /\ file' = file /\ UNCHANGED drive /\ Kept(f, c.buffer)
      /\ totalOffset' = [totalOffset EXCEPT ![f] = sum] /\ call' = [call EXCEPT ![p] = Returned]
  BY DEF AddStore, At
<1>2. c \in FileCall /\ f \in File /\ f \in Uses[p] /\ ReadOK(c, CallNode(p)) /\ file[f] # Closed
  BY <1>1, CallFacts
<1>3. c.sectors = <<>> /\ c.io = "out"
  <2>1. c.sectors = <<>>
    BY <1>1, <1>2 DEF ReadOK, Fetching
  <2> QED BY <2>1, CallFacts
<1>4. sum \in Nat
  <2>1. file[f].node.size < Wrap /\ file[f].node.size \in Nat /\ Wrap \in Nat
    BY <1>2, OpenedNode, FilesAssumption DEF FilesInv
  <2>2. Wrap \in Nat \ {0} /\ c.loaded + c.bytes_read \in Nat
    BY <1>2, <2>1 DEF FileCall
  <2> QED BY <2>2, DivFacts
<1> HIDE DEF sum
<1>5. Returned \in FileCall
  BY DEF Returned, FileCall
<1>6. FileTypes'
  <2>1. last' \in [Own -> Seq(Cells)]
    <3>1. c.buffer \in Seq(Cells)
      BY <1>2 DEF FileCall
    <3> QED BY <1>1, <3>1, KeptType DEF FilesInv
  <2>2. file' = file /\ call' \in [Process -> FileCall] /\ totalOffset' \in [File -> Nat]
    BY <1>1, <1>2, <1>4, <1>5 DEF FilesInv, FileTypes
  <2> QED BY <2>1, <2>2 DEF FilesInv, FileTypes
<1>7. DriveOK'
  <2>1. Returned.io = "out"
    BY DEF Returned
  <2> QED BY <1>1, <1>3, <2>1, DriveKept
<1>8. ASSUME NEW q \in Process PROVE (OneReadOK(q, call[q]) /\ OffsetOK(call[q]))'
  <2>1. CASE q = p
    <3>1. call'[q] = Returned /\ Returned.at = "returned" /\ Returned.file \notin Own
      BY <1>1, <2>1, FilesAssumption DEF FilesInv, FileTypes, Returned, Own
    <3> QED BY <3>1 DEF OneReadOK, OffsetOK
  <2>2. CASE q # p
    <3>1. call'[q] = call[q] /\ OneReadOK(q, call[q]) /\ OffsetOK(call[q])
      BY <1>1, <2>2, CallFacts DEF FilesInv, FileTypes
    <3>2. OneReadOK(q, call[q])'
      BY <1>1, <3>1 DEF OneReadOK
    <3>3. ASSUME call[q].file \in Own PROVE totalOffset'[call[q].file] = totalOffset[call[q].file]
      <4>1. call[q].file # f
        BY <1>2, <2>2, <3>3, OnlyUser
      <4> QED BY <1>1, <4>1, <3>3 DEF FilesInv, FileTypes, Own
    <3>4. OffsetOK(call[q])'
      BY <1>1, <3>1, <3>3 DEF OffsetOK, Size
    <3> QED BY <3>2, <3>4
  <2> QED BY <2>1, <2>2
<1> QED BY <1>6, <1>7, <1>8 DEF FilesInv, ReadsOK

LEMMA StutterKeeps == ASSUME FilesInv, UNCHANGED filesVars PROVE FilesInv'
<1>1. /\ file' = file /\ totalOffset' = totalOffset /\ last' = last /\ call' = call
      /\ ideLock' = ideLock /\ sector' = sector
  BY DEF filesVars
<1>2. FileTypes' /\ ReadsOK'
  BY <1>1 DEF FilesInv, FileTypes, ReadsOK, OneReadOK, OffsetOK, Size
<1>3. DriveOK'
  BY <1>1 DEF FilesInv, DriveOK, RegistersOK
<1> QED BY <1>2, <1>3 DEF FilesInv

LEMMA FilesInvStarts == FilesInit => FilesInv
<1> SUFFICES ASSUME FilesInit PROVE FilesInv
  OBVIOUS
<1>1. Returned \in FileCall
  BY DEF Returned, FileCall
<1>2. FileTypes
  BY <1>1 DEF FilesInit, FileTypes
<1>3. \A p \in Process : call[p] = Returned
  BY DEF FilesInit
<1>4. Returned.at = "returned" /\ Returned.file \notin Own /\ Returned.io = "out"
  BY FilesAssumption DEF Returned, Own
<1>5. ReadsOK
  BY <1>3, <1>4 DEF ReadsOK, OneReadOK, OffsetOK
<1>6. DriveOK
  BY <1>3, <1>4, FilesAssumption DEF DriveOK, RegistersOK, FilesInit
<1> QED BY <1>2, <1>5, <1>6 DEF FilesInv

LEMMA FilesInvStep == FilesInv /\ [FilesNext]_filesVars => FilesInv'
<1> SUFFICES ASSUME FilesInv, [FilesNext]_filesVars PROVE FilesInv'
  OBVIOUS
<1>1. CASE UNCHANGED filesVars
  BY <1>1, StutterKeeps
<1>2. CASE DriveReady
  BY <1>2, DriveReadyKeeps
<1>3. ASSUME NEW p \in Process, OfCall(p) PROVE FilesInv'
  BY <1>3, NextBlockKeeps, GotIndirectKeeps, GotBlockKeeps, AddLoadKeeps, AddStoreKeeps,
     LockDriveKeeps, WriteRegistersKeeps, CommandKeeps, TransferKeeps DEF OfCall
<1>4. ASSUME NEW p \in Process, NEW f \in File, OfFile(p, f) PROVE FilesInv'
  BY <1>4, OpenKeeps, CloseKeeps, SeekKeeps, ReadNothingKeeps, ReadSomeKeeps DEF OfFile
<1> QED BY <1>1, <1>2, <1>3, <1>4 DEF FilesNext

LEMMA FilesInvHolds == FilesSpec => []FilesInv
BY FilesInvStarts, FilesInvStep, PTL DEF FilesSpec

-----------------------------------------------------------------------------
(* What the processes get *)

LEMMA ContentSeq ==
    ASSUME NEW node, OnDisk(node)
    PROVE  Content(node) \in Seq(Cells) /\ Len(Content(node)) = node.size
<1>1. node.size \in Nat
  BY FilesAssumption DEF OnDisk
<1>2. \A j \in 1 .. node.size : CellOf(node, j - 1) \in Cells
  <2> SUFFICES ASSUME NEW j \in 1 .. node.size PROVE CellOf(node, j - 1) \in Cells
    OBVIOUS
  <2>1. j - 1 \in Nat /\ j - 1 < node.size
    BY <1>1
  <2> QED BY <2>1, CellOfNode
<1>3. Content(node) \in [1 .. node.size -> Cells]
  BY <1>2 DEF Content
<1> QED BY <1>1, <1>3, Tabulated

(* A piece of it. *)
LEMMA ContentPiece ==
    ASSUME NEW node, OnDisk(node), NEW r \in Nat, NEW k \in Nat, r + k <= node.size
    PROVE  SubSeq(Content(node), r + 1, r + k) = [i \in 1 .. k |-> CellOf(node, r + i - 1)]
<1>1. Content(node) \in Seq(Cells) /\ Len(Content(node)) = node.size /\ node.size \in Nat
  BY ContentSeq, FilesAssumption DEF OnDisk
<1>2. SubSeq(Content(node), r + 1, r + k) = [i \in 1 .. k |-> Content(node)[r + i]]
  <2>1. \A s \in Seq(Cells) : \A x, y \in Nat : x + y <= Len(s) =>
           SubSeq(s, x + 1, x + y) = [i \in 1 .. y |-> s[x + i]]
    BY SubSeqValue
  <2>2. r + k <= Len(Content(node))
    BY <1>1
  <2> QED BY <1>1, <2>1, <2>2
<1>3. \A i \in 1 .. k : Content(node)[r + i] = CellOf(node, r + i - 1)
  <2> SUFFICES ASSUME NEW i \in 1 .. k PROVE Content(node)[r + i] = CellOf(node, r + i - 1)
    OBVIOUS
  <2>1. r + i \in 1 .. node.size /\ (r + i) - 1 = r + i - 1
    BY <1>1
  <2> QED BY <2>1 DEF Content
<1> QED BY <1>2, <1>3

LEMMA BufferIsPiece ==
    ASSUME NEW c \in FileCall, NEW node, OnDisk(node), ReadOK(c, node)
    PROVE  /\ Got(c) \in Nat /\ Len(c.buffer) = Got(c)
           /\ c.buffer = SubSeq(Content(node), c.offset - Got(c) + 1, c.offset)
<1> DEFINE g == Got(c)
           r == c.offset - g
<1>1. /\ c.offset \in Nat /\ c.n \in Nat /\ c.bytes_read \in Nat /\ node.size \in Nat
      /\ c.offset + c.n <= node.size /\ c.n <= c.bytes_read /\ g <= c.offset /\ g = c.bytes_read - c.n
  BY FilesAssumption DEF FileCall, OnDisk, ReadOK, Got
<1>2. g \in Nat /\ r \in Nat /\ r + g = c.offset /\ r + g <= node.size
  BY <1>1
<1>3. c.buffer = [i \in 1 .. g |-> CellOf(node, r + i - 1)] /\ c.buffer \in Seq(Cells)
  BY DEF ReadOK, FileCall
<1> HIDE DEF g, r
<1>4. Len(c.buffer) = g
  BY <1>2, <1>3
<1>5. c.buffer = SubSeq(Content(node), r + 1, r + g)
  <2>1. \A x, k \in Nat : x + k <= node.size =>
           SubSeq(Content(node), x + 1, x + k) = [i \in 1 .. k |-> CellOf(node, x + i - 1)]
    BY ContentPiece
  <2> QED BY <1>2, <1>3, <2>1
<1> QED BY <1>2, <1>4, <1>5 DEF g, r

(* Lookup and image agree about what is open. *)
LEMMA OpenedContent ==
    ASSUME AllRightlyFound, NEW path \in Opened
    PROVE  /\ NamedBy[path] \in DOMAIN Image.bytes /\ NamedBy[path] # Closed
           /\ Image.bytes[NamedBy[path]] = Content(Found[path])
<1>1. path \in AllPaths /\ OnDisk(Found[path]) /\ Found[path] \notin Missing
  BY FilesAssumption DEF Opened
<1>2. NamedBy[path] = NamedFile(path)
  BY <1>1 DEF NamedBy
<1> DEFINE found == [node |-> Found[path], number |-> NamedFile(path)]
<1>3. found \in LookedUp
  BY <1>1 DEF LookedUp
<1>4. RightlyFound(found) /\ found.node = Found[path] /\ found.number = NamedBy[path]
  BY <1>2, <1>3 DEF AllRightlyFound
<1> HIDE DEF found
<1>5. NamedBy[path] \in Int /\ (NamedBy[path] > 0 => NamedBy[path] \in DOMAIN Image.bytes)
  BY <1>1, ImageAssumption
<1>6. NamedBy[path] > 0
  <2> SUFFICES ASSUME ~(NamedBy[path] > 0) PROVE FALSE
    OBVIOUS
  <2>1. CASE found.number = 0
    <3>1. found.node = NoNode
      BY <1>4, <2>1 DEF RightlyFound
    <3> QED BY <1>1, <1>4, <3>1 DEF Missing
  <2>2. CASE found.number < 0
    <3>1. found.number # 0
      BY <1>4, <1>5, <2>2
    <3>2. found.node = IF found.number = -1 THEN Panic ELSE Fault
      BY <1>4, <2>2, <3>1 DEF RightlyFound
    <3> QED BY <1>1, <1>4, <3>2 DEF Missing
  <2> QED BY <1>4, <1>5, <2>1, <2>2
<1>7. NodeReadAll(Found[path], 0, Found[path].size) = Image.bytes[NamedBy[path]]
  <2>1. found.number # 0 /\ ~(found.number < 0) /\ found.number > 0
    BY <1>4, <1>5, <1>6
  <2> QED BY <1>4, <2>1 DEF RightlyFound
<1> QED BY <1>1, <1>5, <1>6, <1>7, NodeContent, ImageAssumption

LEMMA FileContent ==
    ASSUME AllRightlyFound, FileTypes, NEW f \in File, file[f] # Closed
    PROVE  /\ Image.bytes[NamedBy[file[f].path]] = Content(file[f].node)
           /\ NamedBy[file[f].path] # Closed
BY OpenedNode, OpenedContent

LEMMA InvReadsContent == ASSUME AllRightlyFound, FilesInv PROVE ReadsContent
<1> SUFFICES ASSUME NEW p \in Process, call[p].file # Closed
             PROVE  LET c == call[p]
                        bytes == Image.bytes[NamedBy[file[c.file].path]]
                    IN  /\ c.buffer = SubSeq(bytes, c.offset - Len(c.buffer) + 1, c.offset)
                        /\ At(p, "add") => Len(c.buffer) = c.bytes_read
                        /\ c.n > 0 => BlockInBounds(CallNode(p), c.offset \div blockSize)
  BY DEF ReadsContent
<1> DEFINE c == call[p]
<1>1. c.at # "returned"
  BY CallFacts DEF Returned
<1>2. /\ c \in FileCall /\ c.file \in File /\ file[c.file] # Closed
      /\ OnDisk(CallNode(p)) /\ ReadOK(c, CallNode(p))
  BY <1>1, CallFacts
<1>3. Image.bytes[NamedBy[file[c.file].path]] = Content(CallNode(p))
  BY <1>2, FileContent DEF FilesInv, CallNode
<1>4. c.buffer = SubSeq(Content(CallNode(p)), c.offset - Len(c.buffer) + 1, c.offset) /\ Len(c.buffer) = Got(c)
  BY <1>2, BufferIsPiece
<1>5. c.at = "add" => Got(c) = c.bytes_read
  BY <1>2 DEF ReadOK, Got, FileCall
<1>6. ASSUME c.n > 0 PROVE BlockInBounds(CallNode(p), c.offset \div blockSize)
  <2>1. c.offset \in Nat /\ c.n \in Nat /\ CallNode(p).size \in Nat /\ c.offset + c.n <= CallNode(p).size
    BY <1>2, FilesAssumption DEF FileCall, OnDisk, ReadOK
  <2>2. c.offset < CallNode(p).size
    BY <1>6, <2>1
  <2> QED BY <1>2, <2>1, <2>2, BlockFacts
<1> QED BY <1>3, <1>4, <1>5, <1>6 DEF At

(* On a disk on which every path is found as its image says, a read()      *)
(* (file_ext.h:27) puts a piece of the file into its buffer, as long as    *)
(* what it returns, whatever the other processes do with the drive         *)
(* (ide.cc:63) or with the same file meanwhile, and keeps to the block     *)
(* numbers that Node::read_block() asserts (ext2.cc:138).                  *)
THEOREM ReadsFromDisk == ASSUME AllRightlyFound PROVE FilesSpec => []ReadsContent
<1>1. FilesInv => ReadsContent
  BY InvReadsContent
<1> QED BY <1>1, FilesInvHolds, PTL

-----------------------------------------------------------------------------
(* A read() of a process that has the file for itself happens at once. *)

AbstractNode == [f \in Own |-> IF file[f] = Closed THEN Closed ELSE NamedBy[file[f].path]]

LEMMA AbstractKept ==
    ASSUME file' = file, totalOffset' = totalOffset, last' = last
    PROVE  UNCHANGED Abstract!FileVars
BY DEF Abstract!FileVars, OfOwn

(* A step on a file that is shared is not seen. *)
LEMMA SharedUnseen ==
    ASSUME NEW f, f \notin Own, last' = last,
           \A g \in Own : g # f => file'[g] = file[g] /\ totalOffset'[g] = totalOffset[g]
    PROVE  UNCHANGED Abstract!FileVars
<1>1. \A g \in Own : file'[g] = file[g] /\ totalOffset'[g] = totalOffset[g]
  OBVIOUS
<1>2. AbstractNode' = AbstractNode
  BY <1>1 DEF AbstractNode
<1>3. OfOwn(totalOffset)' = OfOwn(totalOffset)
  BY <1>1 DEF OfOwn
<1> QED BY <1>2, <1>3 DEF Abstract!FileVars, AbstractNode

LEMMA AbstractOpen ==
    ASSUME AllRightlyFound, FilesInv, NEW p \in Process, NEW f \in Own, NEW path \in Paths, Open(p, f, path)
    PROVE  Abstract!Open(f)
<1>1. /\ f \in File /\ file[f] = Closed /\ path \in Opened
      /\ file' = [file EXCEPT ![f] = [node |-> Found[path], path |-> path]]
      /\ totalOffset' = [totalOffset EXCEPT ![f] = 0] /\ last' = [last EXCEPT ![f] = <<>>]
  BY DEF Open, Opened, Kept, Own
<1>2. NamedBy[path] \in DOMAIN Image.bytes
  BY <1>1, OpenedContent
<1>3. [node |-> Found[path], path |-> path] # Closed
  BY FilesAssumption
<1>4. AbstractNode[f] = Closed
  BY <1>1 DEF AbstractNode
<1>5. AbstractNode' = [AbstractNode EXCEPT ![f] = NamedBy[path]]
  <2>1. \A g \in Own : file'[g] = IF g = f THEN [node |-> Found[path], path |-> path] ELSE file[g]
    BY <1>1 DEF FilesInv, FileTypes, Own
  <2>2. \A g \in Own : (IF file'[g] = Closed THEN Closed ELSE NamedBy[file'[g].path])
                          = IF g = f THEN NamedBy[path] ELSE AbstractNode[g]
    BY <1>3, <2>1 DEF AbstractNode
  <2> QED BY <2>2 DEF AbstractNode
<1>6. OfOwn(totalOffset)' = [OfOwn(totalOffset) EXCEPT ![f] = 0]
  BY <1>1 DEF OfOwn, FilesInv, FileTypes, Own
<1> QED BY <1>1, <1>2, <1>4, <1>5, <1>6 DEF Abstract!Open, AbstractNode

LEMMA AbstractClose ==
    ASSUME FilesInv, NEW p \in Process, NEW f \in Own, Close(p, f)
    PROVE  Abstract!Close(f)
<1>1. file' = [file EXCEPT ![f] = Closed] /\ totalOffset' = totalOffset /\ last' = last
  BY DEF Close
<1>2. AbstractNode' = [AbstractNode EXCEPT ![f] = Closed]
  <2>1. \A g \in Own : file'[g] = IF g = f THEN Closed ELSE file[g]
    BY <1>1 DEF FilesInv, FileTypes, Own
  <2> QED BY <2>1 DEF AbstractNode
<1>3. OfOwn(totalOffset)' = OfOwn(totalOffset)
  BY <1>1 DEF OfOwn
<1> QED BY <1>1, <1>2, <1>3 DEF Abstract!Close, AbstractNode

LEMMA OpenIsOpen ==
    ASSUME AllRightlyFound, FilesInv, NEW f \in Own, file[f] # Closed
    PROVE  /\ AbstractNode[f] # Closed
           /\ Image.bytes[AbstractNode[f]] = Content(file[f].node)
           /\ OnDisk(file[f].node) /\ file[f].node.size \in Nat /\ file[f].node.size < Wrap
           /\ Len(Content(file[f].node)) = file[f].node.size /\ Content(file[f].node) \in Seq(Cells)
           /\ totalOffset[f] \in Nat /\ OfOwn(totalOffset)[f] = totalOffset[f]
<1>1. f \in File
  BY DEF Own
<1>2. AbstractNode[f] = NamedBy[file[f].path]
  BY DEF AbstractNode
<1>3. NamedBy[file[f].path] # Closed /\ Image.bytes[NamedBy[file[f].path]] = Content(file[f].node)
  BY <1>1, FileContent DEF FilesInv
<1>4. OnDisk(file[f].node) /\ file[f].node.size \in Nat /\ file[f].node.size < Wrap
  BY <1>1, OpenedNode DEF FilesInv
<1>5. totalOffset[f] \in Nat /\ OfOwn(totalOffset)[f] = totalOffset[f]
  BY <1>1 DEF FilesInv, FileTypes, OfOwn
<1> QED BY <1>2, <1>3, <1>4, <1>5, ContentSeq

LEMMA AbstractSeek ==
    ASSUME AllRightlyFound, FilesInv, NEW p \in Process, NEW f \in Own, NEW offset \in Seeks, Seek(p, f, offset)
    PROVE  Abstract!Seek(f)
<1>1. /\ file[f] # Closed /\ file' = file /\ last' = last
      /\ totalOffset' = [totalOffset EXCEPT ![f] = offset]
  BY DEF Seek
<1>2. AbstractNode[f] # Closed
  BY <1>1, OpenIsOpen
<1>3. AbstractNode' = AbstractNode
  BY <1>1 DEF AbstractNode
<1>4. OfOwn(totalOffset)' = [OfOwn(totalOffset) EXCEPT ![f] = offset]
  BY <1>1 DEF OfOwn, FilesInv, FileTypes, Own
<1> QED BY <1>1, <1>2, <1>3, <1>4 DEF Abstract!Seek, AbstractNode

(* read() of bytes that are left, and of none. *)
LEMMA AbstractRead ==
    ASSUME AllRightlyFound, FilesInv, NEW f \in Own, file[f] # Closed, NEW n \in Sizes,
           NEW bytes, NEW x, x = totalOffset[f],
           bytes = SubSeq(Content(file[f].node), x + 1, Least(x + n, file[f].node.size)),
           file' = file, last' = [last EXCEPT ![f] = bytes],
           totalOffset' = [totalOffset EXCEPT ![f] = x + Len(bytes)]
    PROVE  Abstract!Read(f, n)
<1>1. AbstractNode[f] # Closed /\ Image.bytes[AbstractNode[f]] = Content(file[f].node)
      /\ Len(Content(file[f].node)) = file[f].node.size /\ OfOwn(totalOffset)[f] = x
  BY OpenIsOpen
<1>2. bytes = SubSeq(Image.bytes[AbstractNode[f]], OfOwn(totalOffset)[f] + 1,
                     Abstract!Least(OfOwn(totalOffset)[f] + n, Len(Image.bytes[AbstractNode[f]])))
  BY <1>1 DEF Least, Abstract!Least
<1>3. AbstractNode' = AbstractNode
  BY DEF AbstractNode
<1>4. OfOwn(totalOffset)' = [OfOwn(totalOffset) EXCEPT ![f] = @ + Len(bytes)]
  <2>1. \A g \in Own : totalOffset'[g] = IF g = f THEN x + Len(bytes) ELSE totalOffset[g]
    BY DEF FilesInv, FileTypes, Own
  <2> QED BY <1>1, <2>1 DEF OfOwn
<1> QED BY <1>1, <1>2, <1>3, <1>4 DEF Abstract!Read, AbstractNode

LEMMA AbstractReadNothing ==
    ASSUME AllRightlyFound, FilesInv, NEW p \in Process, NEW f \in Own, NEW n \in Sizes, ReadNothing(p, f, n)
    PROVE  Abstract!Read(f, n)
<1> DEFINE x == totalOffset[f]
           end == file[f].node.size
<1>1. /\ file[f] # Closed /\ file' = file /\ totalOffset' = totalOffset
      /\ last' = [last EXCEPT ![f] = <<>>] /\ (x >= end \/ n = 0)
  BY DEF ReadNothing, Kept, Size
<1>2. x \in Nat /\ end \in Nat /\ n \in Nat /\ Content(file[f].node) \in Seq(Cells)
  BY <1>1, OpenIsOpen, FilesAssumption
<1> HIDE DEF x, end
<1>3. Least(x + n, end) \in Nat /\ Least(x + n, end) < x + 1
  BY <1>1, <1>2 DEF Least
<1>4. SubSeq(Content(file[f].node), x + 1, Least(x + n, end)) = <<>>
  BY <1>2, <1>3
<1>5. totalOffset' = [totalOffset EXCEPT ![f] = x + Len(<<>>)]
  <2>1. x + Len(<<>>) = x
    BY <1>2
  <2>2. totalOffset = [totalOffset EXCEPT ![f] = totalOffset[f]]
    BY DEF FilesInv, FileTypes
  <2> QED BY <1>1, <2>1, <2>2 DEF x
<1> QED BY <1>1, <1>4, <1>5, AbstractRead DEF x, end

LEMMA AbstractAddStore ==
    ASSUME AllRightlyFound, FilesInv, NEW p \in Process, AddStore(p), call[p].file \in Own
    PROVE  \E n \in Sizes : Abstract!Read(call[p].file, n)
<1> DEFINE c == call[p]
           f == c.file
           node == file[f].node
           x == totalOffset[f]
<1>1. /\ c.at = "add" /\ file' = file /\ last' = [last EXCEPT ![f] = c.buffer]
      /\ totalOffset' = [totalOffset EXCEPT ![f] = (c.loaded + c.bytes_read) % Wrap]
  BY DEF AddStore, At, Kept
<1>2. /\ c \in FileCall /\ file[f] # Closed /\ ReadOK(c, node) /\ OffsetOK(c)
  BY <1>1, CallFacts DEF CallNode
<1>3. /\ OnDisk(node) /\ node.size \in Nat /\ node.size < Wrap /\ x \in Nat
  BY <1>2, OpenIsOpen
<1>4. PICK n \in Sizes : c.bytes_read = Least(n, node.size - x)
  BY <1>2 DEF OffsetOK, Size
<1>5. c.offset = x + Got(c) /\ c.loaded = x
  BY <1>1, <1>2 DEF OffsetOK
<1>6. c.n = 0 /\ c.bytes_read \in Nat /\ n \in Nat /\ Wrap \in Nat /\ c.offset \in Nat
  BY <1>1, <1>2, FilesAssumption DEF ReadOK, FileCall
<1>7. Got(c) = c.bytes_read /\ c.offset <= node.size
  BY <1>2, <1>3, <1>6 DEF Got, ReadOK
<1>8. /\ c.buffer = SubSeq(Content(node), c.offset - Got(c) + 1, c.offset)
      /\ Len(c.buffer) = Got(c)
  BY <1>2, <1>3, BufferIsPiece
<1> HIDE DEF x
<1>9. c.offset = Least(x + n, node.size)
  BY <1>3, <1>4, <1>5, <1>6, <1>7 DEF Least
<1>10. c.offset - Got(c) + 1 = x + 1
  BY <1>3, <1>5, <1>6, <1>7
<1>11. (c.loaded + c.bytes_read) % Wrap = x + Len(c.buffer)
  <2>1. c.loaded + c.bytes_read = c.offset /\ c.offset \in 0 .. Wrap - 1
    BY <1>3, <1>5, <1>6, <1>7
  <2>2. c.offset = 0 * Wrap + c.offset /\ Wrap \in Nat \ {0}
    BY <1>3, <1>6
  <2>3. (0 * Wrap + c.offset) % Wrap = c.offset
    BY <2>1, <2>2, DivUnique
  <2>4. (c.loaded + c.bytes_read) % Wrap = c.offset
    BY <2>1, <2>2, <2>3
  <2> QED BY <1>5, <1>8, <2>4
<1>12. c.buffer = SubSeq(Content(node), x + 1, Least(x + n, node.size))
  BY <1>8, <1>9, <1>10
<1>13. totalOffset' = [totalOffset EXCEPT ![f] = x + Len(c.buffer)]
  BY <1>1, <1>11
<1> QED BY <1>1, <1>2, <1>12, <1>13, AbstractRead DEF x

LEMMA AbstractStarts == FilesInit => Abstract!Init
BY FilesAssumption DEF FilesInit, Abstract!Init, OfOwn, Own

LEMMA AbstractStep ==
    ASSUME AllRightlyFound, FilesInv, [FilesNext]_filesVars
    PROVE  [Abstract!Next]_(Abstract!FileVars)
<1>1. CASE UNCHANGED files
  BY <1>1, AbstractKept DEF files
<1>2. CASE UNCHANGED filesVars
  BY <1>2, AbstractKept DEF filesVars
<1>3. CASE DriveReady
  BY <1>1, <1>3 DEF DriveReady
<1>4. ASSUME NEW p \in Process, OfCall(p) PROVE [Abstract!Next]_(Abstract!FileVars)
  <2>1. CASE UNCHANGED files
    BY <1>1, <2>1
  <2>2. CASE AddStore(p)
    <3>1. CASE call[p].file \in Own
      BY <2>2, <3>1, AbstractAddStore DEF Abstract!Next
    <3>2. CASE call[p].file \notin Own
      <4>1. /\ file' = file /\ last' = last
            /\ \A g \in Own : totalOffset'[g] = totalOffset[g]
        BY <2>2, <3>2 DEF AddStore, Kept, FilesInv, FileTypes, Own
      <4> QED BY <3>2, <4>1, SharedUnseen
    <3> QED BY <3>1, <3>2
  <2> QED BY <1>4, <2>1, <2>2 DEF OfCall, NextBlock, GotIndirect, GotBlock, AddLoad, LockDrive,
          WriteRegisters, Command, Transfer
<1>5. ASSUME NEW p \in Process, NEW f \in File, OfFile(p, f) PROVE [Abstract!Next]_(Abstract!FileVars)
  <2>1. CASE \E path \in Paths : Open(p, f, path)
    <3> PICK path \in Paths : Open(p, f, path)
      BY <2>1
    <3>1. CASE f \in Own
      BY <3>1, AbstractOpen DEF Abstract!Next
    <3>2. CASE f \notin Own
      <4>1. last' = last /\ \A g \in Own : file'[g] = file[g] /\ totalOffset'[g] = totalOffset[g]
        BY <3>2 DEF Open, Kept, FilesInv, FileTypes, Own
      <4> QED BY <3>2, <4>1, SharedUnseen
    <3> QED BY <3>1, <3>2
  <2>2. CASE Close(p, f)
    <3>1. CASE f \in Own
      BY <2>2, <3>1, AbstractClose DEF Abstract!Next
    <3>2. CASE f \notin Own
      <4>1. last' = last /\ \A g \in Own : file'[g] = file[g] /\ totalOffset'[g] = totalOffset[g]
        BY <2>2, <3>2 DEF Close, FilesInv, FileTypes, Own
      <4> QED BY <3>2, <4>1, SharedUnseen
    <3> QED BY <3>1, <3>2
  <2>3. CASE \E offset \in Seeks : Seek(p, f, offset)
    <3> PICK offset \in Seeks : Seek(p, f, offset)
      BY <2>3
    <3>1. CASE f \in Own
      BY <3>1, AbstractSeek DEF Abstract!Next
    <3>2. CASE f \notin Own
      <4>1. last' = last /\ \A g \in Own : file'[g] = file[g] /\ totalOffset'[g] = totalOffset[g]
        BY <3>2 DEF Seek, FilesInv, FileTypes, Own
      <4> QED BY <3>2, <4>1, SharedUnseen
    <3> QED BY <3>1, <3>2
  <2>4. CASE \E n \in Sizes : ReadNothing(p, f, n)
    <3> PICK n \in Sizes : ReadNothing(p, f, n)
      BY <2>4
    <3>1. CASE f \in Own
      BY <3>1, AbstractReadNothing DEF Abstract!Next
    <3>2. CASE f \notin Own
      BY <3>2, AbstractKept DEF ReadNothing, Kept
    <3> QED BY <3>1, <3>2
  <2>5. CASE \E n \in Sizes : ReadSome(p, f, n)
    BY <1>1, <2>5 DEF ReadSome
  <2> QED BY <1>5, <2>1, <2>2, <2>3, <2>4, <2>5 DEF OfFile
<1> QED BY <1>2, <1>3, <1>4, <1>5 DEF FilesNext

(* What a process sees of a file of its own (file_ext.h) is what FileSpec  *)
(* promises: its read()s, each many steps on the drive between those of    *)
(* the others, seem to happen at once, when totalOffset is stored, with    *)
(* the bytes that the image has for the path.                              *)
THEOREM ReadsAtOnce == ASSUME AllRightlyFound PROVE FilesSpec => ImplementsFiles
<1>1. FilesInit => Abstract!Init
  BY AbstractStarts
<1>2. FilesInv /\ [FilesNext]_filesVars => [Abstract!Next]_(Abstract!FileVars)
  BY AbstractStep
<1> QED BY <1>1, <1>2, FilesInvHolds, PTL DEF FilesSpec, ImplementsFiles, Abstract!Spec
=============================================================================
