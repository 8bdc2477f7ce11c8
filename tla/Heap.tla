-------------------------------- MODULE Heap --------------------------------
(***************************************************************************)
(* The boundary-tag heap of the kernel (kernel/heap.cc) and, with realloc, *)
(* of programs (sbin/heap.c), word by word.  A block of n words has n in   *)
(* its first and last word if it is available and -n if it is taken; the   *)
(* second and third word of an available one link the list `avail'.  A     *)
(* call runs alone: the kernel's under theLock (module HeapLock), in a     *)
(* program for want of other threads.                                      *)
(*                                                                         *)
(* The kernel's malloc takes the best of the first Tries blocks that fit;  *)
(* the program's takes the first that fits, and it has realloc().          *)
(***************************************************************************)
EXTENDS Integers, Sequences, FiniteSets

CONSTANTS HeapLen,     \* `len', the words of the heap
          Tries,      \* 20: what the kernel's search counts down from
          Bytes,      \* bound: the sizes asked for
          Junk        \* what programs write, plus an index of the block

ASSUME HeapAssumption ==
    /\ HeapLen \in Nat /\ HeapLen >= 8
    /\ Tries \in Nat \ {0}
    /\ Bytes \subseteq 1 .. 2 ^ 30     \* above, bytes + 3 may wrap
    /\ Junk \in Int

VARIABLES
    heap,   \* [array |-> [0 .. HeapLen - 1 -> Int], avail |-> Nat]
    asked,  \* a function from the blocks in use to the words asked for
    tries   \* the blocks malloc() looks at, which says whose heap it is

vars == <<heap, asked, tries>>

(* Helpers on the heap h. *)
abs(x) == IF x < 0 THEN -x ELSE x
size(h, i) == abs(h.array[i])
footerFromHeader(h, i) == i + size(h, i) - 1
left(h, i) == i - size(h, i - 1)
right(h, i) == i + size(h, i)
next(h, i) == h.array[i + 1]
prev(h, i) == h.array[i + 2]
isAvail(h, i) == h.array[i] > 0
isTaken(h, i) == h.array[i] < 0

makeTaken(h, i, ints) ==
    [h EXCEPT !.array = [@ EXCEPT ![i] = -ints, ![i + ints - 1] = -ints]]

(* MUTATION of makeAvail: the old head keeps its `prev'. *)
makeAvail_OneWay(h, i, ints) ==
    [array |-> [h.array EXCEPT ![i] = ints, ![i + ints - 1] = ints,
                               ![i + 1] = h.avail, ![i + 2] = 0],
     avail |-> i]

makeAvail(h, i, ints) ==
    LET a == [h.array EXCEPT ![i] = ints, ![i + ints - 1] = ints,
                             ![i + 1] = h.avail, ![i + 2] = 0]
    IN  [array |-> IF h.avail = 0 THEN a ELSE [a EXCEPT ![h.avail + 2] = i],
         avail |-> i]

(* Out of the list `avail'. *)
remove(h, i) ==
    LET p == prev(h, i)
        n == next(h, i)
        a == IF p = 0 THEN h.array ELSE [h.array EXCEPT ![p + 1] = n]
    IN  [array |-> IF n = 0 THEN a ELSE [a EXCEPT ![n + 2] = p],
         avail |-> IF p = 0 THEN n ELSE h.avail]

(* heapInit: the memory holds anything, zeros here. *)
Init ==
    /\ heap = LET zero == [array |-> [i \in 0 .. HeapLen - 1 |-> 0], avail |-> 0]
              IN  makeTaken(makeAvail(makeTaken(zero, 0, 2), 2, HeapLen - 4), HeapLen - 2, 2)
    /\ asked = <<>>
    /\ tries \in {Tries, 1}

-----------------------------------------------------------------------------
(* malloc(bytes) *)

words(bytes) == (bytes + 3) \div 4
ints(bytes) == IF words(bytes) + 2 < 4 THEN 4 ELSE words(bytes) + 2

(* The blocks that one reaches from `avail' by the links: from[n][i] has   *)
(* the first n from i on, of which there are fewer than words.             *)
AvailList(h) ==
    LET from[n \in 0 .. HeapLen] ==
            [i \in Int |-> IF i = 0 \/ n = 0 THEN <<>> ELSE <<i>> \o from[n - 1][next(h, i)]]
    IN  from[HeapLen][h.avail]

(* The block the search takes, if any: the smallest of the first `tries'   *)
(* that fit, the first of them if there are several.                       *)
Found(h, n) ==
    LET list == AvailList(h)
        fit == {k \in DOMAIN list : size(h, list[k]) >= n}
        tried == {k \in fit : Cardinality({j \in fit : j < k}) < tries}
    IN  {list[k] : k \in {b \in tried :
            \A j \in tried : \/ size(h, list[b]) < size(h, list[j])
                              \/ (size(h, list[b]) = size(h, list[j]) /\ b <= j)}}

(* What is left over becomes a block if it is large enough for one. *)
Taken(h, i, n) ==
    LET sz == size(h, i)
        h1 == remove(h, i)
    IN  IF sz - n >= 4
        THEN makeAvail(makeTaken(h1, i, n), i + n, sz - n)
        ELSE makeTaken(h1, i, sz)

Also(i, n) == [j \in DOMAIN asked \cup {i} |-> IF j = i THEN n ELSE asked[j]]
Less(f, i) == [j \in DOMAIN f \ {i} |-> f[j]]

(* A program writes to all the words it was given, something of its own.   *)
Stored(h, i, n) ==
    [h EXCEPT !.array = [j \in DOMAIN @ |-> IF j \in i + 1 .. i + n THEN Junk + i ELSE @[j]]]

Malloc(bytes) ==
    LET n == ints(bytes) IN
    \E i \in Found(heap, n) :
        /\ heap' = Stored(Taken(heap, i, n), i, words(bytes))
        /\ asked' = Also(i, words(bytes))

-----------------------------------------------------------------------------
(* free(p) *)

(* MUTATION of Freed: an available block to the right is not joined. *)
Freed_Left(h, i) ==
    LET l == left(h, i)
    IN  IF isAvail(h, l)
        THEN makeAvail(remove(h, l), l, size(h, i) + size(h, l))
        ELSE makeAvail(h, i, size(h, i))

(* The block, joined with its neighbours where they are available. *)
Freed(h, i) ==
    LET l == left(h, i)
        r == right(h, i)
        joinL == isAvail(h, l)
        joinR == isAvail(h, r)
        h1 == IF joinL THEN remove(h, l) ELSE h
        h2 == IF joinR THEN remove(h1, r) ELSE h1
    IN  makeAvail(h2, IF joinL THEN l ELSE i,
                  size(h, i) + (IF joinL THEN size(h, l) ELSE 0)
                             + (IF joinR THEN size(h, r) ELSE 0))

Free(i) ==
    /\ isTaken(heap, i)
    /\ heap' = Freed(heap, i)
    /\ asked' = Less(asked, i)

-----------------------------------------------------------------------------
(* realloc(p, bytes): a new block, with what fits of the old one's words,  *)
(* its last tag and those behind it included.  With no room for a new one  *)
(* the old one is freed all the same.                                      *)
Copied(h, from, to, n) ==
    [h EXCEPT !.array = [j \in DOMAIN @ |->
        IF j \in to + 1 .. to + n THEN @[from + j - to] ELSE @[j]]]

(* MUTATION of Realloc: the old block is freed before it is copied. *)
Realloc_FreeFirst(i, bytes) ==
    LET n == ints(bytes)
        m == IF bytes > 4 * size(heap, i) THEN size(heap, i) ELSE words(bytes)
        h == Freed(heap, i)
    IN  \E c \in Found(h, n) :
            /\ heap' = Copied(Taken(h, c, n), i, c, m)
            /\ asked' = Less(Also(c, words(bytes)), i)

Realloc(i, bytes) ==
    LET n == ints(bytes)
        m == IF bytes > 4 * size(heap, i) THEN size(heap, i) ELSE words(bytes)
    IN  /\ isTaken(heap, i)
        /\ IF Found(heap, n) = {}
           THEN heap' = Freed(heap, i) /\ asked' = Less(asked, i)
           ELSE \E c \in Found(heap, n) :
                    /\ heap' = Freed(Copied(Taken(heap, c, n), i, c, m), i)
                    /\ asked' = Less(Also(c, words(bytes)), i)

-----------------------------------------------------------------------------
Next ==
    /\ \/ \E b \in Bytes : Malloc(b)
       \/ \E i \in DOMAIN asked : Free(i)
       \/ tries = 1 /\ \E i \in DOMAIN asked, b \in Bytes : Realloc(i, b)
    /\ UNCHANGED tries

Spec == Init /\ [][Next]_vars

-----------------------------------------------------------------------------
(* Properties *)

(* The blocks one finds by going right from the first. *)
IsBlock[i \in 0 .. HeapLen - 1] ==
    i = 0 \/ \E j \in 0 .. i - 1 : right(heap, j) = i /\ IsBlock[j]

Blocks == {i \in 0 .. HeapLen - 1 : IsBlock[i]}

(* The blocks fill the heap from end to end, with the same tag on both     *)
(* sides, no two available ones are neighbours, the list `avail' has the   *)
(* available ones, once and linked both ways, and each of the others is in *)
(* use: free() and sanity() never panic, malloc() fails only if no         *)
(* available block is large enough, and a heap of which everything has     *)
(* been freed is one block again.                                          *)
HeapSound ==
    LET list == AvailList(heap)
        blocks == Blocks
        available == {i \in blocks : isAvail(heap, i)}
    IN  /\ \A i \in blocks :
              /\ footerFromHeader(heap, i) < HeapLen
              /\ heap.array[footerFromHeader(heap, i)] = heap.array[i]
              /\ isAvail(heap, i) => right(heap, i) \notin available
        /\ {list[k] : k \in DOMAIN list} = available
        /\ Len(list) = Cardinality(available)
        /\ \A k \in DOMAIN list : prev(heap, list[k]) = IF k = 1 THEN 0 ELSE list[k - 1]
        /\ blocks \ available = {0, HeapLen - 2} \cup DOMAIN asked
        /\ \A i \in DOMAIN asked : asked[i] <= size(heap, i) - 2

(* The words that are given out, by the address malloc() returned. *)
Given(u, array) ==
    [a \in {i + 1 : i \in DOMAIN u} |-> [k \in 1 .. u[a - 1] |-> array[a + k - 1]]]

GivenOut == Given(asked, heap.array)

(* Blocks never overlap, and keep what is written to them while others     *)
(* come and go.                                                            *)
Promise == INSTANCE Allocator WITH Memory <- 3 .. HeapLen - 4, blocks <- GivenOut

ImplementsAllocator == Promise!Spec
=============================================================================
