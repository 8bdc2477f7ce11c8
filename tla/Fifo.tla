-------------------------------- MODULE Fifo --------------------------------
(***************************************************************************)
(* What the queues promise: first in, first out.  A bounded buffer has     *)
(* at most Capacity items (Spec); a Queue has any number of items, each of *)
(* which is in it once (DistinctSpec).                                     *)
(***************************************************************************)
EXTENDS Naturals, Sequences

CONSTANTS Item, Capacity

VARIABLE items  \* Seq(Item)

Init == items = <<>>

Add(x) == items' = Append(items, x)

Remove == items # <<>> /\ items' = Tail(items)

AddWithin == Len(items) < Capacity /\ \E x \in Item : Add(x)

AddOther == \E x \in Item : (\A i \in 1 .. Len(items) : items[i] # x) /\ Add(x)

Spec == Init /\ [][AddWithin \/ Remove]_items

DistinctSpec == Init /\ [][AddOther \/ Remove]_items
=============================================================================
