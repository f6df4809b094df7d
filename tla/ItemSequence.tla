---------------------------- MODULE ItemSequence ----------------------------
(***************************************************************************)
(* What the array of slkc (array.h) promises: a sequence of items that     *)
(* grows and shrinks at its end, whatever happens to the memory under it.  *)
(***************************************************************************)
EXTENDS Naturals, Sequences

CONSTANTS
    Values,   \* items
    Junk,     \* what an item that was never written reads as
    Counts    \* how many items a client makes room for at once

VARIABLES items, live

Cell == Values \cup {Junk}

Init == items = <<>> /\ live = TRUE

Push == live /\ \E x \in Values : items' = Append(items, x) /\ UNCHANGED live

\* Room for n items, the others stay where they are.
Alloc ==
    /\ live
    /\ \E n \in Counts : items' \in [1..(Len(items) + n) -> Cell]
    /\ \A k \in 1..Len(items) : items'[k] = items[k]
    /\ UNCHANGED live

Pop == live /\ items # <<>> /\ items' = SubSeq(items, 1, Len(items) - 1) /\ UNCHANGED live

Clear == live /\ items' = <<>> /\ UNCHANGED live

Free == live /\ live' = FALSE /\ UNCHANGED items

Next == Push \/ Alloc \/ Pop \/ Clear \/ Free

Spec == Init /\ [][Next]_<<items, live>>
=============================================================================
