-------------------------------- MODULE Array --------------------------------
(***************************************************************************)
(* The growing array of slkc: the macros of array.h and sk_alloc_array.    *)
(*                                                                         *)
(* The items lie in a block of item_capacity cells behind a header.  When  *)
(* the block is full a new one of twice the size is allocated, the old     *)
(* cells are copied and the old block is freed.  The lengths in bytes      *)
(* (real_length, real_capacity) are item_size times those in items and are *)
(* left out.                                                               *)
(***************************************************************************)
EXTENDS Naturals, Sequences

CONSTANTS
    Values,     \* items
    Junk,       \* the content of a cell that was never written
    Capacity,   \* the capacity the array is made with
    Counts,     \* the item_counts that clients pass to sk_array_alloc
    MaxLength   \* bound on the length, for the sake of model checking

ASSUME CapacityAssumption == Capacity \in Nat \ {0} /\ MaxLength \in Nat

\* A client asks for no more items than the array was made for.
ASSUME CountsAssumption == Counts \subseteq 0..Capacity

VARIABLES
    cells,    \* the block: a sequence of item_capacity cells
    length,   \* item_length
    live      \* sk_array_free was not called

vars == <<cells, length, live>>

Cell == Values \cup {Junk}
Fresh(n) == [k \in 1..n |-> Junk]

\* Mutated form of Grown: the last cell is not copied.
GrownShort(c) == [k \in 1..(2 * Len(c)) |-> IF k < Len(c) THEN c[k] ELSE Junk]

\* The new block: sk_alloc_array of twice the capacity, memmove of the old.
Grown(c) == [k \in 1..(2 * Len(c)) |-> IF k <= Len(c) THEN c[k] ELSE Junk]

\* sk_array_push
Push(x) ==
    LET room == IF length >= Len(cells) THEN Grown(cells) ELSE cells
    IN  /\ live /\ length < MaxLength
        /\ cells' = [room EXCEPT ![length + 1] = x]
        /\ length' = length + 1
        /\ UNCHANGED live

\* Mutated form of Alloc: only a full array grows, as in Push.
AllocWhenFull(n) ==
    /\ live /\ length + n <= MaxLength
    /\ cells' = IF length >= Len(cells) THEN Grown(cells) ELSE cells
    /\ length' = length + n
    /\ UNCHANGED live

\* sk_array_alloc: one doubling, whatever n is.
Alloc(n) ==
    /\ live /\ length + n <= MaxLength
    /\ cells' = IF length + n >= Len(cells) THEN Grown(cells) ELSE cells
    /\ length' = length + n
    /\ UNCHANGED live

\* sk_array_pop, which does nothing to an empty array
Pop ==
    /\ live /\ length > 0
    /\ length' = length - 1
    /\ UNCHANGED <<cells, live>>

\* sk_array_clear; the cells keep their contents
Clear ==
    /\ live /\ length > 0
    /\ length' = 0
    /\ UNCHANGED <<cells, live>>

\* sk_array_free
Free ==
    /\ live
    /\ live' = FALSE
    /\ UNCHANGED <<cells, length>>

\* sk_array
Init == cells = Fresh(Capacity) /\ length = 0 /\ live = TRUE

Next ==
    \/ \E x \in Values : Push(x)
    \/ \E n \in Counts : Alloc(n)
    \/ Pop \/ Clear \/ Free

Spec == Init /\ [][Next]_vars

(***************************************************************************)
(* Properties.                                                             *)
(***************************************************************************)

\* The length stays in the block: sk_array_alloc's one doubling is enough for
\* a client that asks for no more than the initial capacity, and a push never
\* writes behind the block.
TypeOK ==
    /\ cells \in Seq(Cell)
    /\ Len(cells) >= Capacity
    /\ length \in 0..Len(cells)
    /\ live \in BOOLEAN

\* The first length cells are the items.  Growing, and the cells behind the
\* length, cannot be seen.
Items == [k \in 1..length |-> cells[k]]
Sequence == INSTANCE ItemSequence WITH items <- Items

\* The array implements the sequence: items survive every move of the block.
ImplementsSequence == Sequence!Spec
=============================================================================
