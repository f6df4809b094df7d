---------------------------- MODULE ArrayProofs ----------------------------
(***************************************************************************)
(* The array implements a sequence, for every set of values, initial       *)
(* capacity and bound on the length.                                       *)
(***************************************************************************)
EXTENDS Array, TLAPS

\* The new block has twice the cells and begins with the old ones.
LEMMA GrownCells ==
    ASSUME NEW c \in Seq(Cell)
    PROVE  /\ Grown(c) \in Seq(Cell)
           /\ Len(Grown(c)) = 2 * Len(c)
           /\ \A k \in 1..Len(c) : Grown(c)[k] = c[k]
<1>1. Len(c) \in Nat /\ 2 * Len(c) \in Nat /\ c \in [1..Len(c) -> Cell]
  OBVIOUS
<1>2. Grown(c) \in [1..(2 * Len(c)) -> Cell]
  BY <1>1 DEF Grown, Cell
<1> QED
  BY <1>1, <1>2 DEF Grown

\* The block that sk_array_push writes to has a cell for the new item.
LEMMA PushRoom ==
    ASSUME TypeOK, NEW x \in Values, Push(x)
    PROVE  /\ cells' \in Seq(Cell) /\ Len(cells') >= Capacity
           /\ length' = length + 1 /\ length' \in 1..Len(cells')
           /\ cells'[length + 1] = x
           /\ \A k \in 1..length : cells'[k] = cells[k]
<1> DEFINE room == IF length >= Len(cells) THEN Grown(cells) ELSE cells
<1>1. /\ room \in Seq(Cell) /\ Len(room) >= Capacity /\ length + 1 \in 1..Len(room)
      /\ \A k \in 1..length : room[k] = cells[k]
  BY GrownCells, CapacityAssumption DEF TypeOK
<1>2. cells' = [room EXCEPT ![length + 1] = x] /\ length' = length + 1
  BY DEF Push
<1>3. x \in Cell /\ length \in Nat
  BY DEF Cell, TypeOK
<1> HIDE DEF room
<1>4. cells' \in Seq(Cell) /\ Len(cells') = Len(room)
  BY <1>1, <1>2, <1>3
<1> QED
  BY <1>1, <1>2, <1>3, <1>4

\* sk_array_alloc leaves the items where they are and the length in the block.
LEMMA AllocRoom ==
    ASSUME TypeOK, NEW n \in Counts, Alloc(n)
    PROVE  /\ cells' \in Seq(Cell) /\ Len(cells') >= Capacity
           /\ length' = length + n /\ length' \in 0..Len(cells') /\ n \in Nat
           /\ \A k \in 1..length : cells'[k] = cells[k]
  BY GrownCells, CapacityAssumption, CountsAssumption DEF TypeOK, Alloc

\* Every operation keeps the length in the block.
LEMMA TypeStep == TypeOK /\ [Next]_vars => TypeOK'
<1> SUFFICES ASSUME TypeOK, [Next]_vars PROVE TypeOK'
  OBVIOUS
<1>1. CASE \E x \in Values : Push(x)
  <2>1. PICK x \in Values : Push(x)
    BY <1>1
  <2>2. live' \in BOOLEAN
    BY <2>1 DEF Push, TypeOK
  <2> QED
    BY <2>1, <2>2, PushRoom DEF TypeOK
<1>2. CASE \E n \in Counts : Alloc(n)
  <2>1. PICK n \in Counts : Alloc(n)
    BY <1>2
  <2>2. live' \in BOOLEAN
    BY <2>1 DEF Alloc, TypeOK
  <2> QED
    BY <2>1, <2>2, AllocRoom DEF TypeOK
<1>3. CASE Pop \/ Clear
  <2>1. cells' = cells /\ live' = live /\ length' \in 0..length
    BY <1>3 DEF Pop, Clear, TypeOK
  <2> QED
    BY <2>1 DEF TypeOK
<1>4. CASE Free
  BY <1>4 DEF Free, TypeOK
<1>5. CASE UNCHANGED vars
  BY <1>5 DEF vars, TypeOK
<1> QED
  BY <1>1, <1>2, <1>3, <1>4, <1>5 DEF Next

\* sk_array makes an empty array of the capacity asked for.
LEMMA TypeInit == Init => TypeOK
<1> SUFFICES ASSUME Init PROVE TypeOK
  OBVIOUS
<1>1. Capacity \in Nat /\ Fresh(Capacity) \in [1..Capacity -> Cell]
  BY CapacityAssumption DEF Fresh, Cell
<1>2. Fresh(Capacity) \in Seq(Cell) /\ Len(Fresh(Capacity)) = Capacity
  BY <1>1
<1> QED
  BY <1>1, <1>2 DEF Init, TypeOK

\* The length never leaves the block, so no push writes behind it.
THEOREM TypeCorrect == Spec => []TypeOK
  BY TypeInit, TypeStep, PTL DEF Spec

\* The items are a sequence of cells.
LEMMA ItemsType ==
    ASSUME TypeOK
    PROVE  Items \in Seq(Cell) /\ Len(Items) = length /\ \A k \in 1..length : Items[k] = cells[k]
<1>1. length \in Nat /\ length <= Len(cells) /\ cells \in [1..Len(cells) -> Cell]
  BY DEF TypeOK
<1>2. Items \in [1..length -> Cell]
  BY <1>1 DEF Items
<1> QED
  BY <1>1, <1>2 DEF Items

\* The same of the items after a step.
LEMMA ItemsTypeNext ==
    ASSUME TypeOK'
    PROVE  Items' \in Seq(Cell) /\ Len(Items') = length' /\ \A k \in 1..length' : Items'[k] = cells'[k]
<1>1. length' \in Nat /\ length' <= Len(cells') /\ cells' \in [1..Len(cells') -> Cell]
  BY DEF TypeOK
<1>2. Items' \in [1..length' -> Cell]
  BY <1>1 DEF Items
<1> QED
  BY <1>1, <1>2 DEF Items

\* sk_array_push appends to the sequence.
LEMMA PushStep ==
    ASSUME TypeOK, TypeOK', NEW x \in Values, Push(x)
    PROVE  Sequence!Push
<1>1. Len(Items) = length /\ Items \in Seq(Cell) /\ x \in Cell /\ length \in Nat
  BY ItemsType DEF Cell, TypeOK
<1>2. /\ Append(Items, x) \in Seq(Cell) /\ Len(Append(Items, x)) = length + 1
      /\ \A k \in 1..(length + 1) : Append(Items, x)[k] = IF k = length + 1 THEN x ELSE Items[k]
  BY <1>1
<1>3. /\ Items' \in Seq(Cell) /\ Len(Items') = length + 1
      /\ \A k \in 1..(length + 1) : Items'[k] = IF k = length + 1 THEN x ELSE Items[k]
  <2>1. length' = length + 1
    BY PushRoom
  <2>2. /\ Items' \in Seq(Cell) /\ Len(Items') = length'
        /\ \A k \in 1..length' : Items'[k] = cells'[k]
    BY ItemsTypeNext
  <2> QED
    BY <1>1, <2>1, <2>2, PushRoom, ItemsType
<1>4. Items' = Append(Items, x)
  BY <1>1, <1>2, <1>3
<1> QED
  BY <1>4 DEF Push, Sequence!Push

\* sk_array_alloc makes the sequence longer at its end.
LEMMA AllocStep ==
    ASSUME TypeOK, TypeOK', NEW n \in Counts, Alloc(n)
    PROVE  Sequence!Alloc
<1>1. Len(Items) = length /\ \A k \in 1..length : Items[k] = cells[k]
  BY ItemsType
<1>2. length' = length + n /\ n \in Nat /\ length \in Nat
  BY AllocRoom DEF TypeOK
<1>3. Items' \in [1..(length + n) -> Cell]
  BY <1>2, AllocRoom DEF Items
<1>4. \A k \in 1..length : Items'[k] = Items[k]
  BY <1>1, <1>2, AllocRoom DEF Items
<1>5. live /\ UNCHANGED live
  BY DEF Alloc
<1> QED
  BY <1>1, <1>3, <1>4, <1>5 DEF Sequence!Alloc, Sequence!Cell, Cell

\* sk_array_pop takes the last item off.
LEMMA PopStep ==
    ASSUME TypeOK, TypeOK', Pop
    PROVE  Sequence!Pop
<1>1. /\ Items \in Seq(Cell) /\ Len(Items) = length /\ \A k \in 1..length : Items[k] = cells[k]
      /\ length \in Nat /\ length > 0
  BY ItemsType DEF Pop, TypeOK
<1>2. Items' = [k \in 1..(length - 1) |-> cells[k]]
  BY DEF Items, Pop
<1>3. SubSeq(Items, 1, length - 1) = [k \in 1..(length - 1) |-> Items[k]]
  BY <1>1
<1>4. Items' = SubSeq(Items, 1, Len(Items) - 1)
  BY <1>1, <1>2, <1>3
<1>5. Items # <<>>
  BY <1>1
<1> QED
  BY <1>4, <1>5 DEF Pop, Sequence!Pop

\* Every step of the array is a step of the sequence or leaves it unchanged.
LEMMA StepImplements ==
    ASSUME TypeOK, TypeOK', [Next]_vars
    PROVE  [Sequence!Next]_<<Items, live>>
<1>1. CASE \E x \in Values : Push(x)
  BY <1>1, PushStep DEF Sequence!Next
<1>2. CASE \E n \in Counts : Alloc(n)
  BY <1>2, AllocStep DEF Sequence!Next
<1>3. CASE Pop
  BY <1>3, PopStep DEF Sequence!Next
<1>4. CASE Clear
  <2>1. Items' = <<>>
    BY <1>4 DEF Clear, Items
  <2> QED
    BY <1>4, <2>1 DEF Clear, Sequence!Clear, Sequence!Next
<1>5. CASE Free
  BY <1>5 DEF Free, Items, Sequence!Free, Sequence!Next
<1>6. CASE UNCHANGED vars
  BY <1>6 DEF vars, Items
<1> QED
  BY <1>1, <1>2, <1>3, <1>4, <1>5, <1>6 DEF Next

\* The array is a sequence to its clients: growth moves the block and keeps
\* every item, pop and clear take items off the end only.
THEOREM ArrayIsSequence == Spec => ImplementsSequence
<1>1. Init => Sequence!Init
  BY DEF Init, Items, Sequence!Init
<1>2. TypeOK /\ TypeOK' /\ [Next]_vars => [Sequence!Next]_<<Items, live>>
  BY StepImplements
<1> QED
  BY <1>1, <1>2, TypeCorrect, PTL DEF Spec, ImplementsSequence, Sequence!Spec
=============================================================================
