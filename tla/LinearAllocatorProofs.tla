----------------------- MODULE LinearAllocatorProofs -----------------------
(***************************************************************************)
(* Proofs about LinearAllocator, for every buffer, every size and every    *)
(* alignment (powers of two or not).                                       *)
(***************************************************************************)
EXTENDS LinearAllocator, TLAPS

\* Aligning never goes back, and the result is aligned.
LEMMA AlignForwardIs ==
    ASSUME NEW p \in Nat, NEW a \in Nat \ {0}
    PROVE  /\ AlignForward(p, a) \in Nat
           /\ AlignForward(p, a) >= p
           /\ AlignForward(p, a) % a = 0
<1> DEFINE q == p + (a - 1)
<1>1. q \in Nat /\ q % a \in 0..(a - 1)
  OBVIOUS
<1>2. AlignForward(p, a) = q - (q % a)
  BY DEF AlignForward
<1>3. (q - (q % a)) % a = 0
  OBVIOUS
<1>4. \A r \in 0..(a - 1) : q - r \in Nat /\ q - r >= p
  OBVIOUS
<1>5. q - (q % a) \in Nat /\ q - (q % a) >= p
  BY <1>1, <1>4
<1> QED
  BY <1>2, <1>3, <1>5

IInv == TypeOK /\ Disjoint /\ InBuffer

\* The one step that hands out memory keeps the invariant: the new block is
\* behind all others.
LEMMA CutKeeps ==
    ASSUME IInv, NEW size \in Sizes, NEW a \in Alignments, Cut(size, a), UNCHANGED debug
    PROVE  IInv'
<1> DEFINE old == AlignForward(curr, a)
           next == old + size
           b == [from |-> old, to |-> next, alignment |-> a]
<1>1. CASE debug /\ ~InRange(next)
  <2>1. aborted' = TRUE /\ UNCHANGED <<curr, blocks, debug>>
    BY <1>1 DEF Cut
  <2> QED
    BY <2>1 DEF IInv, TypeOK, Disjoint, InBuffer
<1>2. CASE ~(debug /\ ~InRange(next))
  <2>1. curr' = next /\ blocks' = blocks \cup {b} /\ UNCHANGED <<debug, aborted>>
    BY <1>2 DEF Cut
  <2>2. /\ old \in Nat /\ old >= curr /\ old % a = 0
        /\ size \in Nat /\ size > 0 /\ curr \in Nat /\ curr >= Head /\ Head \in Nat
    BY AlignForwardIs, RequestAssumption, BufferAssumption DEF IInv, TypeOK
  <2>3. b \in Block /\ b.from = old /\ b.to = next /\ b.alignment = a
    BY <2>2 DEF Block
  <2>4. \A c \in blocks : c \in Block /\ c.to \in Nat /\ c.to <= curr
    BY DEF IInv, TypeOK, Block
  <2> HIDE DEF b, old
  <2>5. TypeOK'
    BY <2>1, <2>2, <2>3, <2>4 DEF IInv, TypeOK
  <2>6. Disjoint'
    BY <2>1, <2>2, <2>3, <2>4 DEF IInv, Disjoint
  <2>7. InBuffer'
    BY <1>2, <2>1, <2>2, <2>3 DEF IInv, InBuffer, InRange, Tail
  <2> QED
    BY <2>5, <2>6, <2>7 DEF IInv
<1> QED
  BY <1>1, <1>2

\* Every operation keeps the invariant.
LEMMA NextIInv == IInv /\ [Next]_vars => IInv'
<1> SUFFICES ASSUME IInv, [Next]_vars PROVE IInv'
  OBVIOUS
<1>1. CASE \E size \in Sizes, a \in Alignments : Malloc(size, a)
  BY <1>1, CutKeeps DEF Malloc
<1>2. CASE \E b \in blocks, size \in Sizes, a \in Alignments : Realloc(b, size, a)
  BY <1>2, CutKeeps DEF Realloc
<1>3. CASE Clear
  BY <1>3, BufferAssumption DEF Clear, IInv, TypeOK, Disjoint, InBuffer
<1>4. CASE UNCHANGED vars
  BY <1>4 DEF vars, IInv, TypeOK, Disjoint, InBuffer
<1> QED
  BY <1>1, <1>2, <1>3, <1>4 DEF Next

\* It holds of the empty buffer.
LEMMA InitIInv == Init => IInv
<1> SUFFICES ASSUME Init PROVE IInv
  OBVIOUS
<1>1. blocks = {} /\ curr = Head /\ Head \in Nat /\ debug \in BOOLEAN /\ aborted \in BOOLEAN
  BY BufferAssumption DEF Init
<1> QED
  BY <1>1 DEF IInv, TypeOK, Disjoint, InBuffer

\* The invariant holds in every state.
LEMMA Invariance == Spec => []IInv
  BY InitIInv, NextIInv, PTL DEF Spec

\* Every block is aligned and ends before buffer_curr.
THEOREM TypeCorrect == Spec => []TypeOK
<1>1. IInv => TypeOK
  BY DEF IInv
<1> QED
  BY <1>1, Invariance, PTL

\* Blocks of any sizes and alignments never overlap.
THEOREM DisjointHolds == Spec => []Disjoint
<1>1. IInv => Disjoint
  BY DEF IInv
<1> QED
  BY <1>1, Invariance, PTL

\* With _DEBUG no block leaves the buffer.
THEOREM InBufferHolds == Spec => []InBuffer
<1>1. IInv => InBuffer
  BY DEF IInv
<1> QED
  BY <1>1, Invariance, PTL
=============================================================================
