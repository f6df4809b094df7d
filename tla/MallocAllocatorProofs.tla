----------------------- MODULE MallocAllocatorProofs -----------------------
(***************************************************************************)
(* Proofs about MallocAllocator, for every set of addresses.  Types hold   *)
(* whatever the client does; the rest needs a client that keeps the first  *)
(* block to the end and stops at the clear, as main() does.                *)
(***************************************************************************)
EXTENDS MallocAllocator, TLAPS

\* The list while the client works: a star around the first block.
Star(h) ==
    /\ h.outcome = "ok"
    /\ h.root = NULL => h.live = {}
    /\ h.root # NULL =>
           /\ h.root \in h.live /\ h.curr = h.root /\ h.prev[h.root] = NULL
           /\ h.next[h.root] \in h.live \cup {NULL}
           /\ h.next[h.root] # h.root
           /\ \A b \in h.live \ {h.root} : h.prev[b] = h.root /\ h.next[b] = NULL

\* What malloc_clear has in front of it: at most two blocks, both allocated.
ClearPath(h, c) ==
    c # NULL => /\ c \in h.live
                /\ LET n == h.next[c]
                   IN  n # NULL => n \in h.live \ {c} /\ h.next[n] = NULL

Disciplined == MayFreeFirst = FALSE /\ MayReuse = FALSE

IInv ==
    /\ TypeOK
    /\ phase = "run" /\ heap.outcome = "ok" => Star(heap)
    /\ phase = "clear" /\ heap.outcome = "ok" => ClearPath(heap, cursor)
    /\ NoFreedAccess

(***************************************************************************)
(* Types.                                                                  *)
(***************************************************************************)

\* malloc_malloc keeps links and list ends addresses or NULL.
LEMMA MallocOpType ==
    ASSUME NEW h \in Heap, NEW b \in Blocks
    PROVE  MallocOp(h, b) \in Heap
  BY DEF MallocOp, Heap, Link, Allocated

\* So does malloc_free.
LEMMA FreeOpType ==
    ASSUME NEW h \in Heap, NEW b \in Blocks
    PROVE  FreeOp(h, b) \in Heap
<1> DEFINE p == h.prev[b]
           n == h.next[b]
           h1 == IF p # NULL THEN [h EXCEPT !.next[p] = n] ELSE h
           h2 == IF n # NULL THEN [h1 EXCEPT !.prev[n] = p] ELSE h1
<1>1. p \in Link /\ n \in Link
  BY DEF Heap
<1>2. h1 \in Heap
  BY <1>1 DEF Heap, Link
<1> HIDE DEF h1
<1>3. h2 \in Heap
  BY <1>1, <1>2 DEF Heap, Link
<1> HIDE DEF h2
<1>4. [h2 EXCEPT !.live = @ \ {b}, !.curr = IF @ = b /\ h.root # b THEN h2.prev[b] ELSE @] \in Heap
  BY <1>3 DEF Heap, Link
<1>5. [h EXCEPT !.outcome = "freed"] \in Heap
  BY DEF Heap
<1> QED
  BY <1>4, <1>5 DEF FreeOp, h1, h2

\* Every step of the allocator keeps the types.
LEMMA TypeStep == TypeOK /\ [Next]_vars => TypeOK'
<1> SUFFICES ASSUME TypeOK, [Next]_vars PROVE TypeOK'
  OBVIOUS
<1>1. CASE Malloc
  BY <1>1, MallocOpType DEF Malloc, TypeOK
<1>2. CASE MallocNull
  BY <1>2 DEF MallocNull, TypeOK, Heap
<1>3. CASE Free
  BY <1>3, FreeOpType DEF Free, TypeOK
<1>4. CASE Realloc
  BY <1>4, MallocOpType, FreeOpType DEF Realloc, TypeOK
<1>5. CASE Clear
  BY <1>5 DEF Clear, TypeOK, Heap
<1>6. CASE ClearBlock
  BY <1>6 DEF ClearBlock, TypeOK, Heap, Link, Allocated
<1>7. CASE ClearEnd
  BY <1>7 DEF ClearEnd, TypeOK
<1>8. CASE UNCHANGED vars
  BY <1>8 DEF vars, TypeOK
<1> QED
  BY <1>1, <1>2, <1>3, <1>4, <1>5, <1>6, <1>7, <1>8 DEF Next

\* The lists start out well-typed.
LEMMA InitType == Init => TypeOK
  BY DEF Init, TypeOK, Heap, Link

\* Links and list ends are addresses or NULL, for any client.
THEOREM TypeCorrect == Spec => []TypeOK
  BY InitType, TypeStep, PTL DEF Spec

(***************************************************************************)
(* The star, kept by each operation.                                       *)
(***************************************************************************)

\* A new block becomes the first, or the one the first points to.
LEMMA MallocOpStar ==
    ASSUME NEW h \in Heap, Star(h), NEW b \in Blocks \ h.live
    PROVE  /\ Star(MallocOp(h, b))
           /\ b \in MallocOp(h, b).live
           /\ h.root # NULL => MallocOp(h, b).root = h.root
           /\ h.live \subseteq MallocOp(h, b).live
<1>1. CASE h.root = NULL
  BY <1>1, NullAssumption DEF MallocOp, Star, Heap, Link
<1>2. CASE h.root # NULL
  BY <1>2, NullAssumption DEF MallocOp, Star, Heap, Link, Allocated
<1> QED
  BY <1>1, <1>2

\* Releasing any other block leaves the first alone in the list.
LEMMA FreeOpStar ==
    ASSUME NEW h \in Heap, Star(h), NEW b \in h.live, b # h.root
    PROVE  Star(FreeOp(h, b))
<1>1. /\ h.root # NULL /\ h.root \in h.live /\ h.prev[b] = h.root /\ h.next[b] = NULL
      /\ h.curr = h.root
  BY DEF Star
<1>2. FreeOp(h, b) = [h EXCEPT !.next[h.root] = NULL, !.live = @ \ {b}]
  BY <1>1 DEF FreeOp, Allocated, Heap, Star
<1> QED
  BY <1>1, <1>2, NullAssumption DEF Star, Heap, Link

(***************************************************************************)
(* The invariant.                                                          *)
(***************************************************************************)

\* It holds of the empty list.
LEMMA InitIInv == Init => IInv
  BY InitType DEF Init, IInv, Star, ClearPath, NoFreedAccess

\* A disciplined client's calls, and the clear, keep it.
LEMMA NextIInv ==
    ASSUME Disciplined
    PROVE  IInv /\ [Next]_vars => IInv'
<1> SUFFICES ASSUME IInv, [Next]_vars PROVE IInv'
  OBVIOUS
<1>1. TypeOK'
  BY TypeStep DEF IInv
<1>2. Usable => Star(heap) /\ phase = "run"
  BY DEF Usable, IInv, Disciplined
<1>3. CASE Malloc
  <2>1. Star(heap') /\ phase' = "run"
    BY <1>2, <1>3, MallocOpStar DEF Malloc, IInv, TypeOK
  <2> QED
    BY <1>1, <2>1 DEF IInv, Star, NoFreedAccess
<1>4. CASE MallocNull
  BY <1>1, <1>2, <1>4 DEF MallocNull, IInv, NoFreedAccess, TypeOK, Heap
<1>5. CASE Free
  <2>1. Star(heap') /\ phase' = "run"
    BY <1>2, <1>5, FreeOpStar DEF Free, MayFree, Disciplined, IInv, TypeOK
  <2> QED
    BY <1>1, <2>1 DEF IInv, Star, NoFreedAccess
<1>6. CASE Realloc
  <2>1. PICK b \in Blocks, c \in Blocks \ heap.live :
            /\ MayFree(b)
            /\ heap' = IF MallocOp(heap, c).outcome = "ok" THEN FreeOp(MallocOp(heap, c), b)
                                                         ELSE MallocOp(heap, c)
    BY <1>6 DEF Realloc
  <2>2. Usable /\ UNCHANGED phase
    BY <1>6 DEF Realloc
  <2> DEFINE h == MallocOp(heap, c)
  <2>3. b \in heap.live /\ b # heap.root /\ heap.root # NULL
    BY <1>2, <2>1, <2>2 DEF MayFree, Disciplined, Star
  <2>4. h \in Heap /\ Star(h) /\ b \in h.live /\ b # h.root
    BY <1>2, <2>2, <2>3, MallocOpStar, MallocOpType DEF IInv, TypeOK
  <2>5. Star(FreeOp(h, b)) /\ h.outcome = "ok"
    BY <2>4, FreeOpStar DEF Star
  <2> QED
    BY <1>1, <1>2, <2>1, <2>2, <2>5 DEF IInv, Star, NoFreedAccess
<1>7. CASE Clear
  BY <1>1, <1>2, <1>7 DEF Clear, IInv, Star, ClearPath, NoFreedAccess
<1>8. CASE ClearBlock
  <2>1. ClearPath(heap, cursor) /\ cursor # NULL /\ phase = "clear" /\ heap.outcome = "ok"
    BY <1>8 DEF ClearBlock, IInv
  <2>2. heap' = [heap EXCEPT !.live = @ \ {cursor}] /\ cursor' = heap.next[cursor] /\ phase' = "clear"
    BY <1>8, <2>1 DEF ClearBlock, ClearPath, Allocated
  <2>3. heap'.next = heap.next /\ heap'.live = heap.live \ {cursor} /\ heap'.outcome = "ok"
    BY <2>1, <2>2 DEF IInv, TypeOK, Heap
  <2>4. ClearPath(heap', cursor')
    BY <2>1, <2>2, <2>3 DEF ClearPath
  <2> QED
    BY <1>1, <2>2, <2>3, <2>4 DEF IInv, NoFreedAccess
<1>9. CASE ClearEnd
  BY <1>1, <1>9 DEF ClearEnd, IInv, NoFreedAccess
<1>10. CASE UNCHANGED vars
  BY <1>1, <1>10 DEF vars, IInv, NoFreedAccess
<1> QED
  BY <1>3, <1>4, <1>5, <1>6, <1>7, <1>8, <1>9, <1>10 DEF Next

\* With a client that keeps the first block and stops at the clear, no header
\* of a released block is ever read or written, in any sequence of calls.
THEOREM NoFreedAccessHolds ==
    ASSUME Disciplined
    PROVE  Spec => []NoFreedAccess
<1>1. IInv => NoFreedAccess
  BY DEF IInv
<1>2. IInv /\ [Next]_vars => IInv'
  BY NextIInv
<1> QED
  BY <1>1, <1>2, InitIInv, PTL DEF Spec

\* With such a client the list never holds more than the first block and one
\* other, both allocated: malloc_clear gives back no more than two.
THEOREM TracksAtMostTwoHolds ==
    ASSUME Disciplined
    PROVE  Spec => []TracksAtMostTwo
<1>1. IInv => TracksAtMostTwo
  BY DEF IInv, Star, TracksAtMostTwo
<1>2. IInv /\ [Next]_vars => IInv'
  BY NextIInv
<1> QED
  BY <1>1, <1>2, InitIInv, PTL DEF Spec
=============================================================================
