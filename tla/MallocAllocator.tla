-------------------------- MODULE MallocAllocator --------------------------
(***************************************************************************)
(* The malloc allocator of slkc (memory.c): blocks from malloc with a      *)
(* header in front, the headers linked in a list that sk_mem_clear walks   *)
(* to give every block back.                                               *)
(*                                                                         *)
(* A block is its address, and malloc may hand out again the address of a  *)
(* block that was freed.  Reading or writing the header of a block that is *)
(* not allocated is undefined: it sets the outcome to "freed" and stops    *)
(* the machine, whatever a build may do from there.                        *)
(***************************************************************************)
EXTENDS Integers, FiniteSets

CONSTANTS
    Blocks,     \* addresses
    NULL,
    MayFreeFirst, \* the first block allocated may be freed before the clear
    MayReuse      \* the allocator may be used again after the clear

ASSUME NullAssumption == NULL \notin Blocks
ASSUME LibertyAssumption == MayFreeFirst \in BOOLEAN /\ MayReuse \in BOOLEAN

VARIABLES
    heap,    \* the allocated blocks, their headers and the skMallocAllocator
    phase,   \* "run", "clear" inside malloc_clear, "cleared" behind it
    cursor   \* curr_header of malloc_clear

vars == <<heap, phase, cursor>>

Link == Blocks \cup {NULL}

\* Only an access to an allocated header is defined.
Allocated(h, p) == p \in h.live

\* Mutated form of MallocOp: the else is missing, the first block is linked to
\* itself.
MallocOpNoElse(h, b) ==
    LET first == h.root = NULL
        last == IF first THEN b ELSE h.curr
    IN  [h EXCEPT !.live = @ \cup {b}, !.root = IF first THEN b ELSE @, !.curr = last,
                  !.prev[b] = last, !.next = [@ EXCEPT ![b] = NULL, ![last] = b]]

\* malloc_malloc with b the block malloc returns.  The block is linked behind
\* curr_header, which stays where it is.
MallocOp(h, b) ==
    LET linked == h.root # NULL
        h1 == [h EXCEPT !.live = @ \cup {b},
                        !.prev[b] = IF linked THEN h.curr ELSE NULL,
                        !.next[b] = NULL]
    IN  IF ~linked THEN [h1 EXCEPT !.root = b, !.curr = b]
        ELSE IF ~Allocated(h1, h.curr) THEN [h1 EXCEPT !.outcome = "freed"]
        ELSE [h1 EXCEPT !.next[h.curr] = b]

\* Mutated form of FreeOp: the block is released without being unlinked.
FreeOpKeepsLinks(h, b) == [h EXCEPT !.live = @ \ {b}]

\* malloc_free of b: unlink it, step curr_header back if it was the last but
\* not the first, release it.  root_header is left as it is.
FreeOp(h, b) ==
    LET p == h.prev[b]
        n == h.next[b]
        h1 == IF p # NULL THEN [h EXCEPT !.next[p] = n] ELSE h
        h2 == IF n # NULL THEN [h1 EXCEPT !.prev[n] = p] ELSE h1
    IN  IF \/ ~Allocated(h, b)
           \/ p # NULL /\ ~Allocated(h, p)
           \/ n # NULL /\ ~Allocated(h, n)
        THEN [h EXCEPT !.outcome = "freed"]
        ELSE [h2 EXCEPT !.live = @ \ {b},
                        !.curr = IF @ = b /\ h.root # b THEN h2.prev[b] ELSE @]

(***************************************************************************)
(* The operations of the allocator, as a client calls them.                *)
(***************************************************************************)
Usable == heap.outcome = "ok" /\ (phase = "run" \/ (phase = "cleared" /\ MayReuse))
MayFree(b) == b \in heap.live /\ (b # heap.root \/ MayFreeFirst)

Malloc ==
    /\ Usable
    /\ \E b \in Blocks \ heap.live : heap' = MallocOp(heap, b)
    /\ UNCHANGED <<phase, cursor>>

\* malloc returns NULL: nothing looks at it before the header is written.
MallocNull ==
    /\ Usable
    /\ heap' = [heap EXCEPT !.outcome = "null"]
    /\ UNCHANGED <<phase, cursor>>

Free ==
    /\ Usable
    /\ \E b \in Blocks : MayFree(b) /\ heap' = FreeOp(heap, b)
    /\ UNCHANGED <<phase, cursor>>

\* malloc_realloc to a larger size: a new block, then the old one is freed.  To
\* a size not larger it does nothing.
Realloc ==
    /\ Usable
    /\ \E b \in Blocks : MayFree(b) /\
          \E c \in Blocks \ heap.live :
             LET h1 == MallocOp(heap, c)
             IN  heap' = IF h1.outcome = "ok" THEN FreeOp(h1, b) ELSE h1
    /\ UNCHANGED <<phase, cursor>>

Clear ==
    /\ Usable
    /\ phase' = "clear"
    /\ cursor' = heap.root
    /\ UNCHANGED heap

\* Mutated forms of ClearBlock: the loop does not step on; next is read from
\* the header after the block was released.
ClearBlockStays ==
    /\ phase = "clear" /\ heap.outcome = "ok" /\ cursor # NULL
    /\ IF Allocated(heap, cursor)
       THEN heap' = [heap EXCEPT !.live = @ \ {cursor}]
       ELSE heap' = [heap EXCEPT !.outcome = "freed"]
    /\ UNCHANGED <<phase, cursor>>
ClearBlockReadsLate ==
    /\ phase = "clear" /\ heap.outcome = "ok" /\ cursor # NULL
    /\ heap' = [heap EXCEPT !.live = @ \ {cursor}]
    /\ cursor' = "garbage"
    /\ UNCHANGED phase

\* One iteration of the loop of malloc_clear.
ClearBlock ==
    /\ phase = "clear" /\ heap.outcome = "ok" /\ cursor # NULL
    /\ IF Allocated(heap, cursor)
       THEN heap' = [heap EXCEPT !.live = @ \ {cursor}] /\ cursor' = heap.next[cursor]
       ELSE heap' = [heap EXCEPT !.outcome = "freed"] /\ UNCHANGED cursor
    /\ UNCHANGED phase

\* The loop ends; root_header and curr_header keep their values.
ClearEnd ==
    /\ phase = "clear" /\ heap.outcome = "ok" /\ cursor = NULL
    /\ phase' = "cleared"
    /\ UNCHANGED <<heap, cursor>>

Init ==
    /\ heap = [live |-> {}, prev |-> [b \in Blocks |-> NULL], next |-> [b \in Blocks |-> NULL],
               root |-> NULL, curr |-> NULL, outcome |-> "ok"]
    /\ phase = "run"
    /\ cursor = NULL

Next == Malloc \/ MallocNull \/ Free \/ Realloc \/ Clear \/ ClearBlock \/ ClearEnd

\* A client need not call anything, but a call that was made runs on.
Spec == Init /\ [][Next]_vars /\ WF_vars(ClearBlock \/ ClearEnd)

(***************************************************************************)
(* Properties.                                                             *)
(***************************************************************************)
Heap == [live : SUBSET Blocks, prev : [Blocks -> Link], next : [Blocks -> Link],
         root : Link, curr : Link, outcome : {"ok", "freed", "null"}]

\* Links and list ends are addresses or NULL.
TypeOK ==
    /\ heap \in Heap
    /\ phase \in {"run", "clear", "cleared"}
    /\ cursor \in Link

\* No operation reads or writes the header of a block that is not allocated:
\* the sentinel checks of malloc_free and malloc_clear never fail.
NoFreedAccess == heap.outcome # "freed"

\* The list holds at most two blocks, the first and one other that is still
\* allocated; so clear gives back no more than two blocks, and the rest of what
\* is allocated then is lost.
TracksAtMostTwo ==
    phase = "run" /\ heap.outcome = "ok" /\ heap.root # NULL
        => /\ heap.root \in heap.live
           /\ LET second == heap.next[heap.root]
              IN  second # NULL => second \in heap.live \ {heap.root} /\ heap.next[second] = NULL

\* malloc_clear ends: the list has no cycle.
ClearEnds == phase = "clear" ~> phase = "cleared"
=============================================================================
