-------------------------- MODULE LinearAllocator --------------------------
(***************************************************************************)
(* The linear allocator of slkc (memory.c): blocks are cut off the front   *)
(* of one buffer, and given back all together.  Tokens and syntax nodes    *)
(* live in such buffers.  An address is a number.                          *)
(***************************************************************************)
EXTENDS Integers

CONSTANTS
    Head, Size,     \* the buffer: Head .. Head + Size - 1
    Sizes,          \* the sizes clients ask for
    Alignments,     \* powers of two
    Limit           \* bound on addresses, for the sake of model checking

ASSUME BufferAssumption == Head \in Nat /\ Size \in Nat /\ Limit \in Nat
ASSUME RequestAssumption == Sizes \subseteq Nat \ {0} /\ Alignments \subseteq Nat \ {0}

VARIABLES
    debug,    \* built with _DEBUG
    curr,     \* buffer_curr
    blocks,   \* the blocks handed out since the last clear
    aborted   \* the assertion of linear_malloc has failed

vars == <<debug, curr, blocks, aborted>>

Tail == Head + Size
Block == [from : Nat, to : Nat, alignment : Alignments]

\* Mutated form of AlignForward: rounding down.
AlignBackward(p, a) == p - (p % a)

\* sk_align_forward: (p + (a - 1)) & ~(a - 1)
AlignForward(p, a) == (p + (a - 1)) - ((p + (a - 1)) % a)

InRange(p) == Head <= p /\ p < Tail

\* Mutated forms of Cut: the padding is not stepped over; the start of the
\* block is tested in place of its end.
CutFromCurr(size, a) ==
    LET old == AlignForward(curr, a)
        next == curr + size
    IN  /\ next <= Limit
        /\ IF debug /\ ~InRange(next)
           THEN aborted' = TRUE /\ UNCHANGED <<curr, blocks>>
           ELSE /\ curr' = next
                /\ blocks' = blocks \cup {[from |-> old, to |-> old + size, alignment |-> a]}
                /\ UNCHANGED aborted
CutTestsStart(size, a) ==
    LET old == AlignForward(curr, a)
        next == old + size
    IN  /\ next <= Limit
        /\ IF debug /\ ~InRange(old)
           THEN aborted' = TRUE /\ UNCHANGED <<curr, blocks>>
           ELSE /\ curr' = next
                /\ blocks' = blocks \cup {[from |-> old, to |-> next, alignment |-> a]}
                /\ UNCHANGED aborted

\* linear_malloc.  The bound is only asserted, so a build without _DEBUG goes
\* on behind the buffer.
Cut(size, a) ==
    LET old == AlignForward(curr, a)
        next == old + size
    IN  /\ next <= Limit
        /\ IF debug /\ ~InRange(next)
           THEN aborted' = TRUE /\ UNCHANGED <<curr, blocks>>
           ELSE /\ curr' = next
                /\ blocks' = blocks \cup {[from |-> old, to |-> next, alignment |-> a]}
                /\ UNCHANGED aborted

Malloc(size, a) == ~aborted /\ Cut(size, a) /\ UNCHANGED debug

\* linear_realloc of b: a new block, and the contents are copied; the old block
\* stays cut off.  Nothing happens if the new size is not larger.
Realloc(b, size, a) == ~aborted /\ b.to - b.from < size /\ Cut(size, a) /\ UNCHANGED debug

\* linear_clear
Clear == ~aborted /\ curr' = Head /\ blocks' = {} /\ UNCHANGED <<debug, aborted>>

\* sk_linear_allocator_init
Init == debug \in BOOLEAN /\ curr = Head /\ blocks = {} /\ aborted = FALSE

Next ==
    \/ \E size \in Sizes, a \in Alignments : Malloc(size, a)
    \/ \E b \in blocks, size \in Sizes, a \in Alignments : Realloc(b, size, a)
    \/ Clear

Spec == Init /\ [][Next]_vars

(***************************************************************************)
(* Properties.                                                             *)
(***************************************************************************)

\* Blocks are not empty, aligned as asked, and end before buffer_curr.
TypeOK ==
    /\ debug \in BOOLEAN /\ aborted \in BOOLEAN
    /\ curr \in Nat /\ curr >= Head
    /\ blocks \subseteq Block
    /\ \A b \in blocks : /\ Head <= b.from /\ b.from < b.to /\ b.to <= curr
                         /\ b.from % b.alignment = 0

\* No two blocks handed out since the last clear share an address, whatever
\* sizes and alignments are mixed and however often a block is reallocated;
\* this holds behind the end of the buffer too.
Disjoint == \A b, c \in blocks : b = c \/ b.to <= c.from \/ c.to <= b.from

\* In a build with _DEBUG every block lies in the buffer and leaves at least
\* one address of it free.
InBuffer == debug => \A b \in blocks : Head <= b.from /\ b.to < Tail
=============================================================================
