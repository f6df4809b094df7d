------------------------------- MODULE Scope -------------------------------
(***************************************************************************)
(* The stack of scopes of slkc's semantic analysis (semant.c): scopes in a *)
(* list under a root scope, each with an array of variables, both from     *)
(* malloc allocators (MallocAllocator).                                    *)
(*                                                                         *)
(* sk_pop_scope passes sk_list_remove the address of a scope in place of   *)
(* that of its scope_list, one word further on.  So the operations of      *)
(* list.c are given here on words of memory, where List has the links of   *)
(* nodes: a scope is its words 0 variables, 1 prev_node, 2 next_node and   *)
(* 3 head_node, and taken for a list it has its words one too early.  Its  *)
(* last word, the owner, is itself and is never written again.             *)
(*                                                                         *)
(* Nothing in the repository calls semant.c or initialises its two         *)
(* allocators yet.  The client modelled here has initialised them, has a   *)
(* root scope that is linked to itself, and pops what it has pushed.       *)
(***************************************************************************)
EXTENDS Naturals

CONSTANTS       \* addresses, no two of them the same
    Scopes,     \* addresses of scopes
    Arrays,     \* addresses of arrays of variables
    Root,       \* the client's root scope
    Elsewhere,  \* any other address
    NULL

VARIABLES
    scopes,     \* scope_allocator
    arrays,     \* variable_allocator
    words,      \* the words of each scope, allocated or not
    depth,      \* scopes pushed and not popped
    lost        \* a pointer led where nothing can be said

vars == <<scopes, arrays, words, depth, lost>>

Memory(H, B) == INSTANCE MallocAllocator WITH
    Blocks <- B, heap <- H, phase <- "run", cursor <- NULL, MayFreeFirst <- TRUE, MayReuse <- FALSE

(***************************************************************************)
(* Pointers, and list.c on words.                                          *)
(***************************************************************************)
Whole(s) == <<s, 0>>        \* the address of the scope s
Link(s) == <<s, 1>>         \* the address of its scope_list
prev_node == 0
next_node == 1
head_node == 2

\* Reading and writing a field of the skList at p.  What is written into an
\* array of variables is never read.
Get(m, p, field) == m[p[1]][p[2] + field]
Set(m, p, field, to) ==
    IF p \in (Scopes \cup {Root}) \X {0, 1} THEN [m EXCEPT ![p[1]][p[2] + field] = to] ELSE m

\* sk_list_remove
Removed(m, p) ==
    LET m1 == Set(m, Get(m, p, prev_node), next_node, Get(m, p, next_node))
        m2 == Set(m1, Get(m1, p, next_node), prev_node, Get(m1, p, prev_node))
    IN  Set(Set(Set(m2, p, next_node, p), p, prev_node, p), p, head_node, p)

\* sk_list_insert_before
InsertedBefore(m, p, t) ==
    LET m1 == Set(Removed(m, p), p, next_node, t)
        m2 == Set(m1, p, prev_node, Get(m1, t, prev_node))
        m3 == Set(m2, t, prev_node, p)
        m4 == Set(m3, Get(m3, p, prev_node), next_node, p)
    IN  Set(m4, p, head_node, Get(m4, t, head_node))

\* What sk_list_insert_tail puts a node in front of, and sk_list_tail.
HeadOf(m) == Get(m, Link(Root), head_node)
TailOf(m) == Get(m, HeadOf(m), prev_node)

InUse == (scopes.live \cup {Root}) \X {0, 1} \cup arrays.live
Going == ~lost /\ scopes.outcome = "ok" /\ arrays.outcome = "ok"

\* The program reads or writes through these pointers.  Into released memory
\* that may end the run, or do what it says.
Follows(pointers) ==
    \/ lost' = FALSE /\ pointers \cap {Elsewhere, NULL} = {}
    \/ lost' = TRUE /\ ~(pointers \subseteq InUse')

(***************************************************************************)
(* semant.c                                                                *)
(***************************************************************************)

\* sk_push_scope with sk_init_scope.  sk_list_init would set the owner only,
\* and sk_list_remove reads the links the block s came with: what was last in
\* it, or what malloc fills a block with.
Push ==
    /\ Going
    /\ \E s \in Scopes \ scopes.live, a \in Arrays \ arrays.live :
       \E left \in {words[s], [k \in 0..3 |-> Elsewhere]} :
           LET fresh == [words EXCEPT ![s] = [left EXCEPT ![0] = a]]
               list == Link(s)
           IN  /\ scopes' = Memory(scopes, Scopes)!MallocOp(scopes, s)
               /\ arrays' = Memory(arrays, Arrays)!MallocOp(arrays, a)
               /\ words' = InsertedBefore(fresh, list, HeadOf(fresh))
               /\ Follows({Get(fresh, list, prev_node), Get(fresh, list, next_node),
                           TailOf(Removed(fresh, list))})
    /\ depth' = depth + 1

\* sk_pop_scope: the array is freed, the scope is freed, and the address of the
\* scope goes to sk_list_remove.  That takes the array for the node in front and
\* prev_node for the node behind, and leaves the scope's own address in
\* variables, prev_node and next_node.
PopTail ==
    \E s \in Scopes, a \in Arrays :
        /\ TailOf(words) = Link(s) /\ words[s][0] = a
        /\ arrays' = Memory(arrays, Arrays)!FreeOp(arrays, a)
        /\ scopes' = Memory(scopes, Scopes)!FreeOp(scopes, s)
        /\ words' = Removed(words, Whole(s))
        /\ Follows({Whole(s), a, Get(words, Whole(s), next_node)})

\* The tail is no scope, or its variables are no array: sk_array_free calls as
\* deallocate_func what lies in front of whatever it was given.
PopAnything ==
    /\ \A s \in Scopes : TailOf(words) = Link(s) => words[s][0] \notin Arrays
    /\ lost' = TRUE
    /\ UNCHANGED <<scopes, arrays, words>>

Pop ==
    /\ Going /\ depth > 0
    /\ PopTail \/ PopAnything
    /\ depth' = depth - 1

\* A block that was never given out held no scope: its links lead elsewhere, or
\* to itself, as sk_list_init would have to leave them for the push to work.
Init ==
    /\ scopes = [live |-> {}, prev |-> [s \in Scopes |-> NULL], next |-> [s \in Scopes |-> NULL],
                 root |-> NULL, curr |-> NULL, outcome |-> "ok"]
    /\ arrays = [live |-> {}, prev |-> [a \in Arrays |-> NULL], next |-> [a \in Arrays |-> NULL],
                 root |-> NULL, curr |-> NULL, outcome |-> "ok"]
    /\ \E left \in [Scopes -> {Link(s) : s \in Scopes} \cup {Elsewhere, NULL}] :
           /\ \A s \in Scopes : left[s] \in {Link(s), Elsewhere, NULL}
           /\ words = [s \in Scopes \cup {Root} |->
                          LET link == IF s = Root THEN Link(Root) ELSE left[s]
                          IN  [k \in 0..3 |-> IF k = 0 THEN Elsewhere ELSE link]]
    /\ depth = 0 /\ lost = FALSE

Next == Push \/ Pop

Spec == Init /\ [][Next]_vars

\* list.c:31, "remove ourselfs from previous list": a scope that sk_pop_scope
\* has handed to sk_list_remove is not the tail of the list any more, which is
\* what the next sk_pop_scope takes.
PoppedIsOut == Going => \A s \in Scopes \ scopes.live : TailOf(words) # Link(s)
=============================================================================
