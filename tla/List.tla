-------------------------------- MODULE List --------------------------------
(***************************************************************************)
(* The intrusive list of slkc (list.c): nodes linked in a circle through   *)
(* a head, each naming its head.  A client embeds a node in its own data   *)
(* and calls with nodes; every insertion first takes the node out of the   *)
(* list it is in.                                                          *)
(*                                                                         *)
(* The owner of a node is left out: nothing in list.c looks at it.         *)
(***************************************************************************)
EXTENDS Naturals, FiniteSets

CONSTANTS
    Nodes,
    Heads,      \* the nodes a client uses as heads
    NULL,
    KeepHeads   \* a client inserts no head anywhere, clears through a linked
                \* member, and inserts next to heads and linked members only

ASSUME NodesAssumption == IsFiniteSet(Nodes) /\ Heads \subseteq Nodes /\ NULL \notin Nodes
ASSUME KeepHeadsAssumption == KeepHeads \in BOOLEAN

VARIABLES
    links,      \* prev_node, next_node and head_node of every node
    clearing    \* the node sk_list_clear is looping for, or NULL

vars == <<links, clearing>>

(***************************************************************************)
(* The operations on the links L.                                          *)
(***************************************************************************)

\* The node alone in its own circle.
Lone(L, l) == [L EXCEPT !.next[l] = l, !.prev[l] = l, !.head[l] = l]

\* Mutated forms of Removed: the links are set to NULL; one of the neighbours
\* is not told.
RemovedToNull(L, l) ==
    LET out == [L EXCEPT !.next[L.prev[l]] = L.next[l], !.prev[L.next[l]] = L.prev[l]]
    IN  [out EXCEPT !.next[l] = NULL, !.prev[l] = NULL, !.head[l] = l]
RemovedOneWay(L, l) == Lone([L EXCEPT !.next[L.prev[l]] = L.next[l]], l)
RemovedOtherWay(L, l) == Lone([L EXCEPT !.prev[L.next[l]] = L.prev[l]], l)

\* sk_list_remove
Removed(L, l) ==
    Lone([L EXCEPT !.next[L.prev[l]] = L.next[l], !.prev[L.next[l]] = L.prev[l]], l)

\* Mutated form of InsertedBefore: head_node is not set.
InsertedBeforeNoHead(L, l, t) ==
    LET R == Removed(L, l)
        p == R.prev[t]
        at == [R EXCEPT !.next[l] = t, !.prev[l] = p]
    IN  [at EXCEPT !.prev[t] = l, !.next[p] = l]

\* sk_list_insert_before; t may be l, which is then left alone.
InsertedBefore(L, l, t) ==
    LET R == Removed(L, l)
        p == R.prev[t]
        at == [R EXCEPT !.next[l] = t, !.prev[l] = p]
    IN  [at EXCEPT !.prev[t] = l, !.next[p] = l, !.head[l] = R.head[t]]

\* sk_list_insert_after
InsertedAfter(L, l, t) ==
    LET R == Removed(L, l)
        n == R.next[t]
        at == [R EXCEPT !.prev[l] = t, !.next[l] = n]
    IN  [at EXCEPT !.next[t] = l, !.prev[n] = l, !.head[l] = R.head[t]]

\* Mutated form of InsertedTail: behind the head.
InsertedTailFront(L, l, t) == InsertedAfter(L, l, L.head[t])

\* sk_list_insert_tail and sk_list_insert_head: next to the head t names.
InsertedTail(L, l, t) == InsertedBefore(L, l, L.head[t])
InsertedHead(L, l, t) == InsertedAfter(L, l, L.head[t])

\* sk_list_tail
TailOf(L, l) == L.prev[L.head[l]]

\* The k-th node from n on, and sk_list_count: the steps from the head of l
\* back to it, itself not counted.
Walk(L, n) ==
    LET at[k \in 0..Cardinality(Nodes)] == IF k = 0 THEN n ELSE L.next[at[k - 1]]
    IN  at
Count(L, l) ==
    LET h == L.head[l]
        back(k) == Walk(L, h)[k] = h
    IN  CHOOSE k \in 0..(Cardinality(Nodes) - 1) :
            back(k + 1) /\ \A j \in 1..k : ~back(j)

(***************************************************************************)
(* The machine: a client calls one operation after another.                *)
(***************************************************************************)
Linked(n) == links.next[n] # n
Movable == IF KeepHeads THEN Nodes \ Heads ELSE Nodes
Targets == IF KeepHeads THEN Heads \cup {n \in Nodes : Linked(n)} ELSE Nodes

Remove(l) ==
    /\ clearing = NULL
    /\ links' = Removed(links, l)
    /\ UNCHANGED clearing

InsertBefore(l, t) ==
    /\ clearing = NULL
    /\ links' = InsertedBefore(links, l, t)
    /\ UNCHANGED clearing

InsertAfter(l, t) ==
    /\ clearing = NULL
    /\ links' = InsertedAfter(links, l, t)
    /\ UNCHANGED clearing

InsertTail(l, t) ==
    /\ clearing = NULL
    /\ links' = InsertedTail(links, l, t)
    /\ UNCHANGED clearing

InsertHead(l, t) ==
    /\ clearing = NULL
    /\ links' = InsertedHead(links, l, t)
    /\ UNCHANGED clearing

\* sk_list_clear of a head takes the head out and nothing else.
ClearHead(l) ==
    /\ clearing = NULL /\ links.head[l] = l
    /\ links' = Removed(links, l)
    /\ UNCHANGED clearing

\* Of any other node it takes out all the nodes around it, the head too.
ClearMember(l) ==
    /\ clearing = NULL /\ links.head[l] # l
    /\ KeepHeads => Linked(l)
    /\ clearing' = l
    /\ UNCHANGED links

ClearStep ==
    /\ clearing # NULL /\ Linked(clearing)
    /\ links' = Removed(links, links.next[clearing])
    /\ UNCHANGED clearing

\* Mutated form of ClearEnd: the loop stops in front of the head.
ClearEndAtHead ==
    /\ clearing # NULL /\ links.next[clearing] = links.head[clearing]
    /\ clearing' = NULL
    /\ UNCHANGED links

\* The node itself goes on naming the head it had.
ClearEnd ==
    /\ clearing # NULL /\ ~Linked(clearing)
    /\ clearing' = NULL
    /\ UNCHANGED links

\* Every node in a circle of its own.  sk_list_init sets only the owner, so the
\* client has to link the node before its first call: sk_list_remove reads the
\* links.
Init ==
    /\ links = [prev |-> [n \in Nodes |-> n], next |-> [n \in Nodes |-> n], head |-> [n \in Nodes |-> n]]
    /\ clearing = NULL

Next ==
    \/ \E l \in Movable : Remove(l) \/ ClearHead(l) \/ ClearMember(l)
    \/ \E l \in Movable, t \in Targets :
           InsertBefore(l, t) \/ InsertAfter(l, t) \/ InsertTail(l, t) \/ InsertHead(l, t)
    \/ ClearStep \/ ClearEnd

\* A client need not call anything, but a call that was made runs on.
Spec == Init /\ [][Next]_vars /\ WF_vars(ClearStep \/ ClearEnd)

(***************************************************************************)
(* Properties.                                                             *)
(***************************************************************************)

\* No operation leaves a link that is not a node.
TypeOK ==
    /\ links \in [prev : [Nodes -> Nodes], next : [Nodes -> Nodes], head : [Nodes -> Nodes]]
    /\ clearing \in Nodes \cup {NULL}

\* The nodes form circles: next_node and prev_node undo each other, between any
\* two calls and in the middle of sk_list_clear, whichever nodes a client moves.
Circular == \A n \in Nodes : links.prev[links.next[n]] = n /\ links.next[links.prev[n]] = n

\* All the nodes of a circle name the same head, which is a head and names
\* itself; so no two heads are ever in one circle.
OneHead ==
    /\ \A h \in Heads : links.head[h] = h
    /\ \A n \in Nodes : Linked(n) => /\ links.head[links.next[n]] = links.head[n]
                                     /\ links.head[n] \in Heads

\* A clear that began ends.
ClearEnds == clearing # NULL ~> clearing = NULL

\* The members of the list of h, which a clear empties at once.
ListOf(h) ==
    IF clearing # NULL /\ links.head[clearing] = h THEN <<>>
    ELSE [k \in 1..Count(links, h) |-> Walk(links, h)[k]]
Lists == INSTANCE NodeLists WITH
    Members <- Nodes \ Heads, lists <- [h \in Heads |-> ListOf(h)]

\* Of a client that keeps its heads the list makes one sequence per head.
ImplementsLists == Lists!Spec

\* Every call does to the sequences what its name says: it is that operation of
\* the sequences and no other one.
CallsDoAsNamed ==
    [][\A l \in Movable :
           /\ Remove(l) => Lists!Take(l)
           /\ ClearMember(l) => Lists!Clear(links.head[l])
           /\ \A t \in Targets :
                  /\ InsertTail(l, t) => Lists!InsertTail(l, links.head[t])
                  /\ InsertHead(l, t) => Lists!InsertHead(l, links.head[t])
                  /\ t \notin Heads => /\ InsertBefore(l, t) => Lists!InsertBefore(l, t)
                                       /\ InsertAfter(l, t) => Lists!InsertAfter(l, t)]_vars
=============================================================================
