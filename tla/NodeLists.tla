----------------------------- MODULE NodeLists -----------------------------
(***************************************************************************)
(* What the intrusive list of slkc (list.c) promises a client that leaves  *)
(* the heads where they are: a sequence of members for every head, no      *)
(* member in two places, and insertion next to a head or a member.         *)
(***************************************************************************)
EXTENDS Naturals, SequencesExt

CONSTANTS Heads, Members

VARIABLE lists

\* The lists without l.
Without(l) == [h \in Heads |-> RemoveFirst(lists[h], l)]

\* l goes to position k of the list of h.
Put(l, h, k) == lists' = [Without(l) EXCEPT ![h] = InsertAt(@, k, l)]

Init == lists = [h \in Heads |-> <<>>]

Take(l) == lists' = Without(l)

InsertHead(l, h) == Put(l, h, 1)

InsertTail(l, h) == Put(l, h, Len(Without(l)[h]) + 1)

\* Next to the member t of some list.  Next to itself l is in no list.
InsertBefore(l, t) ==
    IF l = t THEN Take(l)
    ELSE \E h \in Heads : \E k \in 1..Len(Without(l)[h]) : Without(l)[h][k] = t /\ Put(l, h, k)

InsertAfter(l, t) ==
    IF l = t THEN Take(l)
    ELSE \E h \in Heads : \E k \in 1..Len(Without(l)[h]) : Without(l)[h][k] = t /\ Put(l, h, k + 1)

Clear(h) == lists' = [lists EXCEPT ![h] = <<>>]

Next ==
    \/ \E l \in Members : Take(l)
    \/ \E l \in Members, h \in Heads : InsertHead(l, h) \/ InsertTail(l, h)
    \/ \E l, t \in Members : InsertBefore(l, t) \/ InsertAfter(l, t)
    \/ \E h \in Heads : Clear(h)

Spec == Init /\ [][Next]_lists
=============================================================================
