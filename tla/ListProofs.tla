----------------------------- MODULE ListProofs -----------------------------
(***************************************************************************)
(* Proofs about List, for every finite set of nodes.  Types and circles    *)
(* hold of any client; one head per circle, and that the list makes one    *)
(* sequence per head, need a client that keeps its heads.                  *)
(***************************************************************************)
EXTENDS List, Induction, SequenceTheorems, TLAPS

Links == [prev : [Nodes -> Nodes], next : [Nodes -> Nodes], head : [Nodes -> Nodes]]

\* The parts of Circular and OneHead that speak of the links alone.
Circles(L) == \A n \in Nodes : L.prev[L.next[n]] = n /\ L.next[L.prev[n]] = n
Headed(L) ==
    /\ \A h \in Heads : L.head[h] = h
    /\ \A n \in Nodes : L.next[n] # n => /\ L.head[L.next[n]] = L.head[n]
                                         /\ L.head[n] \in Heads

(***************************************************************************)
(* The operations keep links nodes and circles circles.                    *)
(***************************************************************************)

\* Removal writes nodes only.
LEMMA RemovedType ==
    ASSUME NEW L \in Links, NEW l \in Nodes
    PROVE  Removed(L, l) \in Links
  BY DEF Removed, Lone, Links

\* Where the links of a node point when l is gone.
LEMMA RemovedLinks ==
    ASSUME NEW L \in Links, NEW l \in Nodes
    PROVE  /\ Removed(L, l).next = [[L.next EXCEPT ![L.prev[l]] = L.next[l]] EXCEPT ![l] = l]
           /\ Removed(L, l).prev = [[L.prev EXCEPT ![L.next[l]] = L.prev[l]] EXCEPT ![l] = l]
           /\ Removed(L, l).head = [L.head EXCEPT ![l] = l]
  BY DEF Removed, Lone, Links

\* Removal closes the circle behind the node.
LEMMA RemovedCircles ==
    ASSUME NEW L \in Links, Circles(L), NEW l \in Nodes
    PROVE  Circles(Removed(L, l))
<1> DEFINE R == Removed(L, l)
<1>1. SUFFICES ASSUME NEW n \in Nodes
               PROVE  R.prev[R.next[n]] = n /\ R.next[R.prev[n]] = n
  BY DEF Circles
<1>2. /\ L.next \in [Nodes -> Nodes] /\ L.prev \in [Nodes -> Nodes]
      /\ \A m \in Nodes : L.prev[L.next[m]] = m /\ L.next[L.prev[m]] = m
  BY DEF Links, Circles
<1>3. /\ \A m \in Nodes : R.next[m] = IF m = l THEN l ELSE IF m = L.prev[l] THEN L.next[l] ELSE L.next[m]
      /\ \A m \in Nodes : R.prev[m] = IF m = l THEN l ELSE IF m = L.next[l] THEN L.prev[l] ELSE L.prev[m]
  <2>1. /\ R.next = [[L.next EXCEPT ![L.prev[l]] = L.next[l]] EXCEPT ![l] = l]
        /\ R.prev = [[L.prev EXCEPT ![L.next[l]] = L.prev[l]] EXCEPT ![l] = l]
    BY RemovedLinks
  <2> HIDE DEF R
  <2> QED
    BY <1>2, <2>1
<1> HIDE DEF R
<1>4. R.prev[R.next[n]] = n
  BY <1>2, <1>3
<1>5. R.next[R.prev[n]] = n
  BY <1>2, <1>3
<1> QED
  BY <1>4, <1>5

\* So does insertion, on either side of any node.
LEMMA InsertedType ==
    ASSUME NEW L \in Links, NEW l \in Nodes, NEW t \in Nodes
    PROVE  InsertedBefore(L, l, t) \in Links /\ InsertedAfter(L, l, t) \in Links
<1> DEFINE R == Removed(L, l)
<1>1. R \in Links
  BY RemovedType
<1> HIDE DEF R
<1>2. R.prev[t] \in Nodes /\ R.next[t] \in Nodes /\ R.head[t] \in Nodes
  BY <1>1 DEF Links
<1> QED
  BY <1>1, <1>2 DEF InsertedBefore, InsertedAfter, R, Links

\* After removal the node stands alone.
LEMMA RemovedAlone ==
    ASSUME NEW L \in Links, NEW l \in Nodes
    PROVE  Removed(L, l).next[l] = l /\ Removed(L, l).prev[l] = l /\ Removed(L, l).head[l] = l
  BY DEF Removed, Lone, Links

\* Insertion opens one circle and closes it around the node.
LEMMA InsertedCircles ==
    ASSUME NEW L \in Links, Circles(L), NEW l \in Nodes, NEW t \in Nodes
    PROVE  Circles(InsertedBefore(L, l, t)) /\ Circles(InsertedAfter(L, l, t))
<1> DEFINE R == Removed(L, l)
           B == InsertedBefore(L, l, t)
           A == InsertedAfter(L, l, t)
<1>1. R \in Links /\ Circles(R) /\ R.next[l] = l /\ R.prev[l] = l
  BY RemovedType, RemovedCircles, RemovedAlone
<1>2. /\ B.next = [[R.next EXCEPT ![l] = t] EXCEPT ![R.prev[t]] = l]
      /\ B.prev = [[R.prev EXCEPT ![l] = R.prev[t]] EXCEPT ![t] = l]
      /\ A.prev = [[R.prev EXCEPT ![l] = t] EXCEPT ![R.next[t]] = l]
      /\ A.next = [[R.next EXCEPT ![l] = R.next[t]] EXCEPT ![t] = l]
  BY <1>1 DEF InsertedBefore, InsertedAfter, Links
<1>3. /\ R.next \in [Nodes -> Nodes] /\ R.prev \in [Nodes -> Nodes]
      /\ \A m \in Nodes : R.prev[R.next[m]] = m /\ R.next[R.prev[m]] = m
  BY <1>1 DEF Links, Circles
<1> HIDE DEF R, A, B
<1>4. Circles(B)
  <2>1. SUFFICES ASSUME NEW n \in Nodes PROVE B.prev[B.next[n]] = n /\ B.next[B.prev[n]] = n
    BY DEF Circles
  <2>2. /\ \A m \in Nodes : B.next[m] = IF m = R.prev[t] THEN l ELSE IF m = l THEN t ELSE R.next[m]
        /\ \A m \in Nodes : B.prev[m] = IF m = t THEN l ELSE IF m = l THEN R.prev[t] ELSE R.prev[m]
    BY <1>2, <1>3
  <2>3. B.prev[B.next[n]] = n
    BY <1>1, <1>3, <2>2
  <2>4. B.next[B.prev[n]] = n
    BY <1>1, <1>3, <2>2
  <2> QED
    BY <2>3, <2>4
<1>5. Circles(A)
  <2>1. SUFFICES ASSUME NEW n \in Nodes PROVE A.prev[A.next[n]] = n /\ A.next[A.prev[n]] = n
    BY DEF Circles
  <2>2. /\ \A m \in Nodes : A.prev[m] = IF m = R.next[t] THEN l ELSE IF m = l THEN t ELSE R.prev[m]
        /\ \A m \in Nodes : A.next[m] = IF m = t THEN l ELSE IF m = l THEN R.next[t] ELSE R.next[m]
    BY <1>2, <1>3
  <2>3. A.prev[A.next[n]] = n
    BY <1>1, <1>3, <2>2
  <2>4. A.next[A.prev[n]] = n
    BY <1>1, <1>3, <2>2
  <2> QED
    BY <2>3, <2>4
<1> QED
  BY <1>4, <1>5 DEF A, B

(***************************************************************************)
(* They keep one head per circle, as long as no head is moved.             *)
(***************************************************************************)

\* Taking out a node, a head too, leaves every other node named as it was.
LEMMA RemovedHeaded ==
    ASSUME NEW L \in Links, Circles(L), Headed(L), NEW l \in Nodes
    PROVE  Headed(Removed(L, l))
<1> DEFINE R == Removed(L, l)
<1>1. /\ R.next = [[L.next EXCEPT ![L.prev[l]] = L.next[l]] EXCEPT ![l] = l]
      /\ R.head = [L.head EXCEPT ![l] = l]
  BY RemovedLinks
<1> HIDE DEF R
<1>2. /\ L.next \in [Nodes -> Nodes] /\ L.prev \in [Nodes -> Nodes] /\ L.head \in [Nodes -> Nodes]
      /\ \A m \in Nodes : L.prev[L.next[m]] = m /\ L.next[L.prev[m]] = m
  BY DEF Links, Circles
<1>3. \A h \in Heads : R.head[h] = h
  BY <1>1, <1>2, NodesAssumption DEF Headed
<1>4. ASSUME NEW n \in Nodes, R.next[n] # n
      PROVE  R.head[R.next[n]] = R.head[n] /\ R.head[n] \in Heads
  <2>1. n # l
    BY <1>1, <1>2, <1>4
  <2>2. CASE n = L.prev[l]
    <3>1. R.next[n] = L.next[l] /\ L.next[l] # n
      BY <1>1, <1>2, <1>4, <2>1, <2>2
    <3>2. L.next[n] = l /\ L.next[l] # l
      BY <1>2, <2>1, <2>2
    <3>3. L.head[l] = L.head[n] /\ L.head[L.next[l]] = L.head[l] /\ L.head[n] \in Heads
      BY <2>1, <3>2 DEF Headed
    <3> QED
      BY <1>1, <1>2, <2>1, <3>1, <3>2, <3>3
  <2>3. CASE n # L.prev[l]
    <3>1. R.next[n] = L.next[n] /\ L.next[n] # l
      BY <1>1, <1>2, <2>1, <2>3
    <3>2. L.head[L.next[n]] = L.head[n] /\ L.head[n] \in Heads
      BY <1>4, <3>1 DEF Headed
    <3> QED
      BY <1>1, <1>2, <2>1, <3>1, <3>2
  <2> QED
    BY <2>2, <2>3
<1> QED
  BY <1>3, <1>4 DEF Headed, R

\* In such links a linked node, or a head, stands next to nodes that name the
\* same head.
LEMMA InsertedHeaded ==
    ASSUME NEW L \in Links, Circles(L), Headed(L), NEW l \in Nodes, l \notin Heads,
           NEW t \in Nodes, t \in Heads \/ L.next[t] # t
    PROVE  Headed(InsertedBefore(L, l, t)) /\ Headed(InsertedAfter(L, l, t))
<1> DEFINE R == Removed(L, l)
           B == InsertedBefore(L, l, t)
           A == InsertedAfter(L, l, t)
<1>1. /\ R \in Links /\ Circles(R) /\ Headed(R)
      /\ R.next[l] = l /\ R.prev[l] = l /\ R.head[l] = l
  BY RemovedType, RemovedCircles, RemovedHeaded, RemovedAlone
<1>2. /\ R.next = [[L.next EXCEPT ![L.prev[l]] = L.next[l]] EXCEPT ![l] = l]
      /\ R.head = [L.head EXCEPT ![l] = l]
  BY RemovedLinks
<1>3. /\ B.next = [[R.next EXCEPT ![l] = t] EXCEPT ![R.prev[t]] = l]
      /\ B.head = [R.head EXCEPT ![l] = R.head[t]]
      /\ A.next = [[R.next EXCEPT ![l] = R.next[t]] EXCEPT ![t] = l]
      /\ A.head = [R.head EXCEPT ![l] = R.head[t]]
  BY <1>1 DEF InsertedBefore, InsertedAfter, Links
<1>4. /\ R.next \in [Nodes -> Nodes] /\ R.prev \in [Nodes -> Nodes] /\ R.head \in [Nodes -> Nodes]
      /\ \A m \in Nodes : R.prev[R.next[m]] = m /\ R.next[R.prev[m]] = m
      /\ \A h \in Heads : R.head[h] = h
      /\ \A m \in Nodes : R.next[m] # m => R.head[R.next[m]] = R.head[m] /\ R.head[m] \in Heads
  BY <1>1 DEF Links, Circles, Headed
<1> HIDE DEF R, A, B
<1>5. t # l => R.head[t] \in Heads
  <2>1. CASE t \in Heads
    BY <1>4, <2>1
  <2>2. CASE t # l /\ t \notin Heads
    <3>1. L.head[t] \in Heads
      BY <2>2 DEF Headed
    <3> QED
      BY <1>2, <2>2, <3>1 DEF Links
  <2> QED
    BY <2>1, <2>2
<1>6. R.head[R.prev[t]] = R.head[t] /\ R.head[R.next[t]] = R.head[t]
  BY <1>4
<1>7. Headed(B)
  <2>1. \A h \in Heads : B.head[h] = h
    BY <1>3, <1>4, NodesAssumption
  <2>2. ASSUME NEW n \in Nodes, B.next[n] # n
        PROVE  B.head[B.next[n]] = B.head[n] /\ B.head[n] \in Heads
    <3>1. CASE t = l
      BY <1>1, <1>3, <1>4, <2>2, <3>1
    <3>2. CASE t # l /\ n = l
      BY <1>1, <1>3, <1>4, <1>5, <3>2
    <3>3. CASE t # l /\ n # l /\ n = R.prev[t]
      BY <1>1, <1>3, <1>4, <1>5, <1>6, <3>3
    <3>4. CASE n # l /\ n # R.prev[t]
      <4>1. B.next[n] = R.next[n] /\ R.next[n] # l /\ R.next[n] \in Nodes
        BY <1>1, <1>3, <1>4, <3>4
      <4> QED
        BY <1>3, <1>4, <2>2, <3>4, <4>1
    <3> QED
      BY <3>1, <3>2, <3>3, <3>4
  <2> QED
    BY <2>1, <2>2 DEF Headed
<1>8. Headed(A)
  <2>1. \A h \in Heads : A.head[h] = h
    BY <1>3, <1>4, NodesAssumption
  <2>2. ASSUME NEW n \in Nodes, A.next[n] # n
        PROVE  A.head[A.next[n]] = A.head[n] /\ A.head[n] \in Heads
    <3>1. CASE t = l
      BY <1>1, <1>3, <1>4, <2>2, <3>1
    <3>2. CASE t # l /\ n = l
      <4>1. A.next[n] = R.next[t] /\ R.next[t] # l /\ R.next[t] \in Nodes
        BY <1>1, <1>3, <1>4, <3>2
      <4> QED
        BY <1>3, <1>4, <1>5, <1>6, <3>2, <4>1
    <3>3. CASE t # l /\ n # l /\ n = t
      BY <1>3, <1>4, <1>5, <3>3
    <3>4. CASE n # l /\ n # t
      <4>1. A.next[n] = R.next[n] /\ R.next[n] # l /\ R.next[n] \in Nodes
        BY <1>1, <1>3, <1>4, <3>4
      <4> QED
        BY <1>3, <1>4, <2>2, <3>4, <4>1
    <3> QED
      BY <3>1, <3>2, <3>3, <3>4
  <2> QED
    BY <2>1, <2>2 DEF Headed
<1> QED
  BY <1>7, <1>8 DEF A, B

(***************************************************************************)
(* The machine.                                                            *)
(***************************************************************************)

\* What holds of any client.
AnyClient == TypeOK /\ Circular

\* The operations in terms of the lemmas: links change by a removal or an
\* insertion, of nodes.
LEMMA StepKinds ==
    ASSUME TypeOK, [Next]_vars
    PROVE  /\ clearing' \in Nodes \cup {NULL}
           /\ \/ links' = links
              \/ \E l \in Nodes : links' = Removed(links, l)
              \/ \E l \in Movable, t \in Nodes :
                     /\ KeepHeads => t \in Heads \/ Linked(t)
                     /\ links' = InsertedBefore(links, l, t) \/ links' = InsertedAfter(links, l, t)
              \/ \E l \in Movable, t \in Targets :
                     links' = InsertedTail(links, l, t) \/ links' = InsertedHead(links, l, t)
<1>1. Movable \subseteq Nodes /\ Targets \subseteq Nodes
  BY NodesAssumption DEF Movable, Targets
<1>2. \A t \in Targets : KeepHeads => t \in Heads \/ Linked(t)
  BY DEF Targets
<1>3. ASSUME NEW l \in Movable, Remove(l) \/ ClearHead(l)
      PROVE  links' = Removed(links, l) /\ clearing' = clearing
  BY <1>3 DEF Remove, ClearHead
<1>4. ASSUME NEW l \in Movable, ClearMember(l)
      PROVE  links' = links /\ clearing' = l
  BY <1>4 DEF ClearMember
<1>5. ASSUME NEW l \in Movable, NEW t \in Targets,
             InsertBefore(l, t) \/ InsertAfter(l, t) \/ InsertTail(l, t) \/ InsertHead(l, t)
      PROVE  /\ clearing' = clearing
             /\ \/ links' = InsertedBefore(links, l, t) \/ links' = InsertedAfter(links, l, t)
                \/ links' = InsertedTail(links, l, t) \/ links' = InsertedHead(links, l, t)
  BY <1>5 DEF InsertBefore, InsertAfter, InsertTail, InsertHead
<1>6. ASSUME ClearStep
      PROVE  clearing' = clearing /\ \E l \in Nodes : links' = Removed(links, l)
  <2>1. links.next[clearing] \in Nodes
    BY <1>6 DEF ClearStep, TypeOK
  <2> QED
    BY <1>6, <2>1 DEF ClearStep
<1>7. ASSUME ClearEnd \/ UNCHANGED vars
      PROVE  links' = links /\ (clearing' = clearing \/ clearing' = NULL)
  BY <1>7 DEF ClearEnd, vars
<1> QED
  BY <1>1, <1>2, <1>3, <1>4, <1>5, <1>6, <1>7 DEF Next, TypeOK

\* Circles of nodes, kept by every step.
LEMMA AnyClientStep == AnyClient /\ [Next]_vars => AnyClient'
<1> SUFFICES ASSUME AnyClient, [Next]_vars PROVE AnyClient'
  OBVIOUS
<1>1. links \in Links /\ Circles(links)
  BY DEF AnyClient, TypeOK, Circular, Links, Circles
<1>2. Movable \subseteq Nodes /\ Targets \subseteq Nodes
  BY NodesAssumption DEF Movable, Targets
<1>3. \A t \in Nodes : links.head[t] \in Nodes
  BY <1>1 DEF Links
<1>4. links' \in Links /\ Circles(links')
  <2>1. CASE links' = links
    BY <1>1, <2>1
  <2>2. CASE \E l \in Nodes : links' = Removed(links, l)
    BY <1>1, <2>2, RemovedType, RemovedCircles
  <2>3. CASE \E l, t \in Nodes : links' = InsertedBefore(links, l, t) \/ links' = InsertedAfter(links, l, t)
    BY <1>1, <2>3, InsertedType, InsertedCircles
  <2> QED
    BY <1>2, <1>3, <2>1, <2>2, <2>3, StepKinds DEF AnyClient, InsertedTail, InsertedHead
<1> QED
  BY <1>4, StepKinds DEF AnyClient, TypeOK, Circular, Links, Circles

\* Each node in a circle of its own.
LEMMA AnyClientInit == Init => AnyClient
  BY DEF Init, AnyClient, TypeOK, Circular

\* No operation of any client leaves a link that is not a node.
THEOREM TypeCorrect == Spec => []TypeOK
<1>1. AnyClient => TypeOK
  BY DEF AnyClient
<1> QED
  BY <1>1, AnyClientInit, AnyClientStep, PTL DEF Spec

\* Whatever a client does, with heads and members alike, the nodes stay linked
\* in circles: no node is lost and no walk along next_node leaves its circle.
THEOREM AlwaysCircular == Spec => []Circular
<1>1. AnyClient => Circular
  BY DEF AnyClient
<1> QED
  BY <1>1, AnyClientInit, AnyClientStep, PTL DEF Spec

\* One head per circle, kept by every step of a client that keeps its heads.
LEMMA OneHeadStep ==
    ASSUME KeepHeads = TRUE
    PROVE  AnyClient /\ OneHead /\ [Next]_vars => OneHead'
<1> SUFFICES ASSUME AnyClient, OneHead, [Next]_vars PROVE OneHead'
  OBVIOUS
<1>1. links \in Links /\ Circles(links) /\ Headed(links)
  BY DEF AnyClient, TypeOK, Circular, Links, Circles, OneHead, Headed, Linked
<1>2. Movable = Nodes \ Heads /\ Targets = Heads \cup {n \in Nodes : Linked(n)}
  BY DEF Movable, Targets
<1>3. \A t \in Targets : links.head[t] \in Heads
  BY <1>1, <1>2 DEF Headed, Linked
<1>4. Headed(links')
  <2>1. CASE links' = links
    BY <1>1, <2>1
  <2>2. CASE \E l \in Nodes : links' = Removed(links, l)
    BY <1>1, <2>2, RemovedHeaded
  <2>3. CASE \E l \in Nodes \ Heads, t \in Nodes :
                 /\ t \in Heads \/ Linked(t)
                 /\ links' = InsertedBefore(links, l, t) \/ links' = InsertedAfter(links, l, t)
    BY <1>1, <2>3, InsertedHeaded DEF Linked
  <2> QED
    BY <1>2, <1>3, <2>1, <2>2, <2>3, StepKinds, NodesAssumption DEF AnyClient, InsertedTail, InsertedHead
<1> QED
  BY <1>4 DEF OneHead, Headed, Linked

\* A client that keeps its heads never has two of them in one circle, nor a
\* linked node that names any other head than its neighbours do.
THEOREM AlwaysOneHead ==
    ASSUME KeepHeads = TRUE
    PROVE  Spec => []OneHead
<1>1. Init => OneHead
  BY NodesAssumption DEF Init, OneHead, Linked
<1>2. AnyClient /\ OneHead /\ [Next]_vars => OneHead'
  BY OneHeadStep
<1> QED
  BY <1>1, <1>2, AnyClientInit, AnyClientStep, PTL DEF Spec

(***************************************************************************)
(* Rings.                                                                  *)
(***************************************************************************)

\* c[0], ..., c[n] are the circle of the node a: all of them name the head h,
\* and every linked node that names h is one of them.
Ring(L, a, h, n, c) ==
    /\ n \in Nat /\ c \in [0..n -> Nodes] /\ c[0] = a
    /\ \A i, j \in 0..n : c[i] = c[j] => i = j
    /\ \A i \in 0..(n - 1) : L.next[c[i]] = c[i + 1]
    /\ L.next[c[n]] = a
    /\ \A i \in 0..n : L.head[c[i]] = h
    /\ \A m \in Nodes : L.next[m] # m /\ L.head[m] = h => \E i \in 0..n : c[i] = m

\* The nodes behind a, and the rings without c[j] and with l behind c[j].
Behind(n, c) == [k \in 1..n |-> c[k]]
Dropped(n, c, j) == [i \in 0..(n - 1) |-> IF i < j THEN c[i] ELSE c[i + 1]]
Spliced(n, c, j, l) == [i \in 0..(n + 1) |-> IF i <= j THEN c[i] ELSE IF i = j + 1 THEN l ELSE c[i - 1]]

\* The nodes behind a make a sequence.
LEMMA BehindIsSeq ==
    ASSUME NEW n \in Nat, NEW c \in [0..n -> Nodes]
    PROVE  Behind(n, c) \in Seq(Nodes) /\ Len(Behind(n, c)) = n
  BY DEF Behind

\* Taking c[j] out of the sequence, and l that is not in it.
LEMMA BehindDropped ==
    ASSUME NEW n \in Nat, NEW c \in [0..n -> Nodes], \A i, j \in 0..n : c[i] = c[j] => i = j
    PROVE  /\ \A j \in 1..n : Lists!RemoveFirst(Behind(n, c), c[j]) = Behind(n - 1, Dropped(n, c, j))
           /\ \A l : (\A i \in 0..n : c[i] # l) => Lists!RemoveFirst(Behind(n, c), l) = Behind(n, c)
<1> DEFINE s == Behind(n, c)
<1>1. s \in Seq(Nodes) /\ Len(s) = n /\ \A i \in 1..n : s[i] = c[i]
  BY BehindIsSeq DEF Behind
<1>2. ASSUME NEW j \in 1..n
      PROVE  Lists!RemoveFirst(s, c[j]) = Behind(n - 1, Dropped(n, c, j))
  <2> HIDE DEF s
  <2>1. {i \in 1..Len(s) : s[i] = c[j]} = {j}
    BY <1>1
  <2>2. Lists!Min({j}) = j
    BY DEF Lists!Min
  <2>3. Lists!RemoveFirst(s, c[j]) = SubSeq(s, 1, j - 1) \o SubSeq(s, j + 1, Len(s))
    BY <1>1, <2>1, <2>2 DEF Lists!RemoveFirst, Lists!RemoveAt, Lists!SelectInSeq
  <2> DEFINE u == SubSeq(s, 1, j - 1)
             v == SubSeq(s, j + 1, Len(s))
             x == u \o v
             d == Dropped(n, c, j)
             r == Behind(n - 1, d)
  <2>4. u \in Seq(Nodes) /\ Len(u) = j - 1 /\ \A i \in 1..(j - 1) : u[i] = s[i]
    BY <1>1, SubSeqProperties
  <2>5. v \in Seq(Nodes) /\ Len(v) = n - j /\ \A i \in 1..(n - j) : v[i] = s[j + i]
    BY <1>1, SubSeqProperties
  <2>6. d \in [0..(n - 1) -> Nodes] /\ \A i \in 0..(n - 1) : d[i] = IF i < j THEN c[i] ELSE c[i + 1]
    BY DEF Dropped
  <2> HIDE DEF u, v, d
  <2>7. r \in Seq(Nodes) /\ Len(r) = n - 1 /\ \A i \in 1..(n - 1) : r[i] = d[i]
    BY <2>6, BehindIsSeq DEF Behind
  <2> HIDE DEF r
  <2>8. /\ x \in Seq(Nodes) /\ Len(x) = n - 1
        /\ \A i \in 1..(n - 1) : x[i] = IF i <= j - 1 THEN u[i] ELSE v[i - (j - 1)]
    BY <2>4, <2>5, ConcatProperties
  <2> HIDE DEF x
  <2>9. ASSUME NEW i \in 1..(n - 1) PROVE x[i] = r[i]
    <3>1. CASE i < j
      BY <1>1, <2>4, <2>6, <2>7, <2>8, <3>1
    <3>2. CASE i >= j
      <4>1. i - (j - 1) \in 1..(n - j) /\ j + (i - (j - 1)) = i + 1 /\ i + 1 \in 1..n
        BY <3>2
      <4> QED
        BY <1>1, <2>5, <2>6, <2>7, <2>8, <3>2, <4>1
    <3> QED
      BY <3>1, <3>2
  <2>10. x = r
    BY <2>7, <2>8, <2>9, SeqEqual
  <2> QED
    BY <2>3, <2>10 DEF x, u, v, r, d
<1>3. ASSUME NEW l, \A i \in 0..n : c[i] # l
      PROVE  Lists!RemoveFirst(s, l) = s
  BY <1>1, <1>3 DEF Lists!RemoveFirst
<1> QED
  BY <1>2, <1>3

\* Putting l in behind c[j].
LEMMA BehindSpliced ==
    ASSUME NEW n \in Nat, NEW c \in [0..n -> Nodes], NEW j \in 0..n, NEW l \in Nodes
    PROVE  Lists!InsertAt(Behind(n, c), j + 1, l) = Behind(n + 1, Spliced(n, c, j, l))
<1> DEFINE s == Behind(n, c)
           u == SubSeq(s, 1, j)
           v == SubSeq(s, j + 1, Len(s))
           w == u \o <<l>>
           x == w \o v
           d == Spliced(n, c, j, l)
           r == Behind(n + 1, d)
<1>1. s \in Seq(Nodes) /\ Len(s) = n /\ \A i \in 1..n : s[i] = c[i]
  BY BehindIsSeq DEF Behind
<1>2. Lists!InsertAt(s, j + 1, l) = x
  <2>1. (j + 1) - 1 = j
    OBVIOUS
  <2> QED
    BY <2>1, Zenon DEF Lists!InsertAt
<1> HIDE DEF s
<1>3. u \in Seq(Nodes) /\ Len(u) = j /\ \A i \in 1..j : u[i] = s[i]
  BY <1>1, SubSeqProperties
<1>4. v \in Seq(Nodes) /\ Len(v) = n - j /\ \A i \in 1..(n - j) : v[i] = s[j + i]
  BY <1>1, SubSeqProperties
<1>5. d \in [0..(n + 1) -> Nodes]
      /\ \A i \in 0..(n + 1) : d[i] = IF i <= j THEN c[i] ELSE IF i = j + 1 THEN l ELSE c[i - 1]
  BY DEF Spliced
<1> HIDE DEF u, v, d
<1>6. r \in Seq(Nodes) /\ Len(r) = n + 1 /\ \A i \in 1..(n + 1) : r[i] = d[i]
  BY <1>5, BehindIsSeq DEF Behind
<1> HIDE DEF r
<1>7. /\ w \in Seq(Nodes) /\ Len(w) = j + 1
      /\ \A i \in 1..(j + 1) : w[i] = IF i <= j THEN u[i] ELSE l
  <2>1. <<l>> \in Seq(Nodes) /\ Len(<<l>>) = 1 /\ <<l>>[1] = l
    OBVIOUS
  <2> QED
    BY <1>3, <2>1, ConcatProperties
<1> HIDE DEF w
<1>8. /\ x \in Seq(Nodes) /\ Len(x) = n + 1
      /\ \A i \in 1..(n + 1) : x[i] = IF i <= j + 1 THEN w[i] ELSE v[i - (j + 1)]
  BY <1>4, <1>7, ConcatProperties
<1> HIDE DEF x
<1>9. ASSUME NEW i \in 1..(n + 1) PROVE x[i] = r[i]
  <2>1. CASE i <= j
    BY <1>1, <1>3, <1>5, <1>6, <1>7, <1>8, <2>1
  <2>2. CASE i = j + 1
    BY <1>5, <1>6, <1>7, <1>8, <2>2
  <2>3. CASE i > j + 1
    <3>1. i - (j + 1) \in 1..(n - j) /\ j + (i - (j + 1)) = i - 1 /\ i - 1 \in 1..n
      BY <2>3
    <3> QED
      BY <1>1, <1>4, <1>5, <1>6, <1>8, <2>3, <3>1
  <2> QED
    BY <2>1, <2>2, <2>3
<1>10. x = r
  BY <1>6, <1>8, <1>9, SeqEqual
<1> QED
  BY <1>2, <1>10 DEF s, r, d

(***************************************************************************)
(* What removal and insertion do to a ring.                                *)
(***************************************************************************)

\* In a ring of more than one node all nodes are linked.
LEMMA RingIsLinked ==
    ASSUME NEW L \in Links, NEW a, NEW h, NEW n, NEW c, Ring(L, a, h, n, c)
    PROVE  \A i \in 0..n : L.next[c[i]] = c[i] <=> n = 0
<1> SUFFICES ASSUME NEW i \in 0..n PROVE L.next[c[i]] = c[i] <=> n = 0
  OBVIOUS
<1>1. CASE i = n
  BY <1>1 DEF Ring
<1>2. CASE i # n
  <2>1. i \in 0..(n - 1) /\ i + 1 \in 0..n /\ i + 1 # i /\ n # 0
    BY <1>2 DEF Ring
  <2> QED
    BY <2>1 DEF Ring
<1> QED
  BY <1>1, <1>2

\* Removal of a node outside it leaves a ring alone.
LEMMA RemovedOutside ==
    ASSUME NEW L \in Links, Circles(L), NEW l \in Nodes,
           NEW a, NEW h, NEW n, NEW c, Ring(L, a, h, n, c), \A i \in 0..n : c[i] # l
    PROVE  Ring(Removed(L, l), a, h, n, c)
<1> DEFINE R == Removed(L, l)
<1>1. /\ R.next = [[L.next EXCEPT ![L.prev[l]] = L.next[l]] EXCEPT ![l] = l]
      /\ R.head = [L.head EXCEPT ![l] = l]
  BY RemovedLinks
<1> HIDE DEF R
<1>2. /\ n \in Nat /\ c \in [0..n -> Nodes] /\ c[0] = a
      /\ \A i \in 0..(n - 1) : L.next[c[i]] = c[i + 1] /\ i + 1 \in 0..n
      /\ L.next[c[n]] = c[0] /\ n \in 0..n /\ 0 \in 0..n
      /\ \A i \in 0..n : L.head[c[i]] = h
      /\ \A m \in Nodes : L.next[m] # m /\ L.head[m] = h => \E i \in 0..n : c[i] = m
  BY DEF Ring
<1>3. /\ L.next \in [Nodes -> Nodes] /\ L.prev \in [Nodes -> Nodes] /\ L.head \in [Nodes -> Nodes]
      /\ L.prev[l] \in Nodes /\ L.next[L.prev[l]] = l
  BY DEF Links, Circles
<1>4. \A m \in Nodes : R.next[m] = IF m = l THEN l ELSE IF m = L.prev[l] THEN L.next[l] ELSE L.next[m]
  BY <1>1, <1>3
<1>5. \A i \in 0..n : c[i] \in Nodes /\ c[i] # l /\ L.next[c[i]] # l
  <2> SUFFICES ASSUME NEW i \in 0..n PROVE L.next[c[i]] # l
    BY <1>2
  <2>1. CASE i = n
    BY <1>2, <2>1
  <2>2. CASE i # n
    <3>1. i \in 0..(n - 1)
      BY <1>2, <2>2
    <3> QED
      BY <1>2, <3>1
  <2> QED
    BY <2>1, <2>2
<1>6. \A i \in 0..n : R.next[c[i]] = L.next[c[i]] /\ R.head[c[i]] = h
  BY <1>1, <1>2, <1>3, <1>4, <1>5
<1>7. ASSUME NEW m \in Nodes, R.next[m] # m, R.head[m] = h
      PROVE  \E i \in 0..n : c[i] = m
  <2>1. m # l /\ L.head[m] = h
    BY <1>1, <1>3, <1>4, <1>7
  <2>2. L.next[m] # m
    BY <1>3, <1>4, <1>7, <2>1
  <2> QED
    BY <1>2, <2>1, <2>2
<1>8. \A i \in 0..(n - 1) : R.next[c[i]] = c[i + 1]
  <2> SUFFICES ASSUME NEW i \in 0..(n - 1) PROVE R.next[c[i]] = c[i + 1]
    OBVIOUS
  <2>1. i \in 0..n
    BY <1>2
  <2> QED
    BY <1>2, <1>6, <2>1
<1>9. R.next[c[n]] = a
  BY <1>2, <1>6
<1> QED
  BY <1>2, <1>6, <1>7, <1>8, <1>9 DEF R, Ring

\* Removal of a node of the ring other than the first leaves the ring of the
\* others.
LEMMA RemovedInside ==
    ASSUME NEW L \in Links, Circles(L),
           NEW a, NEW h, NEW n, NEW c, Ring(L, a, h, n, c), NEW j \in 1..n
    PROVE  Ring(Removed(L, c[j]), a, h, n - 1, Dropped(n, c, j))
<1> DEFINE l == c[j]
           R == Removed(L, l)
           d == Dropped(n, c, j)
<1>1. /\ n \in Nat /\ c \in [0..n -> Nodes] /\ c[0] = a
      /\ \A i, k \in 0..n : c[i] = c[k] => i = k
      /\ \A i \in 0..(n - 1) : L.next[c[i]] = c[i + 1]
      /\ L.next[c[n]] = a
      /\ \A i \in 0..n : L.head[c[i]] = h
      /\ \A m \in Nodes : L.next[m] # m /\ L.head[m] = h => \E i \in 0..n : c[i] = m
  BY DEF Ring
<1>2. l \in Nodes
  BY <1>1
<1>3. /\ R.next = [[L.next EXCEPT ![L.prev[l]] = L.next[l]] EXCEPT ![l] = l]
      /\ R.head = [L.head EXCEPT ![l] = l]
  BY <1>2, RemovedLinks
<1>4. d \in [0..(n - 1) -> Nodes] /\ \A i \in 0..(n - 1) : d[i] = IF i < j THEN c[i] ELSE c[i + 1]
  BY <1>1 DEF Dropped
<1>5. c[j - 1] \in Nodes /\ L.next[c[j - 1]] = l /\ j - 1 \in 0..(n - 1)
  <2>1. j - 1 \in 0..(n - 1) /\ (j - 1) + 1 = j
    BY <1>1
  <2> QED
    BY <1>1, <2>1
<1> HIDE DEF l, R, d
<1>6. /\ L.next \in [Nodes -> Nodes] /\ L.prev \in [Nodes -> Nodes] /\ L.head \in [Nodes -> Nodes]
      /\ L.prev[l] = c[j - 1]
  BY <1>5 DEF Links, Circles
<1>7. \A m \in Nodes : R.next[m] = IF m = l THEN l ELSE IF m = c[j - 1] THEN L.next[l] ELSE L.next[m]
  BY <1>3, <1>6
<1>8. /\ n - 1 \in Nat /\ d[0] = a
      /\ \A i, k \in 0..(n - 1) : d[i] = d[k] => i = k
      /\ \A i \in 0..(n - 1) : d[i] # l
  <2>1. \A i \in 0..(n - 1) : i \in 0..n /\ i + 1 \in 0..n
    BY <1>1
  <2>2. j \in 0..n /\ 0 \in 0..(n - 1) /\ n - 1 \in Nat /\ l = c[j]
    BY <1>1 DEF l
  <2>3. \A i \in 0..(n - 1) : d[i] # l
    BY <1>1, <1>4, <2>1, <2>2
  <2>4. ASSUME NEW i \in 0..(n - 1), NEW k \in 0..(n - 1), d[i] = d[k]
        PROVE  i = k
    <3>1. CASE i < j /\ k < j
      BY <1>1, <1>4, <2>1, <2>4, <3>1
    <3>2. CASE i < j /\ ~(k < j)
      <4>1. c[i] = c[k + 1]
        BY <1>4, <2>4, <3>2
      <4>2. i = k + 1
        BY <1>1, <2>1, <4>1
      <4> QED
        BY <3>2, <4>2
    <3>3. CASE ~(i < j) /\ k < j
      <4>1. c[i + 1] = c[k]
        BY <1>4, <2>4, <3>3
      <4>2. i + 1 = k
        BY <1>1, <2>1, <4>1
      <4> QED
        BY <3>3, <4>2
    <3>4. CASE ~(i < j) /\ ~(k < j)
      <4>1. c[i + 1] = c[k + 1]
        BY <1>4, <2>4, <3>4
      <4>2. i + 1 = k + 1
        BY <1>1, <2>1, <4>1
      <4> QED
        BY <4>2
    <3> QED
      BY <3>1, <3>2, <3>3, <3>4
  <2> QED
    BY <1>1, <1>4, <2>2, <2>3, <2>4
<1>9. \A i \in 0..(n - 1) : d[i] \in Nodes /\ R.head[d[i]] = h
  <2> SUFFICES ASSUME NEW i \in 0..(n - 1) PROVE d[i] \in Nodes /\ R.head[d[i]] = h
    OBVIOUS
  <2>1. i \in 0..n /\ i + 1 \in 0..n
    BY <1>1
  <2>2. L.head[d[i]] = h /\ d[i] \in Nodes
    BY <1>1, <1>4, <2>1
  <2> QED
    BY <1>3, <1>6, <1>8, <2>2
<1>10. ASSUME NEW i \in 0..(n - 2) PROVE R.next[d[i]] = d[i + 1]
  <2>1. i \in 0..(n - 1) /\ i + 1 \in 0..(n - 1) /\ i + 1 \in 0..n /\ (i + 1) + 1 \in 0..n /\ i \in 0..n
    BY <1>1
  <2>2. d[i] \in Nodes /\ d[i] # l
    BY <1>8, <1>9, <2>1
  <2>3. CASE i < j - 1
    <3>1. d[i] = c[i] /\ d[i + 1] = c[i + 1]
      BY <1>4, <2>1, <2>3
    <3>2. c[i] # c[j - 1]
      BY <1>1, <1>5, <2>1, <2>3
    <3> QED
      BY <1>1, <1>7, <2>1, <2>2, <3>1, <3>2
  <2>4. CASE i = j - 1
    <3>1. d[i] = c[j - 1] /\ d[i + 1] = c[j + 1] /\ j \in 0..(n - 1)
      BY <1>4, <2>1, <2>4
    <3>2. L.next[l] = c[j + 1]
      BY <1>1, <3>1 DEF l
    <3> QED
      BY <1>7, <2>2, <3>1, <3>2
  <2>5. CASE i > j - 1
    <3>1. d[i] = c[i + 1] /\ d[i + 1] = c[(i + 1) + 1]
      BY <1>4, <2>1, <2>5
    <3>2. c[i + 1] # c[j - 1]
      BY <1>1, <1>5, <2>1, <2>5
    <3> QED
      BY <1>1, <1>7, <2>1, <2>2, <3>1, <3>2
  <2> QED
    BY <2>3, <2>4, <2>5
<1>11. R.next[d[n - 1]] = a
  <2>1. n - 1 \in 0..(n - 1) /\ n \in 0..n /\ (n - 1) + 1 = n
    BY <1>1
  <2>2. d[n - 1] \in Nodes /\ d[n - 1] # l
    BY <1>8, <1>9, <2>1
  <2>3. CASE j = n
    <3>1. d[n - 1] = c[j - 1] /\ L.next[l] = a
      BY <1>1, <1>4, <2>1, <2>3 DEF l
    <3> QED
      BY <1>7, <2>2, <3>1
  <2>4. CASE j < n
    <3>1. d[n - 1] = c[n]
      BY <1>4, <2>1, <2>4
    <3>2. c[n] # c[j - 1]
      BY <1>1, <1>5, <2>1, <2>4
    <3> QED
      BY <1>1, <1>7, <2>2, <3>1, <3>2
  <2> QED
    BY <1>1, <2>3, <2>4
<1>12. ASSUME NEW m \in Nodes, R.next[m] # m, R.head[m] = h
       PROVE  \E i \in 0..(n - 1) : d[i] = m
  <2>1. m # l /\ L.head[m] = h
    BY <1>2, <1>3, <1>6, <1>7, <1>12
  <2>2. L.next[m] # m
    <3>1. CASE m = c[j - 1]
      BY <1>5, <2>1, <3>1
    <3>2. CASE m # c[j - 1]
      BY <1>7, <1>12, <2>1, <3>2
    <3> QED
      BY <3>1, <3>2
  <2>3. PICK k \in 0..n : c[k] = m
    BY <1>1, <2>1, <2>2
  <2>4. k # j
    BY <2>1, <2>3 DEF l
  <2>5. CASE k < j
    <3>1. k \in 0..(n - 1) /\ d[k] = m
      BY <1>1, <1>4, <2>3, <2>5
    <3> QED
      BY <3>1
  <2>6. CASE k > j
    <3>1. k - 1 \in 0..(n - 1) /\ ~(k - 1 < j) /\ (k - 1) + 1 = k
      BY <1>1, <2>6
    <3>2. d[k - 1] = m
      BY <1>4, <2>3, <3>1
    <3> QED
      BY <3>1, <3>2
  <2> QED
    BY <2>4, <2>5, <2>6
<1>13. (n - 1) - 1 = n - 2
  BY <1>1
<1>14. Ring(R, a, h, n - 1, d)
  BY <1>4, <1>8, <1>9, <1>10, <1>11, <1>12, <1>13 DEF Ring
<1> QED
  BY <1>14 DEF R, d, l

\* S are the links L after l, which stood alone, was put in behind x and names
\* the head g of x.
PutBehind(L, S, l, x, g) ==
    /\ L.next[l] = l /\ l # x /\ L.head[x] = g
    /\ S.next = [[L.next EXCEPT ![l] = L.next[x]] EXCEPT ![x] = l]
    /\ S.head = [L.head EXCEPT ![l] = g]

\* A ring of another head is left alone.
LEMMA PutOutside ==
    ASSUME NEW L \in Links, NEW S, NEW l \in Nodes, NEW x \in Nodes, NEW g, PutBehind(L, S, l, x, g),
           NEW a, NEW h, NEW n, NEW c, Ring(L, a, h, n, c), \A i \in 0..n : c[i] # l, g # h
    PROVE  Ring(S, a, h, n, c)
<1>1. /\ n \in Nat /\ c \in [0..n -> Nodes] /\ c[0] = a
      /\ \A i, k \in 0..n : c[i] = c[k] => i = k
      /\ \A i \in 0..(n - 1) : L.next[c[i]] = c[i + 1]
      /\ L.next[c[n]] = a
      /\ \A i \in 0..n : L.head[c[i]] = h
      /\ \A m \in Nodes : L.next[m] # m /\ L.head[m] = h => \E i \in 0..n : c[i] = m
  BY DEF Ring
<1>2. /\ \A m \in Nodes : S.next[m] = IF m = x THEN l ELSE IF m = l THEN L.next[x] ELSE L.next[m]
      /\ \A m \in Nodes : S.head[m] = IF m = l THEN g ELSE L.head[m]
      /\ L.head[x] = g
  BY DEF PutBehind, Links
<1>3. \A i \in 0..n : c[i] \in Nodes /\ c[i] # x /\ c[i] # l
  BY <1>1, <1>2
<1>4. \A i \in 0..n : S.next[c[i]] = L.next[c[i]] /\ S.head[c[i]] = h
  BY <1>1, <1>2, <1>3
<1>5. \A i \in 0..(n - 1) : i \in 0..n
  BY <1>1
<1>6. n \in 0..n
  BY <1>1
<1>7. ASSUME NEW m \in Nodes, S.next[m] # m, S.head[m] = h
      PROVE  \E i \in 0..n : c[i] = m
  BY <1>1, <1>2, <1>7
<1> QED
  BY <1>1, <1>4, <1>5, <1>6, <1>7 DEF Ring

\* The ring of the head gains l behind x.
LEMMA PutInside ==
    ASSUME NEW L \in Links, NEW S, NEW l \in Nodes, NEW h,
           NEW a, NEW n, NEW c, Ring(L, a, h, n, c), \A i \in 0..n : c[i] # l,
           NEW j \in 0..n, PutBehind(L, S, l, c[j], h)
    PROVE  Ring(S, a, h, n + 1, Spliced(n, c, j, l))
<1> DEFINE x == c[j]
           d == Spliced(n, c, j, l)
<1>1. /\ n \in Nat /\ c \in [0..n -> Nodes] /\ c[0] = a
      /\ \A i, k \in 0..n : c[i] = c[k] => i = k
      /\ \A i \in 0..(n - 1) : L.next[c[i]] = c[i + 1]
      /\ L.next[c[n]] = a
      /\ \A i \in 0..n : L.head[c[i]] = h
      /\ \A m \in Nodes : L.next[m] # m /\ L.head[m] = h => \E i \in 0..n : c[i] = m
  BY DEF Ring
<1>2. /\ \A m \in Nodes : S.next[m] = IF m = x THEN l ELSE IF m = l THEN L.next[x] ELSE L.next[m]
      /\ \A m \in Nodes : S.head[m] = IF m = l THEN h ELSE L.head[m]
      /\ x \in Nodes /\ l # x
  BY <1>1 DEF PutBehind, Links
<1>3. /\ d \in [0..(n + 1) -> Nodes]
      /\ \A i \in 0..(n + 1) : d[i] = IF i <= j THEN c[i] ELSE IF i = j + 1 THEN l ELSE c[i - 1]
  BY <1>1 DEF Spliced
<1> HIDE DEF x, d
<1>4. \A i \in 0..n : c[i] \in Nodes /\ c[i] # l /\ (c[i] = x <=> i = j)
  BY <1>1 DEF x
<1>5. n + 1 \in Nat /\ d[0] = a
  BY <1>1, <1>3
<1>6. ASSUME NEW i \in 0..(n + 1), NEW k \in 0..(n + 1), d[i] = d[k]
      PROVE  i = k
  <2> DEFINE f(q) == IF q <= j THEN q ELSE q - 1
  <2>1. \A q \in 0..(n + 1) : f(q) \in 0..n /\ d[q] = IF q = j + 1 THEN l ELSE c[f(q)]
    BY <1>1, <1>3
  <2> HIDE DEF f
  <2>2. CASE i = j + 1 \/ k = j + 1
    BY <1>4, <1>6, <2>1, <2>2
  <2>3. CASE i # j + 1 /\ k # j + 1
    <3>1. f(i) = f(k)
      BY <1>1, <1>6, <2>1, <2>3
    <3> QED
      BY <1>1, <2>3, <3>1 DEF f
  <2> QED
    BY <2>2, <2>3
<1>7. ASSUME NEW i \in 0..n PROVE S.next[d[i]] = d[i + 1]
  <2>1. i \in 0..(n + 1) /\ i + 1 \in 0..(n + 1)
    BY <1>1
  <2>2. CASE i < j
    <3>1. d[i] = c[i] /\ d[i + 1] = c[i + 1] /\ i \in 0..(n - 1)
      BY <1>1, <1>3, <2>1, <2>2
    <3>2. c[i] \in Nodes /\ c[i] # l /\ c[i] # x
      BY <1>1, <1>4, <2>2
    <3>3. L.next[c[i]] = c[i + 1]
      BY <1>1, <3>1
    <3> QED
      BY <1>2, <3>1, <3>2, <3>3
  <2>3. CASE i = j
    <3>1. d[i] = x /\ d[i + 1] = l
      BY <1>1, <1>3, <2>1, <2>3 DEF x
    <3> QED
      BY <1>2, <3>1
  <2>4. CASE i = j + 1
    <3>1. d[i] = l /\ d[i + 1] = c[i]
      BY <1>1, <1>3, <2>1, <2>4
    <3>2. j \in 0..(n - 1) /\ L.next[x] = c[i]
      BY <1>1, <2>4 DEF x
    <3> QED
      BY <1>2, <3>1, <3>2
  <2>5. CASE i > j + 1
    <3>1. d[i] = c[i - 1] /\ d[i + 1] = c[i] /\ i - 1 \in 0..(n - 1) /\ i - 1 \in 0..n /\ (i - 1) + 1 = i /\ i - 1 # j
      BY <1>1, <1>3, <2>1, <2>5
    <3>2. L.next[c[i - 1]] = c[i]
      BY <1>1, <3>1
    <3> QED
      BY <1>2, <1>4, <3>1, <3>2
  <2> QED
    BY <1>1, <2>2, <2>3, <2>4, <2>5
<1>8. S.next[d[n + 1]] = a
  <2>1. n + 1 \in 0..(n + 1) /\ n \in 0..n
    BY <1>1
  <2>2. CASE j = n
    <3>1. d[n + 1] = l /\ L.next[x] = a
      BY <1>1, <1>3, <2>1, <2>2 DEF x
    <3> QED
      BY <1>2, <3>1
  <2>3. CASE j < n
    <3>1. d[n + 1] = c[n] /\ n # j
      BY <1>1, <1>3, <2>1, <2>3
    <3> QED
      BY <1>1, <1>2, <1>4, <2>1, <3>1
  <2> QED
    BY <1>1, <2>2, <2>3
<1>9. \A i \in 0..(n + 1) : S.head[d[i]] = h
  <2> SUFFICES ASSUME NEW i \in 0..(n + 1) PROVE S.head[d[i]] = h
    OBVIOUS
  <2>1. CASE i <= j
    <3>1. i \in 0..n /\ d[i] = c[i]
      BY <1>1, <1>3, <2>1
    <3> QED
      BY <1>1, <1>2, <1>4, <3>1
  <2>2. CASE i = j + 1
    BY <1>1, <1>2, <1>3, <2>2
  <2>3. CASE i > j + 1
    <3>1. i - 1 \in 0..n /\ d[i] = c[i - 1]
      BY <1>1, <1>3, <2>3
    <3> QED
      BY <1>1, <1>2, <1>4, <3>1
  <2> QED
    BY <1>1, <2>1, <2>2, <2>3
<1>10. ASSUME NEW m \in Nodes, S.next[m] # m, S.head[m] = h
       PROVE  \E i \in 0..(n + 1) : d[i] = m
  <2>1. CASE m = l
    <3>1. j + 1 \in 0..(n + 1) /\ d[j + 1] = l
      BY <1>1, <1>3
    <3> QED
      BY <2>1, <3>1
  <2>2. CASE m # l
    <3>1. \E i \in 0..n : c[i] = m
      <4>1. CASE m = x
        BY <4>1 DEF x
      <4>2. CASE m # x
        BY <1>1, <1>2, <1>10, <2>2, <4>2
      <4> QED
        BY <4>1, <4>2
    <3>2. PICK k \in 0..n : c[k] = m
      BY <3>1
    <3>3. CASE k <= j
      <4>1. k \in 0..(n + 1) /\ d[k] = m
        BY <1>1, <1>3, <3>2, <3>3
      <4> QED
        BY <4>1
    <3>4. CASE k > j
      <4>1. k + 1 \in 0..(n + 1) /\ ~(k + 1 <= j) /\ k + 1 # j + 1 /\ (k + 1) - 1 = k
        BY <1>1, <3>4
      <4>2. d[k + 1] = m
        BY <1>3, <3>2, <4>1
      <4> QED
        BY <4>1, <4>2
    <3> QED
      BY <1>1, <3>3, <3>4
  <2> QED
    BY <2>1, <2>2
<1>11. (n + 1) - 1 = n
  BY <1>1
<1>12. Ring(S, a, h, n + 1, d)
  BY <1>3, <1>5, <1>6, <1>7, <1>8, <1>9, <1>10, <1>11 DEF Ring
<1> QED
  BY <1>12 DEF d

\* A ring may be told from any of its nodes.
Turned(n, c, j) == [i \in 0..n |-> IF i + j <= n THEN c[i + j] ELSE c[i + j - (n + 1)]]

\* It is a ring again.
LEMMA RingTurned ==
    ASSUME NEW L \in Links, NEW a, NEW h, NEW n, NEW c, Ring(L, a, h, n, c), NEW j \in 1..n
    PROVE  Ring(L, c[j], h, n, Turned(n, c, j))
<1> DEFINE d == Turned(n, c, j)
           f(i) == IF i + j <= n THEN i + j ELSE i + j - (n + 1)
<1>1. /\ n \in Nat /\ c \in [0..n -> Nodes] /\ c[0] = a
      /\ \A i, k \in 0..n : c[i] = c[k] => i = k
      /\ \A i \in 0..(n - 1) : L.next[c[i]] = c[i + 1]
      /\ L.next[c[n]] = a
      /\ \A i \in 0..n : L.head[c[i]] = h
      /\ \A m \in Nodes : L.next[m] # m /\ L.head[m] = h => \E i \in 0..n : c[i] = m
  BY DEF Ring
<1>2. \A i \in 0..n : f(i) \in 0..n
  BY <1>1
<1>3. \A i, k \in 0..n : f(i) = f(k) => i = k
  BY <1>1
<1>4. d \in [0..n -> Nodes] /\ \A i \in 0..n : d[i] = c[f(i)]
  BY <1>1, <1>2 DEF Turned
<1>5. f(0) = j /\ 0 \in 0..n
  BY <1>1
<1>6. ASSUME NEW i \in 0..(n - 1)
      PROVE  i \in 0..n /\ i + 1 \in 0..n /\ L.next[c[f(i)]] = c[f(i + 1)]
  <2>1. i \in 0..n /\ i + 1 \in 0..n
    BY <1>1
  <2>2. CASE i + j < n
    <3>1. f(i) = i + j /\ f(i + 1) = (i + j) + 1 /\ i + j \in 0..(n - 1)
      BY <1>1, <2>2
    <3> HIDE DEF f
    <3> QED
      BY <1>1, <2>1, <3>1
  <2>3. CASE i + j = n
    <3>1. f(i) = n /\ f(i + 1) = 0
      BY <1>1, <2>3
    <3> HIDE DEF f
    <3> QED
      BY <1>1, <2>1, <3>1
  <2>4. CASE i + j > n
    <3>1. f(i) \in 0..(n - 1) /\ f(i + 1) = f(i) + 1
      BY <1>1, <2>4
    <3> HIDE DEF f
    <3> QED
      BY <1>1, <2>1, <3>1
  <2> QED
    BY <1>1, <2>2, <2>3, <2>4
<1>7. n \in 0..n /\ L.next[c[f(n)]] = c[j]
  <2>1. f(n) = j - 1 /\ j - 1 \in 0..(n - 1) /\ (j - 1) + 1 = j
    BY <1>1
  <2> HIDE DEF f
  <2> QED
    BY <1>1, <2>1
<1>8. ASSUME NEW k \in 0..n PROVE \E i \in 0..n : f(i) = k
  <2>1. CASE k >= j
    <3>1. k - j \in 0..n /\ f(k - j) = k
      BY <1>1, <2>1
    <3> QED
      BY <3>1
  <2>2. CASE k < j
    <3>1. k - j + (n + 1) \in 0..n /\ f(k - j + (n + 1)) = k
      BY <1>1, <2>2
    <3> QED
      BY <3>1
  <2> QED
    BY <2>1, <2>2
<1> HIDE DEF f, d
<1>9. ASSUME NEW m \in Nodes, L.next[m] # m, L.head[m] = h
      PROVE  \E i \in 0..n : d[i] = m
  <2>1. PICK k \in 0..n : c[k] = m
    BY <1>1, <1>9
  <2>2. PICK i \in 0..n : f(i) = k
    BY <1>8
  <2> QED
    BY <1>4, <2>1, <2>2
<1>10. \A i, k \in 0..n : d[i] = d[k] => i = k
  BY <1>1, <1>2, <1>3, <1>4
<1>11. \A i \in 0..(n - 1) : L.next[d[i]] = d[i + 1]
  BY <1>4, <1>6
<1>12. L.next[d[n]] = c[j] /\ d[0] = c[j]
  BY <1>4, <1>5, <1>7
<1>13. \A i \in 0..n : L.head[d[i]] = h
  BY <1>1, <1>2, <1>4
<1> QED
  BY <1>1, <1>4, <1>9, <1>10, <1>11, <1>12, <1>13 DEF Ring, d

(***************************************************************************)
(* What walking a ring sees.                                               *)
(***************************************************************************)

\* Walk makes one step after another.
LEMMA WalkSteps ==
    ASSUME NEW L \in Links, NEW h \in Nodes
    PROVE  Walk(L, h) = [k \in 0..Cardinality(Nodes) |-> IF k = 0 THEN h ELSE L.next[Walk(L, h)[k - 1]]]
<1>1. Cardinality(Nodes) \in Nat /\ L.next \in [Nodes -> Nodes]
  BY NodesAssumption, FS_CardinalityType DEF Links
<1>2. \E at : at = [k \in 0..Cardinality(Nodes) |-> IF k = 0 THEN h ELSE L.next[at[k - 1]]]
  <2> DEFINE N == Cardinality(Nodes)
             next == L.next
  <2>1. N \in Nat /\ next \in [Nodes -> Nodes]
    BY <1>1
  <2> HIDE DEF N, next
  <2>2. PICK at : Iterates(at, Nodes, next, h, N)
    BY <2>1, IterationExists
  <2>3. at = [k \in 0..N |-> IF k = 0 THEN h ELSE next[at[k - 1]]]
    BY <2>2 DEF Iterates
  <2> QED
    BY <2>3 DEF N, next
<1>3. Walk(L, h) = CHOOSE at : at = [k \in 0..Cardinality(Nodes) |-> IF k = 0 THEN h ELSE L.next[at[k - 1]]]
  BY DEF Walk
<1> QED
  BY <1>2, <1>3, Zenon

\* From a head, Walk goes round the ring, and Count is the number of nodes
\* behind the head.
LEMMA WalkIsRing ==
    ASSUME NEW L \in Links, NEW h \in Nodes, NEW n, NEW c, Ring(L, h, h, n, c)
    PROVE  Count(L, h) = n /\ \A k \in 0..n : Walk(L, h)[k] = c[k]
<1> DEFINE N == Cardinality(Nodes)
           w == Walk(L, h)
<1>1. /\ n \in Nat /\ c \in [0..n -> Nodes] /\ c[0] = h
      /\ \A i, k \in 0..n : c[i] = c[k] => i = k
      /\ \A i \in 0..(n - 1) : L.next[c[i]] = c[i + 1]
      /\ L.next[c[n]] = h /\ L.head[h] = h
  <2>1. n \in Nat /\ c[0] = h /\ \A i \in 0..n : L.head[c[i]] = h
    BY DEF Ring
  <2>2. 0 \in 0..n
    BY <2>1
  <2>3. L.head[h] = h
    BY <2>1, <2>2
  <2> QED
    BY <2>3 DEF Ring
<1>2. N \in Nat /\ n + 1 <= N
  <2>1. IsFiniteSet(0..n) /\ Cardinality(0..n) = n + 1
    <3>1. IsFiniteSet(0..n) /\ Cardinality(0..n) = IF 0 > n THEN 0 ELSE n - 0 + 1
      BY <1>1, FS_Interval
    <3> QED
      BY <1>1, <3>1
  <2>2. c \in Injection(0..n, Nodes)
    BY <1>1, Fun_IsInj
  <2> QED
    BY <2>1, <2>2, FS_Injection, FS_CardinalityType, NodesAssumption DEF ExistsInjection
<1>3. \A k \in 0..N : w[k] = IF k = 0 THEN h ELSE L.next[w[k - 1]]
  <2>1. w = [k \in 0..N |-> IF k = 0 THEN h ELSE L.next[w[k - 1]]]
    BY WalkSteps
  <2> HIDE DEF w, N
  <2> QED
    BY <2>1
<1> HIDE DEF w, N
<1>4. \A k \in 0..n : w[k] = c[k]
  <2> DEFINE S == {k \in Nat : k <= n => w[k] = c[k]}
  <2>1. 0 \in S
    BY <1>1, <1>2, <1>3
  <2>2. ASSUME NEW k \in Nat, k \in S PROVE k + 1 \in S
    <3> SUFFICES ASSUME k + 1 <= n PROVE w[k + 1] = c[k + 1]
      OBVIOUS
    <3>1. k + 1 \in 0..N /\ k + 1 # 0 /\ (k + 1) - 1 = k /\ k \in 0..(n - 1) /\ k <= n
      BY <1>1, <1>2
    <3>2. w[k + 1] = L.next[w[k]] /\ w[k] = c[k]
      BY <1>3, <2>2, <3>1
    <3> QED
      BY <1>1, <3>1, <3>2
  <2> HIDE DEF S
  <2>3. \A k \in Nat : k \in S
    BY <2>1, <2>2, SetInduction
  <2> QED
    BY <1>1, <2>3 DEF S
<1>5. w[n + 1] = h
  <2>1. n + 1 \in 0..N /\ n + 1 # 0 /\ (n + 1) - 1 = n /\ n \in 0..n
    BY <1>1, <1>2
  <2> QED
    BY <1>1, <1>3, <1>4, <2>1
<1>6. \A k \in 1..n : w[k] # h
  BY <1>1, <1>4
<1>7. Count(L, h) = CHOOSE k \in 0..(N - 1) : w[k + 1] = h /\ \A j \in 1..k : w[j] # h
  BY <1>1 DEF Count, w, N
<1>8. n \in 0..(N - 1) /\ w[n + 1] = h /\ \A j \in 1..n : w[j] # h
  BY <1>1, <1>2, <1>5, <1>6
<1>9. ASSUME NEW k \in 0..(N - 1), w[k + 1] = h, \A j \in 1..k : w[j] # h
      PROVE  k = n
  <2>1. CASE k < n
    <3>1. k + 1 \in 1..n
      BY <1>1, <1>2, <2>1
    <3> QED
      BY <1>6, <1>9, <3>1
  <2>2. CASE k > n
    <3>1. n + 1 \in 1..k
      BY <1>1, <1>2, <2>2
    <3> QED
      BY <1>5, <1>9, <3>1
  <2> QED
    BY <1>1, <1>2, <2>1, <2>2
<1>10. Count(L, h) = n
  BY <1>7, <1>8, <1>9
<1> QED
  BY <1>4, <1>10 DEF w

(***************************************************************************)
(* What the operations do to the lists.                                    *)
(***************************************************************************)

\* Every head has its ring, and the list of a head are the nodes behind it.
Rings(L) == \A h \in Heads : \E n, c : Ring(L, h, h, n, c)
ListIn(L, h) == [k \in 1..Count(L, h) |-> Walk(L, h)[k]]

\* Walking the links from a head sees the nodes behind it.
LEMMA ListIsBehind ==
    ASSUME NEW L \in Links, NEW h \in Heads, NEW n, NEW c, Ring(L, h, h, n, c)
    PROVE  ListIn(L, h) = Behind(n, c)
<1>1. h \in Nodes /\ n \in Nat
  BY NodesAssumption DEF Ring
<1>2. Count(L, h) = n /\ \A k \in 0..n : Walk(L, h)[k] = c[k]
  BY <1>1, WalkIsRing
<1>3. \A k \in 1..n : k \in 0..n
  BY <1>1
<1> QED
  BY <1>2, <1>3 DEF ListIn, Behind

\* Removal of a node other than the first takes it out of the nodes behind the
\* first, if it was one of them, and no other.
LEMMA RingRemoved ==
    ASSUME NEW L \in Links, Circles(L), NEW l \in Nodes,
           NEW a, NEW h, NEW n, NEW c, Ring(L, a, h, n, c), l # a
    PROVE  \E m, d : /\ Ring(Removed(L, l), a, h, m, d)
                    /\ Behind(m, d) = Lists!RemoveFirst(Behind(n, c), l)
                    /\ \A i \in 0..n : c[i] # l => \E k \in 0..m : d[k] = c[i]
<1>1. /\ n \in Nat /\ c \in [0..n -> Nodes] /\ c[0] = a /\ \A i, k \in 0..n : c[i] = c[k] => i = k
  BY DEF Ring
<1>2. CASE \A i \in 0..n : c[i] # l
  <2>1. Ring(Removed(L, l), a, h, n, c)
    BY <1>2, RemovedOutside
  <2>2. Behind(n, c) = Lists!RemoveFirst(Behind(n, c), l)
    BY <1>1, <1>2, BehindDropped
  <2> QED
    BY <2>1, <2>2
<1>3. CASE \E i \in 0..n : c[i] = l
  <2>1. PICK j \in 0..n : c[j] = l
    BY <1>3
  <2>2. j \in 1..n
    BY <1>1, <2>1
  <2> DEFINE d == Dropped(n, c, j)
  <2>3. Ring(Removed(L, l), a, h, n - 1, d)
    BY <2>1, <2>2, RemovedInside
  <2>4. Behind(n - 1, d) = Lists!RemoveFirst(Behind(n, c), l)
    BY <1>1, <2>1, <2>2, BehindDropped
  <2>5. ASSUME NEW i \in 0..n, c[i] # l PROVE \E k \in 0..(n - 1) : d[k] = c[i]
    <3>1. \A k \in 0..(n - 1) : d[k] = IF k < j THEN c[k] ELSE c[k + 1]
      BY DEF Dropped
    <3> HIDE DEF d
    <3>2. CASE i < j
      <4>1. i \in 0..(n - 1) /\ d[i] = c[i]
        BY <1>1, <2>2, <3>1, <3>2
      <4> QED
        BY <4>1
    <3>3. CASE i > j
      <4>1. i - 1 \in 0..(n - 1) /\ ~(i - 1 < j) /\ (i - 1) + 1 = i
        BY <1>1, <2>2, <3>3
      <4>2. d[i - 1] = c[i]
        BY <3>1, <4>1
      <4> QED
        BY <4>1, <4>2
    <3> QED
      BY <1>1, <2>1, <2>2, <2>5, <3>2, <3>3
  <2> QED
    BY <2>3, <2>4, <2>5
<1> QED
  BY <1>2, <1>3

\* Removal of a member takes it out of its list.
LEMMA RemovedLists ==
    ASSUME NEW L \in Links, Circles(L), Rings(L), NEW l \in Nodes \ Heads
    PROVE  /\ Rings(Removed(L, l))
           /\ \A h \in Heads : ListIn(Removed(L, l), h) = Lists!RemoveFirst(ListIn(L, h), l)
<1> DEFINE R == Removed(L, l)
<1>1. R \in Links
  BY RemovedType
<1>2. ASSUME NEW h \in Heads
      PROVE  /\ \E n, c : Ring(R, h, h, n, c)
             /\ ListIn(R, h) = Lists!RemoveFirst(ListIn(L, h), l)
  <2>1. PICK n, c : Ring(L, h, h, n, c)
    BY DEF Rings
  <2>2. PICK m, d : Ring(R, h, h, m, d) /\ Behind(m, d) = Lists!RemoveFirst(Behind(n, c), l)
    BY <2>1, RingRemoved
  <2>3. ListIn(L, h) = Behind(n, c)
    BY <2>1, ListIsBehind
  <2> HIDE DEF R
  <2>4. ListIn(R, h) = Behind(m, d)
    BY <1>1, <2>2, ListIsBehind
  <2> QED
    BY <2>2, <2>3, <2>4
<1> QED
  BY <1>2 DEF Rings

\* A member that stands alone is put in behind the node c[j] of a ring.
LEMMA PutLists ==
    ASSUME NEW L \in Links, Rings(L), NEW S \in Links, NEW l \in Nodes \ Heads, NEW g \in Heads,
           NEW n, NEW c, Ring(L, g, g, n, c), NEW j \in 0..n, PutBehind(L, S, l, c[j], g)
    PROVE  /\ Rings(S)
           /\ ListIn(S, g) = Lists!InsertAt(ListIn(L, g), j + 1, l)
           /\ \A h \in Heads \ {g} : ListIn(S, h) = ListIn(L, h)
<1>1. ASSUME NEW h \in Heads, NEW m, NEW d, Ring(L, h, h, m, d)
      PROVE  \A i \in 0..m : d[i] # l
  <2> SUFFICES ASSUME NEW i \in 0..m, d[i] = l PROVE FALSE
    OBVIOUS
  <2>1. m = 0
    BY <1>1, RingIsLinked DEF PutBehind
  <2>2. d[0] = h
    BY <1>1 DEF Ring
  <2>3. i = 0
    BY <2>1
  <2> QED
    BY <2>2, <2>3
<1>2. Ring(S, g, g, n + 1, Spliced(n, c, j, l))
  BY <1>1, PutInside
<1>3. n \in Nat /\ c \in [0..n -> Nodes] /\ c[j] \in Nodes
  BY DEF Ring
<1>4. ListIn(S, g) = Lists!InsertAt(ListIn(L, g), j + 1, l)
  <2>1. ListIn(L, g) = Behind(n, c)
    BY ListIsBehind
  <2>2. ListIn(S, g) = Behind(n + 1, Spliced(n, c, j, l))
    BY <1>2, ListIsBehind
  <2> QED
    BY <1>3, <2>1, <2>2, BehindSpliced
<1>5. ASSUME NEW h \in Heads \ {g}
      PROVE  /\ \E m, d : Ring(S, h, h, m, d)
             /\ ListIn(S, h) = ListIn(L, h)
  <2>1. PICK m, d : Ring(L, h, h, m, d)
    BY DEF Rings
  <2>2. Ring(S, h, h, m, d)
    BY <1>1, <1>3, <2>1, PutOutside
  <2>3. ListIn(S, h) = Behind(m, d) /\ ListIn(L, h) = Behind(m, d)
    BY <2>1, <2>2, ListIsBehind
  <2> QED
    BY <2>2, <2>3
<1> QED
  BY <1>2, <1>4, <1>5 DEF Rings

\* Where the list of a head ends up after l, taken out first, was put in next to
\* the node t: behind it, or in front of it, which is the end if t is the head.
\* s and r are the lists without l and after the call.
PutNextTo(s, r, g, l, t, side) ==
    IF t = g THEN r = Lists!InsertAt(s, IF side = "after" THEN 1 ELSE Len(s) + 1, l)
    ELSE \E k \in 1..Len(s) : s[k] = t /\ r = Lists!InsertAt(s, IF side = "after" THEN k + 1 ELSE k, l)

\* A head or a linked node other than l is in the ring of its head when l is out.
LEMMA TargetInRing ==
    ASSUME NEW L \in Links, Circles(L), Headed(L), Rings(L), NEW l \in Nodes \ Heads,
           NEW t \in Nodes, t # l, t \in Heads \/ L.next[t] # t
    PROVE  /\ L.head[t] \in Heads /\ Removed(L, l).head[t] = L.head[t]
           /\ \E n, c : Ring(Removed(L, l), L.head[t], L.head[t], n, c) /\ \E k \in 0..n : c[k] = t
<1> DEFINE g == L.head[t]
           R == Removed(L, l)
<1>1. g \in Heads
  BY DEF Headed
<1>2. R.head[t] = g
  <2>1. R.head = [L.head EXCEPT ![l] = l]
    BY RemovedLinks
  <2> HIDE DEF R
  <2> QED
    BY <2>1 DEF Links
<1>3. PICK n, c : Ring(L, g, g, n, c)
  BY <1>1 DEF Rings
<1>4. n \in Nat /\ c[0] = g /\ \A m \in Nodes : L.next[m] # m /\ L.head[m] = g => \E i \in 0..n : c[i] = m
  BY <1>3 DEF Ring
<1>5. \E i \in 0..n : c[i] = t
  <2>1. CASE t \in Heads
    <3>1. c[0] = t /\ 0 \in 0..n
      BY <1>4, <2>1 DEF Headed
    <3> QED
      BY <3>1
  <2>2. CASE L.next[t] # t
    BY <1>4, <2>2
  <2> QED
    BY <2>1, <2>2
<1>6. l # g
  BY <1>1
<1>7. \E m, d : Ring(R, g, g, m, d) /\ \E k \in 0..m : d[k] = t
  <2> HIDE DEF g, R
  <2>1. \E m, d : Ring(Removed(L, l), g, g, m, d) /\ \A i \in 0..n : c[i] # l => \E k \in 0..m : d[k] = c[i]
    BY <1>3, <1>6, RingRemoved
  <2> QED
    BY <1>5, <2>1 DEF R
<1> QED
  BY <1>1, <1>2, <1>7

\* sk_list_insert_after
LEMMA InsertedAfterLists ==
    ASSUME NEW L \in Links, Circles(L), Headed(L), Rings(L), NEW l \in Nodes \ Heads,
           NEW t \in Nodes, t # l, t \in Heads \/ L.next[t] # t
    PROVE  /\ Rings(InsertedAfter(L, l, t))
           /\ PutNextTo(ListIn(Removed(L, l), L.head[t]), ListIn(InsertedAfter(L, l, t), L.head[t]),
                        L.head[t], l, t, "after")
           /\ \A h \in Heads \ {L.head[t]} : ListIn(InsertedAfter(L, l, t), h) = ListIn(Removed(L, l), h)
<1> DEFINE R == Removed(L, l)
           S == InsertedAfter(L, l, t)
           g == L.head[t]
<1>1. R \in Links /\ S \in Links /\ R.next[l] = l
  BY RemovedType, InsertedType, RemovedAlone
<1>2. g \in Heads /\ R.head[t] = g
  BY TargetInRing
<1>3. PICK n, c : Ring(R, g, g, n, c) /\ \E k \in 0..n : c[k] = t
  BY TargetInRing
<1>4. PICK j \in 0..n : c[j] = t
  BY <1>3
<1>5. PutBehind(R, S, l, t, g)
  <2>1. /\ S.next = [[R.next EXCEPT ![l] = R.next[t]] EXCEPT ![t] = l]
        /\ S.head = [R.head EXCEPT ![l] = R.head[t]]
    <3> HIDE DEF R
    <3> QED
      BY <1>1 DEF InsertedAfter, Links, R
  <2> HIDE DEF R, S, g
  <2> QED
    BY <1>1, <1>2, <2>1 DEF PutBehind
<1>6. Rings(R)
  BY RemovedLists
<1>7. /\ ListIn(R, g) = Behind(n, c) /\ n \in Nat /\ c \in [0..n -> Nodes] /\ c[0] = g
      /\ \A i, k \in 0..n : c[i] = c[k] => i = k
  <2> HIDE DEF R, S, g
  <2>1. ListIn(R, g) = Behind(n, c)
    BY <1>1, <1>2, <1>3, ListIsBehind
  <2> QED
    BY <1>3, <2>1 DEF Ring
<1> HIDE DEF R, S, g
<1>8. /\ Rings(S)
      /\ ListIn(S, g) = Lists!InsertAt(ListIn(R, g), j + 1, l)
      /\ \A h \in Heads \ {g} : ListIn(S, h) = ListIn(R, h)
  BY <1>1, <1>2, <1>3, <1>4, <1>5, <1>6, PutLists
<1>9. PutNextTo(ListIn(R, g), ListIn(S, g), g, l, t, "after")
  <2>1. CASE j = 0
    <3>1. t = g /\ j + 1 = 1
      BY <1>4, <1>7, <2>1
    <3> QED
      BY <1>8, <3>1 DEF PutNextTo
  <2>2. CASE j # 0
    <3>1. Len(ListIn(R, g)) = n /\ ListIn(R, g)[j] = t /\ j \in 1..n
      BY <1>4, <1>7, <2>2, BehindIsSeq DEF Behind
    <3>2. t # g
      BY <1>4, <1>7, <2>2
    <3> QED
      BY <1>8, <3>1, <3>2 DEF PutNextTo
  <2> QED
    BY <2>1, <2>2
<1> QED
  BY <1>8, <1>9 DEF R, S, g

\* sk_list_insert_before
LEMMA InsertedBeforeLists ==
    ASSUME NEW L \in Links, Circles(L), Headed(L), Rings(L), NEW l \in Nodes \ Heads,
           NEW t \in Nodes, t # l, t \in Heads \/ L.next[t] # t
    PROVE  /\ Rings(InsertedBefore(L, l, t))
           /\ PutNextTo(ListIn(Removed(L, l), L.head[t]), ListIn(InsertedBefore(L, l, t), L.head[t]),
                        L.head[t], l, t, "before")
           /\ \A h \in Heads \ {L.head[t]} : ListIn(InsertedBefore(L, l, t), h) = ListIn(Removed(L, l), h)
<1> DEFINE R == Removed(L, l)
           S == InsertedBefore(L, l, t)
           g == L.head[t]
<1>1. R \in Links /\ S \in Links /\ R.next[l] = l /\ R.prev[l] = l /\ Circles(R)
  BY RemovedType, InsertedType, RemovedAlone, RemovedCircles
<1>2. g \in Heads /\ R.head[t] = g
  BY TargetInRing
<1>3. PICK n, c : Ring(R, g, g, n, c) /\ \E k \in 0..n : c[k] = t
  BY TargetInRing
<1>4. PICK k \in 0..n : c[k] = t
  BY <1>3
<1> DEFINE j == IF k = 0 THEN n ELSE k - 1
           x == c[j]
<1>5. /\ n \in Nat /\ c \in [0..n -> Nodes] /\ c[0] = g /\ R.next[c[n]] = g
      /\ \A i \in 0..(n - 1) : R.next[c[i]] = c[i + 1]
      /\ \A i \in 0..n : R.head[c[i]] = g
      /\ \A i, m \in 0..n : c[i] = c[m] => i = m
  <2> HIDE DEF R, S, g
  <2> QED
    BY <1>3 DEF Ring
<1>6. j \in 0..n /\ x \in Nodes /\ R.next[x] = t
  <2> HIDE DEF R, S, g
  <2>1. CASE k = 0
    BY <1>4, <1>5, <2>1
  <2>2. CASE k # 0
    <3>1. k - 1 \in 0..(n - 1) /\ k - 1 \in 0..n /\ (k - 1) + 1 = k
      BY <1>5, <2>2
    <3> QED
      BY <1>4, <1>5, <2>2, <3>1
  <2> QED
    BY <2>1, <2>2
<1>7. R.prev[t] = x /\ R.head[x] = g /\ x # l
  <2> HIDE DEF R, S, g, j
  <2>1. R.prev[R.next[x]] = x
    BY <1>1, <1>6 DEF Circles
  <2> QED
    BY <1>1, <1>5, <1>6, <2>1
<1>8. PutBehind(R, S, l, x, g)
  <2>1. /\ S.next = [[R.next EXCEPT ![l] = t] EXCEPT ![R.prev[t]] = l]
        /\ S.head = [R.head EXCEPT ![l] = R.head[t]]
    <3> HIDE DEF R
    <3> QED
      BY <1>1 DEF InsertedBefore, Links, R
  <2> HIDE DEF R, S, g, x
  <2> QED
    BY <1>1, <1>2, <1>6, <1>7, <2>1 DEF PutBehind
<1>9. Rings(R)
  BY RemovedLists
<1>10. ListIn(R, g) = Behind(n, c)
  <2> HIDE DEF R, S, g
  <2> QED
    BY <1>1, <1>2, <1>3, ListIsBehind
<1> HIDE DEF R, S, g
<1>11. /\ Rings(S)
       /\ ListIn(S, g) = Lists!InsertAt(ListIn(R, g), j + 1, l)
       /\ \A h \in Heads \ {g} : ListIn(S, h) = ListIn(R, h)
  <2> HIDE DEF j
  <2> QED
    BY <1>1, <1>2, <1>3, <1>6, <1>8, <1>9, PutLists DEF x
<1>12. PutNextTo(ListIn(R, g), ListIn(S, g), g, l, t, "before")
  <2>1. CASE k = 0
    <3>1. t = g /\ j + 1 = Len(ListIn(R, g)) + 1
      BY <1>4, <1>5, <1>10, <2>1, BehindIsSeq
    <3> QED
      BY <1>11, <3>1 DEF PutNextTo
  <2>2. CASE k # 0
    <3>1. Len(ListIn(R, g)) = n /\ ListIn(R, g)[k] = t /\ k \in 1..n /\ j + 1 = k
      BY <1>4, <1>5, <1>10, <2>2, BehindIsSeq DEF Behind
    <3>2. t # g
      BY <1>4, <1>5, <2>2
    <3> QED
      BY <1>11, <3>1, <3>2 DEF PutNextTo
  <2> QED
    BY <2>1, <2>2
<1> QED
  BY <1>11, <1>12 DEF R, S, g

\* Next to itself a node is put nowhere.
LEMMA InsertedAtItself ==
    ASSUME NEW L \in Links, NEW l \in Nodes
    PROVE  InsertedBefore(L, l, l) = Removed(L, l) /\ InsertedAfter(L, l, l) = Removed(L, l)
<1> DEFINE R == Removed(L, l)
<1>1. R \in Links /\ R.next[l] = l /\ R.prev[l] = l /\ R.head[l] = l
  BY RemovedType, RemovedAlone
<1>2. /\ InsertedBefore(L, l, l) = [R EXCEPT !.next = [[@ EXCEPT ![l] = l] EXCEPT ![l] = l],
                                            !.prev = [[@ EXCEPT ![l] = l] EXCEPT ![l] = l],
                                            !.head = [@ EXCEPT ![l] = l]]
      /\ InsertedAfter(L, l, l) = [R EXCEPT !.next = [[@ EXCEPT ![l] = l] EXCEPT ![l] = l],
                                           !.prev = [[@ EXCEPT ![l] = l] EXCEPT ![l] = l],
                                           !.head = [@ EXCEPT ![l] = l]]
  <2> HIDE DEF R
  <2> QED
    BY <1>1 DEF InsertedBefore, InsertedAfter, R, Links
<1> HIDE DEF R
<1>3. /\ [[R.next EXCEPT ![l] = l] EXCEPT ![l] = l] = R.next
      /\ [[R.prev EXCEPT ![l] = l] EXCEPT ![l] = l] = R.prev
      /\ [R.head EXCEPT ![l] = l] = R.head
  BY <1>1 DEF Links
<1>4. [R EXCEPT !.next = R.next, !.prev = R.prev, !.head = R.head] = R
  BY <1>1 DEF Links
<1> QED
  BY <1>2, <1>3, <1>4, Zenon DEF R

(***************************************************************************)
(* The machine implements the lists.                                       *)
(***************************************************************************)

\* While a member clears, it stands for the head of its list: the ring is the
\* one it is in, with or without the head.
Anchor(h) == IF clearing # NULL /\ links.head[clearing] = h THEN clearing ELSE h
ListsInv ==
    /\ links \in Links /\ Circles(links) /\ Headed(links)
    /\ clearing # NULL => clearing \in Nodes \ Heads /\ links.head[clearing] \in Heads
    /\ \A h \in Heads : \E n, c : Ring(links, Anchor(h), h, n, c)

\* Every head alone in its ring.
LEMMA InitListsInv == Init => ListsInv
<1> SUFFICES ASSUME Init PROVE ListsInv
  OBVIOUS
<1>1. /\ links \in Links /\ Circles(links) /\ Headed(links) /\ clearing = NULL
      /\ \A m \in Nodes : links.next[m] = m /\ links.head[m] = m
  BY NodesAssumption DEF Init, Links, Circles, Headed
<1>2. ASSUME NEW h \in Heads
      PROVE  \E n, c : Ring(links, Anchor(h), h, n, c)
  <2> DEFINE c == [i \in 0..0 |-> h]
  <2>1. Anchor(h) = h /\ h \in Nodes
    BY <1>1, NodesAssumption DEF Anchor
  <2>2. c \in [0..0 -> Nodes] /\ \A i \in 0..0 : c[i] = h
    BY <2>1
  <2> HIDE DEF c
  <2>3. Ring(links, h, h, 0, c)
    BY <1>1, <2>1, <2>2 DEF Ring
  <2> QED
    BY <2>1, <2>3
<1> QED
  BY <1>1, <1>2 DEF ListsInv

\* Between two calls the lists are what walking the links sees.
LEMMA Between ==
    ASSUME ListsInv, clearing = NULL
    PROVE  Rings(links) /\ \A h \in Heads : ListOf(h) = ListIn(links, h)
<1>1. \A h \in Heads : Anchor(h) = h
  BY DEF Anchor
<1>2. \A h \in Heads : ListOf(h) = ListIn(links, h)
  BY DEF ListOf, ListIn
<1> QED
  BY <1>1, <1>2 DEF ListsInv, Rings

\* The same of the state after a call.
LEMMA BetweenNext ==
    ASSUME clearing' = NULL
    PROVE  /\ \A h \in Heads : ListOf(h)' = ListIn(links', h)
           /\ links' \in Links /\ Circles(links') /\ Headed(links') /\ Rings(links') => ListsInv'
<1>1. \A h \in Heads : Anchor(h)' = h
  BY DEF Anchor
<1>2. \A h \in Heads : ListOf(h)' = ListIn(links', h)
  BY DEF ListOf, ListIn
<1> QED
  BY <1>1, <1>2 DEF ListsInv, Rings

\* A call that takes l out and does nothing else.
LEMMA TakesOut ==
    ASSUME ListsInv, clearing = NULL, clearing' = NULL, NEW l \in Nodes \ Heads, links' = Removed(links, l)
    PROVE  ListsInv' /\ Lists!Take(l)
<1>1. /\ links \in Links /\ Circles(links) /\ Headed(links) /\ Rings(links)
      /\ \A h \in Heads : ListOf(h) = ListIn(links, h)
  BY Between DEF ListsInv
<1>2. links' \in Links /\ Circles(links') /\ Headed(links')
  BY <1>1, RemovedType, RemovedCircles, RemovedHeaded
<1>3. /\ Rings(links')
      /\ \A h \in Heads : ListIn(links', h) = Lists!RemoveFirst(ListIn(links, h), l)
  BY <1>1, RemovedLists
<1>4. ListsInv' /\ \A h \in Heads : ListOf(h)' = ListIn(links', h)
  BY <1>2, <1>3, BetweenNext
<1>5. \A h \in Heads : ListOf(h)' = Lists!RemoveFirst(ListOf(h), l)
  BY <1>1, <1>3, <1>4
<1> QED
  BY <1>4, <1>5 DEF Lists!Take, Lists!Without

\* The lists, before and after a step.
LEMMA ListsAre ==
    /\ \A h \in Heads : ListOf(h) = IF clearing # NULL /\ links.head[clearing] = h THEN <<>> ELSE ListIn(links, h)
    /\ \A h \in Heads : ListOf(h)' = IF clearing' # NULL /\ links'.head[clearing'] = h THEN <<>> ELSE ListIn(links', h)
  BY DEF ListOf, ListIn

\* A call that puts l in, behind t or in front of it.
LEMMA InsertsNextTo ==
    ASSUME ListsInv, clearing = NULL, clearing' = NULL, NEW l \in Nodes \ Heads,
           NEW t \in Nodes, t # l, t \in Heads \/ Linked(t), NEW side \in {"after", "before"},
           links' = IF side = "after" THEN InsertedAfter(links, l, t) ELSE InsertedBefore(links, l, t)
    PROVE  /\ ListsInv'
           /\ t \in Heads => IF side = "after" THEN Lists!InsertHead(l, t) ELSE Lists!InsertTail(l, t)
           /\ t \notin Heads => IF side = "after" THEN Lists!InsertAfter(l, t) ELSE Lists!InsertBefore(l, t)
<1> DEFINE R == Removed(links, l)
           g == links.head[t]
           W == Lists!Without(l)
<1>1. /\ links \in Links /\ Circles(links) /\ Headed(links) /\ Rings(links)
      /\ \A h \in Heads : ListOf(h) = ListIn(links, h)
  BY Between DEF ListsInv
<1>2. t \in Heads \/ links.next[t] # t
  BY DEF Linked
<1>3. links' \in Links /\ Circles(links') /\ Headed(links')
  BY <1>1, <1>2, InsertedType, InsertedCircles, InsertedHeaded
<1>4. g \in Heads /\ (t \in Heads => t = g)
  BY <1>1, <1>2 DEF Headed
<1>5. W = [h \in Heads |-> ListIn(R, h)]
  <2>1. \A h \in Heads : ListIn(R, h) = Lists!RemoveFirst(ListOf(h), l)
    BY <1>1, RemovedLists
  <2> HIDE DEF R
  <2> QED
    BY <2>1 DEF Lists!Without
<1>6. /\ Rings(links')
      /\ PutNextTo(ListIn(R, g), ListIn(links', g), g, l, t, side)
      /\ \A h \in Heads \ {g} : ListIn(links', h) = ListIn(R, h)
  <2>1. CASE side = "after"
    <3>1. links' = InsertedAfter(links, l, t)
      BY <2>1
    <3> QED
      BY <1>1, <1>2, <2>1, <3>1, InsertedAfterLists
  <2>2. CASE side = "before"
    <3>1. links' = InsertedBefore(links, l, t)
      BY <2>2
    <3> QED
      BY <1>1, <1>2, <2>2, <3>1, InsertedBeforeLists
  <2> QED
    BY <2>1, <2>2
<1>7. ListsInv' /\ \A h \in Heads : ListOf(h)' = ListIn(links', h)
  BY <1>3, <1>6, BetweenNext
<1> DEFINE V == [h \in Heads |-> ListIn(links', h)]
<1> HIDE DEF R, g, W
<1>8. W[g] = ListIn(R, g) /\ V[g] = ListIn(links', g) /\ \A h \in Heads \ {g} : V[h] = W[h]
  <2>1. W[g] = ListIn(R, g)
    BY <1>4, <1>5
  <2>2. \A h \in Heads \ {g} : V[h] = W[h]
    BY <1>5, <1>6
  <2> QED
    BY <1>4, <2>1, <2>2
<1> HIDE DEF V
<1>9. PutNextTo(W[g], V[g], g, l, t, side)
  BY <1>6, <1>8
<1>10. ASSUME NEW k, V[g] = Lists!InsertAt(W[g], k, l)
       PROVE  Lists!Put(l, g, k)
  <2>1. V = [W EXCEPT ![g] = Lists!InsertAt(@, k, l)]
    BY <1>4, <1>5, <1>8, <1>10 DEF V
  <2>2. [h \in Heads |-> ListOf(h)]' = V
    BY <1>7 DEF V
  <2> QED
    BY <2>1, <2>2 DEF Lists!Put, W
<1>11. CASE t \in Heads
  <2>1. Lists!Put(l, t, IF side = "after" THEN 1 ELSE Len(W[t]) + 1)
    BY <1>4, <1>9, <1>10, <1>11 DEF PutNextTo
  <2> QED
    BY <1>7, <1>11, <2>1 DEF Lists!InsertHead, Lists!InsertTail, W
<1>12. CASE t \notin Heads
  <2>1. PICK k \in 1..Len(W[g]) : W[g][k] = t /\ V[g] = Lists!InsertAt(W[g], IF side = "after" THEN k + 1 ELSE k, l)
    BY <1>4, <1>9, <1>12 DEF PutNextTo
  <2>2. Lists!Put(l, g, IF side = "after" THEN k + 1 ELSE k)
    BY <1>10, <2>1
  <2> QED
    BY <1>4, <1>7, <1>12, <2>1, <2>2 DEF Lists!InsertAfter, Lists!InsertBefore, W
<1> QED
  BY <1>11, <1>12

\* The same next to a node that may be l itself, which is then taken out.
LEMMA InsertsAnywhere ==
    ASSUME ListsInv, clearing = NULL, clearing' = NULL, NEW l \in Nodes \ Heads,
           NEW t \in Nodes, t \in Heads \/ Linked(t), NEW side \in {"after", "before"},
           links' = IF side = "after" THEN InsertedAfter(links, l, t) ELSE InsertedBefore(links, l, t)
    PROVE  /\ ListsInv'
           /\ t \in Heads => IF side = "after" THEN Lists!InsertHead(l, t) ELSE Lists!InsertTail(l, t)
           /\ t \notin Heads => IF side = "after" THEN Lists!InsertAfter(l, t) ELSE Lists!InsertBefore(l, t)
<1>1. CASE t = l
  <2>1. links' = Removed(links, l)
    BY <1>1, InsertedAtItself DEF ListsInv
  <2>2. ListsInv' /\ Lists!Take(l)
    BY <2>1, TakesOut
  <2> QED
    BY <1>1, <2>2 DEF Lists!InsertAfter, Lists!InsertBefore
<1>2. CASE t # l
  BY <1>2, InsertsNextTo
<1> QED
  BY <1>1, <1>2

\* A clear through the member l empties its list at once: from now on the ring
\* is told from l.
LEMMA ClearBegins ==
    ASSUME KeepHeads = TRUE, ListsInv, NEW l \in Nodes \ Heads, ClearMember(l)
    PROVE  ListsInv' /\ links.head[l] \in Heads /\ Lists!Clear(links.head[l])
<1> DEFINE g == links.head[l]
<1>1. /\ links \in Links /\ Circles(links) /\ Headed(links) /\ Rings(links)
      /\ \A h \in Heads : ListOf(h) = ListIn(links, h)
  BY Between DEF ListsInv, ClearMember
<1>2. links' = links /\ clearing' = l /\ clearing' # NULL /\ links.next[l] # l
  BY NodesAssumption DEF ClearMember, Linked
<1>3. g \in Heads
  BY <1>1, <1>2 DEF Headed
<1>4. \A h \in Heads : Anchor(h)' = IF h = g THEN l ELSE h
  BY <1>2 DEF Anchor
<1>5. ASSUME NEW h \in Heads
      PROVE  \E n, c : Ring(links', Anchor(h)', h, n, c)
  <2>1. PICK n, c : Ring(links, h, h, n, c)
    BY <1>1 DEF Rings
  <2>2. CASE h = g
    <3>1. /\ c[0] = h /\ n \in Nat
          /\ \A m \in Nodes : links.next[m] # m /\ links.head[m] = h => \E i \in 0..n : c[i] = m
      BY <2>1 DEF Ring
    <3>2. PICK j \in 0..n : c[j] = l
      BY <1>2, <2>2, <3>1
    <3>3. j \in 1..n
      BY <1>3, <2>2, <3>1, <3>2
    <3>4. Ring(links, l, h, n, Turned(n, c, j))
      BY <1>1, <2>1, <3>2, <3>3, RingTurned
    <3> QED
      BY <1>2, <1>4, <2>2, <3>4
  <2>3. CASE h # g
    BY <1>2, <1>4, <2>1, <2>3
  <2> QED
    BY <2>2, <2>3
<1>6. ListsInv'
  BY <1>1, <1>2, <1>3, <1>5 DEF ListsInv
<1>7. \A h \in Heads : ListOf(h)' = IF h = g THEN <<>> ELSE ListOf(h)
  BY <1>1, <1>2, ListsAre
<1> HIDE DEF g
<1>8. [h \in Heads |-> ListOf(h)'] = [[h \in Heads |-> ListOf(h)] EXCEPT ![g] = <<>>]
  BY <1>3, <1>7
<1>9. Lists!Clear(g)
  BY <1>8 DEF Lists!Clear
<1> QED
  BY <1>3, <1>6, <1>9 DEF g

\* The same lists.
SameLists == \A h \in Heads : ListOf(h)' = ListOf(h)

\* The loop of the clear takes the nodes of that ring out, one after another, and
\* nobody else's.
LEMMA ClearGoesOn ==
    ASSUME ListsInv, ClearStep
    PROVE  ListsInv' /\ SameLists
<1> DEFINE a == clearing
           x == links.next[a]
           g == links.head[a]
<1>1. /\ links \in Links /\ Circles(links) /\ Headed(links)
      /\ a \in Nodes \ Heads /\ g \in Heads /\ a # NULL
      /\ \A h \in Heads : \E n, c : Ring(links, Anchor(h), h, n, c)
  BY DEF ListsInv, ClearStep
<1>2. x # a /\ links' = Removed(links, x) /\ clearing' = a
  BY DEF ClearStep, Linked
<1>3. x \in Nodes /\ links.head[x] = g
  BY <1>1, <1>2 DEF Links, Headed
<1>4. links' \in Links /\ Circles(links') /\ Headed(links')
  BY <1>1, <1>2, <1>3, RemovedType, RemovedCircles, RemovedHeaded
<1>5. links'.head[a] = g
  <2>1. Removed(links, x).head = [links.head EXCEPT ![x] = x]
    BY <1>1, <1>3, RemovedLinks
  <2> QED
    BY <1>1, <1>2, <1>3, <2>1 DEF Links
<1>6. \A h \in Heads : /\ Anchor(h) = IF h = g THEN a ELSE h
                       /\ Anchor(h)' = IF h = g THEN a ELSE h
  BY <1>1, <1>2, <1>5 DEF Anchor
<1>7. \E n, c : Ring(links', a, g, n, c)
  <2>1. PICK n, c : Ring(links, a, g, n, c)
    BY <1>1, <1>6
  <2> HIDE DEF a, x, g
  <2> QED
    BY <1>1, <1>2, <1>3, <2>1, RingRemoved
<1>8. ASSUME NEW h \in Heads, h # g
      PROVE  \E n, c : Ring(links, h, h, n, c) /\ Ring(links', h, h, n, c)
  <2>1. PICK n, c : Ring(links, h, h, n, c)
    BY <1>1, <1>6, <1>8
  <2>2. \A i \in 0..n : c[i] # x
    BY <1>3, <1>8, <2>1 DEF Ring
  <2> HIDE DEF a, x, g
  <2> QED
    BY <1>1, <1>2, <1>3, <2>1, <2>2, RemovedOutside
<1>9. ListsInv'
  <2>1. \A h \in Heads : \E n, c : Ring(links', Anchor(h)', h, n, c)
    BY <1>6, <1>7, <1>8
  <2> QED
    BY <1>1, <1>2, <1>4, <1>5, <2>1 DEF ListsInv
<1>10. ASSUME NEW h \in Heads PROVE ListOf(h)' = ListOf(h)
  <2>1. CASE h = g
    BY <1>1, <1>2, <1>5, <2>1, ListsAre
  <2>2. CASE h # g
    <3>1. ListIn(links', h) = ListIn(links, h)
      BY <1>1, <1>4, <1>8, <2>2, ListIsBehind
    <3> QED
      BY <1>1, <1>2, <1>5, <2>2, <3>1, ListsAre
  <2> QED
    BY <2>1, <2>2
<1> QED
  BY <1>9, <1>10 DEF SameLists

\* When the loop ends the member stands alone, so no node is left that names the
\* head: the ring of the head is the head.
LEMMA ClearStops ==
    ASSUME ListsInv, ClearEnd
    PROVE  ListsInv' /\ SameLists
<1> DEFINE a == clearing
           g == links.head[a]
<1>1. /\ links \in Links /\ Circles(links) /\ Headed(links)
      /\ a \in Nodes \ Heads /\ g \in Heads /\ a # NULL
      /\ \A h \in Heads : \E n, c : Ring(links, Anchor(h), h, n, c)
  BY DEF ListsInv, ClearEnd
<1>2. links.next[a] = a /\ links' = links /\ clearing' = NULL
  BY DEF ClearEnd, Linked
<1>3. \A h \in Heads : /\ Anchor(h) = IF h = g THEN a ELSE h
                       /\ Anchor(h)' = h
  BY <1>1, <1>2 DEF Anchor
<1>4. PICK n, c : Ring(links, a, g, n, c)
  BY <1>1, <1>3
<1>5. c[0] = a /\ n \in Nat /\ \A m \in Nodes : links.next[m] # m /\ links.head[m] = g => \E i \in 0..n : c[i] = m
  BY <1>4 DEF Ring
<1>6. n = 0
  <2>1. 0 \in 0..n
    BY <1>5
  <2> HIDE DEF a, g
  <2> QED
    BY <1>1, <1>2, <1>4, <1>5, <2>1, RingIsLinked
<1>7. \A m \in Nodes : links.head[m] = g => links.next[m] = m
  BY <1>2, <1>5, <1>6
<1> DEFINE d == [i \in 0..0 |-> g]
<1>8. Ring(links, g, g, 0, d)
  <2>1. d \in [0..0 -> Nodes] /\ \A i \in 0..0 : d[i] = g
    BY <1>1, NodesAssumption
  <2>2. g \in Nodes /\ links.head[g] = g
    BY <1>1, NodesAssumption DEF Headed
  <2>3. links.next[g] = g
    BY <1>7, <2>2
  <2> HIDE DEF a, g, d
  <2> QED
    BY <1>7, <2>1, <2>2, <2>3 DEF Ring
<1>9. ListsInv'
  <2>1. \A h \in Heads : \E m, e : Ring(links', Anchor(h)', h, m, e)
    BY <1>1, <1>2, <1>3, <1>8
  <2> QED
    BY <1>1, <1>2, <2>1 DEF ListsInv
<1>10. ListIn(links, g) = <<>>
  <2>1. ListIn(links, g) = Behind(0, d)
    BY <1>1, <1>8, ListIsBehind
  <2> QED
    BY <2>1 DEF Behind
<1>11. \A h \in Heads : ListOf(h)' = ListOf(h)
  BY <1>1, <1>2, <1>10, ListsAre
<1> QED
  BY <1>9, <1>11 DEF SameLists
\* What a client calls without a target.
LEMMA CallsOfOne ==
    ASSUME KeepHeads = TRUE, ListsInv, NEW l \in Movable
    PROVE  /\ Remove(l) \/ ClearHead(l) => ListsInv' /\ Lists!Take(l)
           /\ ClearMember(l) => ListsInv' /\ links.head[l] \in Heads /\ Lists!Clear(links.head[l])
<1>1. l \in Nodes \ Heads
  BY DEF Movable
<1>2. ASSUME Remove(l) \/ ClearHead(l) PROVE ListsInv' /\ Lists!Take(l)
  <2>1. clearing = NULL /\ clearing' = NULL /\ links' = Removed(links, l)
    BY <1>2 DEF Remove, ClearHead
  <2> QED
    BY <1>1, <2>1, TakesOut
<1>3. ASSUME ClearMember(l)
      PROVE  ListsInv' /\ links.head[l] \in Heads /\ Lists!Clear(links.head[l])
  BY <1>1, <1>3, ClearBegins
<1> QED
  BY <1>2, <1>3

\* What a client calls with a target: next to a head is at an end of its list.
LEMMA CallsOfTwo ==
    ASSUME KeepHeads = TRUE, ListsInv, NEW l \in Movable, NEW t \in Targets
    PROVE  /\ links.head[t] \in Heads /\ (t \notin Heads => t \in Nodes \ Heads)
           /\ InsertTail(l, t) => ListsInv' /\ Lists!InsertTail(l, links.head[t])
           /\ InsertHead(l, t) => ListsInv' /\ Lists!InsertHead(l, links.head[t])
           /\ InsertBefore(l, t) =>
                  ListsInv' /\ IF t \in Heads THEN Lists!InsertTail(l, t) ELSE Lists!InsertBefore(l, t)
           /\ InsertAfter(l, t) =>
                  ListsInv' /\ IF t \in Heads THEN Lists!InsertHead(l, t) ELSE Lists!InsertAfter(l, t)
<1> DEFINE g == links.head[t]
<1>1. l \in Nodes \ Heads /\ t \in Nodes /\ (t \in Heads \/ Linked(t))
  BY NodesAssumption DEF Movable, Targets
<1>2. g \in Heads /\ g \in Nodes
  BY <1>1, NodesAssumption DEF ListsInv, Headed, Linked
<1>3. ASSUME InsertTail(l, t) PROVE ListsInv' /\ Lists!InsertTail(l, g)
  <2>1. clearing = NULL /\ clearing' = NULL /\ links' = InsertedBefore(links, l, g)
    BY <1>3 DEF InsertTail, InsertedTail
  <2> HIDE DEF g
  <2> QED
    BY <1>1, <1>2, <2>1, InsertsAnywhere
<1>4. ASSUME InsertHead(l, t) PROVE ListsInv' /\ Lists!InsertHead(l, g)
  <2>1. clearing = NULL /\ clearing' = NULL /\ links' = InsertedAfter(links, l, g)
    BY <1>4 DEF InsertHead, InsertedHead
  <2> HIDE DEF g
  <2> QED
    BY <1>1, <1>2, <2>1, InsertsAnywhere
<1>5. ASSUME InsertBefore(l, t)
      PROVE  ListsInv' /\ IF t \in Heads THEN Lists!InsertTail(l, t) ELSE Lists!InsertBefore(l, t)
  <2>1. clearing = NULL /\ clearing' = NULL /\ links' = InsertedBefore(links, l, t)
    BY <1>5 DEF InsertBefore
  <2> QED
    BY <1>1, <2>1, InsertsAnywhere
<1>6. ASSUME InsertAfter(l, t)
      PROVE  ListsInv' /\ IF t \in Heads THEN Lists!InsertHead(l, t) ELSE Lists!InsertAfter(l, t)
  <2>1. clearing = NULL /\ clearing' = NULL /\ links' = InsertedAfter(links, l, t)
    BY <1>6 DEF InsertAfter
  <2> QED
    BY <1>1, <2>1, InsertsAnywhere
<1> QED
  BY <1>1, <1>2, <1>3, <1>4, <1>5, <1>6

\* Every step keeps the invariant, and is a step of the lists or leaves them as
\* they are.
LEMMA StepImplementsLists ==
    ASSUME KeepHeads = TRUE, ListsInv, [Next]_vars
    PROVE  ListsInv' /\ [Lists!Next]_([h \in Heads |-> ListOf(h)])
<1>1. Movable = Nodes \ Heads
  BY DEF Movable
<1>2. CASE \E l \in Movable : Remove(l) \/ ClearHead(l)
  <2>1. PICK l \in Movable : Remove(l) \/ ClearHead(l)
    BY <1>2
  <2>2. ListsInv' /\ Lists!Take(l)
    BY <2>1, CallsOfOne
  <2> QED
    BY <1>1, <2>2 DEF Lists!Next
<1>3. CASE \E l \in Movable : ClearMember(l)
  <2>1. PICK l \in Movable : ClearMember(l)
    BY <1>3
  <2>2. ListsInv' /\ links.head[l] \in Heads /\ Lists!Clear(links.head[l])
    BY <2>1, CallsOfOne
  <2> QED
    BY <2>2 DEF Lists!Next
<1>4. CASE \E l \in Movable, t \in Targets :
               InsertBefore(l, t) \/ InsertAfter(l, t) \/ InsertTail(l, t) \/ InsertHead(l, t)
  <2>1. PICK l \in Movable, t \in Targets :
                 InsertBefore(l, t) \/ InsertAfter(l, t) \/ InsertTail(l, t) \/ InsertHead(l, t)
    BY <1>4
  <2>2. /\ ListsInv'
        /\ \/ \E h \in Heads : Lists!InsertHead(l, h) \/ Lists!InsertTail(l, h)
           \/ t \in Nodes \ Heads /\ (Lists!InsertBefore(l, t) \/ Lists!InsertAfter(l, t))
    BY <2>1, CallsOfTwo
  <2> QED
    BY <1>1, <2>2 DEF Lists!Next
<1>5. CASE ClearStep \/ ClearEnd
  <2>1. ListsInv' /\ SameLists
    BY <1>5, ClearGoesOn, ClearStops
  <2>2. [h \in Heads |-> ListOf(h)]' = [h \in Heads |-> ListOf(h)]
    BY <2>1 DEF SameLists
  <2> QED
    BY <2>1, <2>2
<1>6. CASE UNCHANGED vars
  <2>1. ListsInv'
    BY <1>6 DEF vars, ListsInv, Anchor
  <2>2. [h \in Heads |-> ListOf(h)]' = [h \in Heads |-> ListOf(h)]
    BY <1>6 DEF vars, ListOf
  <2> QED
    BY <2>1, <2>2
<1> QED
  BY <1>2, <1>3, <1>4, <1>5, <1>6 DEF Next

\* Of a client that keeps its heads the list makes one sequence per head: every
\* call, and every step of the loop of a clear, is a step of the sequences or
\* leaves them as they are, whatever nodes and heads there are.
THEOREM ListsAreSequences ==
    ASSUME KeepHeads = TRUE
    PROVE  Spec => ImplementsLists
<1>1. Init => Lists!Init
  <2> SUFFICES ASSUME Init PROVE Lists!Init
    OBVIOUS
  <2>1. ListsInv /\ clearing = NULL /\ \A m \in Nodes : links.next[m] = m
    BY InitListsInv DEF Init
  <2>2. ASSUME NEW h \in Heads PROVE ListOf(h) = <<>>
    <3>1. PICK n, c : Ring(links, h, h, n, c)
      BY <2>1, Between DEF Rings
    <3>2. n = 0
      <4>1. c[0] \in Nodes /\ 0 \in 0..n
        BY <3>1 DEF Ring
      <4> QED
        BY <2>1, <3>1, <4>1, RingIsLinked DEF ListsInv
    <3>3. ListOf(h) = Behind(0, c)
      BY <2>1, <3>1, <3>2, Between, ListIsBehind DEF ListsInv
    <3> QED
      BY <3>3 DEF Behind
  <2> QED
    BY <2>2 DEF Lists!Init
<1>2. ListsInv /\ [Next]_vars => ListsInv' /\ [Lists!Next]_([h \in Heads |-> ListOf(h)])
  BY StepImplementsLists
<1> QED
  BY <1>1, <1>2, InitListsInv, PTL DEF Spec, ImplementsLists, Lists!Spec

\* Every call does to the sequences what its name says, next to heads and
\* members, itself included.
THEOREM CallsAreNamed ==
    ASSUME KeepHeads = TRUE
    PROVE  Spec => CallsDoAsNamed
<1> DEFINE Named ==
        \A l \in Movable :
           /\ Remove(l) => Lists!Take(l)
           /\ ClearMember(l) => Lists!Clear(links.head[l])
           /\ \A t \in Targets :
                  /\ InsertTail(l, t) => Lists!InsertTail(l, links.head[t])
                  /\ InsertHead(l, t) => Lists!InsertHead(l, links.head[t])
                  /\ t \notin Heads => /\ InsertBefore(l, t) => Lists!InsertBefore(l, t)
                                       /\ InsertAfter(l, t) => Lists!InsertAfter(l, t)
<1>1. ListsInv => Named
  BY CallsOfOne, CallsOfTwo
<1>2. ListsInv /\ [Next]_vars => ListsInv'
  BY StepImplementsLists
<1> QED
  BY <1>1, <1>2, InitListsInv, PTL DEF Spec, CallsDoAsNamed
=============================================================================
