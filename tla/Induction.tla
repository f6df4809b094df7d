----------------------------- MODULE Induction -----------------------------
(***************************************************************************)
(* Induction over the naturals without operators as parameters, and the    *)
(* two facts the proofs take from it: a function defined by iteration      *)
(* exists, and what the next power of two is.  To show P(n) for every n    *)
(* take S to be {n \in Nat : P(n)}.                                        *)
(***************************************************************************)
EXTENDS Naturals, FunctionTheorems, FiniteSetTheorems, TLAPS

\* Otherwise one of the segments 0..n with n outside S is smallest, and 0..(n - 1)
\* is smaller.
LEMMA SetInduction ==
    ASSUME NEW S, 0 \in S, \A n \in Nat : n \in S => n + 1 \in S
    PROVE  \A n \in Nat : n \in S
<1> DEFINE R == StrictSubsetOrdering(Nat)
           T == {0..n : n \in Nat \ S}
<1>1. SUFFICES ASSUME T # {} PROVE FALSE
    OBVIOUS
<1>2. IsWellFoundedOn(R, FiniteSubsetsOf(Nat))
    BY FS_StrictSubsetOrderingWellFounded
<1>3. ASSUME NEW n \in Nat PROVE 0..n \in FiniteSubsetsOf(Nat)
    <2>1. IsFiniteSet(0..n)
        BY FS_Interval
    <2> QED
        BY <2>1 DEF FiniteSubsetsOf
<1>4. T \subseteq FiniteSubsetsOf(Nat)
    BY <1>3
<1>5. PICK x \in T : \A y \in T : ~ (<<y, x>> \in R)
    <2> HIDE DEF R, T
    <2> QED
        BY <1>1, <1>2, <1>4, WFMin
<1>6. PICK n \in Nat \ S : x = 0..n
    OBVIOUS
<1>7. n # 0 /\ n - 1 \in Nat \ S
    BY <1>6
<1>8. 0..(n - 1) \in T
    BY <1>7
<1>9. 0..(n - 1) \subseteq 0..n /\ 0..(n - 1) # 0..n
    <2>1. n \in 0..n /\ n \notin 0..(n - 1)
        BY <1>7
    <2> QED
        BY <2>1, <1>7
<1>10. <<0..(n - 1), 0..n>> \in R
    BY <1>9, <1>7 DEF StrictSubsetOrdering
<1> QED
    BY <1>5, <1>6, <1>8, <1>10

\* f[k] is c after k steps, in X, for every k up to N.
Iterates(f, X, step, c, N) ==
    f \in [0..N -> X] /\ \A k \in 0..N : f[k] = IF k = 0 THEN c ELSE step[f[k - 1]]

\* Whatever a function does to the elements of X, it can be done N times.
LEMMA IterationExists ==
    ASSUME NEW X, NEW step \in [X -> X], NEW c \in X, NEW N \in Nat
    PROVE  \E f : Iterates(f, X, step, c, N)
<1> DEFINE Is(f, n) == \A k \in 0..n : f[k] = IF k = 0 THEN c ELSE step[f[k - 1]]
           S == {n \in Nat : \E f \in [0..n -> X] : Is(f, n)}
<1>1. 0 \in S
    <2> DEFINE f == [k \in 0..0 |-> c]
    <2>1. f \in [0..0 -> X] /\ Is(f, 0)
        OBVIOUS
    <2> QED
        BY <2>1
<1>2. ASSUME NEW n \in Nat, n \in S PROVE n + 1 \in S
    <2>1. PICK f \in [0..n -> X] : Is(f, n)
        BY <1>2
    <2> DEFINE g == [k \in 0..(n + 1) |-> IF k = n + 1 THEN step[f[n]] ELSE f[k]]
    <2>2. g \in [0..(n + 1) -> X]
        OBVIOUS
    <2>3. ASSUME NEW k \in 0..(n + 1)
          PROVE  g[k] = IF k = 0 THEN c ELSE step[g[k - 1]]
        <3>1. CASE k = 0
            BY <2>1, <3>1
        <3>2. CASE k # 0 /\ k \in 0..n
            BY <2>1, <3>2
        <3>3. CASE k = n + 1
            BY <3>3
        <3> QED
            BY <3>1, <3>2, <3>3
    <2> HIDE DEF g
    <2>4. Is(g, n + 1)
        BY <2>2, <2>3
    <2>5. \E h \in [0..(n + 1) -> X] : Is(h, n + 1)
        <3> HIDE DEF Is
        <3> QED
            BY <2>2, <2>4
    <2> QED
        <3> HIDE DEF Is
        <3> QED
            BY <2>5
<1> HIDE DEF S
<1>3. N \in S
    BY <1>1, <1>2, SetInduction
<1>4. PICK f \in [0..N -> X] : Is(f, N)
    BY <1>3 DEF S
<1> QED
    BY <1>4 DEF Iterates

\* A set with one element more has twice the subsets.
LEMMA PowersOfTwo ==
    /\ 2^0 = 1
    /\ \A n \in Nat : 2^n \in Nat /\ 2^(n + 1) = 2 * 2^n
<1>1. 2^0 = 1
    <2>1. IsFiniteSet({}) /\ Cardinality({}) = 0
        BY FS_EmptySet
    <2>2. Cardinality(SUBSET {}) = 2^Cardinality({})
        BY <2>1, FS_SUBSET
    <2>3. SUBSET {} = {{}}
        OBVIOUS
    <2>4. Cardinality({{}}) = 1
        BY FS_Singleton
    <2> QED
        BY <2>1, <2>2, <2>3, <2>4, Zenon
<1>2. ASSUME NEW n \in Nat
      PROVE  2^n \in Nat /\ 2^(n + 1) = 2 * 2^n
    <2> DEFINE A == 1..n
               B == 1..(n + 1)
               P == SUBSET A
               Q == {s \cup {n + 1} : s \in P}
    <2>1. IsFiniteSet(A) /\ Cardinality(A) = n
        BY FS_Interval
    <2>2. IsFiniteSet(B) /\ Cardinality(B) = n + 1
        BY FS_Interval
    <2>3. IsFiniteSet(P) /\ Cardinality(P) = 2^n
        BY <2>1, FS_SUBSET, Zenon
    <2>4. Cardinality(SUBSET B) = 2^(n + 1)
        BY <2>2, FS_SUBSET, Zenon
    <2>5. SUBSET B = P \cup Q
        <3>1. B = A \cup {n + 1}
            OBVIOUS
        <3>2. P \cup Q \subseteq SUBSET B
            BY <3>1
        <3>3. ASSUME NEW s \in SUBSET B PROVE s \in P \cup Q
            <4>1. CASE n + 1 \in s
                <5>1. s \ {n + 1} \in P /\ s = (s \ {n + 1}) \cup {n + 1}
                    BY <3>1, <4>1
                <5> QED
                    BY <5>1
            <4>2. CASE n + 1 \notin s
                BY <3>1, <4>2
            <4> QED
                BY <4>1, <4>2
        <3> HIDE DEF P, Q
        <3> QED
            BY <3>2, <3>3
    <2>6. P \cap Q = {}
        OBVIOUS
    <2>7. IsFiniteSet(Q) /\ Cardinality(Q) = Cardinality(P)
        <3> DEFINE f == [s \in P |-> s \cup {n + 1}]
        <3>1. f \in Bijection(P, Q)
            <4>1. f \in [P -> Q]
                OBVIOUS
            <4>2. \A s, t \in P : f[s] = f[t] => s = t
                <5> SUFFICES ASSUME NEW s \in P, NEW t \in P, f[s] = f[t] PROVE s = t
                    OBVIOUS
                <5>1. n + 1 \notin s /\ n + 1 \notin t
                    OBVIOUS
                <5>2. s \cup {n + 1} = t \cup {n + 1}
                    OBVIOUS
                <5> QED
                    BY <5>1, <5>2
            <4>3. \A q \in Q : \E s \in P : f[s] = q
                OBVIOUS
            <4> HIDE DEF f, P, Q
            <4> QED
                BY <4>1, <4>2, <4>3, Fun_IsBij
        <3> HIDE DEF f, P, Q
        <3> QED
            BY <3>1, <2>3, FS_Bijection DEF ExistsBijection
    <2>8. Cardinality(P) \in Nat
        BY <2>3, FS_CardinalityType
    <2>9. Cardinality(P \cup Q) = 2 * Cardinality(P)
        <3> HIDE DEF P, Q
        <3>1. Cardinality({}) = 0
            BY FS_EmptySet
        <3>2. Cardinality(P \cup Q) = Cardinality(P) + Cardinality(Q) - Cardinality(P \cap Q)
            BY <2>3, <2>7, FS_Union, Zenon
        <3>3. Cardinality(P \cap Q) = 0
            BY <3>1, <2>6, Zenon
        <3> QED
            BY <3>2, <3>3, <2>7, <2>8
    <2> HIDE DEF P, Q
    <2> QED
        BY <2>3, <2>4, <2>5, <2>8, <2>9, Zenon
<1> QED
    BY <1>1, <1>2, Zenon
=============================================================================
