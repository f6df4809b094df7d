---------------------------- MODULE ParserProofs ----------------------------
(***************************************************************************)
(* Proofs about Parser, for every stream, whatever lies behind it and in   *)
(* front of it, and any number of levels of recursion.  Sound says of the  *)
(* calls with d levels to go what is needed of them; each function is      *)
(* shown to keep it one level further up; induction on the levels and the  *)
(* invariant ParserInv then give the properties.  Covering says the same   *)
(* way which tokens a returned tree was made from, and TokensInv is what   *)
(* the properties that relate the tree to the tokens follow from.          *)
(***************************************************************************)
EXTENDS Parser, Induction

(***************************************************************************)
(* Reading.                                                                *)
(***************************************************************************)
Cells == {toks, junk} \subseteq Seq(STRING \ {"INVALID", "FAULT"})

\* The stream ends with the only EOF and has no array suffix.
Ends == /\ Len(toks) > 0 /\ toks[Len(toks)] = "EOF"
        /\ \A n \in 1..Len(toks) : toks[n] # "[" /\ (toks[n] = "EOF" => n = Len(toks))

\* What the type read at a place tells of the place.
Readable ==
    /\ Len(toks) \in Nat /\ Len(Memory) \in Nat /\ Len(toks) <= Len(Memory)
    /\ \A j \in Nat : T(j) # "FAULT"
    /\ \A j \in Nat : T(j) # "INVALID" => j < Len(Memory)
    /\ Ends => \A j \in Nat : j < Len(toks) => T(j) # "[" /\ (T(j) # "EOF" => j + 1 < Len(toks))

LEMMA CellsReadable == Cells => Readable
<1> SUFFICES ASSUME Cells PROVE Readable
    OBVIOUS
<1>1. /\ toks \in Seq(STRING \ {"INVALID", "FAULT"})
      /\ junk \in Seq(STRING \ {"INVALID", "FAULT"})
    BY DEF Cells
<1>2. /\ Len(toks) \in Nat /\ Len(junk) \in Nat
      /\ Memory \in Seq(STRING \ {"INVALID", "FAULT"})
      /\ Len(Memory) = Len(toks) + Len(junk)
    BY <1>1 DEF Memory
<1>3. \A j \in Nat : j < Len(Memory) => Memory[j + 1] \in STRING \ {"INVALID", "FAULT"}
    BY <1>2
<1>4. \A j \in Nat : j < Len(toks) => T(j) = toks[j + 1]
    BY <1>1, <1>2 DEF T, Memory
<1>5. Ends => \A j \in Nat : j < Len(toks) => T(j) # "[" /\ (T(j) # "EOF" => j + 1 < Len(toks))
    <2> SUFFICES ASSUME Ends, NEW j \in Nat, j < Len(toks)
                 PROVE  T(j) # "[" /\ (T(j) # "EOF" => j + 1 < Len(toks))
        OBVIOUS
    <2>1. j + 1 \in 1..Len(toks) /\ T(j) = toks[j + 1]
        BY <1>2, <1>4
    <2> QED
        BY <2>1, <1>2 DEF Ends
<1> QED
    BY <1>2, <1>3, <1>5 DEF Readable, T

LEMMA Behind ==
    ASSUME Readable, NEW j \in Nat, T(j) \notin {"EOF", "INVALID"}
    PROVE  j + 1 \in 1..Len(Memory) /\ (Ends /\ j < Len(toks) => j + 1 < Len(toks))
    BY DEF Readable

(***************************************************************************)
(* Trees.                                                                  *)
(***************************************************************************)

\* What the properties say of one node and its place.
Proper(n, place) ==
    /\ n = [type |-> n.type, left |-> n.left, right |-> n.right, tok |-> n.tok]
    /\ Placed(n.type, place)
    /\ PrintReads(n.type) # "nothing" /\ place # "NAME" => PrintReads(n.type) = Written(T(n.tok))

\* Every node of a tree is proper: a set holds the root, and with a node its
\* children.
Encloses(S, n, place) ==
    /\ Child(n, place) \subseteq S
    /\ \A x \in S : Proper(x[1], x[2]) /\ Children(x) \subseteq S
Good(n, place) == \E S : Encloses(S, n, place)

\* One level further down, and Descent as Height such steps.
Top(n, place) == [nodes |-> {}, edge |-> Child(n, place)]
Down(up) == [nodes |-> up.nodes \cup up.edge, edge |-> UNION {Children(x) : x \in up.edge}]

LEMMA DescentIs ==
    ASSUME NEW n, NEW place
    PROVE  \E at : /\ at[0] = Top(n, place)
                   /\ \A k \in Nat : k < Height => at[k + 1] = Down(at[k])
                   /\ Descent(n, place) = at[Height]
<1> DEFINE Is(f, m) == f = [k \in 0..m |-> IF k = 0 THEN Top(n, place) ELSE Down(f[k - 1])]
           S == {m \in Nat : \E f : Is(f, m)}
<1>1. 0 \in S
    <2>1. Is([k \in 0..0 |-> Top(n, place)], 0)
        OBVIOUS
    <2> QED
        BY <2>1
<1>2. ASSUME NEW m \in Nat, m \in S PROVE m + 1 \in S
    <2>1. PICK f : Is(f, m)
        BY <1>2
    <2> DEFINE g == [k \in 0..(m + 1) |-> IF k = m + 1 THEN Down(f[m]) ELSE f[k]]
    <2>2. ASSUME NEW k \in 0..(m + 1)
          PROVE  g[k] = IF k = 0 THEN Top(n, place) ELSE Down(g[k - 1])
        <3>1. CASE k = 0
            <4>1. g[k] = f[k] /\ f[k] = Top(n, place)
                BY <2>1, <3>1
            <4> QED
                BY <3>1, <4>1
        <3>2. CASE k # 0 /\ k # m + 1
            <4>1. k \in 0..m /\ k - 1 \in 0..m
                BY <3>2
            <4>2. g[k] = f[k] /\ g[k - 1] = f[k - 1]
                BY <4>1
            <4>3. f[k] = Down(f[k - 1])
                BY <2>1, <3>2, <4>1
            <4> HIDE DEF g
            <4> QED
                BY <3>2, <4>2, <4>3
        <3>3. CASE k = m + 1
            <4>1. g[k] = Down(f[m]) /\ g[k - 1] = f[m] /\ k # 0
                BY <3>3
            <4> HIDE DEF g
            <4> QED
                BY <4>1
        <3> QED
            BY <3>1, <3>2, <3>3
    <2>3. g = [k \in 0..(m + 1) |-> g[k]]
        OBVIOUS
    <2> HIDE DEF g
    <2>4. Is(g, m + 1)
        BY <2>2, <2>3
    <2> QED
        BY <2>4
<1> HIDE DEF S
<1>3. Height \in S
    BY <1>1, <1>2, SetInduction, DepthAssumption
<1> DEFINE at == CHOOSE f : Is(f, Height)
<1>4. Is(at, Height)
    <2>1. \E f : Is(f, Height)
        BY <1>3 DEF S
    <2> HIDE DEF Is
    <2> QED
        BY <2>1
<1>5. Descent(n, place) = at[Height]
    BY DEF Descent, Top, Down
<1> HIDE DEF at
<1>6. at[0] = Top(n, place)
    BY <1>4, DepthAssumption
<1>7. ASSUME NEW k \in Nat, k < Height PROVE at[k + 1] = Down(at[k])
    <2>1. k + 1 \in 0..Height /\ k + 1 # 0 /\ (k + 1) - 1 = k
        BY <1>7, DepthAssumption
    <2> QED
        BY <1>4, <2>1
<1> QED
    BY <1>5, <1>6, <1>7

\* Nodes finds nothing outside of a set that holds the root and, with a node,
\* its children.
LEMMA NodesInside ==
    ASSUME NEW n, NEW place, NEW E, Child(n, place) \subseteq E, \A x \in E : Children(x) \subseteq E
    PROVE  Nodes(n, place) \subseteq E
<1>1. PICK at : /\ at[0] = Top(n, place)
                /\ \A k \in Nat : k < Height => at[k + 1] = Down(at[k])
                /\ Descent(n, place) = at[Height]
    BY DescentIs
<1> DEFINE U == {k \in Nat : k <= Height => at[k].nodes \subseteq E /\ at[k].edge \subseteq E}
<1>2. 0 \in U
    BY <1>1 DEF Top
<1>3. ASSUME NEW k \in Nat, k \in U PROVE k + 1 \in U
    <2> SUFFICES ASSUME k + 1 <= Height PROVE at[k + 1].nodes \subseteq E /\ at[k + 1].edge \subseteq E
        OBVIOUS
    <2>1. k < Height /\ k <= Height
        BY DepthAssumption
    <2>2. at[k + 1] = Down(at[k])
        BY <1>1, <2>1
    <2>3. at[k].nodes \subseteq E /\ at[k].edge \subseteq E
        BY <1>3, <2>1
    <2> QED
        BY <2>2, <2>3 DEF Down
<1> HIDE DEF U
<1>4. Height \in U
    BY <1>2, <1>3, SetInduction, DepthAssumption
<1>5. at[Height].nodes \subseteq E
    BY <1>4, DepthAssumption DEF U
<1> QED
    BY <1>1, <1>5 DEF Nodes

\* With nothing on the edge, Nodes is such a set.
LEMMA NodesClosed ==
    ASSUME NEW n, NEW place, Descent(n, place).edge = {}
    PROVE  /\ Child(n, place) \subseteq Nodes(n, place)
           /\ \A x \in Nodes(n, place) : Children(x) \subseteq Nodes(n, place)
<1>1. PICK at : /\ at[0] = Top(n, place)
                /\ \A k \in Nat : k < Height => at[k + 1] = Down(at[k])
                /\ Descent(n, place) = at[Height]
    BY DescentIs
<1> DEFINE Reached(k) == at[k].nodes \cup at[k].edge
           U == {k \in Nat : k <= Height => /\ Child(n, place) \subseteq Reached(k)
                                            /\ \A x \in at[k].nodes : Children(x) \subseteq Reached(k)}
<1>2. 0 \in U
    BY <1>1 DEF Top
<1>3. ASSUME NEW k \in Nat, k \in U PROVE k + 1 \in U
    <2> SUFFICES ASSUME k + 1 <= Height
                 PROVE  /\ Child(n, place) \subseteq Reached(k + 1)
                        /\ \A x \in at[k + 1].nodes : Children(x) \subseteq Reached(k + 1)
        OBVIOUS
    <2>1. k < Height /\ k <= Height
        BY DepthAssumption
    <2>2. at[k + 1] = Down(at[k])
        BY <1>1, <2>1
    <2>3. Child(n, place) \subseteq Reached(k) /\ \A x \in at[k].nodes : Children(x) \subseteq Reached(k)
        BY <1>3, <2>1
    <2>4. at[k + 1].nodes = Reached(k) /\ at[k + 1].edge = UNION {Children(x) : x \in at[k].edge}
        BY <2>2 DEF Down
    <2> QED
        BY <2>3, <2>4
<1> HIDE DEF U
<1>4. Height \in U
    BY <1>2, <1>3, SetInduction, DepthAssumption
<1>5. /\ Child(n, place) \subseteq Reached(Height)
      /\ \A x \in at[Height].nodes : Children(x) \subseteq Reached(Height)
    BY <1>4, DepthAssumption DEF U
<1>6. at[Height].edge = {} /\ Nodes(n, place) = at[Height].nodes
    BY <1>1 DEF Nodes
<1> QED
    BY <1>5, <1>6

\* In particular the nodes of a good tree are proper.
LEMMA NodesProper ==
    ASSUME NEW n, NEW place, Good(n, place)
    PROVE  \A x \in Nodes(n, place) : Proper(x[1], x[2])
<1>1. PICK E : Encloses(E, n, place)
    BY DEF Good
<1>2. Nodes(n, place) \subseteq E
    BY <1>1, NodesInside DEF Encloses
<1> QED
    BY <1>1, <1>2 DEF Encloses

LEMMA NothingGood == \A place : Good(NULL, place)
<1> SUFFICES ASSUME NEW place PROVE Good(NULL, place)
    OBVIOUS
<1>1. Encloses({}, NULL, place)
    BY DEF Encloses, Child
<1> QED
    BY <1>1 DEF Good

\* A tree is good when its root is proper and the two trees below are good.
LEMMA RootGood ==
    ASSUME NEW n, NEW place, Proper(n, place),
           Good(n.left, place), Good(n.right, Inner(n.type, place))
    PROVE  Good(n, place)
<1>1. PICK L : Encloses(L, n.left, place)
    BY DEF Good
<1>2. PICK R : Encloses(R, n.right, Inner(n.type, place))
    BY DEF Good
<1> DEFINE S == L \cup R \cup {<<n, place>>}
<1>3. Child(n, place) \subseteq S
    BY DEF Child
<1>4. Children(<<n, place>>) \subseteq S
    BY <1>1, <1>2 DEF Encloses, Children
<1>5. \A x \in L \cup R : Proper(x[1], x[2]) /\ Children(x) \subseteq S
    BY <1>1, <1>2 DEF Encloses
<1>6. Encloses(S, n, place)
    BY <1>3, <1>4, <1>5 DEF Encloses
<1> QED
    BY <1>6 DEF Good

LEMMA GoodRoot ==
    ASSUME NEW n, NEW place, Good(n, place), n # NULL
    PROVE  Proper(n, place) /\ Good(n.left, place) /\ Good(n.right, Inner(n.type, place))
<1>1. PICK S : Encloses(S, n, place)
    BY DEF Good
<1> DEFINE x == <<n, place>>
<1>2. x \in S /\ x[1] = n /\ x[2] = place
    BY <1>1 DEF Encloses, Child
<1>3. Proper(n, place) /\ Children(x) \subseteq S
    BY <1>1, <1>2 DEF Encloses
<1>4. Child(n.left, place) \subseteq S /\ Child(n.right, Inner(n.type, place)) \subseteq S
    BY <1>3 DEF Children
<1>5. Encloses(S, n.left, place) /\ Encloses(S, n.right, Inner(n.type, place))
    BY <1>1, <1>4 DEF Encloses
<1> QED
    BY <1>3, <1>5 DEF Good

\* A tree that may stand in a block of any kind.
Free(n) == \A place \in Blocks : Good(n, place)

\* The types of the nodes that no property asks anything of.
PlainTypes ==
    {"LOGIC_OR", "LOGIC_AND", "CMP_EQ", "CMP_NE", "CMP_GTE", "CMP_LTE", "CMP_GT", "CMP_LT", "SHL", "SHR", "XOR",
     "BIT_OR", "BIT_AND", "MODULUS", "ADD", "SUBTRACT", "MULTIPLY", "DIVIDE", "NEGATE", "NOT", "CALL", "EXPR_LIST",
     "MEMBER_ACCESS", "ARRAY_ACCESS", "ARRAY_INDEX", "CONST_STRUCT", "CONST_ARRAY", "TYPE", "TYPE_USER",
     "DECL_REFERENCE", "DECL_CONST", "NOSIZED_ARRAY", "SIZED_ARRAY", "ASSIGN", "DECL_VAR", "VAR_LIST", "MEMBER_LIST",
     "SIGNATURE", "STMT", "ELSE", "ELSE_IF"}

LEMMA PlainNode ==
    \A type \in PlainTypes, place \in Blocks : \A left, right :
        Good(left, place) /\ Good(right, place) => Good(Node(type, left, right), place)
<1> SUFFICES ASSUME NEW type \in PlainTypes, NEW place \in Blocks, NEW left, NEW right,
                    Good(left, place), Good(right, place)
             PROVE  Good(Node(type, left, right), place)
    OBVIOUS
<1> DEFINE n == Node(type, left, right)
<1>1. n.type = type /\ n.left = left /\ n.right = right
    BY DEF Node
<1>2. n = [type |-> n.type, left |-> n.left, right |-> n.right, tok |-> n.tok]
    BY DEF Node
<1>3. Inner(type, place) = place /\ Placed(type, place) /\ PrintReads(type) = "nothing"
    BY DEF PlainTypes, Inner, Placed, PrintReads
<1> HIDE DEF n
<1>4. Proper(n, place)
    BY <1>1, <1>2, <1>3 DEF Proper
<1>5. Good(n, place)
    BY <1>1, <1>3, <1>4, RootGood, Zenon
<1> QED
    BY <1>5 DEF n

LEMMA FreeNode ==
    \A type \in PlainTypes : \A left, right : Free(left) /\ Free(right) => Free(Node(type, left, right))
    BY PlainNode DEF Free

LEMMA FreeNothing == Free(NULL)
    BY NothingGood DEF Free

LEMMA ProperLeaf ==
    ASSUME NEW type, NEW place, NEW i, Proper(Leaf(type, i), place)
    PROVE  Good(Leaf(type, i), place)
<1>1. Leaf(type, i).left = NULL /\ Leaf(type, i).right = NULL
    BY DEF Leaf
<1> QED
    BY <1>1, RootGood, NothingGood

\* The leaves that are made of a literal, a type word and an identifier.
LEMMA FreeLeaf ==
    /\ \A i : T(i) \in Literals => Free(Leaf(T(i), i))
    /\ \A i : T(i) = "IDENT" => Free(Leaf("VARNAME", i))
    /\ \A i : Free(Leaf("TYPE", i))
<1>1. ASSUME NEW type, NEW i, NEW place \in Blocks,
             \/ T(i) \in Literals /\ type = T(i)
             \/ T(i) = "IDENT" /\ type = "VARNAME"
             \/ type = "TYPE"
      PROVE  Good(Leaf(type, i), place)
    <2> DEFINE n == Leaf(type, i)
    <2>1. n = [type |-> n.type, left |-> n.left, right |-> n.right, tok |-> n.tok]
        BY DEF Leaf
    <2>2. n.type = type /\ n.tok = i
        BY DEF Leaf
    <2>3. Placed(type, place)
        BY <1>1 DEF Placed, Literals
    <2>4. PrintReads(type) \in {"nothing", Written(T(i))}
        BY <1>1 DEF PrintReads, Written, Literals
    <2> HIDE DEF n
    <2>5. Proper(n, place)
        BY <2>1, <2>2, <2>3, <2>4 DEF Proper
    <2> QED
        BY <2>5, ProperLeaf DEF n
<1> QED
    BY <1>1 DEF Free

(***************************************************************************)
(* What is shown of every call, with d levels of recursion to go.          *)
(***************************************************************************)

\* It stays in front of EOF, faults only at the start of the stream, and
\* overflows only if the cells from i on are no fewer than the levels.
Result(r, i, d) ==
    /\ r.st \in {"ok", "error", "fault", "overflow"}
    /\ r.st = "ok" => r.ix \in Nat /\ i <= r.ix
    /\ r.st = "ok" /\ Ends /\ i < Len(toks) => r.ix < Len(toks)
    /\ r.st = "fault" => i = 0
    /\ r.st = "overflow" => i + d <= Len(Memory)

\* An expression, or a declaration.
Expr(r, i, d) == Result(r, i, d) /\ (r.st = "ok" => Free(r.node))

\* The name of a type.
Type(r, i, d) ==
    /\ Expr(r, i, d)
    /\ r.st # "fault"
    /\ r.st = "ok" => /\ r.ix <= Len(Memory)
                      /\ r.node # NULL => i < r.ix
                      /\ Ends /\ i < Len(toks) => \A j \in i..(r.ix - 1) : T(j) \in TypeWords

\* A statement or a part of one, in a block: it reads on, and cannot fault.
Part(r, i, d, block) ==
    /\ Result(r, i, d)
    /\ r.st # "fault"
    /\ r.st = "ok" => i < r.ix /\ r.ix <= Len(Memory) /\ Good(r.node, block)

\* The fault of an assignment at the start of the stream.
Leads == T(0) = "IDENT" /\ T(1) = "=" /\ Len(toks) > 1

\* Statements in a block.
Stmts(r, i, d, block) ==
    /\ Result(r, i, d)
    /\ r.st = "ok" => r.ix <= Len(Memory) /\ Good(r.node, block)
    /\ r.st = "fault" => Leads

\* One that may be missing.
Option(r, i, d, block) == Stmts(r, i, d, block) /\ (r.st = "ok" /\ r.node # NULL => i < r.ix)

\* The calls in P stand behind the start of the stream.
Sound(P, d) ==
    \A j \in 1..Len(Memory) :
        /\ Expr(P.Or[j], j, d) /\ Expr(P.And[j], j, d) /\ Expr(P.Compare[j], j, d) /\ Expr(P.Bitwise[j], j, d)
        /\ Expr(P.Modulus[j], j, d) /\ Expr(P.Additive[j], j, d) /\ Expr(P.Multiplicative[j], j, d)
        /\ Expr(P.Factor[j], j, d) /\ Expr(P.ArrayIndex[j], j, d) /\ Expr(P.ExprList[j], j, d)
        /\ Type(P.TypeName[j], j, d)
        /\ Expr(P.DeclList[j], j, d) /\ Expr(P.DeclMembers[j], j, d)
        /\ \A block \in Blocks : Stmts(P.StmtSeq[block][j], j, d, block)
        /\ \A block \in Blocks : T(j) = "WORD_ELSE_IF" => Stmts(P.ElseIf[block][j], j, d, block)

(***************************************************************************)
(* Expressions.                                                            *)
(***************************************************************************)
LEMMA StandsStill ==
    \A i \in Nat : \A d : Expr(Ok(i, NULL), i, d)
    BY FreeNothing DEF Ok, Expr, Result

LEMMA OkSound ==
    ASSUME NEW i \in Nat, NEW j \in Nat, NEW d, NEW n, i <= j, Ends /\ i < Len(toks) => j < Len(toks), Free(n)
    PROVE  Expr(Ok(j, n), i, d)
    BY DEF Ok, Expr, Result

LEMMA ArrayIndexSound ==
    ASSUME Readable, NEW d \in Nat, NEW P, Sound(P, d), NEW i \in 0..Len(Memory)
    PROVE  Expr(ArrayIndex(P, i), i, d + 1)
<1>1. CASE T(i) # "["
    BY <1>1, StandsStill DEF ArrayIndex, Then, Readable
<1>2. CASE T(i) = "["
    <2> DEFINE e == P.Or[i + 1]
               b == Expect("]", e)
               r == P.ArrayIndex[b.ix]
    <2>1. i + 1 \in 1..Len(Memory)
        BY <1>2 DEF Readable
    <2>2. Expr(e, i + 1, d)
        BY <2>1 DEF Sound
    <2>3. b.st # "ok" => Expr(b, i, d + 1)
        BY <2>2 DEF Expect, Then, Err, Expr, Result, Ok
    <2>4. b.st = "ok" => /\ Free(b.node) /\ b.ix \in (i + 2)..Len(Memory)
                         /\ i < Len(toks) => ~Ends
        BY <2>1, <2>2, <1>2 DEF Expect, Then, Err, Expr, Result, Ok, Readable
    <2>5. b.st = "ok" => Expr(r, b.ix, d)
        BY <2>4 DEF Sound
    <2>6. ArrayIndex(P, i) = Then(b, LAMBDA s : Then(r, LAMBDA t : Ok(t.ix, Node("ARRAY_INDEX", s.node, t.node))))
        BY <1>2 DEF ArrayIndex, Then
    <2> HIDE DEF e, b, r
    <2>7. b.st = "ok" => Expr(ArrayIndex(P, i), i, d + 1)
        BY <2>4, <2>5, <2>6, FreeNode DEF Then, Ok, Expr, Result, PlainTypes
    <2> QED
        BY <2>3, <2>6, <2>7 DEF Then
<1> QED
    BY <1>1, <1>2

LEMMA ArrayAccessSound ==
    ASSUME Readable, NEW d \in Nat, NEW P, Sound(P, d), NEW i \in 0..Len(Memory), T(i) = "IDENT", T(i + 1) = "["
    PROVE  Expr(ArrayAccess(P, i), i, d + 1)
<1> DEFINE r == ArrayIndex(P, i + 1)
<1>1. i + 1 \in 0..Len(Memory) /\ (i < Len(toks) /\ Ends => i + 1 < Len(toks))
    BY DEF Readable
<1>2. Expr(r, i + 1, d + 1)
    BY <1>1, ArrayIndexSound
<1>3. ArrayAccess(P, i) = IF r.st = "ok" THEN Ok(r.ix, Node("ARRAY_ACCESS", Leaf("VARNAME", i), r.node)) ELSE r
    BY DEF ArrayAccess, Then
<1>4. r.st = "ok" => Free(Node("ARRAY_ACCESS", Leaf("VARNAME", i), r.node))
    BY <1>2, FreeNode, FreeLeaf DEF Expr, PlainTypes
<1> HIDE DEF r
<1> QED
    BY <1>1, <1>2, <1>3, <1>4 DEF Ok, Expr, Result

LEMMA VarNameSound ==
    ASSUME Readable, NEW d \in Nat, NEW i \in 0..Len(Memory), T(i) = "IDENT"
    PROVE  Expr(VarName(i), i, d)
    BY FreeLeaf DEF VarName, Ok, Expr, Result, Readable

\* The read in front of i faults only if the access is no member.
LEMMA MemberAccessSound ==
    ASSUME Readable, NEW d \in Nat, NEW P, Sound(P, d), NEW i \in 0..Len(Memory), T(i) = "IDENT"
    PROVE  /\ Expr(MemberAccess(P, i), i, d + 1)
           /\ MemberAccess(P, i).st = "fault" => T(i + 1) # "."
<1> DEFINE m == MemberAccess(P, i)
           r == P.Factor[i + 2]
<1>1. CASE m = VarName(i)
    BY <1>1, VarNameSound DEF VarName, Ok
<1>2. CASE m = Fault /\ Prev(i) = "FAULT" /\ T(i + 1) # "."
    <2>1. i = 0
        BY <1>2 DEF Prev, Readable
    <2> QED
        BY <1>2, <2>1 DEF Fault, Expr, Result
<1>3. CASE i + 1 < Len(toks) /\ T(i + 1) = "."
    <2>1. i + 2 \in 1..Len(Memory) /\ (Ends => i + 2 < Len(toks))
        BY <1>3 DEF Readable
    <2>2. Expr(r, i + 2, d)
        BY <2>1 DEF Sound
    <2>3. m = IF r.st = "ok"
              THEN IF r.node = NULL THEN Err ELSE Ok(r.ix, Node("MEMBER_ACCESS", Leaf("VARNAME", i), r.node))
              ELSE r
        BY <1>3 DEF MemberAccess, Then, Needed, Err, Readable
    <2>4. r.st = "ok" => Free(Node("MEMBER_ACCESS", Leaf("VARNAME", i), r.node))
        BY <2>2, FreeNode, FreeLeaf DEF Expr, PlainTypes
    <2> HIDE DEF m, r
    <2>5. Expr(m, i, d + 1) /\ m.st # "fault"
        BY <2>1, <2>2, <2>3, <2>4 DEF Ok, Err, Expr, Result
    <2> QED
        BY <2>5 DEF m
<1>4. CASE m = Ok(i + 1, Node("MEMBER_ACCESS", Leaf("VARNAME", i), NULL))
    <2>1. Free(Node("MEMBER_ACCESS", Leaf("VARNAME", i), NULL))
        BY FreeNode, FreeLeaf, FreeNothing DEF PlainTypes
    <2> HIDE DEF m
    <2>2. Expr(m, i, d + 1) /\ m.st # "fault"
        BY <1>4, <2>1 DEF Ok, Expr, Result, Readable
    <2> QED
        BY <2>2 DEF m
<1>5. CASE m = ArrayAccess(P, i) /\ T(i + 1) = "["
    BY <1>5, ArrayAccessSound
<1>6. \/ m = VarName(i)
      \/ m = Fault /\ Prev(i) = "FAULT" /\ T(i + 1) # "."
      \/ i + 1 < Len(toks) /\ T(i + 1) = "."
      \/ m = Ok(i + 1, Node("MEMBER_ACCESS", Leaf("VARNAME", i), NULL))
      \/ m = ArrayAccess(P, i) /\ T(i + 1) = "["
    BY DEF MemberAccess, Then, Needed, Readable
<1> QED
    BY <1>1, <1>2, <1>3, <1>4, <1>5, <1>6

LEMMA ExprExpect ==
    ASSUME Readable, NEW d \in Nat, NEW i \in Nat, NEW r, NEW type, Expr(r, i, d), type \notin {"INVALID", "EOF"}
    PROVE  /\ Expr(Expect(type, r), i, d)
           /\ Expect(type, r).st = "ok" =>
                  /\ r.st = "ok" /\ Expect(type, r).ix = r.ix + 1 /\ Expect(type, r).node = r.node
                  /\ T(r.ix) = type /\ r.ix + 1 <= Len(Memory)
    BY DEF Expect, Then, Ok, Err, Expr, Result, Readable

\* A call from further on is sound at i too.
LEMMA Earlier ==
    ASSUME NEW i \in Nat, NEW j \in Nat, NEW d \in Nat,
           NEW r, Expr(r, j, d), i < j, Ends /\ i < Len(toks) => j < Len(toks)
    PROVE  Expr(r, i, d + 1)
    BY DEF Expr, Result

\* So is one at the same level.
LEMMA Onwards ==
    ASSUME NEW i \in Nat, NEW j \in Nat, NEW d \in Nat,
           NEW r, Expr(r, j, d), i <= j, Ends /\ i < Len(toks) => j < Len(toks)
    PROVE  Expr(r, i, d)
    BY DEF Expr, Result

LEMMA ErrSound == \A i, d : Expr(Err, i, d)
    BY DEF Err, Expr, Result

LEMMA ExprUnder ==
    ASSUME NEW i \in Nat, NEW d \in Nat, NEW r, NEW type \in PlainTypes, Expr(r, i, d)
    PROVE  Expr(Under(type, r), i, d)
<1>1. r.st = "ok" => Free(Node(type, r.node, NULL))
    BY FreeNode, FreeNothing DEF Expr
<1> QED
    BY <1>1 DEF Under, Then, Ok, Expr, Result

LEMMA ExprNeeded ==
    ASSUME NEW i \in Nat, NEW d \in Nat, NEW r, Expr(r, i, d)
    PROVE  Expr(Needed(r), i, d) /\ (Needed(r).st = "ok" => Needed(r) = r /\ r.node # NULL)
    BY DEF Needed, Then, Err, Expr, Result

LEMMA InsideOrErr == \A type, r : ExpectInside(type, r) \in {Expect(type, r), Err}
    BY DEF ExpectInside, Expect, Then

LEMMA FactorSound ==
    ASSUME Readable, NEW d \in Nat, NEW P, Sound(P, d), NEW i \in 0..Len(Memory)
    PROVE  Expr(Factor(P, i), i, d + 1)
<1> DEFINE f == Factor(P, i)
<1> i \in Nat /\ d + 1 \in Nat
    BY DEF Readable
<1>1. CASE f = Ok(i, NULL)
    BY <1>1, StandsStill
<1>2. CASE f = Err
    BY <1>2, ErrSound
<1>3. CASE T(i) \in Literals /\ f = Ok(i + 1, Leaf(T(i), i))
    <2>1. Free(Leaf(T(i), i))
        BY <1>3, FreeLeaf
    <2> HIDE DEF f
    <2>2. Expr(f, i, d + 1)
        BY <1>3, <2>1 DEF Literals, Ok, Expr, Result, Readable
    <2> QED
        BY <2>2 DEF f
<1>4. CASE T(i) = "IDENT" /\ f \in {MemberAccess(P, i), VarName(i)}
    BY <1>4, MemberAccessSound, VarNameSound
<1> DEFINE list == P.ExprList[i + 1]
           inner == P.Or[i + 1]
<1>5. ASSUME T(i) \in {"LCURLY", "[", "("}
      PROVE  Expr(list, i, d + 1) /\ Expr(inner, i, d + 1)
    <2>1. i + 1 \in 1..Len(Memory) /\ (Ends /\ i < Len(toks) => i + 1 < Len(toks))
        BY <1>5 DEF Readable
    <2>2. Expr(list, i + 1, d) /\ Expr(inner, i + 1, d)
        BY <2>1 DEF Sound
    <2> HIDE DEF list, inner
    <2> QED
        BY <2>1, <2>2, Earlier
<1> HIDE DEF list, inner
<1>6. CASE T(i) = "LCURLY" /\ f \in {Err, Expect("RCURLY", Under("CONST_STRUCT", list))}
    <2>1. Expr(Under("CONST_STRUCT", list), i, d + 1)
        BY <1>5, <1>6, ExprUnder DEF PlainTypes
    <2> QED
        BY <2>1, <1>6, ErrSound, ExprExpect
<1>7. CASE T(i) = "[" /\ f \in {Err, Expect("]", Under("CONST_ARRAY", list))}
    <2>1. Expr(Under("CONST_ARRAY", list), i, d + 1)
        BY <1>5, <1>7, ExprUnder DEF PlainTypes
    <2> QED
        BY <2>1, <1>7, ErrSound, ExprExpect
<1>8. CASE T(i) = "(" /\ f = Expect(")", inner)
    BY <1>5, <1>8, ExprExpect
<1>9. \/ f = Ok(i, NULL)
      \/ f = Err
      \/ T(i) \in Literals /\ f = Ok(i + 1, Leaf(T(i), i))
      \/ T(i) = "IDENT" /\ f \in {MemberAccess(P, i), VarName(i)}
      \/ T(i) = "LCURLY" /\ f = ExpectInside("RCURLY", Under("CONST_STRUCT", list))
      \/ T(i) = "[" /\ f = ExpectInside("]", Under("CONST_ARRAY", list))
      \/ T(i) = "(" /\ f = Expect(")", inner)
    BY DEF Factor, ConstStruct, ConstArray, Literals, list, inner
<1> HIDE DEF f
<1>10. /\ f = ExpectInside("RCURLY", Under("CONST_STRUCT", list))
              => f \in {Err, Expect("RCURLY", Under("CONST_STRUCT", list))}
       /\ f = ExpectInside("]", Under("CONST_ARRAY", list))
              => f \in {Err, Expect("]", Under("CONST_ARRAY", list))}
    BY InsideOrErr
<1> QED
    BY <1>1, <1>2, <1>3, <1>4, <1>6, <1>7, <1>8, <1>9, <1>10 DEF f

LEMMA CallSound ==
    ASSUME Readable, NEW d \in Nat, NEW P, Sound(P, d), NEW i \in 0..Len(Memory)
    PROVE  Expr(Call(P, i), i, d + 1)
<1> DEFINE c == Call(P, i)
           r == P.ExprList[i + 2]
           called == i + 1 < Len(toks) /\ T(i) = "IDENT" /\ T(i + 1) = "("
<1>1. CASE c = Factor(P, i)
    BY <1>1, FactorSound
<1>2. ASSUME called
      PROVE  i + 2 \in 1..Len(Memory) /\ (Ends => i + 2 < Len(toks))
    BY <1>2 DEF Readable
<1>3. CASE called /\ T(i + 2) = ")" /\ c = Ok(i + 3, Node("CALL", Leaf("VARNAME", i), NULL))
    <2>1. Free(Node("CALL", Leaf("VARNAME", i), NULL))
        BY <1>3, FreeNode, FreeLeaf, FreeNothing DEF PlainTypes
    <2>2. Ends => i + 3 < Len(toks)
        BY <1>2, <1>3 DEF Readable
    <2> HIDE DEF c
    <2>3. Expr(c, i, d + 1)
        BY <1>3, <2>1, <2>2 DEF Ok, Expr, Result
    <2> QED
        BY <2>3 DEF c
<1>4. CASE called /\ c = IF r.st = "ok"
                         THEN IF r.ix < Len(toks) /\ T(r.ix) # ")" THEN Err
                              ELSE Ok(r.ix + 1, Node("CALL", Leaf("VARNAME", i), r.node))
                         ELSE r
    <2>1. Expr(r, i + 2, d)
        BY <1>2, <1>4 DEF Sound
    <2>2. r.st = "ok" => Free(Node("CALL", Leaf("VARNAME", i), r.node))
        BY <1>4, <2>1, FreeNode, FreeLeaf DEF Expr, PlainTypes
    <2>3. r.st = "ok" /\ Ends => (r.ix < Len(toks) /\ T(r.ix) # ")") \/ r.ix + 1 < Len(toks)
        BY <1>2, <1>4, <2>1 DEF Expr, Result, Readable
    <2> HIDE DEF c, r
    <2>4. Expr(c, i, d + 1)
        BY <1>4, <1>2, <2>1, <2>2, <2>3 DEF Ok, Err, Expr, Result
    <2> QED
        BY <2>4 DEF c
<1> QED
    BY <1>1, <1>3, <1>4 DEF Call, Then

LEMMA NegateSound ==
    ASSUME Readable, NEW d \in Nat, NEW P, Sound(P, d), NEW i \in 0..Len(Memory)
    PROVE  Expr(Negate(P, i), i, d + 1)
<1> DEFINE n == Negate(P, i)
           r == Call(P, i + 1)
<1> i \in Nat /\ d + 1 \in Nat
    BY DEF Readable
<1>1. CASE n = Ok(i, NULL)
    BY <1>1, StandsStill
<1>2. CASE n = Call(P, i)
    BY <1>2, CallSound
<1>3. CASE T(i) = "-" /\ n = IF r.st = "ok" THEN Ok(r.ix, Node("NEGATE", NULL, NULL)) ELSE r
    <2>1. i + 1 \in 0..Len(Memory) /\ (Ends /\ i < Len(toks) => i + 1 < Len(toks))
        BY <1>3 DEF Readable
    <2>2. Expr(r, i + 1, d + 1)
        BY <2>1, CallSound
    <2>3. Free(Node("NEGATE", NULL, NULL))
        BY FreeNode, FreeNothing DEF PlainTypes
    <2> HIDE DEF n, r
    <2>4. Expr(n, i, d + 1)
        BY <1>3, <2>1, <2>2, <2>3 DEF Ok, Expr, Result
    <2> QED
        BY <2>4 DEF n
<1> QED
    BY <1>1, <1>2, <1>3 DEF Negate, Then

Ops == OrOps \cup AndOps \cup CompareOps \cup BitwiseOps \cup ModulusOps \cup AdditiveOps \cup MultiplicativeOps

\* An operator has one sign or two, none of which is the end of the stream.
LEMMA OpSigns ==
    \A op \in Ops : /\ op.type \in PlainTypes
                    /\ \/ Len(op.signs) = 1 /\ op.signs[1] \notin {"EOF", "INVALID"}
                       \/ Len(op.signs) = 2 /\ op.signs[1] \notin {"EOF", "INVALID"}
                                            /\ op.signs[2] \notin {"EOF", "INVALID"}
<1> SUFFICES ASSUME NEW op \in Ops
             PROVE  /\ op.type \in PlainTypes
                    /\ \/ Len(op.signs) = 1 /\ op.signs[1] \notin {"EOF", "INVALID"}
                       \/ Len(op.signs) = 2 /\ op.signs[1] \notin {"EOF", "INVALID"}
                                            /\ op.signs[2] \notin {"EOF", "INVALID"}
    OBVIOUS
<1>1. \/ \E a \in {"^", "|", "&", "%", "+", "-", "*", "/", ">", "<"}, t \in PlainTypes : op = One(a, t)
      \/ \E a, b \in {"|", "&", "=", "!", ">", "<"}, t \in PlainTypes : op = Two(a, b, t)
    BY DEF Ops, OrOps, AndOps, CompareOps, BitwiseOps, ModulusOps, AdditiveOps, MultiplicativeOps, PlainTypes
<1> QED
    BY <1>1 DEF One, Two

LEMMA LongestSpelled ==
    ASSUME NEW S \in SUBSET Ops, S # {}
    PROVE  Longest(S) \in S
<1>1. \A op \in S : Len(op.signs) \in {1, 2}
    BY OpSigns
<1>2. \E op \in S : \A p \in S : Len(p.signs) <= Len(op.signs)
    <2>1. CASE \E op \in S : Len(op.signs) = 2
        <3>1. PICK op \in S : Len(op.signs) = 2
            BY <2>1
        <3>2. ASSUME NEW p \in S PROVE Len(p.signs) <= Len(op.signs)
            <4>1. Len(p.signs) = 1 \/ Len(p.signs) = 2
                BY <1>1
            <4>2. 1 <= 2 /\ 2 <= 2
                OBVIOUS
            <4> QED
                BY <3>1, <4>1, <4>2, Zenon
        <3> QED
            BY <3>2
    <2>2. CASE \A op \in S : Len(op.signs) = 1
        BY <2>2
    <2> QED
        BY <1>1, <2>1, <2>2
<1> QED
    BY <1>2 DEF Longest

LEMMA OpInside ==
    ASSUME Readable, NEW ops \in SUBSET Ops, NEW j \in Nat, Spelled(ops, j) # {}
    PROVE  LET op == Longest(Spelled(ops, j))
           IN  /\ op.type \in PlainTypes
               /\ j + Len(op.signs) \in (j + 1)..Len(Memory)
               /\ Ends /\ j < Len(toks) => j + Len(op.signs) < Len(toks)
<1> DEFINE op == Longest(Spelled(ops, j))
<1>1. op \in Spelled(ops, j)
    <2>1. Spelled(ops, j) \in SUBSET Ops
        BY DEF Spelled
    <2> QED
        BY <2>1, LongestSpelled
<1>2. op \in Ops /\ \A k \in 1..Len(op.signs) : T(j + k - 1) = op.signs[k]
    BY <1>1 DEF Spelled
<1> HIDE DEF op
<1>3. op.type \in PlainTypes
    BY <1>2, OpSigns
<1>4. CASE Len(op.signs) = 1 /\ op.signs[1] \notin {"EOF", "INVALID"}
    <2>1. T(j) = op.signs[1]
        <3>1. 1 \in 1..Len(op.signs) /\ j + 1 - 1 = j
            BY <1>4
        <3> QED
            BY <1>2, <3>1
    <2> QED
        BY <1>3, <1>4, <2>1 DEF Readable, op
<1>5. CASE Len(op.signs) = 2 /\ op.signs[1] \notin {"EOF", "INVALID"} /\ op.signs[2] \notin {"EOF", "INVALID"}
    <2>1. T(j) = op.signs[1] /\ T(j + 1) = op.signs[2]
        <3>1. 1 \in 1..Len(op.signs) /\ j + 1 - 1 = j /\ 2 \in 1..Len(op.signs) /\ j + 2 - 1 = j + 1
            BY <1>5
        <3> QED
            BY <1>2, <3>1
    <2> QED
        BY <1>3, <1>5, <2>1 DEF Readable, op
<1> QED
    BY <1>2, <1>4, <1>5, OpSigns

LEMMA BinarySound ==
    ASSUME Readable, NEW d \in Nat, NEW i \in 0..Len(Memory), NEW ops \in SUBSET Ops,
           NEW lhs, Expr(lhs, i, d + 1), NEW again, \A j \in 1..Len(Memory) : Expr(again[j], j, d)
    PROVE  Expr(Binary(lhs, ops, again), i, d + 1)
<1> DEFINE op == Longest(Spelled(ops, lhs.ix))
           at == lhs.ix + Len(op.signs)
           rhs == again[at]
           b == Binary(lhs, ops, again)
<1>1. CASE b = lhs
    BY <1>1
<1>2. CASE /\ lhs.st = "ok" /\ Spelled(ops, lhs.ix) # {}
           /\ b = IF Needed(rhs).st = "ok" THEN Ok(rhs.ix, Node(op.type, lhs.node, rhs.node)) ELSE Needed(rhs)
    <2>1. /\ i \in Nat /\ lhs.ix \in Nat /\ i <= lhs.ix /\ (Ends /\ i < Len(toks) => lhs.ix < Len(toks))
          /\ Free(lhs.node)
        BY <1>2 DEF Expr, Result, Readable
    <2>2. /\ op.type \in PlainTypes
          /\ at \in (lhs.ix + 1)..Len(Memory)
          /\ Ends /\ lhs.ix < Len(toks) => at < Len(toks)
        BY <1>2, <2>1, OpInside
    <2> HIDE DEF op, at
    <2>3. at \in 1..Len(Memory) /\ at \in Nat /\ i < at /\ (Ends /\ i < Len(toks) => at < Len(toks))
        BY <2>1, <2>2 DEF Readable
    <2>4. Expr(rhs, i, d + 1)
        <3>1. Expr(rhs, at, d)
            BY <2>3
        <3> HIDE DEF rhs
        <3> QED
            BY <2>1, <2>3, <3>1, Earlier
    <2> HIDE DEF rhs, b
    <2>5. Expr(Needed(rhs), i, d + 1) /\ (Needed(rhs).st = "ok" => Needed(rhs) = rhs)
        BY <2>1, <2>4, ExprNeeded
    <2>6. Needed(rhs).st = "ok" => Free(Node(op.type, lhs.node, rhs.node))
        BY <2>1, <2>2, <2>5, FreeNode DEF Expr
    <2>7. Expr(b, i, d + 1)
        BY <1>2, <2>5, <2>6 DEF Ok, Expr, Result
    <2> QED
        BY <2>7 DEF b
<1> HIDE DEF b
<1>3. b = IF lhs.st = "ok"
          THEN IF AtEnd(lhs.ix) \/ Spelled(ops, lhs.ix) = {} THEN lhs
               ELSE IF Needed(rhs).st = "ok" THEN Ok(Needed(rhs).ix, Node(op.type, lhs.node, Needed(rhs).node))
                    ELSE Needed(rhs)
          ELSE lhs
    BY DEF b, Binary, Then
<1>4. Needed(rhs).st = "ok" => Needed(rhs) = rhs
    BY DEF Needed, Then, Err
<1> HIDE DEF op, at, rhs
<1>5. b = lhs \/ /\ lhs.st = "ok" /\ Spelled(ops, lhs.ix) # {}
                 /\ b = IF Needed(rhs).st = "ok" THEN Ok(rhs.ix, Node(op.type, lhs.node, rhs.node)) ELSE Needed(rhs)
    BY <1>3, <1>4
<1> QED
    BY <1>1, <1>2, <1>5 DEF b, rhs, op, at

LEMMA OpLevels ==
    {OrOps, AndOps, CompareOps, BitwiseOps, ModulusOps, AdditiveOps, MultiplicativeOps} \subseteq SUBSET Ops
    BY DEF Ops

\* The levels, from the tightest operator to the loosest.
LEMMA CompareSound ==
    ASSUME Readable, NEW d \in Nat, NEW P, Sound(P, d), NEW i \in 0..Len(Memory)
    PROVE  /\ Expr(Multiplicative(P, i), i, d + 1) /\ Expr(Additive(P, i), i, d + 1)
           /\ Expr(Modulus(P, i), i, d + 1) /\ Expr(Bitwise(P, i), i, d + 1) /\ Expr(Compare(P, i), i, d + 1)
<1>1. \A j \in 1..Len(Memory) : /\ Expr(P.Multiplicative[j], j, d) /\ Expr(P.Additive[j], j, d)
                                /\ Expr(P.Modulus[j], j, d) /\ Expr(P.Bitwise[j], j, d) /\ Expr(P.Compare[j], j, d)
    BY DEF Sound
<1>2. Expr(Multiplicative(P, i), i, d + 1)
    BY <1>1, NegateSound, BinarySound, OpLevels DEF Multiplicative
<1>3. Expr(Additive(P, i), i, d + 1)
    BY <1>1, <1>2, BinarySound, OpLevels DEF Additive
<1>4. Expr(Modulus(P, i), i, d + 1)
    BY <1>1, <1>3, BinarySound, OpLevels DEF Modulus
<1>5. Expr(Bitwise(P, i), i, d + 1)
    BY <1>1, <1>4, BinarySound, OpLevels DEF Bitwise
<1>6. Expr(Compare(P, i), i, d + 1)
    BY <1>1, <1>5, BinarySound, OpLevels DEF Compare
<1> QED
    BY <1>2, <1>3, <1>4, <1>5, <1>6

LEMMA NotSound ==
    ASSUME Readable, NEW d \in Nat, NEW P, Sound(P, d), NEW i \in 0..Len(Memory)
    PROVE  Expr(Not(P, i), i, d + 1)
<1> DEFINE n == Not(P, i)
           c == Compare(P, i + 1)
<1> i \in Nat /\ d + 1 \in Nat
    BY DEF Readable
<1>1. CASE n = Ok(i, NULL)
    BY <1>1, StandsStill
<1>2. CASE n = Compare(P, i)
    BY <1>2, CompareSound
<1>3. CASE T(i) = "!" /\ n = Under("NOT", Needed(c))
    <2>1. i + 1 \in 0..Len(Memory) /\ (Ends /\ i < Len(toks) => i + 1 < Len(toks))
        BY <1>3 DEF Readable
    <2>2. Expr(c, i + 1, d + 1)
        BY <2>1, CompareSound
    <2> HIDE DEF c
    <2>3. Expr(c, i, d + 1)
        BY <2>1, <2>2, Onwards
    <2>4. Expr(Needed(c), i, d + 1)
        BY <2>3, ExprNeeded
    <2>5. Expr(Under("NOT", Needed(c)), i, d + 1)
        BY <2>4, ExprUnder DEF PlainTypes
    <2> QED
        BY <1>3, <2>5
<1> QED
    BY <1>1, <1>2, <1>3 DEF Not

LEMMA OrSound ==
    ASSUME Readable, NEW d \in Nat, NEW P, Sound(P, d), NEW i \in 0..Len(Memory)
    PROVE  Expr(And(P, i), i, d + 1) /\ Expr(Or(P, i), i, d + 1)
<1>1. \A j \in 1..Len(Memory) : Expr(P.And[j], j, d) /\ Expr(P.Or[j], j, d)
    BY DEF Sound
<1>2. Expr(And(P, i), i, d + 1)
    BY <1>1, NotSound, BinarySound, OpLevels DEF And
<1>3. Expr(Or(P, i), i, d + 1)
    BY <1>1, <1>2, BinarySound, OpLevels DEF Or
<1> QED
    BY <1>2, <1>3

LEMMA ExprListSound ==
    ASSUME Readable, NEW d \in Nat, NEW P, Sound(P, d), NEW i \in 0..Len(Memory)
    PROVE  Expr(ExprList(P, i), i, d + 1)
<1> DEFINE l == ExprList(P, i)
           e == Or(P, i)
           r == P.ExprList[e.ix + 1]
<1> i \in Nat /\ d + 1 \in Nat
    BY DEF Readable
<1>1. Expr(e, i, d + 1)
    BY OrSound
<1>2. CASE l = Ok(i, Node("EXPR_LIST", NULL, NULL))
    <2>1. Free(Node("EXPR_LIST", NULL, NULL))
        BY FreeNode, FreeNothing DEF PlainTypes
    <2> HIDE DEF l
    <2>2. Expr(l, i, d + 1)
        BY <1>2, <2>1 DEF Ok, Expr, Result
    <2> QED
        BY <2>2 DEF l
<1>3. CASE l = e
    BY <1>1, <1>3
<1>4. CASE e.st = "ok" /\ l = Ok(e.ix, Node("EXPR_LIST", e.node, NULL))
    <2>1. Free(Node("EXPR_LIST", e.node, NULL))
        BY <1>1, <1>4, FreeNode, FreeNothing DEF Expr, PlainTypes
    <2> HIDE DEF l, e
    <2>2. Expr(l, i, d + 1)
        BY <1>1, <1>4, <2>1 DEF Ok, Expr, Result
    <2> QED
        BY <2>2 DEF l
<1>5. CASE /\ e.st = "ok" /\ T(e.ix) = "COMMA"
           /\ l = IF r.st = "ok" THEN Ok(r.ix, Node("EXPR_LIST", e.node, r.node)) ELSE r
    <2>1. e.ix \in Nat /\ i <= e.ix /\ (Ends /\ i < Len(toks) => e.ix < Len(toks)) /\ Free(e.node)
        BY <1>1, <1>5 DEF Expr, Result
    <2> HIDE DEF e, r, l
    <2>2. T(e.ix) = "COMMA"
        BY <1>5
    <2>3. e.ix + 1 \in 1..Len(Memory) /\ (Ends /\ i < Len(toks) => e.ix + 1 < Len(toks))
        BY <2>1, <2>2, Behind
    <2>4. Expr(r, e.ix + 1, d)
        BY <2>3 DEF Sound, r
    <2>5. Expr(r, i, d + 1)
        BY <2>1, <2>3, <2>4, Earlier
    <2>6. r.st = "ok" => Free(Node("EXPR_LIST", e.node, r.node))
        BY <2>1, <2>5, FreeNode DEF Expr, PlainTypes
    <2>7. Expr(l, i, d + 1)
        BY <1>5, <2>5, <2>6 DEF Ok, Expr, Result
    <2> QED
        BY <2>7 DEF l
<1> HIDE DEF e
<1>6. l = IF AtEnd(i) THEN Ok(i, Node("EXPR_LIST", NULL, NULL))
          ELSE IF e.st = "ok"
               THEN IF e.node = NULL THEN e
                    ELSE IF T(e.ix) = "COMMA"
                         THEN IF r.st = "ok" THEN Ok(r.ix, Node("EXPR_LIST", e.node, r.node)) ELSE r
                         ELSE Ok(e.ix, Node("EXPR_LIST", e.node, NULL))
               ELSE e
    BY DEF ExprList, Then, e
<1> HIDE DEF l, r
<1> QED
    BY <1>2, <1>3, <1>4, <1>5, <1>6 DEF l, r, e

(***************************************************************************)
(* Types and declarations.                                                 *)
(***************************************************************************)
LEMMA PlainTypeSound ==
    ASSUME Readable, NEW d \in Nat, NEW P, Sound(P, d), NEW i \in 0..Len(Memory)
    PROVE  Type(PlainType(P, i), i, d + 1)
<1> DEFINE t == PlainType(P, i)
           r == P.TypeName[i + 1]
<1> i \in Nat /\ d + 1 \in Nat
    BY DEF Readable
<1>1. CASE t = Ok(i, NULL)
    BY <1>1, StandsStill DEF Type, Ok
<1>2. ASSUME NEW n, T(i) \in BasicTypes \cup {"IDENT"}, Free(n), t = Ok(i + 1, n)
      PROVE  Type(t, i, d + 1)
    <2>1. i + 1 \in 1..Len(Memory) /\ (Ends /\ i < Len(toks) => i + 1 < Len(toks))
        BY <1>2 DEF Readable, BasicTypes
    <2>2. T(i) \in TypeWords
        BY <1>2 DEF TypeWords
    <2> HIDE DEF t
    <2>3. \A j \in i..(t.ix - 1) : T(j) \in TypeWords
        BY <1>2, <2>2 DEF Ok
    <2>4. Expr(t, i, d + 1)
        BY <1>2, <2>1 DEF Ok, Expr, Result
    <2>5. Type(t, i, d + 1)
        BY <1>2, <2>1, <2>3, <2>4 DEF Ok, Type
    <2> QED
        BY <2>5 DEF t
<1>3. CASE T(i) \in BasicTypes /\ t = Ok(i + 1, Leaf("TYPE", i))
    BY <1>2, <1>3, FreeLeaf
<1>4. CASE T(i) = "IDENT" /\ t = Ok(i + 1, Node("TYPE_USER", Leaf("VARNAME", i), NULL))
    <2>1. Free(Node("TYPE_USER", Leaf("VARNAME", i), NULL))
        BY <1>4, FreeLeaf, FreeNode, FreeNothing DEF PlainTypes
    <2> QED
        BY <1>2, <1>4, <2>1
<1>5. ASSUME NEW type \in {"DECL_REFERENCE", "DECL_CONST"},
             T(i) \in {"WORD_REF", "WORD_CONST"}, t = Under(type, Needed(r))
      PROVE  Type(t, i, d + 1)
    <2>1. i + 1 \in 1..Len(Memory) /\ (Ends /\ i < Len(toks) => i + 1 < Len(toks)) /\ T(i) \in TypeWords
        BY <1>5 DEF Readable, TypeWords
    <2>2. Type(r, i + 1, d)
        BY <2>1 DEF Sound
    <2> HIDE DEF r, t
    <2>3. Expr(r, i, d + 1)
        <3>1. Expr(r, i + 1, d)
            BY <2>2 DEF Type
        <3> QED
            BY <2>1, <3>1, Earlier
    <2>4. Expr(Needed(r), i, d + 1) /\ (Needed(r).st = "ok" => Needed(r) = r)
        BY <2>3, ExprNeeded
    <2>5. Expr(t, i, d + 1)
        <3>1. type \in PlainTypes
            BY <1>5 DEF PlainTypes
        <3> QED
            BY <1>5, <2>4, <3>1, ExprUnder
    <2>6. t.st = "ok" => r.st = "ok" /\ t.ix = r.ix
        BY <1>5, <2>4 DEF Under, Then, Ok
    <2>7. t.st # "fault"
        BY <1>5, <2>2 DEF Under, Needed, Then, Ok, Err, Type
    <2>8. ASSUME t.st = "ok"
          PROVE  /\ t.ix \in Nat /\ t.ix <= Len(Memory) /\ i < t.ix
                 /\ Ends /\ i < Len(toks) => \A j \in i..(t.ix - 1) : T(j) \in TypeWords
        <3>1. r.ix \in Nat /\ i + 1 <= r.ix /\ r.ix <= Len(Memory)
            BY <2>2, <2>6, <2>8 DEF Type, Expr, Result
        <3>2. Ends /\ i < Len(toks) => \A j \in (i + 1)..(r.ix - 1) : T(j) \in TypeWords
            BY <2>1, <2>2, <2>6, <2>8 DEF Type
        <3>3. \A j \in i..(t.ix - 1) : j = i \/ j \in (i + 1)..(r.ix - 1)
            BY <3>1, <2>6, <2>8
        <3> QED
            BY <2>1, <2>6, <2>8, <3>1, <3>2, <3>3
    <2>9. Type(t, i, d + 1)
        BY <2>5, <2>7, <2>8 DEF Type
    <2> QED
        BY <2>9 DEF t
<1> HIDE DEF r
<1>6. \/ t = Ok(i, NULL)
      \/ T(i) \in BasicTypes /\ t = Ok(i + 1, Leaf("TYPE", i))
      \/ T(i) = "IDENT" /\ t = Ok(i + 1, Node("TYPE_USER", Leaf("VARNAME", i), NULL))
      \/ T(i) = "WORD_REF" /\ t = Under("DECL_REFERENCE", Needed(r))
      \/ T(i) = "WORD_CONST" /\ t = Under("DECL_CONST", Needed(r))
    BY DEF PlainType, BasicTypes, r
<1> HIDE DEF t
<1> QED
    BY <1>1, <1>3, <1>4, <1>5, <1>6 DEF t

LEMMA TypeNameSound ==
    ASSUME Readable, NEW d \in Nat, NEW P, Sound(P, d), NEW i \in 0..Len(Memory)
    PROVE  Type(TypeName(P, i), i, d + 1)
<1> DEFINE n == TypeName(P, i)
           t == PlainType(P, i)
           size == Or(P, t.ix + 1)
           e == Expect("]", size)
           sized == t.st = "ok" /\ t.node # NULL /\ T(t.ix) = "["
<1> i \in Nat /\ d + 1 \in Nat
    BY DEF Readable
<1>1. Type(t, i, d + 1)
    BY PlainTypeSound
<1> HIDE DEF t
<1>2. CASE n = t
    BY <1>1, <1>2
<1>3. ASSUME sized
      PROVE  /\ t.ix + 1 \in 0..Len(Memory) /\ i < t.ix /\ Free(t.node) /\ t.ix \in Nat
             /\ Ends => ~(i < Len(toks))
    <2>1. t.ix \in Nat /\ i < t.ix /\ Free(t.node) /\ (Ends /\ i < Len(toks) => t.ix < Len(toks))
        BY <1>1, <1>3 DEF Type, Expr, Result
    <2>2. T(t.ix) = "["
        BY <1>3
    <2>3. ASSUME NEW j \in Nat, T(j) = "[", Ends PROVE ~(j < Len(toks))
        BY <2>3 DEF Readable
    <2>4. t.ix + 1 \in 1..Len(Memory)
        BY <2>1, <2>2, Behind
    <2> QED
        BY <2>1, <2>2, <2>3, <2>4
<1>4. CASE sized /\ T(t.ix + 1) = "]" /\ n = Ok(t.ix + 2, Node("NOSIZED_ARRAY", t.node, NULL))
    <2>1. Free(Node("NOSIZED_ARRAY", t.node, NULL))
        BY <1>3, <1>4, FreeNode, FreeNothing DEF PlainTypes
    <2>2. t.ix + 2 \in 1..Len(Memory)
        <3>1. t.ix + 1 \in Nat
            BY <1>3, <1>4
        <3>2. (t.ix + 1) + 1 \in 1..Len(Memory)
            BY <3>1, <1>4, Behind
        <3> QED
            BY <3>1, <3>2, <1>3, <1>4
    <2> HIDE DEF n, e
    <2>3. Expr(n, i, d + 1)
        BY <1>3, <1>4, <2>1, <2>2 DEF Ok, Expr, Result
    <2>4. Type(n, i, d + 1)
        BY <1>3, <1>4, <2>2, <2>3 DEF Ok, Type
    <2> QED
        BY <2>4 DEF n
<1>5. CASE sized /\ n = IF e.st = "ok" THEN Ok(e.ix, Node("SIZED_ARRAY", t.node, e.node)) ELSE e
    <2>1. Expr(size, t.ix + 1, d + 1)
        BY <1>3, <1>5, OrSound
    <2>2. t.ix + 1 \in Nat /\ t.ix + 1 > 0
        BY <1>3, <1>5
    <2> HIDE DEF size
    <2>3. /\ Expr(e, t.ix + 1, d + 1)
          /\ e.st = "ok" => e.ix = size.ix + 1 /\ e.ix <= Len(Memory)
        BY <2>1, <2>2, ExprExpect
    <2> HIDE DEF n, e
    <2>4. e.st = "ok" => Free(Node("SIZED_ARRAY", t.node, e.node))
        BY <1>3, <1>5, <2>3, FreeNode DEF Expr, PlainTypes
    <2>5. Expr(e, i, d + 1)
        BY <1>3, <1>5, <2>2, <2>3, Onwards
    <2>6. Expr(n, i, d + 1)
        BY <1>3, <1>5, <2>4, <2>5 DEF Ok, Expr, Result
    <2>7. n.st # "fault"
        BY <1>5, <2>2, <2>3 DEF Expr, Result, Ok
    <2>8. n.st = "ok" => n.ix <= Len(Memory) /\ i < n.ix
        BY <1>3, <1>5, <2>2, <2>3 DEF Expr, Result, Ok
    <2>9. Type(n, i, d + 1)
        BY <1>3, <1>5, <2>6, <2>7, <2>8 DEF Type
    <2> QED
        BY <2>9 DEF n
<1> HIDE DEF e, size
<1>6. n = IF t.st = "ok"
          THEN IF t.node = NULL \/ T(t.ix) # "[" THEN t
               ELSE IF T(t.ix + 1) = "]" THEN Ok(t.ix + 2, Node("NOSIZED_ARRAY", t.node, NULL))
               ELSE IF e.st = "ok" THEN Ok(e.ix, Node("SIZED_ARRAY", t.node, e.node)) ELSE e
          ELSE t
    BY DEF TypeName, Then, t, e, size
<1> HIDE DEF n
<1> QED
    BY <1>2, <1>4, <1>5, <1>6 DEF n

LEMMA AssignSound ==
    ASSUME Readable, NEW d \in Nat, NEW P, Sound(P, d), NEW i \in 0..Len(Memory)
    PROVE  Expr(Assign(P, i), i, d + 1) /\ (Assign(P, i).st = "fault" => Leads)
<1> DEFINE a == Assign(P, i)
           access == MemberAccess(P, i)
           m == Expect("=", access)
           e == Or(P, m.ix)
           named == i + 1 < Len(toks) /\ T(i) = "IDENT" /\ T(i + 1) = "="
<1> i \in Nat /\ d + 1 \in Nat
    BY DEF Readable
<1>1. CASE a = Ok(i, NULL)
    BY <1>1, StandsStill DEF Ok
<1>2. CASE named /\ a = IF m.st = "ok"
                        THEN IF e.st = "ok" THEN Ok(e.ix, Node("ASSIGN", m.node, e.node)) ELSE e
                        ELSE m
    <2>1. Expr(access, i, d + 1)
        BY <1>2, MemberAccessSound
    <2> HIDE DEF access
    <2>2. /\ Expr(m, i, d + 1)
          /\ m.st = "ok" => m.ix = access.ix + 1 /\ m.ix <= Len(Memory)
        BY <2>1, ExprExpect
    <2> HIDE DEF m
    <2>3. m.st = "ok" => /\ m.ix \in 0..Len(Memory) /\ i <= m.ix /\ (Ends /\ i < Len(toks) => m.ix < Len(toks))
                         /\ Free(m.node)
        BY <2>2 DEF Expr, Result
    <2>4. m.st = "ok" => Expr(e, i, d + 1)
        <3>1. m.st = "ok" => Expr(e, m.ix, d + 1)
            BY <2>3, OrSound
        <3>2. m.st = "ok" => m.ix \in Nat
            BY <2>3
        <3> HIDE DEF e
        <3> QED
            BY <2>3, <3>1, <3>2, Onwards
    <2> HIDE DEF e
    <2>5. m.st = "ok" /\ e.st = "ok" => Free(Node("ASSIGN", m.node, e.node))
        BY <2>3, <2>4, FreeNode DEF Expr, PlainTypes
    <2> HIDE DEF a
    <2>6. Expr(a, i, d + 1)
        BY <1>2, <2>2, <2>4, <2>5 DEF Ok, Expr, Result
    <2>7. a.st = "fault" => i = 0
        BY <2>6 DEF Expr, Result
    <2>8. a.st = "fault" => Leads
        BY <1>2, <2>7 DEF Leads
    <2> QED
        BY <2>6, <2>8 DEF a
<1> HIDE DEF e, m
<1>3. a = IF named THEN IF m.st = "ok"
                        THEN IF e.st = "ok" THEN Ok(e.ix, Node("ASSIGN", m.node, e.node)) ELSE e
                        ELSE m
          ELSE Ok(i, NULL)
    BY DEF Assign, Then, e, m
<1> HIDE DEF a
<1> QED
    BY <1>1, <1>2, <1>3 DEF a, e, m

LEMMA DeclVarSound ==
    ASSUME Readable, NEW d \in Nat, NEW P, Sound(P, d), NEW i \in 0..Len(Memory)
    PROVE  Expr(DeclVar(P, i), i, d + 1) /\ DeclVar(P, i).st # "fault"
<1> DEFINE v == DeclVar(P, i)
           t == TypeName(P, i)
           n == Needed(t)
           a == Assign(P, t.ix)
<1> i \in Nat /\ d + 1 \in Nat
    BY DEF Readable
<1>1. Type(t, i, d + 1)
    BY TypeNameSound
<1> HIDE DEF t
<1>2. n = IF t.st = "ok" THEN IF t.node = NULL THEN Err ELSE t ELSE t
    BY DEF n, Needed, Then
<1> HIDE DEF n
<1>3. CASE n.st # "ok" /\ v = n
    <2>1. Expr(n, i, d + 1) /\ n.st # "fault"
        BY <1>1, <1>2, ErrSound DEF Type, Err
    <2> QED
        BY <1>3, <2>1
<1>4. ASSUME n.st = "ok"
      PROVE  /\ n = t /\ t.ix \in 1..Len(Memory) /\ t.ix \in Nat /\ i < t.ix /\ Free(t.node)
             /\ Ends /\ i < Len(toks) => t.ix < Len(toks)
    BY <1>1, <1>2, <1>4 DEF Type, Expr, Result, Err
<1>5. CASE n.st = "ok" /\ a.st # "ok" /\ v = a
    <2>1. Expr(a, t.ix, d + 1)
        BY <1>4, <1>5, AssignSound
    <2> HIDE DEF a
    <2>2. Expr(a, i, d + 1)
        BY <1>4, <1>5, <2>1, Onwards
    <2>3. a.st # "fault"
        BY <1>4, <1>5, <2>1 DEF Expr, Result
    <2> QED
        BY <1>5, <2>2, <2>3
<1>6. CASE n.st = "ok" /\ a.st = "ok" /\ v = Ok(a.ix, Node("DECL_VAR", t.node, a.node))
    <2>1. Expr(a, t.ix, d + 1)
        BY <1>4, <1>6, AssignSound
    <2> HIDE DEF a, v
    <2>2. Free(Node("DECL_VAR", t.node, a.node))
        BY <1>4, <1>6, <2>1, FreeNode DEF Expr, PlainTypes
    <2>3. Expr(a, i, d + 1)
        BY <1>4, <1>6, <2>1, Onwards
    <2>4. Expr(v, i, d + 1) /\ v.st # "fault"
        BY <1>6, <2>2, <2>3 DEF Ok, Expr, Result
    <2> QED
        BY <2>4 DEF v
<1>7. CASE n.st = "ok" /\ T(t.ix) = "IDENT" /\ v = Ok(t.ix + 1, Node("DECL_VAR", t.node, Leaf("VARNAME", t.ix)))
    <2>1. Free(Node("DECL_VAR", t.node, Leaf("VARNAME", t.ix)))
        BY <1>4, <1>7, FreeNode, FreeLeaf DEF PlainTypes
    <2>2. t.ix + 1 \in 1..Len(Memory) /\ (Ends /\ i < Len(toks) => t.ix + 1 < Len(toks))
        BY <1>4, <1>7, Behind
    <2> HIDE DEF a, v
    <2>3. Expr(v, i, d + 1) /\ v.st # "fault"
        BY <1>4, <1>7, <2>1, <2>2 DEF Ok, Expr, Result
    <2> QED
        BY <2>3 DEF v
<1>8. CASE v = Err
    BY <1>8, ErrSound DEF Err
<1>9. v = IF n.st = "ok"
          THEN LET b == Assign(P, n.ix)
               IN  IF b.st = "ok"
                   THEN IF b.node # NULL THEN Ok(b.ix, Node("DECL_VAR", n.node, b.node))
                        ELSE IF T(n.ix) = "IDENT" THEN Ok(n.ix + 1, Node("DECL_VAR", n.node, Leaf("VARNAME", n.ix)))
                        ELSE Err
                   ELSE b
          ELSE n
    BY DEF DeclVar, Then, n, t
<1> HIDE DEF a, v
<1>10. n.st = "ok" => v = IF a.st = "ok"
                          THEN IF a.node # NULL THEN Ok(a.ix, Node("DECL_VAR", t.node, a.node))
                               ELSE IF T(t.ix) = "IDENT"
                               THEN Ok(t.ix + 1, Node("DECL_VAR", t.node, Leaf("VARNAME", t.ix)))
                               ELSE Err
                          ELSE a
    BY <1>4, <1>9 DEF a
<1> QED
    BY <1>3, <1>5, <1>6, <1>7, <1>8, <1>9, <1>10 DEF a, v

LEMMA DeclsSound ==
    ASSUME Readable, NEW d \in Nat, NEW P, Sound(P, d), NEW i \in 0..Len(Memory),
           NEW type \in {"VAR_LIST", "MEMBER_LIST"}, NEW sep \in {"COMMA", "SEMICOLON"},
           NEW again, \A j \in 1..Len(Memory) : Expr(again[j], j, d)
    PROVE  Expr(Decls(P, i, type, sep, again), i, d + 1)
<1> DEFINE l == Decls(P, i, type, sep, again)
           v == DeclVar(P, i)
           r == again[v.ix + 1]
<1> i \in Nat /\ d + 1 \in Nat
    BY DEF Readable
<1> type \in PlainTypes
    BY DEF PlainTypes
<1>1. Expr(v, i, d + 1)
    BY DeclVarSound
<1> HIDE DEF v
<1>2. CASE l = Ok(i, Node(type, NULL, NULL))
    <2>1. Free(Node(type, NULL, NULL))
        BY FreeNode, FreeNothing
    <2>2. Expr(Ok(i, Node(type, NULL, NULL)), i, d + 1)
        BY <2>1, OkSound
    <2> QED
        BY <1>2, <2>2
<1>3. CASE l = v
    BY <1>1, <1>3
<1>4. CASE v.st = "ok" /\ l = Ok(v.ix, Node(type, v.node, NULL))
    <2>1. Free(Node(type, v.node, NULL))
        BY <1>1, <1>4, FreeNode, FreeNothing DEF Expr
    <2> HIDE DEF l
    <2>2. Expr(l, i, d + 1)
        BY <1>1, <1>4, <2>1 DEF Ok, Expr, Result
    <2> QED
        BY <2>2 DEF l
<1>5. CASE v.st = "ok" /\ T(v.ix) = sep /\ l = IF r.st = "ok" THEN Ok(r.ix, Node(type, v.node, r.node)) ELSE r
    <2>1. v.ix \in Nat /\ i <= v.ix /\ (Ends /\ i < Len(toks) => v.ix < Len(toks)) /\ Free(v.node)
        BY <1>1, <1>5 DEF Expr, Result
    <2>2. T(v.ix) \notin {"EOF", "INVALID"}
        BY <1>5
    <2>3. v.ix + 1 \in 1..Len(Memory) /\ (Ends /\ i < Len(toks) => v.ix + 1 < Len(toks))
        BY <2>1, <2>2, Behind
    <2> v.ix + 1 \in Nat /\ i < v.ix + 1
        BY <2>1
    <2>4. Expr(r, v.ix + 1, d)
        BY <2>3
    <2> HIDE DEF r, l
    <2>5. Expr(r, i, d + 1)
        BY <2>1, <2>3, <2>4, Earlier
    <2>6. r.st = "ok" => Free(Node(type, v.node, r.node))
        BY <2>1, <2>5, FreeNode DEF Expr
    <2>7. Expr(l, i, d + 1)
        BY <1>5, <2>5, <2>6 DEF Ok, Expr, Result
    <2> QED
        BY <2>7 DEF l
<1>6. CASE l = Ok(i, NULL)
    BY <1>6, StandsStill
<1>7. l = IF AtEnd(i) THEN Ok(i, Node(type, NULL, NULL))
          ELSE IF T(i) \notin TypeWords THEN Ok(i, NULL)
          ELSE IF v.st = "ok"
               THEN IF T(v.ix) # sep THEN Ok(v.ix, Node(type, v.node, NULL))
                    ELSE IF r.st = "ok" THEN Ok(r.ix, Node(type, v.node, r.node)) ELSE r
               ELSE v
    BY DEF Decls, Then, v
<1> HIDE DEF l, r
<1> QED
    BY <1>2, <1>3, <1>4, <1>5, <1>6, <1>7 DEF l, r

LEMMA DeclListsSound ==
    ASSUME Readable, NEW d \in Nat, NEW P, Sound(P, d), NEW i \in 0..Len(Memory)
    PROVE  Expr(DeclList(P, i), i, d + 1) /\ Expr(DeclMembers(P, i), i, d + 1)
<1>1. \A j \in 1..Len(Memory) : Expr(P.DeclList[j], j, d) /\ Expr(P.DeclMembers[j], j, d)
    BY DEF Sound
<1>2. Expr(Decls(P, i, "VAR_LIST", "COMMA", P.DeclList), i, d + 1)
    BY <1>1, DeclsSound
<1>3. Expr(Decls(P, i, "MEMBER_LIST", "SEMICOLON", P.DeclMembers), i, d + 1)
    BY <1>1, DeclsSound
<1> QED
    BY <1>2, <1>3 DEF DeclList, DeclMembers

(***************************************************************************)
(* Statements.                                                             *)
(***************************************************************************)
LEMMA PartIsOption ==
    ASSUME NEW r, NEW i, NEW d, NEW block, Part(r, i, d, block)
    PROVE  Option(r, i, d, block)
    BY DEF Part, Option, Stmts

LEMMA PartOk ==
    ASSUME NEW i \in Nat, NEW j \in Nat, NEW d, NEW n, NEW block,
           i < j, j <= Len(Memory), Ends /\ i < Len(toks) => j < Len(toks), Good(n, block)
    PROVE  Part(Ok(j, n), i, d, block)
    BY DEF Ok, Part, Result

LEMMA PartErr == \A i, d, block : Part(Err, i, d, block)
    BY DEF Err, Part, Result

LEMMA PartOnwards ==
    ASSUME NEW i \in Nat, NEW j \in Nat, NEW d \in Nat, NEW block, NEW r, Part(r, j, d, block),
           i <= j, Ends /\ i < Len(toks) => j < Len(toks)
    PROVE  Part(r, i, d, block)
    BY DEF Part, Result

\* What a part that did not succeed returns is returned in its place.
LEMMA PartFails ==
    ASSUME NEW i, NEW d, NEW r, NEW block, NEW other, Part(r, i, d, other), r.st # "ok"
    PROVE  Part(r, i, d, block)
    BY DEF Part

\* Behind an expression further on, its closing token.
LEMMA PartExpect ==
    ASSUME Readable, NEW i \in Nat, NEW j \in Nat, NEW d \in Nat, NEW r, NEW token, NEW block \in Blocks,
           Expr(r, j, d), r.st # "fault", i <= j, Ends /\ i < Len(toks) => j < Len(toks),
           token \notin {"INVALID", "EOF"}
    PROVE  /\ Part(Expect(token, r), i, d, block)
           /\ Expect(token, r).st = "ok" => Free(Expect(token, r).node)
<1> DEFINE e == Expect(token, r)
<1>1. /\ Expr(e, j, d)
      /\ e.st = "ok" => r.st = "ok" /\ e.ix = r.ix + 1 /\ r.ix + 1 <= Len(Memory)
    BY ExprExpect
<1>2. e.st # "fault"
    BY DEF Expect, Then, Ok, Err
<1>3. r.st = "ok" => r.ix \in Nat /\ j <= r.ix
    BY DEF Expr, Result
<1> HIDE DEF e
<1>4. e.st = "ok" => e.ix \in Nat /\ i < e.ix /\ e.ix <= Len(Memory) /\ Free(e.node)
    BY <1>1, <1>3 DEF Expr, Result
<1>5. e.st = "ok" => Good(e.node, block)
    BY <1>4 DEF Free
<1>6. Result(e, i, d)
    BY <1>1, <1>2, <1>4 DEF Expr, Result
<1>7. Part(e, i, d, block) /\ (e.st = "ok" => Free(e.node))
    BY <1>2, <1>4, <1>5, <1>6 DEF Part
<1> QED
    BY <1>7 DEF e

\* The kind of block a node opens, and what may stand in which.
LEMMA BlockNode ==
    \A place \in Blocks : \A left, right :
        /\ Good(left, place) /\ Good(right, "LOOP") /\ place # "NONE" => Good(Node("WHILE", left, right), place)
        /\ Good(left, place) /\ Good(right, place) /\ place # "NONE" => Good(Node("IF", left, right), place)
        /\ Good(left, place) /\ Good(right, "FUNC") => Good(Node("DECL_FUNCTION", left, right), place)
        /\ Good(left, place) /\ Good(right, "NAME") => Good(Node("TYPE_VARNAME", left, right), place)
        /\ Good(left, place) /\ Good(right, place) /\ place = "NONE" => Good(Node("DECL_STRUCT", left, right), place)
        /\ Good(left, place) /\ Good(right, place) /\ place = "FUNC" => Good(Node("RETURN", left, right), place)
        /\ Good(left, place) /\ Good(right, place) /\ place = "LOOP" => Good(Node("BREAK", left, right), place)
        /\ Good(left, place) /\ Good(right, place) /\ place = "LOOP" => Good(Node("CONTINUE", left, right), place)
<1>1. ASSUME NEW type, NEW place \in Blocks, NEW left, NEW right,
             Good(left, place), Good(right, Inner(type, place)), Placed(type, place), PrintReads(type) = "nothing"
      PROVE  Good(Node(type, left, right), place)
    <2> DEFINE n == Node(type, left, right)
    <2>1. n.type = type /\ n.left = left /\ n.right = right
        BY DEF Node
    <2>2. n = [type |-> n.type, left |-> n.left, right |-> n.right, tok |-> n.tok]
        BY DEF Node
    <2> HIDE DEF n
    <2>3. Proper(n, place)
        BY <1>1, <2>1, <2>2 DEF Proper
    <2>4. Good(n.left, place) /\ Good(n.right, Inner(n.type, place))
        BY <1>1, <2>1
    <2>5. Good(n, place)
        BY <2>3, <2>4, RootGood
    <2> QED
        BY <2>5 DEF n
<1>2. \A place \in Blocks :
        /\ Inner("WHILE", place) = "LOOP" /\ Inner("IF", place) = place /\ Inner("DECL_FUNCTION", place) = "FUNC"
        /\ Inner("TYPE_VARNAME", place) = "NAME" /\ Inner("DECL_STRUCT", place) = place
        /\ Inner("RETURN", place) = place /\ Inner("BREAK", place) = place /\ Inner("CONTINUE", place) = place
    BY DEF Inner
<1>3. \A type \in {"WHILE", "IF", "DECL_FUNCTION", "TYPE_VARNAME", "DECL_STRUCT", "RETURN", "BREAK", "CONTINUE"} :
        PrintReads(type) = "nothing"
    BY DEF PrintReads
<1>4. \A place \in Blocks :
        /\ place # "NONE" => Placed("WHILE", place) /\ Placed("IF", place)
        /\ Placed("DECL_FUNCTION", place) /\ Placed("TYPE_VARNAME", place)
        /\ place = "NONE" => Placed("DECL_STRUCT", place)
        /\ place = "FUNC" => Placed("RETURN", place)
        /\ place = "LOOP" => Placed("BREAK", place) /\ Placed("CONTINUE", place)
    BY DEF Placed
<1> QED
    BY <1>1, <1>2, <1>3, <1>4

\* A name that may be any token.
LEMMA NameGood == \A i : Good(Leaf("VARNAME", i), "NAME")
<1> SUFFICES ASSUME NEW i PROVE Good(Leaf("VARNAME", i), "NAME")
    OBVIOUS
<1> DEFINE n == Leaf("VARNAME", i)
<1>1. n = [type |-> n.type, left |-> n.left, right |-> n.right, tok |-> n.tok] /\ n.type = "VARNAME"
    BY DEF Leaf
<1> HIDE DEF n
<1>2. Proper(n, "NAME")
    BY <1>1 DEF Proper, Placed
<1> QED
    BY <1>2, ProperLeaf DEF n

\* Another tree in the place of a child.
LEMMA GraftGood ==
    ASSUME NEW place \in Blocks, NEW n, NEW m, Good(n, place), Good(m, place), n # NULL
    PROVE  /\ Good([n EXCEPT !.left = m], place)
           /\ n.type = "STMT" => Good([n EXCEPT !.right = m], place)
<1>1. /\ n = [type |-> n.type, left |-> n.left, right |-> n.right, tok |-> n.tok]
      /\ Proper(n, place) /\ Good(n.left, place) /\ Good(n.right, Inner(n.type, place))
    <2>1. Proper(n, place) /\ Good(n.left, place) /\ Good(n.right, Inner(n.type, place))
        BY GoodRoot
    <2> QED
        BY <2>1 DEF Proper
<1>2. ASSUME NEW l, NEW r, Good(l, place), Good(r, Inner(n.type, place))
      PROVE  Good([type |-> n.type, left |-> l, right |-> r, tok |-> n.tok], place)
    <2> DEFINE k == [type |-> n.type, left |-> l, right |-> r, tok |-> n.tok]
    <2>1. k.type = n.type /\ k.tok = n.tok /\ k.left = l /\ k.right = r
        OBVIOUS
    <2>2. k = [type |-> k.type, left |-> k.left, right |-> k.right, tok |-> k.tok]
        OBVIOUS
    <2> HIDE DEF k
    <2>3. Proper(k, place)
        BY <1>1, <2>1, <2>2 DEF Proper
    <2>4. Good(k, place)
        BY <1>2, <2>1, <2>3, RootGood
    <2> QED
        BY <2>4 DEF k
<1>3. [n EXCEPT !.left = m] = [type |-> n.type, left |-> m, right |-> n.right, tok |-> n.tok]
    BY <1>1
<1>4. [n EXCEPT !.right = m] = [type |-> n.type, left |-> n.left, right |-> m, tok |-> n.tok]
    BY <1>1
<1>5. n.type = "STMT" => Inner(n.type, place) = place
    BY DEF Inner
<1> QED
    BY <1>1, <1>2, <1>3, <1>4, <1>5

LEMMA StmtBlockSound ==
    ASSUME Readable, NEW d \in Nat, NEW P, Sound(P, d), NEW i \in 0..Len(Memory), NEW block \in Blocks
    PROVE  Part(StmtBlock(P, i, block), i, d + 1, block)
<1> DEFINE b == StmtBlock(P, i, block)
           s == P.StmtSeq[block][i + 1]
<1> i \in Nat /\ d + 1 \in Nat
    BY DEF Readable
<1>1. CASE b = Err
    BY <1>1, PartErr
<1>2. CASE T(i) = "LCURLY" /\ T(i + 1) = "RCURLY" /\ b = Ok(i + 2, NULL)
    <2>1. i + 2 \in Nat /\ i < i + 2 /\ i + 2 <= Len(Memory) /\ (Ends /\ i < Len(toks) => i + 2 < Len(toks))
        BY <1>2 DEF Readable
    <2>2. Good(NULL, block)
        BY NothingGood
    <2> QED
        BY <1>2, <2>1, <2>2, PartOk
<1>3. CASE T(i) = "LCURLY" /\ b = Expect("RCURLY", s)
    <2>1. i + 1 \in 1..Len(Memory) /\ (Ends /\ i < Len(toks) => i + 1 < Len(toks))
        BY <1>3 DEF Readable
    <2>2. Stmts(s, i + 1, d, block)
        BY <2>1 DEF Sound
    <2> HIDE DEF s, b
    <2>3. b = IF s.st = "ok" THEN IF T(s.ix) = "RCURLY" THEN Ok(s.ix + 1, s.node) ELSE Err ELSE s
        BY <1>3 DEF Expect, Then
    <2>4. CASE s.st # "ok" /\ b = s
        <3>1. Part(s, i, d + 1, block)
            BY <2>2, <2>4 DEF Stmts, Result, Part
        <3> QED
            BY <2>4, <3>1 DEF b
    <2>5. CASE s.st = "ok" /\ T(s.ix) = "RCURLY" /\ b = Ok(s.ix + 1, s.node)
        <3>1. s.ix \in Nat /\ i + 1 <= s.ix /\ (Ends /\ i < Len(toks) => s.ix < Len(toks)) /\ Good(s.node, block)
            BY <2>1, <2>2, <2>5 DEF Stmts, Result
        <3>2. T(s.ix) \notin {"EOF", "INVALID"}
            BY <2>5
        <3>3. s.ix + 1 \in 1..Len(Memory) /\ (Ends /\ s.ix < Len(toks) => s.ix + 1 < Len(toks))
            BY <3>1, <3>2, Behind
        <3>4. s.ix + 1 \in Nat /\ i < s.ix + 1 /\ s.ix + 1 <= Len(Memory)
            BY <3>1, <3>3
        <3>5. Part(Ok(s.ix + 1, s.node), i, d + 1, block)
            BY <3>1, <3>3, <3>4, PartOk
        <3> QED
            BY <2>5, <3>5 DEF b
    <2>6. CASE b = Err
        BY <2>6, PartErr DEF b
    <2> QED
        BY <2>3, <2>4, <2>5, <2>6
<1> QED
    BY <1>1, <1>2, <1>3 DEF StmtBlock

\* A new node around what a part returned.
LEMMA PartNode ==
    ASSUME NEW i, NEW d, NEW r, NEW n, NEW block, NEW other, Part(r, i, d, other), r.st = "ok", Good(n, block)
    PROVE  Part(Ok(r.ix, n), i, d, block)
    BY DEF Ok, Part, Result

\* The third token tells that the bracket behind the name of a function stands
\* in front of EOF.
LEMMA NamedSound ==
    ASSUME Readable, NEW d \in Nat, NEW P, Sound(P, d), NEW i \in 0..Len(Memory), Third(i) = "("
    PROVE  \A block \in Blocks : Part(Expect("(", DeclTypeVarname(P, i)), i, d + 1, block)
<1> SUFFICES ASSUME NEW block \in Blocks
             PROVE  Part(Expect("(", DeclTypeVarname(P, i)), i, d + 1, block)
    OBVIOUS
<1> DEFINE f == Expect("(", DeclTypeVarname(P, i))
           t == TypeName(P, i)
           n == Node("TYPE_VARNAME", t.node, Leaf("VARNAME", t.ix))
<1> i \in Nat /\ d + 1 \in Nat
    BY DEF Readable
<1>1. Type(t, i, d + 1)
    BY TypeNameSound
<1>2. f = IF t.st = "ok" THEN IF T(t.ix + 1) = "(" THEN Ok((t.ix + 1) + 1, n) ELSE Err ELSE t
    BY DEF Expect, DeclTypeVarname, Then, Ok
<1> HIDE DEF t, f
<1>3. CASE t.st # "ok" /\ f = t
    <2>1. Part(t, i, d + 1, block)
        BY <1>1, <1>3 DEF Type, Expr, Part
    <2> QED
        BY <1>3, <2>1 DEF f
<1>4. CASE f = Err
    BY <1>4, PartErr DEF f
<1>5. CASE t.st = "ok" /\ T(t.ix + 1) = "(" /\ f = Ok((t.ix + 1) + 1, n)
    <2>1. t.ix \in Nat /\ i <= t.ix /\ Free(t.node)
        BY <1>1, <1>5 DEF Type, Expr, Result
    <2>2. Good(n, block)
        <3>1. Good(t.node, block) /\ Good(Leaf("VARNAME", t.ix), "NAME")
            BY <2>1, NameGood DEF Free
        <3> QED
            BY <3>1, BlockNode
    <2> HIDE DEF n
    <2>3. t.ix + 1 \in Nat /\ T(t.ix + 1) \notin {"EOF", "INVALID"}
        BY <1>5, <2>1
    <2>4. (t.ix + 1) + 1 <= Len(Memory) /\ (Ends /\ t.ix + 1 < Len(toks) => (t.ix + 1) + 1 < Len(toks))
        BY <2>3, Behind
    <2>5. ASSUME Ends, i < Len(toks) PROVE t.ix + 1 < Len(toks)
        <3> DEFINE q == i + Offset(i)
        <3>1. q \in Nat /\ i <= q
            BY DEF Offset
        <3>2. q < Len(toks) /\ T(q) = "("
            BY DEF Third
        <3> HIDE DEF q
        <3>3. T(q) \notin {"EOF", "INVALID"} /\ T(q) \notin TypeWords
            BY <3>2 DEF TypeWords, BasicTypes
        <3>4. q + 1 < Len(toks)
            BY <2>5, <3>1, <3>2, <3>3, Behind
        <3>5. \A j \in i..(t.ix - 1) : T(j) \in TypeWords
            BY <1>1, <1>5, <2>5 DEF Type
        <3>6. q \notin i..(t.ix - 1)
            BY <3>3, <3>5
        <3>7. t.ix <= q
            BY <2>1, <3>1, <3>6
        <3> QED
            BY <2>1, <3>1, <3>4, <3>7, <1>1 DEF Readable
    <2>6. i < (t.ix + 1) + 1 /\ (t.ix + 1) + 1 \in Nat
        BY <2>1
    <2>7. Part(Ok((t.ix + 1) + 1, n), i, d + 1, block)
        BY <2>2, <2>4, <2>5, <2>6, PartOk
    <2> QED
        BY <1>5, <2>7 DEF f
<1> QED
    BY <1>2, <1>3, <1>4, <1>5

LEMMA FunctionSignatureSound ==
    ASSUME Readable, NEW d \in Nat, NEW P, Sound(P, d), NEW i \in 0..Len(Memory), Third(i) = "("
    PROVE  \A block \in Blocks : Part(FunctionSignature(P, i), i, d + 1, block)
<1> SUFFICES ASSUME NEW block \in Blocks
             PROVE  Part(FunctionSignature(P, i), i, d + 1, block)
    OBVIOUS
<1> DEFINE s == FunctionSignature(P, i)
           f == Expect("(", DeclTypeVarname(P, i))
           l == DeclList(P, f.ix)
           p == Expect(")", l)
<1> i \in Nat /\ d + 1 \in Nat
    BY DEF Readable
<1> "SIGNATURE" \in PlainTypes
    BY DEF PlainTypes
<1>1. Part(f, i, d + 1, block)
    BY NamedSound
<1>2. s = IF f.st = "ok"
          THEN IF T(f.ix) = ")" THEN Ok(f.ix + 1, Node("SIGNATURE", f.node, NULL))
               ELSE IF p.st = "ok" THEN Ok(p.ix, Node("SIGNATURE", f.node, p.node)) ELSE p
          ELSE f
    BY DEF FunctionSignature, Then
<1> HIDE DEF f, s
<1>3. CASE f.st # "ok" /\ s = f
    BY <1>1, <1>3 DEF s
<1>4. ASSUME f.st = "ok"
      PROVE  /\ f.ix \in Nat /\ i < f.ix /\ f.ix \in 0..Len(Memory) /\ Good(f.node, block)
             /\ Ends /\ i < Len(toks) => f.ix < Len(toks)
    BY <1>1, <1>4 DEF Part, Result
<1>5. CASE f.st = "ok" /\ T(f.ix) = ")" /\ s = Ok(f.ix + 1, Node("SIGNATURE", f.node, NULL))
    <2>1. Good(Node("SIGNATURE", f.node, NULL), block)
        BY <1>4, <1>5, PlainNode, NothingGood
    <2>2. T(f.ix) \notin {"EOF", "INVALID"} /\ f.ix \in Nat
        BY <1>4, <1>5
    <2>3. f.ix + 1 <= Len(Memory) /\ (Ends /\ f.ix < Len(toks) => f.ix + 1 < Len(toks))
        BY <2>2, Behind
    <2>4. f.ix + 1 \in Nat /\ i < f.ix + 1
        BY <1>4, <1>5
    <2>5. Part(Ok(f.ix + 1, Node("SIGNATURE", f.node, NULL)), i, d + 1, block)
        BY <1>4, <1>5, <2>1, <2>3, <2>4, PartOk
    <2> QED
        BY <1>5, <2>5 DEF s
<1>6. ASSUME f.st = "ok"
      PROVE  Part(p, i, d + 1, block) /\ (p.st = "ok" => Free(p.node))
    <2>1. Expr(l, f.ix, d + 1)
        BY <1>4, <1>6, DeclListsSound
    <2> HIDE DEF l
    <2>2. l.st # "fault" /\ i <= f.ix /\ f.ix \in Nat
        BY <1>4, <1>6, <2>1 DEF Expr, Result
    <2> QED
        BY <1>4, <1>6, <2>1, <2>2, PartExpect
<1> HIDE DEF p
<1>7. CASE f.st = "ok" /\ p.st = "ok" /\ s = Ok(p.ix, Node("SIGNATURE", f.node, p.node))
    <2>1. Good(p.node, block)
        BY <1>6, <1>7 DEF Free
    <2>2. Good(Node("SIGNATURE", f.node, p.node), block)
        BY <1>4, <1>7, <2>1, PlainNode
    <2>3. Part(Ok(p.ix, Node("SIGNATURE", f.node, p.node)), i, d + 1, block)
        BY <1>6, <1>7, <2>2, PartNode
    <2> QED
        BY <1>7, <2>3 DEF s
<1>8. CASE f.st = "ok" /\ p.st # "ok" /\ s = p
    BY <1>6, <1>8 DEF s
<1> QED
    BY <1>2, <1>3, <1>5, <1>7, <1>8

LEMMA DeclFunctionSound ==
    ASSUME Readable, NEW d \in Nat, NEW P, Sound(P, d), NEW i \in 0..Len(Memory), Third(i) = "(", NEW block \in Blocks
    PROVE  Part(DeclFunction(P, i), i, d + 1, block)
<1> DEFINE f == DeclFunction(P, i)
           s == FunctionSignature(P, i)
           b == StmtBlock(P, s.ix, "FUNC")
           n == Node("DECL_FUNCTION", s.node, b.node)
<1> i \in Nat /\ d + 1 \in Nat
    BY DEF Readable
<1>1. Part(s, i, d + 1, block)
    BY FunctionSignatureSound
<1> HIDE DEF s
<1>2. f = IF s.st = "ok" THEN IF b.st = "ok" THEN Ok(b.ix, n) ELSE b ELSE s
    BY DEF DeclFunction, Then, s
<1> HIDE DEF f
<1>3. CASE s.st # "ok" /\ f = s
    BY <1>1, <1>3 DEF f
<1>4. ASSUME s.st = "ok" PROVE Part(b, i, d + 1, "FUNC")
    <2>1. s.ix \in Nat /\ s.ix \in 0..Len(Memory) /\ i <= s.ix /\ (Ends /\ i < Len(toks) => s.ix < Len(toks))
        BY <1>1, <1>4 DEF Part, Result
    <2>2. Part(b, s.ix, d + 1, "FUNC")
        BY <2>1, StmtBlockSound DEF Blocks
    <2> HIDE DEF b
    <2> QED
        BY <2>1, <2>2, PartOnwards
<1> HIDE DEF b
<1>5. CASE s.st = "ok" /\ b.st # "ok" /\ f = b
    <2>1. Part(b, i, d + 1, block)
        BY <1>4, <1>5, PartFails
    <2> QED
        BY <1>5, <2>1 DEF f
<1>6. CASE s.st = "ok" /\ b.st = "ok" /\ f = Ok(b.ix, n)
    <2>1. Good(s.node, block) /\ Good(b.node, "FUNC")
        BY <1>1, <1>4, <1>6 DEF Part
    <2>2. Good(n, block)
        BY <2>1, BlockNode
    <2> HIDE DEF n
    <2>3. Part(Ok(b.ix, n), i, d + 1, block)
        BY <1>4, <1>6, <2>2, PartNode
    <2> QED
        BY <1>6, <2>3 DEF f
<1> QED
    BY <1>2, <1>3, <1>5, <1>6

LEMMA ReturnSound ==
    ASSUME Readable, NEW d \in Nat, NEW P, Sound(P, d), NEW i \in 0..Len(Memory), T(i) = "WORD_RETURN"
    PROVE  Part(Return(P, i), i, d + 1, "FUNC")
<1> DEFINE r == Return(P, i)
           o == Or(P, i + 1)
           e == Expect("SEMICOLON", o)
           n == Node("RETURN", e.node, NULL)
<1> i \in Nat /\ d + 1 \in Nat /\ "FUNC" \in Blocks
    BY DEF Readable, Blocks
<1>1. i + 1 \in 0..Len(Memory) /\ i + 1 \in Nat /\ (Ends /\ i < Len(toks) => i + 1 < Len(toks))
    BY Behind
<1>2. Expr(o, i + 1, d + 1)
    BY <1>1, OrSound
<1>3. o.st # "fault"
    BY <1>1, <1>2 DEF Expr, Result
<1> HIDE DEF o
<1>4. i <= i + 1
    OBVIOUS
<1>5. Part(e, i, d + 1, "FUNC") /\ (e.st = "ok" => Free(e.node))
    BY <1>1, <1>2, <1>3, <1>4, PartExpect
<1>6. r = IF e.st = "ok" THEN Ok(e.ix, n) ELSE e
    BY DEF Return, Under, Then, o
<1> HIDE DEF e, r
<1>7. CASE e.st # "ok" /\ r = e
    BY <1>5, <1>7 DEF r
<1>8. CASE e.st = "ok" /\ r = Ok(e.ix, n)
    <2>1. Good(e.node, "FUNC") /\ Good(NULL, "FUNC")
        BY <1>5, <1>8, NothingGood DEF Free
    <2>2. Good(n, "FUNC")
        BY <2>1, BlockNode
    <2> HIDE DEF n
    <2>3. Part(Ok(e.ix, n), i, d + 1, "FUNC")
        BY <1>5, <1>8, <2>2, PartNode
    <2> QED
        BY <1>8, <2>3 DEF r
<1> QED
    BY <1>6, <1>7, <1>8

LEMMA ConditionSound ==
    ASSUME Readable, NEW d \in Nat, NEW P, Sound(P, d), NEW i \in 0..Len(Memory), T(i) \notin {"EOF", "INVALID"},
           NEW block \in Blocks
    PROVE  /\ Part(Condition(P, i), i, d + 1, block)
           /\ Condition(P, i).st = "ok" => Free(Condition(P, i).node)
<1> DEFINE o == Or(P, i + 2)
<1> i \in Nat /\ d + 1 \in Nat
    BY DEF Readable
<1>1. CASE Condition(P, i) = Err
    BY <1>1, PartErr DEF Err
<1>2. CASE T(i + 1) = "(" /\ Condition(P, i) = Expect(")", o)
    <2>1. i + 1 \in Nat /\ i + 1 <= Len(Memory) /\ (Ends /\ i < Len(toks) => i + 1 < Len(toks))
        BY Behind
    <2>2. (i + 1) + 1 <= Len(Memory) /\ (Ends /\ i + 1 < Len(toks) => (i + 1) + 1 < Len(toks))
        BY <1>2, <2>1, Behind
    <2>3. /\ i + 2 \in 0..Len(Memory) /\ i + 2 \in Nat /\ i <= i + 2 /\ 0 < i + 2
          /\ Ends /\ i < Len(toks) => i + 2 < Len(toks)
        BY <2>1, <2>2
    <2>4. Expr(o, i + 2, d + 1)
        BY <2>3, OrSound
    <2>5. o.st # "fault"
        BY <2>3, <2>4 DEF Expr, Result
    <2> HIDE DEF o
    <2> QED
        BY <1>2, <2>3, <2>4, <2>5, PartExpect
<1> QED
    BY <1>1, <1>2 DEF Condition

\* The block behind a condition.
LEMMA ThenBlockSound ==
    ASSUME Readable, NEW d \in Nat, NEW P, Sound(P, d), NEW i \in Nat, NEW c, NEW block \in Blocks,
           NEW inner \in Blocks,
           Part(c, i, d + 1, block), c.st = "ok"
    PROVE  Part(StmtBlock(P, c.ix, inner), i, d + 1, inner)
<1> DEFINE b == StmtBlock(P, c.ix, inner)
<1> d + 1 \in Nat
    OBVIOUS
<1>1. c.ix \in Nat /\ c.ix \in 0..Len(Memory) /\ i <= c.ix /\ (Ends /\ i < Len(toks) => c.ix < Len(toks))
    BY DEF Part, Result, Readable
<1>2. Part(b, c.ix, d + 1, inner)
    BY <1>1, StmtBlockSound
<1> HIDE DEF b
<1>3. Part(b, i, d + 1, inner)
    BY <1>1, <1>2, PartOnwards
<1> QED
    BY <1>3 DEF b

LEMMA WhileSound ==
    ASSUME Readable, NEW d \in Nat, NEW P, Sound(P, d), NEW i \in 0..Len(Memory), T(i) = "WORD_WHILE",
           NEW block \in Blocks, block # "NONE"
    PROVE  Part(While(P, i), i, d + 1, block)
<1> DEFINE w == While(P, i)
           c == Condition(P, i)
           b == StmtBlock(P, c.ix, "LOOP")
           n == Node("WHILE", c.node, b.node)
<1> i \in Nat /\ d + 1 \in Nat /\ "LOOP" \in Blocks
    BY DEF Readable, Blocks
<1>1. Part(c, i, d + 1, block) /\ (c.st = "ok" => Free(c.node))
    BY ConditionSound
<1> HIDE DEF c
<1>2. c.st = "ok" => Part(b, i, d + 1, "LOOP")
    BY <1>1, ThenBlockSound
<1>3. w = IF c.st = "ok" THEN IF b.st = "ok" THEN Ok(b.ix, n) ELSE b ELSE c
    BY DEF While, Then, c
<1> HIDE DEF b, w
<1>4. CASE c.st # "ok" /\ w = c
    BY <1>1, <1>4 DEF w
<1>5. CASE c.st = "ok" /\ b.st # "ok" /\ w = b
    <2>1. Part(b, i, d + 1, block)
        BY <1>2, <1>5, PartFails
    <2> QED
        BY <1>5, <2>1 DEF w
<1>6. CASE c.st = "ok" /\ b.st = "ok" /\ w = Ok(b.ix, n)
    <2>1. Good(c.node, block) /\ Good(b.node, "LOOP")
        BY <1>1, <1>2, <1>6 DEF Part
    <2>2. Good(n, block)
        BY <2>1, BlockNode
    <2> HIDE DEF n
    <2>3. Part(Ok(b.ix, n), i, d + 1, block)
        BY <1>2, <1>6, <2>2, PartNode
    <2> QED
        BY <1>6, <2>3 DEF w
<1> QED
    BY <1>3, <1>4, <1>5, <1>6

LEMMA JumpSound ==
    ASSUME Readable, NEW d, NEW i \in 0..Len(Memory), T(i) \notin {"EOF", "INVALID"}
    PROVE  Part(Break(i), i, d, "LOOP") /\ Part(Continue(i), i, d, "LOOP")
<1> i \in Nat /\ "LOOP" \in Blocks
    BY DEF Readable, Blocks
<1>1. ASSUME NEW type \in {"BREAK", "CONTINUE"}
      PROVE  Part(Jump(i, type), i, d, "LOOP")
    <2> DEFINE j == Jump(i, type)
    <2>1. CASE j = Err
        BY <2>1, PartErr
    <2>2. CASE T(i + 1) = "SEMICOLON" /\ j = Ok(i + 2, Node(type, NULL, NULL))
        <3>1. i + 1 \in Nat /\ i + 1 <= Len(Memory) /\ (Ends /\ i < Len(toks) => i + 1 < Len(toks))
            BY Behind
        <3>2. (i + 1) + 1 <= Len(Memory) /\ (Ends /\ i + 1 < Len(toks) => (i + 1) + 1 < Len(toks))
            BY <2>2, <3>1, Behind
        <3>3. /\ i + 2 \in Nat /\ i < i + 2 /\ i + 2 <= Len(Memory)
              /\ Ends /\ i < Len(toks) => i + 2 < Len(toks)
            BY <3>1, <3>2
        <3>4. Good(Node(type, NULL, NULL), "LOOP")
            BY BlockNode, NothingGood
        <3> QED
            BY <2>2, <3>3, <3>4, PartOk
    <2> QED
        BY <2>1, <2>2 DEF Jump
<1> QED
    BY <1>1 DEF Break, Continue

LEMMA ElseSound ==
    ASSUME Readable, NEW d \in Nat, NEW P, Sound(P, d), NEW i \in 0..Len(Memory), T(i) = "WORD_ELSE",
           NEW block \in Blocks
    PROVE  Part(Else(P, i, block), i, d + 1, block)
<1> DEFINE e == Else(P, i, block)
           b == StmtBlock(P, i + 1, block)
           n == Node("ELSE", NULL, b.node)
<1> i \in Nat /\ d + 1 \in Nat /\ "ELSE" \in PlainTypes
    BY DEF Readable, PlainTypes
<1>1. i + 1 \in 0..Len(Memory) /\ i + 1 \in Nat /\ i <= i + 1 /\ (Ends /\ i < Len(toks) => i + 1 < Len(toks))
    BY Behind
<1>2. Part(b, i + 1, d + 1, block)
    BY <1>1, StmtBlockSound
<1> HIDE DEF b
<1>3. Part(b, i, d + 1, block)
    BY <1>1, <1>2, PartOnwards
<1>4. e = IF b.st = "ok" THEN Ok(b.ix, n) ELSE b
    BY DEF Else, Then, b
<1> HIDE DEF e
<1>5. CASE b.st # "ok" /\ e = b
    BY <1>3, <1>5 DEF e
<1>6. CASE b.st = "ok" /\ e = Ok(b.ix, n)
    <2>1. Good(n, block)
        BY <1>3, <1>6, PlainNode, NothingGood DEF Part
    <2> HIDE DEF n
    <2>2. Part(Ok(b.ix, n), i, d + 1, block)
        BY <1>3, <1>6, <2>1, PartNode
    <2> QED
        BY <1>6, <2>2 DEF e
<1> QED
    BY <1>4, <1>5, <1>6

LEMMA AlternativeGood ==
    ASSUME NEW place \in Blocks, NEW n, NEW m, Good(n, place), Good(m, place)
    PROVE  Good(WithAlternative(n, m), place)
    BY GraftGood DEF WithAlternative

LEMMA ConditionalSound ==
    ASSUME Readable, NEW d \in Nat, NEW P, Sound(P, d), NEW i \in 0..Len(Memory), T(i) \notin {"EOF", "INVALID"},
           NEW block \in Blocks, NEW type, (type = "IF" /\ block # "NONE") \/ type = "ELSE_IF"
    PROVE  Part(Conditional(P, i, type, block), i, d + 1, block)
<1> DEFINE f == Conditional(P, i, type, block)
           c == Condition(P, i)
           b == StmtBlock(P, c.ix, block)
           a == IF T(b.ix) = "WORD_ELSE" THEN Else(P, b.ix, block) ELSE P.ElseIf[block][b.ix]
           w == WithAlternative(b.node, a.node)
<1> i \in Nat /\ d + 1 \in Nat
    BY DEF Readable
<1>1. Part(c, i, d + 1, block) /\ (c.st = "ok" => Free(c.node))
    BY ConditionSound
<1> HIDE DEF c
<1>2. c.st = "ok" => Part(b, i, d + 1, block)
    BY <1>1, ThenBlockSound
<1>3. f = IF c.st = "ok"
          THEN IF b.st = "ok"
               THEN IF T(b.ix) \notin {"WORD_ELSE_IF", "WORD_ELSE"} THEN Ok(b.ix, Node(type, c.node, b.node))
                    ELSE IF a.st = "ok" THEN Ok(a.ix, Node(type, c.node, w)) ELSE a
               ELSE b
          ELSE c
    BY DEF Conditional, Then, c
<1> HIDE DEF b
<1>4. ASSUME c.st = "ok", b.st = "ok", T(b.ix) \in {"WORD_ELSE_IF", "WORD_ELSE"}
      PROVE  Part(a, i, d + 1, block)
    <2>1. /\ b.ix \in Nat /\ b.ix \in 1..Len(Memory) /\ i <= b.ix /\ i + 1 <= b.ix
          /\ Ends /\ i < Len(toks) => b.ix < Len(toks)
        BY <1>2, <1>4 DEF Part, Result, Readable
    <2>2. CASE T(b.ix) = "WORD_ELSE"
        <3>1. Part(a, b.ix, d + 1, block)
            BY <2>1, <2>2, ElseSound
        <3> HIDE DEF a
        <3> QED
            BY <2>1, <3>1, PartOnwards
    <2>3. CASE T(b.ix) = "WORD_ELSE_IF"
        <3>1. Stmts(a, b.ix, d, block)
            BY <2>1, <2>3 DEF Sound
        <3> HIDE DEF a
        <3>2. a.st # "fault" /\ Result(a, i, d + 1) /\ (a.st = "ok" => i < a.ix)
            BY <2>1, <3>1 DEF Stmts, Result
        <3> QED
            BY <3>1, <3>2 DEF Stmts, Part
    <2> QED
        BY <1>4, <2>2, <2>3
<1>5. ASSUME NEW n, c.st = "ok", Good(n, block)
      PROVE  Good(Node(type, c.node, n), block)
    <2>1. Good(c.node, block)
        BY <1>1, <1>5 DEF Free
    <2>2. CASE type = "IF" /\ block # "NONE"
        BY <1>5, <2>1, <2>2, BlockNode
    <2>3. CASE type = "ELSE_IF"
        <3>1. type \in PlainTypes
            BY <2>3 DEF PlainTypes
        <3> QED
            BY <1>5, <2>1, <3>1, PlainNode
    <2> QED
        BY <2>2, <2>3
<1> HIDE DEF f, a
<1>6. CASE c.st # "ok" /\ f = c
    BY <1>1, <1>6 DEF f
<1>7. CASE c.st = "ok" /\ b.st # "ok" /\ f = b
    BY <1>2, <1>7 DEF f
<1>8. CASE c.st = "ok" /\ b.st = "ok" /\ f = Ok(b.ix, Node(type, c.node, b.node))
    <2>1. Good(Node(type, c.node, b.node), block)
        BY <1>2, <1>5, <1>8 DEF Part
    <2>2. Part(Ok(b.ix, Node(type, c.node, b.node)), i, d + 1, block)
        BY <1>2, <1>8, <2>1, PartNode
    <2> QED
        BY <1>8, <2>2 DEF f
<1>9. CASE c.st = "ok" /\ b.st = "ok" /\ T(b.ix) \in {"WORD_ELSE_IF", "WORD_ELSE"} /\ a.st # "ok" /\ f = a
    BY <1>4, <1>9 DEF f
<1>10. CASE c.st = "ok" /\ b.st = "ok" /\ T(b.ix) \in {"WORD_ELSE_IF", "WORD_ELSE"} /\ a.st = "ok"
            /\ f = Ok(a.ix, Node(type, c.node, w))
    <2>1. Good(b.node, block) /\ Good(a.node, block)
        BY <1>2, <1>4, <1>10 DEF Part
    <2>2. Good(w, block)
        BY <2>1, AlternativeGood
    <2> HIDE DEF w
    <2>3. Good(Node(type, c.node, w), block)
        BY <1>5, <1>10, <2>2
    <2>4. Part(Ok(a.ix, Node(type, c.node, w)), i, d + 1, block)
        BY <1>4, <1>10, <2>3, PartNode
    <2> QED
        BY <1>10, <2>4 DEF f
<1> HIDE DEF w
<1> QED
    BY <1>3, <1>6, <1>7, <1>8, <1>9, <1>10

LEMMA MemberAssignSound ==
    ASSUME Readable, NEW d \in Nat, NEW P, Sound(P, d), NEW i \in 0..Len(Memory), T(i) = "IDENT", T(i + 1) = ".",
           NEW block \in Blocks
    PROVE  Part(MemberAssign(P, i), i, d + 1, block)
<1> DEFINE f == MemberAssign(P, i)
           access == MemberAccess(P, i)
           m == Expect("=", access)
           o == Or(P, m.ix)
           e == Expect("SEMICOLON", o)
           n == Node("ASSIGN", m.node, e.node)
<1> i \in Nat /\ d + 1 \in Nat /\ "ASSIGN" \in PlainTypes
    BY DEF Readable, PlainTypes
<1>1. Expr(access, i, d + 1) /\ access.st # "fault"
    BY MemberAccessSound
<1> HIDE DEF access
<1>2. Part(m, i, d + 1, block)
    BY <1>1, PartExpect
<1>3. f = IF m.st = "ok" THEN IF e.st = "ok" THEN Ok(e.ix, n) ELSE e ELSE m
    BY DEF MemberAssign, Then, access
<1> HIDE DEF m
<1>4. ASSUME m.st = "ok" PROVE Part(e, i, d + 1, block) /\ (e.st = "ok" => Free(e.node))
    <2>1. /\ m.ix \in Nat /\ m.ix \in 0..Len(Memory) /\ i < m.ix /\ i <= m.ix
          /\ (Ends /\ i < Len(toks) => m.ix < Len(toks))
        BY <1>2, <1>4 DEF Part, Result, Readable
    <2>2. Expr(o, m.ix, d + 1)
        BY <2>1, OrSound
    <2> HIDE DEF o
    <2>3. o.st # "fault"
        BY <2>1, <2>2 DEF Expr, Result
    <2> QED
        BY <2>1, <2>2, <2>3, PartExpect
<1> HIDE DEF e, f
<1>5. CASE m.st # "ok" /\ f = m
    BY <1>2, <1>5 DEF f
<1>6. CASE m.st = "ok" /\ e.st # "ok" /\ f = e
    BY <1>4, <1>6 DEF f
<1>7. CASE m.st = "ok" /\ e.st = "ok" /\ f = Ok(e.ix, n)
    <2>1. Good(m.node, block) /\ Good(e.node, block)
        BY <1>2, <1>4, <1>7 DEF Part
    <2>2. Good(n, block)
        BY <2>1, PlainNode
    <2> HIDE DEF n
    <2>3. Part(Ok(e.ix, n), i, d + 1, block)
        BY <1>4, <1>7, <2>2, PartNode
    <2> QED
        BY <1>7, <2>3 DEF f
<1> QED
    BY <1>3, <1>5, <1>6, <1>7

LEMMA DeclStructSound ==
    ASSUME Readable, NEW d \in Nat, NEW P, Sound(P, d), NEW i \in 0..Len(Memory), T(i) = "WORD_STRUCT"
    PROVE  Part(DeclStruct(P, i), i, d + 1, "NONE")
<1> DEFINE f == DeclStruct(P, i)
           l == DeclMembers(P, i + 3)
           m == Expect("RCURLY", l)
           n == Node("DECL_STRUCT", Leaf("VARNAME", i + 1), m.node)
           opens == T(i + 1) = "IDENT" /\ T(i + 2) = "LCURLY"
<1> i \in Nat /\ d + 1 \in Nat /\ "NONE" \in Blocks
    BY DEF Readable, Blocks
<1>1. ASSUME opens PROVE Part(m, i, d + 1, "NONE")
    <2>1. i + 1 \in Nat /\ i + 1 <= Len(Memory) /\ (Ends /\ i < Len(toks) => i + 1 < Len(toks))
        BY Behind
    <2>2. (i + 1) + 1 <= Len(Memory) /\ (Ends /\ i + 1 < Len(toks) => (i + 1) + 1 < Len(toks))
        BY <1>1, <2>1, Behind
    <2>3. i + 2 \in Nat /\ i + 2 <= Len(Memory) /\ (Ends /\ i < Len(toks) => i + 2 < Len(toks))
        BY <2>1, <2>2
    <2>4. (i + 2) + 1 <= Len(Memory) /\ (Ends /\ i + 2 < Len(toks) => (i + 2) + 1 < Len(toks))
        BY <1>1, <2>3, Behind
    <2>5. /\ i + 3 \in Nat /\ i + 3 \in 0..Len(Memory) /\ i <= i + 3 /\ 0 < i + 3
          /\ Ends /\ i < Len(toks) => i + 3 < Len(toks)
        BY <2>3, <2>4
    <2>6. Expr(l, i + 3, d + 1)
        BY <2>5, DeclListsSound
    <2> HIDE DEF l
    <2>7. l.st # "fault"
        BY <2>5, <2>6 DEF Expr, Result
    <2> QED
        BY <2>5, <2>6, <2>7, PartExpect
<1>2. f = IF opens THEN IF m.st = "ok" THEN Ok(m.ix, n) ELSE m ELSE Err
    BY DEF DeclStruct, Then
<1> HIDE DEF m, f
<1>3. CASE f = Err
    BY <1>3, PartErr DEF f
<1>4. CASE opens /\ m.st # "ok" /\ f = m
    BY <1>1, <1>4 DEF f
<1>5. CASE opens /\ m.st = "ok" /\ f = Ok(m.ix, n)
    <2>1. Good(Leaf("VARNAME", i + 1), "NONE") /\ Good(m.node, "NONE")
        BY <1>1, <1>5, FreeLeaf DEF Free, Part
    <2>2. Good(n, "NONE")
        BY <2>1, BlockNode
    <2> HIDE DEF n
    <2>3. Part(Ok(m.ix, n), i, d + 1, "NONE")
        BY <1>1, <1>5, <2>2, PartNode
    <2> QED
        BY <1>5, <2>3 DEF f
<1> QED
    BY <1>2, <1>3, <1>4, <1>5

LEMMA NoStatement ==
    ASSUME Readable, NEW i \in 0..Len(Memory), NEW d, NEW block
    PROVE  Option(Ok(i, NULL), i, d, block)
    BY NothingGood DEF Ok, Option, Stmts, Result, Readable

LEMMA DeclarationSound ==
    ASSUME Readable, NEW d \in Nat, NEW P, Sound(P, d), NEW i \in 0..Len(Memory), NEW block \in Blocks
    PROVE  Option(Declaration(P, i), i, d + 1, block)
<1> DEFINE v == DeclVar(P, i)
<1> i \in Nat /\ d + 1 \in Nat
    BY DEF Readable
<1>1. CASE Third(i) = "(" /\ Declaration(P, i) = DeclFunction(P, i)
    BY <1>1, DeclFunctionSound, PartIsOption
<1>2. CASE Declaration(P, i) = Expect("SEMICOLON", v)
    <2>1. Expr(v, i, d + 1) /\ v.st # "fault"
        BY DeclVarSound
    <2> HIDE DEF v
    <2>2. Part(Expect("SEMICOLON", v), i, d + 1, block)
        BY <2>1, PartExpect
    <2> QED
        BY <1>2, <2>2, PartIsOption
<1>3. CASE Declaration(P, i) = Ok(i, NULL)
    BY <1>3, NoStatement
<1> QED
    BY <1>1, <1>2, <1>3 DEF Declaration

LEMMA BareStmtSound ==
    ASSUME Readable, NEW d \in Nat, NEW P, Sound(P, d), NEW i \in 0..Len(Memory), NEW block \in Blocks
    PROVE  Option(BareStmt(P, i, block), i, d + 1, block)
<1> DEFINE b == BareStmt(P, i, block)
           next == IF i + 1 < Len(toks) THEN T(i + 1) ELSE "NONE"
           a == Assign(P, i)
<1> i \in Nat /\ d + 1 \in Nat
    BY DEF Readable
<1>1. CASE T(i) = "WORD_IF" /\ block # "NONE" /\ b = If(P, i, block)
    <2>1. T(i) \notin {"EOF", "INVALID"}
        BY <1>1
    <2>2. Part(Conditional(P, i, "IF", block), i, d + 1, block)
        BY <1>1, <2>1, ConditionalSound
    <2> QED
        BY <1>1, <2>2, PartIsOption DEF If
<1>2. CASE T(i) = "WORD_WHILE" /\ block # "NONE" /\ b = While(P, i)
    BY <1>2, WhileSound, PartIsOption
<1>3. CASE b = Expect("SEMICOLON", a)
    <2>1. Expr(a, i, d + 1) /\ (a.st = "fault" => Leads)
        BY AssignSound
    <2> HIDE DEF a, b
    <2>2. /\ Expr(b, i, d + 1)
          /\ b.st = "ok" => a.st = "ok" /\ b.ix = a.ix + 1 /\ a.ix + 1 <= Len(Memory)
        BY <1>3, <2>1, ExprExpect
    <2>3. b.st = "fault" => Leads
        BY <1>3, <2>1 DEF Expect, Then, Ok, Err
    <2>4. b.st = "ok" => i < b.ix
        BY <2>1, <2>2 DEF Expr, Result
    <2>5. b.st = "ok" => Good(b.node, block)
        BY <2>2 DEF Expr, Free
    <2>6. Option(b, i, d + 1, block)
        BY <2>2, <2>3, <2>4, <2>5 DEF Option, Stmts, Expr
    <2> QED
        BY <2>6 DEF b
<1>4. CASE T(i) = "IDENT" /\ next = "." /\ b = MemberAssign(P, i)
    BY <1>4, MemberAssignSound, PartIsOption
<1>5. CASE b = Declaration(P, i)
    BY <1>5, DeclarationSound
<1>6. CASE T(i) \in {"WORD_BREAK", "WORD_CONTINUE"} /\ block = "LOOP" /\ b \in {Break(i), Continue(i)}
    <2>1. T(i) \notin {"EOF", "INVALID"}
        BY <1>6
    <2>2. Part(b, i, d + 1, "LOOP")
        BY <1>6, <2>1, JumpSound
    <2> QED
        BY <1>6, <2>2, PartIsOption
<1>7. CASE T(i) = "WORD_RETURN" /\ block = "FUNC" /\ b = Return(P, i)
    BY <1>7, ReturnSound, PartIsOption
<1>8. CASE T(i) = "WORD_STRUCT" /\ block = "NONE" /\ b = DeclStruct(P, i)
    BY <1>8, DeclStructSound, PartIsOption
<1>9. CASE b = Ok(i, NULL)
    BY <1>9, NoStatement
<1>10. \/ T(i) = "WORD_IF" /\ block # "NONE" /\ b = If(P, i, block)
       \/ T(i) = "WORD_WHILE" /\ block # "NONE" /\ b = While(P, i)
       \/ b = Expect("SEMICOLON", a)
       \/ T(i) = "IDENT" /\ next = "." /\ b = MemberAssign(P, i)
       \/ b = Declaration(P, i)
       \/ T(i) \in {"WORD_BREAK", "WORD_CONTINUE"} /\ block = "LOOP" /\ b \in {Break(i), Continue(i)}
       \/ T(i) = "WORD_RETURN" /\ block = "FUNC" /\ b = Return(P, i)
       \/ T(i) = "WORD_STRUCT" /\ block = "NONE" /\ b = DeclStruct(P, i)
       \/ b = Ok(i, NULL)
    BY DEF BareStmt, TypeWords, BasicTypes
<1> QED
    BY <1>1, <1>2, <1>3, <1>4, <1>5, <1>6, <1>7, <1>8, <1>9, <1>10

LEMMA StmtSound ==
    ASSUME Readable, NEW d \in Nat, NEW P, Sound(P, d), NEW i \in 0..Len(Memory), NEW block \in Blocks
    PROVE  /\ Option(Stmt(P, i, block), i, d + 1, block)
           /\ Stmt(P, i, block).st = "ok" /\ Stmt(P, i, block).node # NULL => Stmt(P, i, block).node.type = "STMT"
<1> DEFINE s == Stmt(P, i, block)
           b == BareStmt(P, i, block)
           n == Node("STMT", b.node, NULL)
<1> i \in Nat /\ d + 1 \in Nat /\ "STMT" \in PlainTypes
    BY DEF Readable, PlainTypes
<1>1. Option(b, i, d + 1, block)
    BY BareStmtSound
<1> HIDE DEF b
<1>2. CASE s = Err
    BY <1>2, PartErr, PartIsOption DEF Err
<1>3. CASE s = b /\ (b.st # "ok" \/ b.node = NULL)
    BY <1>1, <1>3
<1>4. CASE b.st = "ok" /\ b.node # NULL /\ s = Ok(b.ix, n)
    <2>1. Good(n, block)
        BY <1>1, <1>4, PlainNode, NothingGood DEF Option, Stmts
    <2>2. n.type = "STMT"
        BY DEF Node
    <2> HIDE DEF n, s
    <2>3. Option(s, i, d + 1, block)
        BY <1>1, <1>4, <2>1 DEF Ok, Option, Stmts, Result
    <2>4. s.st = "ok" /\ s.node = n
        BY <1>4 DEF Ok
    <2>5. s.node.type = "STMT"
        BY <2>2, <2>4
    <2> QED
        BY <2>3, <2>5 DEF s
<1>5. s = IF i >= Len(toks) THEN Err
          ELSE IF b.st = "ok" THEN IF b.node = NULL THEN b ELSE Ok(b.ix, n)
          ELSE b
    BY DEF Stmt, Then, Under, b
<1> HIDE DEF s, n
<1> QED
    BY <1>2, <1>3, <1>4, <1>5 DEF s, n

LEMMA StmtSeqSound ==
    ASSUME Readable, NEW d \in Nat, NEW P, Sound(P, d), NEW i \in 0..Len(Memory), NEW block \in Blocks
    PROVE  Stmts(StmtSeq(P, i, block), i, d + 1, block)
<1> DEFINE q == StmtSeq(P, i, block)
           s == Stmt(P, i, block)
           r == P.StmtSeq[block][s.ix]
           n == [s.node EXCEPT !.right = r.node]
<1> i \in Nat /\ d + 1 \in Nat
    BY DEF Readable
<1>1. Option(s, i, d + 1, block) /\ (s.st = "ok" /\ s.node # NULL => s.node.type = "STMT")
    BY StmtSound
<1>2. q = IF s.st = "ok"
          THEN IF s.node = NULL \/ s.ix >= Len(toks) THEN s
               ELSE IF r.st = "ok" THEN Ok(r.ix, n) ELSE r
          ELSE s
    BY DEF StmtSeq, Then
<1> HIDE DEF s, q
<1>3. CASE q = s
    BY <1>1, <1>3 DEF Option, q
<1>4. ASSUME s.st = "ok", s.node # NULL, ~(s.ix >= Len(toks))
      PROVE  s.ix \in 1..Len(Memory) /\ i < s.ix /\ s.ix < Len(toks) /\ s.ix \in Nat /\ Stmts(r, s.ix, d, block)
    <2>1. s.ix \in 1..Len(Memory) /\ i < s.ix /\ s.ix < Len(toks) /\ s.ix \in Nat
        BY <1>1, <1>4 DEF Option, Stmts, Result, Readable
    <2> QED
        BY <2>1 DEF Sound
<1> HIDE DEF r
<1>5. CASE s.st = "ok" /\ s.node # NULL /\ ~(s.ix >= Len(toks)) /\ r.st # "ok" /\ q = r
    <2>1. Stmts(r, i, d + 1, block)
        BY <1>4, <1>5 DEF Stmts, Result
    <2> QED
        BY <1>5, <2>1 DEF q
<1>6. CASE s.st = "ok" /\ s.node # NULL /\ ~(s.ix >= Len(toks)) /\ r.st = "ok" /\ q = Ok(r.ix, n)
    <2>1. Good(s.node, block) /\ Good(r.node, block) /\ s.node.type = "STMT"
        BY <1>1, <1>4, <1>6 DEF Option, Stmts
    <2>2. Good(n, block)
        BY <1>6, <2>1, GraftGood
    <2> HIDE DEF n
    <2>3. Stmts(q, i, d + 1, block)
        BY <1>4, <1>6, <2>2 DEF Ok, Stmts, Result
    <2> QED
        BY <2>3 DEF q
<1> HIDE DEF n
<1> QED
    BY <1>2, <1>3, <1>5, <1>6

LEMMA ElseIfSound ==
    ASSUME Readable, NEW d \in Nat, NEW P, Sound(P, d), NEW i \in 0..Len(Memory), T(i) = "WORD_ELSE_IF",
           NEW block \in Blocks
    PROVE  Stmts(ElseIf(P, i, block), i, d + 1, block)
<1>1. T(i) \notin {"EOF", "INVALID"}
    OBVIOUS
<1>2. Part(Conditional(P, i, "ELSE_IF", block), i, d + 1, block)
    BY <1>1, ConditionalSound
<1> QED
    BY <1>2, PartIsOption DEF ElseIf, Option

(***************************************************************************)
(* Recursion: by induction on the levels, every call is sound.             *)
(***************************************************************************)
LEMMA NoCallsSound == Sound(NoCalls, 0)
<1>1. \A j \in Nat : \A block :
          j <= Len(Memory) => Stmts(Overflow, j, 0, block) /\ Type(Overflow, j, 0) /\ Expr(Overflow, j, 0)
    BY DEF Overflow, Stmts, Type, Expr, Result
<1>2. ASSUME NEW j \in 1..Len(Memory)
      PROVE  j \in Nat /\ j <= Len(Memory)
    OBVIOUS
<1>3. \A j \in Nat :
        /\ NoCalls.Or[j] = Overflow /\ NoCalls.And[j] = Overflow /\ NoCalls.Compare[j] = Overflow
        /\ NoCalls.Bitwise[j] = Overflow /\ NoCalls.Modulus[j] = Overflow /\ NoCalls.Additive[j] = Overflow
        /\ NoCalls.Multiplicative[j] = Overflow /\ NoCalls.Factor[j] = Overflow /\ NoCalls.ArrayIndex[j] = Overflow
        /\ NoCalls.ExprList[j] = Overflow /\ NoCalls.TypeName[j] = Overflow /\ NoCalls.DeclList[j] = Overflow
        /\ NoCalls.DeclMembers[j] = Overflow
        /\ \A block \in Blocks : NoCalls.StmtSeq[block][j] = Overflow /\ NoCalls.ElseIf[block][j] = Overflow
    BY DEF NoCalls
<1> QED
    BY <1>1, <1>2, <1>3 DEF Sound

\* A call of Calls(P) is the function it is named after.
LEMMA CallsAre ==
    ASSUME NEW P, NEW j \in Nat
    PROVE  /\ Calls(P).Or[j] = Or(P, j) /\ Calls(P).And[j] = And(P, j) /\ Calls(P).Compare[j] = Compare(P, j)
           /\ Calls(P).Bitwise[j] = Bitwise(P, j) /\ Calls(P).Modulus[j] = Modulus(P, j)
           /\ Calls(P).Additive[j] = Additive(P, j) /\ Calls(P).Multiplicative[j] = Multiplicative(P, j)
           /\ Calls(P).Factor[j] = Factor(P, j) /\ Calls(P).ArrayIndex[j] = ArrayIndex(P, j)
           /\ Calls(P).ExprList[j] = ExprList(P, j) /\ Calls(P).TypeName[j] = TypeName(P, j)
           /\ Calls(P).DeclList[j] = DeclList(P, j) /\ Calls(P).DeclMembers[j] = DeclMembers(P, j)
           /\ \A block \in Blocks : /\ Calls(P).StmtSeq[block][j] = StmtSeq(P, j, block)
                                    /\ Calls(P).ElseIf[block][j] = ElseIf(P, j, block)
    BY DEF Calls

LEMMA CallsSound ==
    ASSUME Readable, NEW d \in Nat, NEW P, Sound(P, d)
    PROVE  Sound(Calls(P), d + 1)
<1> SUFFICES ASSUME NEW j \in 1..Len(Memory)
             PROVE  LET C == Calls(P)
                    IN  /\ Expr(C.Or[j], j, d + 1) /\ Expr(C.And[j], j, d + 1) /\ Expr(C.Compare[j], j, d + 1)
                        /\ Expr(C.Bitwise[j], j, d + 1) /\ Expr(C.Modulus[j], j, d + 1)
                        /\ Expr(C.Additive[j], j, d + 1)
                        /\ Expr(C.Multiplicative[j], j, d + 1) /\ Expr(C.Factor[j], j, d + 1)
                        /\ Expr(C.ArrayIndex[j], j, d + 1) /\ Expr(C.ExprList[j], j, d + 1)
                        /\ Type(C.TypeName[j], j, d + 1)
                        /\ Expr(C.DeclList[j], j, d + 1) /\ Expr(C.DeclMembers[j], j, d + 1)
                        /\ \A block \in Blocks : Stmts(C.StmtSeq[block][j], j, d + 1, block)
                        /\ \A block \in Blocks : T(j) = "WORD_ELSE_IF" => Stmts(C.ElseIf[block][j], j, d + 1, block)
    BY DEF Sound
<1>1. j \in Nat /\ j \in 0..Len(Memory)
    BY DEF Readable
<1>2. Expr(Or(P, j), j, d + 1) /\ Expr(And(P, j), j, d + 1)
    BY <1>1, OrSound
<1>3. /\ Expr(Compare(P, j), j, d + 1) /\ Expr(Bitwise(P, j), j, d + 1) /\ Expr(Modulus(P, j), j, d + 1)
      /\ Expr(Additive(P, j), j, d + 1) /\ Expr(Multiplicative(P, j), j, d + 1)
    BY <1>1, CompareSound
<1>4. Expr(Factor(P, j), j, d + 1) /\ Expr(ArrayIndex(P, j), j, d + 1) /\ Expr(ExprList(P, j), j, d + 1)
    BY <1>1, FactorSound, ArrayIndexSound, ExprListSound
<1>5. Type(TypeName(P, j), j, d + 1) /\ Expr(DeclList(P, j), j, d + 1) /\ Expr(DeclMembers(P, j), j, d + 1)
    BY <1>1, TypeNameSound, DeclListsSound
<1>6. \A block \in Blocks : Stmts(StmtSeq(P, j, block), j, d + 1, block)
    BY <1>1, StmtSeqSound
<1>7. \A block \in Blocks : T(j) = "WORD_ELSE_IF" => Stmts(ElseIf(P, j, block), j, d + 1, block)
    BY <1>1, ElseIfSound
<1> QED
    BY <1>1, <1>2, <1>3, <1>4, <1>5, <1>6, <1>7, CallsAre

\* The levels are what their definition says.
LEMMA LevelIs == Level = [d \in 0..Depth |-> IF d = 0 THEN NoCalls ELSE Calls(Level[d - 1])]
<1> DEFINE Is(f, m) == f = [d \in 0..m |-> IF d = 0 THEN NoCalls ELSE Calls(f[d - 1])]
           S == {m \in Nat : \E f : Is(f, m)}
<1>1. 0 \in S
    <2>1. Is([d \in 0..0 |-> NoCalls], 0)
        OBVIOUS
    <2> QED
        BY <2>1
<1>2. ASSUME NEW m \in Nat, m \in S PROVE m + 1 \in S
    <2>1. PICK f : Is(f, m)
        BY <1>2
    <2> DEFINE g == [d \in 0..(m + 1) |-> IF d = m + 1 THEN Calls(f[m]) ELSE f[d]]
    <2>2. ASSUME NEW d \in 0..(m + 1)
          PROVE  g[d] = IF d = 0 THEN NoCalls ELSE Calls(g[d - 1])
        <3>1. CASE d = 0
            <4>1. g[d] = f[d] /\ f[d] = NoCalls
                BY <2>1, <3>1
            <4> QED
                BY <3>1, <4>1
        <3>2. CASE d # 0 /\ d # m + 1
            <4>1. d \in 0..m /\ d - 1 \in 0..m
                BY <3>2
            <4>2. g[d] = f[d] /\ g[d - 1] = f[d - 1]
                BY <4>1
            <4>3. f[d] = Calls(f[d - 1])
                BY <2>1, <3>2, <4>1
            <4> HIDE DEF g
            <4> QED
                BY <3>2, <4>2, <4>3
        <3>3. CASE d = m + 1
            <4>1. g[d] = Calls(f[m]) /\ g[d - 1] = f[m] /\ d # 0
                BY <3>3
            <4> HIDE DEF g
            <4> QED
                BY <4>1
        <3> QED
            BY <3>1, <3>2, <3>3
    <2>3. g = [d \in 0..(m + 1) |-> g[d]]
        OBVIOUS
    <2> HIDE DEF g
    <2>4. Is(g, m + 1)
        BY <2>2, <2>3
    <2> QED
        BY <2>4
<1> HIDE DEF S
<1>3. Depth \in S
    BY <1>1, <1>2, SetInduction, DepthAssumption
<1>4. \E f : Is(f, Depth)
    BY <1>3 DEF S
<1>5. Level = CHOOSE f : Is(f, Depth)
    BY DEF Level
<1>6. Is(Level, Depth)
    <2> HIDE DEF Is
    <2> QED
        BY <1>4, <1>5
<1> QED
    BY <1>6

LEMMA LevelsSound ==
    ASSUME Readable
    PROVE  \A d \in 0..Depth : Sound(Level[d], d)
<1> DEFINE S == {d \in Nat : d <= Depth => Sound(Level[d], d)}
<1>1. 0 \in S
    <2>1. Level[0] = NoCalls
        BY LevelIs, DepthAssumption
    <2> QED
        BY <2>1, NoCallsSound
<1>2. ASSUME NEW d \in Nat, d \in S PROVE d + 1 \in S
    <2> SUFFICES ASSUME d + 1 <= Depth PROVE Sound(Level[d + 1], d + 1)
        OBVIOUS
    <2>1. d + 1 \in 0..Depth /\ d + 1 # 0 /\ (d + 1) - 1 = d /\ d <= Depth
        BY DepthAssumption
    <2>2. Level[d + 1] = Calls(Level[d])
        BY <2>1, LevelIs
    <2>3. Sound(Level[d], d)
        BY <1>2, <2>1
    <2> QED
        BY <2>2, <2>3, CallsSound
<1> HIDE DEF S
<1>3. \A d \in Nat : d \in S
    BY <1>1, <1>2, SetInduction
<1> QED
    BY <1>3, DepthAssumption DEF S

\* The call that parses the stream.
LEMMA ProgramSound ==
    ASSUME Readable
    PROVE  Stmts(Program(0), 0, Depth, "NONE")
<1> "NONE" \in Blocks /\ 0 \in 0..Len(Memory)
    BY DEF Blocks, Readable
<1>1. CASE Depth = 0
    <2>1. Level[Depth] = NoCalls
        BY <1>1, LevelIs
    <2>2. Program(0) = Overflow
        BY <2>1 DEF Program, NoCalls
    <2>3. Stmts(Overflow, 0, Depth, "NONE")
        BY <1>1 DEF Overflow, Stmts, Result, Readable
    <2> QED
        BY <2>2, <2>3
<1>2. CASE Depth # 0
    <2> DEFINE d == Depth - 1
    <2>1. d \in Nat /\ d \in 0..Depth /\ d + 1 = Depth
        BY <1>2, DepthAssumption
    <2>2. Level[Depth] = Calls(Level[d])
        BY <1>2, LevelIs, DepthAssumption
    <2>3. Program(0) = StmtSeq(Level[d], 0, "NONE")
        BY <2>2, CallsAre DEF Program
    <2>4. Sound(Level[d], d)
        BY <2>1, LevelsSound
    <2> HIDE DEF d
    <2>5. Stmts(StmtSeq(Level[d], 0, "NONE"), 0, d + 1, "NONE")
        BY <2>1, <2>4, StmtSeqSound
    <2> QED
        BY <2>1, <2>3, <2>5
<1> QED
    BY <1>1, <1>2

(***************************************************************************)
(* The invariant, and the properties that follow from it.                  *)
(***************************************************************************)

\* No EOF stands in front of the last token.
OneEof == \A n \in 1..(Len(toks) - 1) : toks[n] # "EOF"

ParserInv == Cells /\ OneEof /\ (out # NULL => Stmts(out, 0, Depth, "NONE"))

LEMMA InitInv == Init => ParserInv
<1> SUFFICES ASSUME Init PROVE ParserInv
    OBVIOUS
<1>1. PICK in \in Inputs : toks = in.toks /\ junk = in.junk /\ wrap = in.wrap
    BY DEF Init
<1>2. Cells
    BY <1>1, CellAssumption DEF Cells
<1>3. Len(toks) \in Nat
    BY <1>2, CellsReadable DEF Readable
<1>4. OneEof
    BY <1>1, <1>3, StreamAssumption DEF OneEof
<1> QED
    BY <1>2, <1>4 DEF Init, ParserInv

LEMMA StepInv == ParserInv /\ [ParseTokenStream]_vars => ParserInv'
<1> SUFFICES ASSUME ParserInv, [ParseTokenStream]_vars PROVE ParserInv'
    OBVIOUS
<1>1. toks' = toks /\ junk' = junk /\ Cells' /\ OneEof'
    BY DEF ParseTokenStream, vars, ParserInv, Cells, OneEof
<1>2. out' # NULL => Stmts(out', 0, Depth, "NONE")
    <2>1. CASE out' = out
        BY <2>1 DEF ParserInv
    <2>2. CASE out' = Program(0)
        BY <2>2, CellsReadable, ProgramSound DEF ParserInv
    <2>3. CASE Len(toks) <= 0 /\ out' = Ok(0, NULL)
        <3>1. Readable
            BY CellsReadable DEF ParserInv
        <3>2. Good(NULL, "NONE")
            BY NothingGood
        <3>3. Stmts(Ok(0, NULL), 0, Depth, "NONE")
            BY <2>3, <3>1, <3>2 DEF Ok, Stmts, Result, Readable
        <3> QED
            BY <2>3, <3>3
    <2>4. out' \in {out, Program(0)} \/ (~(Len(toks) > 0) /\ out' = Ok(0, NULL))
        BY DEF ParseTokenStream, vars
    <2>5. Len(toks) \in Nat
        BY CellsReadable DEF ParserInv, Readable
    <2>6. ~(Len(toks) > 0) => Len(toks) <= 0
        BY <2>5
    <2> QED
        BY <2>1, <2>2, <2>3, <2>4, <2>6
<1>3. (out # NULL => Stmts(out, 0, Depth, "NONE"))'
    BY <1>1, <1>2 DEF Stmts, Result, Good, Encloses, Proper, Leads, Ends, Memory, T
<1> QED
    BY <1>1, <1>3 DEF ParserInv

THEOREM ParserInvHolds == Spec => []ParserInv
<1> QED
    BY InitInv, StepInv, PTL DEF Spec

\* What the parser returned is an outcome, and what it consumed can be read
\* (sk_parse_token_stream, parser.c:905).
THEOREM ParserTypeOKHolds == Spec => []TypeOK
<1>1. ParserInv => TypeOK
    <2> SUFFICES ASSUME ParserInv, Parsed PROVE TypeOK
        BY DEF TypeOK
    <2>1. Stmts(out, 0, Depth, "NONE") /\ Len(Memory) \in Nat
        BY CellsReadable DEF ParserInv, Parsed, Readable
    <2> QED
        BY <2>1 DEF TypeOK, Stmts, Result
<1> QED
    BY <1>1, ParserInvHolds, PTL

\* The recursion of the parser never runs deeper than the cells it reads: with
\* as many levels of C stack, and for any stream, the call returns.
THEOREM StackSufficesHolds == Spec => []StackSuffices
<1>1. ParserInv => StackSuffices
    <2> SUFFICES ASSUME ParserInv, Parsed, out.st = "overflow" PROVE Depth <= Len(Memory)
        BY DEF StackSuffices
    <2>1. 0 + Depth <= Len(Memory)
        BY DEF ParserInv, Parsed, Stmts, Result
    <2> QED
        BY <2>1, DepthAssumption
<1> QED
    BY <1>1, ParserInvHolds, PTL

\* Jumps stand where the block kinds that sk_parse_stmt_block hands down allow
\* them, at any depth of any tree.
THEOREM JumpsPlacedHolds == Spec => []JumpsPlaced
<1>1. ParserInv => JumpsPlaced
    <2> SUFFICES ASSUME ParserInv, Accepted, NEW x \in Nodes(out.node, "NONE")
                 PROVE  Placed(x[1].type, x[2])
        BY DEF JumpsPlaced
    <2>1. Good(out.node, "NONE")
        BY DEF ParserInv, Accepted, Stmts
    <2>2. Proper(x[1], x[2])
        BY <2>1, NodesProper
    <2> QED
        BY <2>2 DEF Proper
<1> QED
    BY <1>1, ParserInvHolds, PTL

\* print_ast_node reads from every leaf of any tree what the lexer wrote there.
THEOREM PrintReadsWhatWasWrittenHolds == Spec => []PrintReadsWhatWasWritten
<1>1. ParserInv => PrintReadsWhatWasWritten
    <2> SUFFICES ASSUME ParserInv, Accepted, NEW x \in Nodes(out.node, "NONE")
                 PROVE  PrintReads(x[1].type) # "nothing" /\ x[2] # "NAME"
                            => PrintReads(x[1].type) = Written(T(x[1].tok))
        BY DEF PrintReadsWhatWasWritten
    <2>1. Good(out.node, "NONE")
        BY DEF ParserInv, Accepted, Stmts
    <2>2. Proper(x[1], x[2])
        BY <2>1, NodesProper
    <2> QED
        BY <2>2 DEF Proper
<1> QED
    BY <1>1, ParserInvHolds, PTL

\* A stream that ends with EOF and has no array suffix is never stepped over.
THEOREM StopsAtEofHolds == Spec => []StopsAtEof
<1>1. ParserInv => StopsAtEof
    <2> SUFFICES ASSUME ParserInv, Accepted, Len(toks) > 0, toks[Len(toks)] = "EOF",
                        \A n \in 1..Len(toks) : toks[n] # "["
                 PROVE  out.ix < Len(toks)
        BY DEF StopsAtEof
    <2>1. Len(toks) \in Nat
        BY CellsReadable DEF ParserInv, Readable
    <2>2. Ends
        BY <2>1 DEF Ends, ParserInv, OneEof
    <2>3. Result(out, 0, Depth) /\ out.st = "ok"
        BY DEF ParserInv, Accepted, Stmts
    <2> QED
        BY <2>1, <2>2, <2>3 DEF Result
<1> QED
    BY <1>1, ParserInvHolds, PTL

\* The read of token_stream[*index - 1] at index 0 (parser.c:258) happens to one
\* program only, whatever is behind the stream.
THEOREM OnlyLeadingAssignFaultsHolds == Spec => []OnlyLeadingAssignFaults
<1>1. ParserInv => OnlyLeadingAssignFaults
    <2> SUFFICES ASSUME ParserInv, Parsed, out.st = "fault"
                 PROVE  Len(toks) > 1 /\ toks[1] = "IDENT" /\ toks[2] = "="
        BY DEF OnlyLeadingAssignFaults
    <2>1. T(0) = "IDENT" /\ T(1) = "=" /\ Len(toks) > 1
        BY DEF ParserInv, Parsed, Stmts, Leads
    <2>2. toks \in Seq(STRING) /\ junk \in Seq(STRING)
        BY DEF ParserInv, Cells
    <2>3. Len(toks) \in Nat /\ Memory[1] = toks[1] /\ Memory[2] = toks[2] /\ Len(Memory) > 1
        BY <2>1, <2>2 DEF Memory
    <2> QED
        BY <2>1, <2>3 DEF T
<1> QED
    BY <1>1, ParserInvHolds, PTL

(***************************************************************************)
(* The tree and the tokens it was made from: the nodes of a tree.          *)
(***************************************************************************)
Kids(m) == {m.left, m.right} \ {NULL}
IsNode(m) == m = [type |-> m.type, left |-> m.left, right |-> m.right, tok |-> m.tok] /\ m.type # "NULL"
Closed(S) == \A m \in S : IsNode(m) /\ Kids(m) \subseteq S
Holds(S, n) == {n} \ {NULL} \subseteq S /\ Closed(S)

\* The smallest set that holds the root and, with a node, its children.
IsBelow(S, n) == Holds(S, n) /\ \A C : Holds(C, n) => S \subseteq C
Rooted(n) == \E S : Holds(S, n)
Below(n) == CHOOSE S : IsBelow(S, n)

LEMMA BelowIs ==
    ASSUME NEW n, Rooted(n)
    PROVE  IsBelow(Below(n), n)
<1>1. PICK S : Holds(S, n)
    BY DEF Rooted
<1> DEFINE B == {m \in S : \A C : Holds(C, n) => m \in C}
<1>2. {n} \ {NULL} \subseteq B
    BY <1>1 DEF Holds
<1>3. Closed(B)
    BY <1>1 DEF Holds, Closed
<1>4. \A C : Holds(C, n) => B \subseteq C
    OBVIOUS
<1> HIDE DEF B
<1>5. IsBelow(B, n)
    BY <1>2, <1>3, <1>4 DEF IsBelow, Holds
<1> QED
    BY <1>5 DEF Below

LEMMA BelowUnique ==
    ASSUME NEW n, NEW S, IsBelow(S, n)
    PROVE  Rooted(n) /\ Below(n) = S
<1>1. Rooted(n)
    BY DEF IsBelow, Rooted
<1>2. IsBelow(Below(n), n)
    BY <1>1, BelowIs
<1> QED
    BY <1>1, <1>2 DEF IsBelow

LEMMA BelowNothing == Rooted(NULL) /\ Below(NULL) = {}
<1>1. IsBelow({}, NULL)
    BY DEF IsBelow, Holds, Closed
<1> QED
    BY <1>1, BelowUnique

LEMMA BelowRoot ==
    ASSUME NEW n, n # NULL, IsNode(n), Rooted(n.left), Rooted(n.right)
    PROVE  Rooted(n) /\ Below(n) = {n} \cup Below(n.left) \cup Below(n.right)
<1> DEFINE L == Below(n.left)
           R == Below(n.right)
           S == {n} \cup L \cup R
<1>1. IsBelow(L, n.left) /\ IsBelow(R, n.right)
    BY BelowIs
<1> HIDE DEF L, R
<1>2. Holds(S, n)
    BY <1>1 DEF IsBelow, Holds, Closed, Kids
<1>3. ASSUME NEW C, Holds(C, n) PROVE S \subseteq C
    <2>1. n \in C
        BY <1>3 DEF Holds
    <2>2. Kids(n) \subseteq C /\ Closed(C)
        BY <1>3, <2>1 DEF Holds, Closed
    <2>3. Holds(C, n.left) /\ Holds(C, n.right)
        BY <2>2 DEF Holds, Kids
    <2> QED
        BY <1>1, <2>1, <2>3 DEF IsBelow
<1>4. IsBelow(S, n)
    BY <1>2, <1>3 DEF IsBelow
<1> QED
    BY <1>4, BelowUnique DEF L, R

\* A node found in a tree has its own tree.
LEMMA BelowRooted ==
    ASSUME NEW n, Rooted(n), NEW m \in Below(n)
    PROVE  Rooted(m.left) /\ Rooted(m.right)
<1>1. IsBelow(Below(n), n)
    BY BelowIs
<1>2. Holds(Below(n), m.left) /\ Holds(Below(n), m.right)
    BY <1>1 DEF IsBelow, Holds, Closed, Kids
<1> QED
    BY <1>2 DEF Rooted

LEMMA NodeIs ==
    \A type, left, right :
        type # "NULL" => LET n == Node(type, left, right)
                         IN  /\ n # NULL /\ IsNode(n)
                             /\ n.type = type /\ n.left = left /\ n.right = right /\ n.tok = -1
    BY DEF Node, NULL, IsNode

LEMMA LeafIs ==
    \A type, i :
        type # "NULL" => LET n == Leaf(type, i)
                         IN  /\ n # NULL /\ IsNode(n) /\ n.type = type /\ n.left = NULL /\ n.right = NULL /\ n.tok = i
    BY DEF Leaf, NULL, IsNode

(***************************************************************************)
(* Brackets.                                                               *)
(***************************************************************************)

\* Behind the tokens i .. j-1 the same brackets are open as in front of them,
\* whichever these are.
Balanced(i, j, N) ==
    \A f : (\A k \in i..(j - 1) : f[k + 1] = OpenBehind(f[k], k, N)) => f[j] = f[i]

LEMMA BalancedAgree ==
    ASSUME NEW i \in Nat, NEW j \in Nat, NEW M, NEW N, Balanced(i, j, M),
           \A k \in i..(j - 1) : T(k) \in Opening \cup Closing => (k \in M <=> k \in N)
    PROVE  Balanced(i, j, N)
<1>1. \A k \in i..(j - 1) : \A open : OpenBehind(open, k, M) = OpenBehind(open, k, N)
    BY DEF OpenBehind
<1> QED
    BY <1>1 DEF Balanced

LEMMA BalancedNothing == \A i \in Nat : \A N : Balanced(i, i, N)
    BY DEF Balanced

LEMMA BalancedPlain ==
    ASSUME NEW i \in Nat, NEW N, i \in N \/ T(i) \notin Opening \cup Closing
    PROVE  Balanced(i, i + 1, N)
<1>1. i \in i..((i + 1) - 1)
    OBVIOUS
<1>2. \A open : OpenBehind(open, i, N) = open
    BY DEF OpenBehind
<1> QED
    BY <1>1, <1>2 DEF Balanced

LEMMA BalancedJoin ==
    ASSUME NEW i \in Nat, NEW k \in Nat, NEW j \in Nat, i <= k, k <= j, NEW N, Balanced(i, k, N), Balanced(k, j, N)
    PROVE  Balanced(i, j, N)
<1> SUFFICES ASSUME NEW f, \A m \in i..(j - 1) : f[m + 1] = OpenBehind(f[m], m, N)
             PROVE  f[j] = f[i]
    BY DEF Balanced
<1>1. \A m \in i..(k - 1) : m \in i..(j - 1)
    OBVIOUS
<1>2. \A m \in k..(j - 1) : m \in i..(j - 1)
    OBVIOUS
<1>3. f[k] = f[i]
    BY <1>1 DEF Balanced
<1>4. f[j] = f[k]
    BY <1>2 DEF Balanced
<1> QED
    BY <1>3, <1>4

LEMMA BalancedInside ==
    ASSUME NEW i \in Nat, NEW j \in Nat, i + 1 <= j, NEW N, Balanced(i + 1, j, N), i \notin N, j \notin N,
           T(i) \in Opening, T(j) = Closer(T(i))
    PROVE  Balanced(i, j + 1, N)
<1> SUFFICES ASSUME NEW f, \A m \in i..((j + 1) - 1) : f[m + 1] = OpenBehind(f[m], m, N)
             PROVE  f[j + 1] = f[i]
    BY DEF Balanced
<1>1. i \in i..((j + 1) - 1) /\ j \in i..((j + 1) - 1) /\ \A m \in (i + 1)..(j - 1) : m \in i..((j + 1) - 1)
    OBVIOUS
<1>2. f[i + 1] = <<Closer(T(i)), f[i]>>
    BY <1>1 DEF OpenBehind
<1>3. f[j] = f[i + 1]
    BY <1>1 DEF Balanced
<1>4. T(j) \in Closing /\ T(j) \notin Opening
    BY DEF Closer, Opening, Closing
<1>5. f[j + 1] = OpenBehind(f[j], j, N)
    BY <1>1
<1>6. f[j] # <<>> /\ f[j][1] = T(j) /\ f[j][2] = f[i]
    BY <1>2, <1>3
<1>7. f[j + 1] = f[j][2]
    BY <1>4, <1>5, <1>6, Zenon DEF OpenBehind
<1> QED
    BY <1>6, <1>7, Zenon

(***************************************************************************)
(* What a tree says of the tokens it was made from.                        *)
(***************************************************************************)
Alternatives == {"ELSE", "ELSE_IF"}
Losers == {"NEGATE", "ELSE", "ELSE_IF"}
HasBelow(n, types) == \E m \in Below(n) : m.type \in types
PlacesBelow(n) == {m.tok : m \in Below(n)} \ {-1}
NamesBelow(n) == {m.right.tok : m \in {m \in Below(n) : m.type = "TYPE_VARNAME"}}
InOrder(n) == \A m \in Below(n) : \A a \in PlacesBelow(m.left), b \in PlacesBelow(m.right) : a < b

LEMMA TreeNothing ==
    /\ Rooted(NULL) /\ PlacesBelow(NULL) = {} /\ NamesBelow(NULL) = {} /\ InOrder(NULL)
    /\ \A types : ~HasBelow(NULL, types)
    BY BelowNothing DEF PlacesBelow, NamesBelow, InOrder, HasBelow

LEMMA TreeLeaf ==
    ASSUME NEW i \in Nat, NEW type, type \notin Losers \cup {"NULL", "TYPE_VARNAME"}
    PROVE  LET n == Leaf(type, i)
           IN  /\ Rooted(n) /\ PlacesBelow(n) = {i} /\ NamesBelow(n) = {} /\ InOrder(n)
               /\ ~HasBelow(n, Losers) /\ ~HasBelow(n, Alternatives)
<1> DEFINE n == Leaf(type, i)
<1>1. n # NULL /\ IsNode(n) /\ n.left = NULL /\ n.right = NULL /\ n.tok = i /\ n.type = type
    BY LeafIs
<1> HIDE DEF n
<1>2. Rooted(n) /\ Below(n) = {n}
    BY <1>1, BelowRoot, BelowNothing
<1>3. PlacesBelow(n) = {i}
    BY <1>1, <1>2 DEF PlacesBelow
<1>4. NamesBelow(n) = {}
    BY <1>1, <1>2 DEF NamesBelow
<1>5. InOrder(n)
    BY <1>1, <1>2, TreeNothing DEF InOrder
<1>6. ~HasBelow(n, Losers) /\ ~HasBelow(n, Alternatives)
    BY <1>1, <1>2 DEF HasBelow, Losers, Alternatives
<1> QED
    BY <1>2, <1>3, <1>4, <1>5, <1>6 DEF n

LEMMA TreeNode ==
    ASSUME NEW n, n # NULL, IsNode(n), n.tok = -1, Rooted(n.left), Rooted(n.right)
    PROVE  /\ Rooted(n)
           /\ PlacesBelow(n) = PlacesBelow(n.left) \cup PlacesBelow(n.right)
           /\ NamesBelow(n) = NamesBelow(n.left) \cup NamesBelow(n.right)
                                  \cup (IF n.type = "TYPE_VARNAME" THEN {n.right.tok} ELSE {})
           /\ InOrder(n) <=> /\ InOrder(n.left) /\ InOrder(n.right)
                             /\ \A a \in PlacesBelow(n.left), b \in PlacesBelow(n.right) : a < b
           /\ \A types : HasBelow(n, types) <=> \/ n.type \in types
                                               \/ HasBelow(n.left, types) \/ HasBelow(n.right, types)
<1>1. Rooted(n) /\ Below(n) = {n} \cup Below(n.left) \cup Below(n.right)
    BY BelowRoot
<1>2. PlacesBelow(n) = PlacesBelow(n.left) \cup PlacesBelow(n.right)
    BY <1>1 DEF PlacesBelow
<1>3. NamesBelow(n) = NamesBelow(n.left) \cup NamesBelow(n.right)
                          \cup (IF n.type = "TYPE_VARNAME" THEN {n.right.tok} ELSE {})
    BY <1>1 DEF NamesBelow
<1>4. InOrder(n) <=> /\ InOrder(n.left) /\ InOrder(n.right)
                     /\ \A a \in PlacesBelow(n.left), b \in PlacesBelow(n.right) : a < b
    BY <1>1 DEF InOrder
<1>5. \A types : HasBelow(n, types) <=> \/ n.type \in types
                                       \/ HasBelow(n.left, types) \/ HasBelow(n.right, types)
    BY <1>1 DEF HasBelow
<1> QED
    BY <1>1, <1>2, <1>3, <1>4, <1>5

\* The tree n was made from the tokens i .. j-1, in which the names of functions
\* are those in N: their brackets match, and n names them and the operands, each
\* in its place, as far as it does not lose any.
Named(k) == k > 0 /\ T(k + 1) = "(" /\ T(k - 1) \in TypeWords \cup {"]"}
Tokens(i, j, N) == {k \in i..(j - 1) : T(k) \in Operands \/ k \in N}
Spans(n, i, j, N) ==
    /\ i \in Nat /\ j \in Nat /\ i <= j
    /\ N \subseteq i..(j - 1) /\ \A k \in N : Named(k)
    /\ Balanced(i, j, N)
    /\ Rooted(n)
    /\ HasBelow(n, Alternatives) \/ N = NamesBelow(n)
    /\ HasBelow(n, Losers) \/ (PlacesBelow(n) = Tokens(i, j, N) /\ InOrder(n))

Plain(type) == type \notin Operands \cup Opening \cup Closing

LEMMA SpansNothing == \A i \in Nat : Spans(NULL, i, i, {})
<1> SUFFICES ASSUME NEW i \in Nat PROVE Spans(NULL, i, i, {})
    OBVIOUS
<1>1. Tokens(i, i, {}) = {}
    BY DEF Tokens
<1> QED
    BY <1>1, TreeNothing, BalancedNothing DEF Spans

\* A token that is neither an operand nor a bracket, behind the others or in
\* front of them.
LEMMA SpansBehind ==
    ASSUME NEW i, NEW j, NEW n, NEW N, Spans(n, i, j, N), Plain(T(j))
    PROVE  Spans(n, i, j + 1, N)
<1>1. i \in Nat /\ j \in Nat /\ i <= j /\ N \subseteq i..(j - 1)
    BY DEF Spans
<1>2. Balanced(i, j + 1, N)
    <2>1. Balanced(j, j + 1, N)
        BY <1>1, BalancedPlain DEF Plain
    <2> QED
        BY <1>1, <2>1, BalancedJoin DEF Spans
<1>3. j \notin N /\ T(j) \notin Operands
    BY <1>1 DEF Plain
<1>4. \A k : k \in i..((j + 1) - 1) <=> k \in i..(j - 1) \/ k = j
    BY <1>1
<1>5. Tokens(i, j + 1, N) = Tokens(i, j, N)
    BY <1>3, <1>4 DEF Tokens
<1>6. N \subseteq i..((j + 1) - 1) /\ j + 1 \in Nat /\ i <= j + 1
    BY <1>1, <1>4
<1> QED
    BY <1>2, <1>5, <1>6 DEF Spans

LEMMA SpansInFront ==
    ASSUME NEW i \in Nat, NEW j, NEW n, NEW N, Spans(n, i + 1, j, N), Plain(T(i))
    PROVE  Spans(n, i, j, N)
<1>1. i + 1 \in Nat /\ j \in Nat /\ i + 1 <= j /\ N \subseteq (i + 1)..(j - 1)
    BY DEF Spans
<1>2. Balanced(i, j, N)
    <2>1. Balanced(i, i + 1, N)
        BY BalancedPlain DEF Plain
    <2> QED
        BY <1>1, <2>1, BalancedJoin DEF Spans
<1>3. i \notin N /\ T(i) \notin Operands
    BY <1>1 DEF Plain
<1>4. \A k : k \in i..(j - 1) <=> k \in (i + 1)..(j - 1) \/ k = i
    BY <1>1
<1>5. Tokens(i, j, N) = Tokens(i + 1, j, N)
    BY <1>3, <1>4 DEF Tokens
<1>6. N \subseteq i..(j - 1) /\ i <= j
    BY <1>1, <1>4
<1> QED
    BY <1>2, <1>5, <1>6 DEF Spans

\* Brackets around the others.
LEMMA SpansInside ==
    ASSUME NEW i \in Nat, NEW j, NEW n, NEW N, Spans(n, i + 1, j, N), T(i) \in Opening, T(j) = Closer(T(i))
    PROVE  Spans(n, i, j + 1, N)
<1>1. i + 1 \in Nat /\ j \in Nat /\ i + 1 <= j /\ N \subseteq (i + 1)..(j - 1)
    BY DEF Spans
<1>2. i \notin N /\ j \notin N
    BY <1>1
<1>3. Balanced(i, j + 1, N)
    BY <1>1, <1>2, BalancedInside DEF Spans
<1>4. T(i) \notin Operands /\ T(j) \notin Operands
    BY DEF Operands, Literals, BasicTypes, Opening, Closer
<1>5. \A k : k \in i..((j + 1) - 1) <=> k \in (i + 1)..(j - 1) \/ k = i \/ k = j
    BY <1>1
<1>6. Tokens(i, j + 1, N) = Tokens(i + 1, j, N)
    BY <1>2, <1>4, <1>5 DEF Tokens
<1>7. N \subseteq i..((j + 1) - 1) /\ j + 1 \in Nat /\ i <= j + 1
    BY <1>1, <1>5
<1> QED
    BY <1>3, <1>6, <1>7 DEF Spans

LEMMA SpansLeaf ==
    ASSUME NEW i \in Nat, T(i) \in Operands, NEW type, type \notin Losers \cup {"NULL", "TYPE_VARNAME"}
    PROVE  Spans(Leaf(type, i), i, i + 1, {})
<1> DEFINE n == Leaf(type, i)
<1>1. /\ Rooted(n) /\ PlacesBelow(n) = {i} /\ NamesBelow(n) = {} /\ InOrder(n)
    BY TreeLeaf
<1>2. T(i) \notin Opening \cup Closing
    BY DEF Operands, Literals, BasicTypes, Opening, Closing
<1>3. Balanced(i, i + 1, {})
    BY <1>2, BalancedPlain
<1>4. Tokens(i, i + 1, {}) = {i}
    BY DEF Tokens
<1> HIDE DEF n
<1>5. Spans(n, i, i + 1, {})
    BY <1>1, <1>3, <1>4 DEF Spans
<1> QED
    BY <1>5 DEF n

\* What the tokens of two trees side by side amount to.
LEMMA SpansSide ==
    ASSUME NEW i, NEW k, NEW j, NEW l, NEW r, NEW M, NEW N, Spans(l, i, k, M), Spans(r, k, j, N)
    PROVE  /\ i \in Nat /\ j \in Nat /\ i <= j
           /\ M \cup N \subseteq i..(j - 1) /\ \A m \in M \cup N : Named(m)
           /\ Balanced(i, j, M \cup N)
           /\ Tokens(i, j, M \cup N) = Tokens(i, k, M) \cup Tokens(k, j, N)
           /\ \A a \in Tokens(i, k, M), b \in Tokens(k, j, N) : a < b
<1>1. /\ i \in Nat /\ k \in Nat /\ j \in Nat /\ i <= k /\ k <= j
      /\ M \subseteq i..(k - 1) /\ N \subseteq k..(j - 1)
      /\ \A m \in M \cup N : Named(m)
    BY DEF Spans
<1>2. \A m : m \in i..(j - 1) <=> m \in i..(k - 1) \/ m \in k..(j - 1)
    BY <1>1
<1>3. \A m : ~(m \in i..(k - 1) /\ m \in k..(j - 1))
    BY <1>1
<1>4. Balanced(i, k, M \cup N)
    <2>1. \A m \in i..(k - 1) : m \in M <=> m \in M \cup N
        BY <1>1, <1>3
    <2> QED
        BY <1>1, <2>1, BalancedAgree DEF Spans
<1>5. Balanced(k, j, M \cup N)
    <2>1. \A m \in k..(j - 1) : m \in N <=> m \in M \cup N
        BY <1>1, <1>3
    <2> QED
        BY <1>1, <2>1, BalancedAgree DEF Spans
<1>6. Balanced(i, j, M \cup N)
    BY <1>1, <1>4, <1>5, BalancedJoin
<1>7. Tokens(i, j, M \cup N) = Tokens(i, k, M) \cup Tokens(k, j, N)
    BY <1>1, <1>2, <1>3 DEF Tokens
<1>8. \A a \in Tokens(i, k, M), b \in Tokens(k, j, N) : a < b
    BY <1>1 DEF Tokens
<1>9. M \cup N \subseteq i..(j - 1) /\ i <= j
    BY <1>1, <1>2
<1> QED
    BY <1>1, <1>6, <1>7, <1>8, <1>9

LEMMA SpansNode ==
    ASSUME NEW i, NEW k, NEW j, NEW l, NEW r, NEW M, NEW N, Spans(l, i, k, M), Spans(r, k, j, N),
           NEW type, type \notin {"NULL", "TYPE_VARNAME"}
    PROVE  Spans(Node(type, l, r), i, j, M \cup N)
<1> DEFINE n == Node(type, l, r)
<1>1. n # NULL /\ IsNode(n) /\ n.type = type /\ n.left = l /\ n.right = r /\ n.tok = -1
    BY NodeIs
<1> HIDE DEF n
<1>2. Rooted(l) /\ Rooted(r)
    BY DEF Spans
<1>3. /\ Rooted(n)
      /\ PlacesBelow(n) = PlacesBelow(l) \cup PlacesBelow(r)
      /\ NamesBelow(n) = NamesBelow(l) \cup NamesBelow(r)
      /\ InOrder(n) <=> /\ InOrder(l) /\ InOrder(r)
                        /\ \A a \in PlacesBelow(l), b \in PlacesBelow(r) : a < b
      /\ \A types : HasBelow(l, types) \/ HasBelow(r, types) => HasBelow(n, types)
    <2>1. NamesBelow(n) = NamesBelow(l) \cup NamesBelow(r) \cup {}
        BY <1>1, <1>2, TreeNode
    <2> QED
        BY <1>1, <1>2, <2>1, TreeNode
<1>4. /\ i \in Nat /\ j \in Nat /\ i <= j
      /\ M \cup N \subseteq i..(j - 1) /\ \A m \in M \cup N : Named(m)
      /\ Balanced(i, j, M \cup N)
      /\ Tokens(i, j, M \cup N) = Tokens(i, k, M) \cup Tokens(k, j, N)
      /\ \A a \in Tokens(i, k, M), b \in Tokens(k, j, N) : a < b
    BY SpansSide
<1>5. HasBelow(n, Alternatives) \/ M \cup N = NamesBelow(n)
    BY <1>3 DEF Spans
<1>6. HasBelow(n, Losers) \/ (PlacesBelow(n) = Tokens(i, j, M \cup N) /\ InOrder(n))
    BY <1>3, <1>4 DEF Spans
<1>7. Spans(n, i, j, M \cup N)
    BY <1>3, <1>4, <1>5, <1>6 DEF Spans
<1> QED
    BY <1>7 DEF n

\* The operand of a sign is dropped.
LEMMA SpansNegate ==
    ASSUME NEW i, NEW j, NEW c, Spans(c, i, j, {})
    PROVE  Spans(Node("NEGATE", NULL, NULL), i, j, {})
<1> DEFINE n == Node("NEGATE", NULL, NULL)
<1>1. n # NULL /\ IsNode(n) /\ n.type = "NEGATE" /\ n.left = NULL /\ n.right = NULL /\ n.tok = -1
    BY NodeIs
<1> HIDE DEF n
<1>2. /\ Rooted(n) /\ HasBelow(n, Losers)
      /\ NamesBelow(n) = NamesBelow(NULL) \cup NamesBelow(NULL) \cup {}
    BY <1>1, TreeNode, TreeNothing DEF Losers
<1>3. NamesBelow(n) = {}
    BY <1>2, TreeNothing
<1>4. Spans(n, i, j, {})
    BY <1>2, <1>3 DEF Spans
<1> QED
    BY <1>4 DEF n

\* What stood in front of an alternative may be dropped.
LEMMA SpansLost ==
    ASSUME NEW i, NEW k, NEW j, NEW l, NEW r, NEW M, NEW N, Spans(l, i, k, M), Spans(r, k, j, N),
           NEW n, Rooted(n), HasBelow(n, Alternatives)
    PROVE  Spans(n, i, j, M \cup N)
<1>1. HasBelow(n, Losers)
    BY DEF HasBelow, Losers, Alternatives
<1>2. /\ i \in Nat /\ j \in Nat /\ i <= j
      /\ M \cup N \subseteq i..(j - 1) /\ \A m \in M \cup N : Named(m)
      /\ Balanced(i, j, M \cup N)
    BY SpansSide
<1> QED
    BY <1>1, <1>2 DEF Spans

\* The name of a function, which may be any token.
LEMMA SpansName ==
    ASSUME NEW i, NEW j, NEW t, NEW N, Spans(t, i, j, N), Named(j)
    PROVE  Spans(Node("TYPE_VARNAME", t, Leaf("VARNAME", j)), i, j + 1, N \cup {j})
<1> DEFINE l == Leaf("VARNAME", j)
           n == Node("TYPE_VARNAME", t, l)
           M == N \cup {j}
<1>1. i \in Nat /\ j \in Nat /\ i <= j /\ N \subseteq i..(j - 1) /\ Rooted(t)
    BY DEF Spans
<1>2. l.tok = j /\ Rooted(l) /\ PlacesBelow(l) = {j} /\ NamesBelow(l) = {} /\ InOrder(l)
    BY <1>1, LeafIs, TreeLeaf DEF Losers
<1>3. n # NULL /\ IsNode(n) /\ n.type = "TYPE_VARNAME" /\ n.left = t /\ n.right = l /\ n.tok = -1
    BY NodeIs
<1> HIDE DEF n, l
<1>4. /\ Rooted(n)
      /\ PlacesBelow(n) = PlacesBelow(t) \cup {j}
      /\ NamesBelow(n) = NamesBelow(t) \cup {} \cup {j}
      /\ InOrder(n) <=> InOrder(t) /\ InOrder(l) /\ \A a \in PlacesBelow(t), b \in {j} : a < b
      /\ \A types : HasBelow(t, types) => HasBelow(n, types)
    BY <1>1, <1>2, <1>3, TreeNode
<1>5. \A k : k \in i..((j + 1) - 1) <=> k \in i..(j - 1) \/ k = j
    BY <1>1
<1>6. j \notin i..(j - 1)
    BY <1>1
<1>7. Tokens(i, j + 1, M) = Tokens(i, j, N) \cup {j}
    BY <1>1, <1>5, <1>6 DEF Tokens
<1>8. \A a \in Tokens(i, j, N) : a < j
    BY <1>1 DEF Tokens
<1>9. Balanced(i, j + 1, M)
    <2>1. \A m \in i..(j - 1) : m \in N <=> m \in M
        BY <1>6
    <2>2. Balanced(i, j, M)
        BY <1>1, <2>1, BalancedAgree DEF Spans
    <2>3. Balanced(j, j + 1, M)
        BY <1>1, BalancedPlain
    <2> QED
        BY <1>1, <2>2, <2>3, BalancedJoin
<1>10. M \subseteq i..((j + 1) - 1) /\ j + 1 \in Nat /\ i <= j + 1
    BY <1>1, <1>5
<1>11. \A k \in M : Named(k)
    BY DEF Spans
<1> HIDE DEF M
<1>12. HasBelow(n, Alternatives) \/ M = NamesBelow(n)
    BY <1>4 DEF Spans, M
<1>13. HasBelow(n, Losers) \/ (PlacesBelow(n) = Tokens(i, j + 1, M) /\ InOrder(n))
    BY <1>2, <1>4, <1>7, <1>8 DEF Spans
<1>14. Spans(n, i, j + 1, M)
    BY <1>1, <1>4, <1>9, <1>10, <1>11, <1>12, <1>13 DEF Spans
<1> QED
    BY <1>14 DEF n, l, M

\* An alternative hung into a block is there, whatever it takes the place of.
LEMMA AlternativeBelow ==
    ASSUME NEW n, Rooted(n), NEW m, m # NULL, Rooted(m), m.type \in Alternatives
    PROVE  Rooted(WithAlternative(n, m)) /\ HasBelow(WithAlternative(n, m), Alternatives)
<1>1. m \in Below(m)
    BY BelowIs DEF IsBelow, Holds
<1>2. HasBelow(m, Alternatives)
    BY <1>1 DEF HasBelow
<1>3. CASE n = NULL
    BY <1>2, <1>3 DEF WithAlternative
<1>4. CASE n # NULL
    <2> DEFINE w == [type |-> n.type, left |-> m, right |-> n.right, tok |-> n.tok]
    <2>1. n \in Below(n)
        BY <1>4, BelowIs DEF IsBelow, Holds
    <2>2. IsNode(n)
        BY <2>1, BelowIs DEF IsBelow, Holds, Closed
    <2>3. Rooted(n.right)
        BY <2>1, BelowRooted
    <2>4. WithAlternative(n, m) = w
        BY <1>4, <2>2 DEF WithAlternative, IsNode
    <2>5. w # NULL /\ w.left = m /\ w.right = n.right /\ IsNode(w)
        BY <2>2 DEF NULL, IsNode
    <2> HIDE DEF w
    <2>6. Rooted(w) /\ Below(w) = {w} \cup Below(m) \cup Below(n.right)
        BY <2>3, <2>5, BelowRoot
    <2>7. HasBelow(w, Alternatives)
        BY <1>2, <2>6 DEF HasBelow
    <2> QED
        BY <2>4, <2>6, <2>7
<1> QED
    BY <1>3, <1>4

(***************************************************************************)
(* What is shown of every call.                                            *)
(***************************************************************************)

\* Inside of a stream every token but the last has one behind it.
LastIsEof == \A j \in Nat : j < Len(toks) /\ T(j) # "EOF" => j + 1 < Len(toks)
Stays(i, j) == LastIsEof /\ i < Len(toks) => j < Len(toks)

\* The tree returned was made from the tokens consumed.  Expressions, types and
\* variables ("part") name no functions and stay in front of EOF.
Covers(r, i, kind) ==
    r.st = "ok" => \E N : Spans(r.node, i, r.ix, N) /\ (kind = "part" => N = {} /\ Stays(i, r.ix))

LEMMA Weaker ==
    ASSUME NEW r, NEW i, Covers(r, i, "part")
    PROVE  \A kind : Covers(r, i, kind)
    BY DEF Covers

LEMMA CoversNot == \A r, i, kind : r.st # "ok" => Covers(r, i, kind)
    BY DEF Covers

LEMMA CoversErr == \A i, kind : Covers(Err, i, kind)
    BY DEF Covers, Err

LEMMA CoversStill == \A i \in Nat : \A kind : Covers(Ok(i, NULL), i, kind)
    BY SpansNothing DEF Covers, Ok, Stays

LEMMA CoversIn ==
    ASSUME NEW r, NEW i, NEW kind, Covers(r, i, kind), r.st = "ok"
    PROVE  i \in Nat /\ r.ix \in Nat /\ i <= r.ix
    BY DEF Covers, Spans

LEMMA PlainTokens ==
    \A type \in {"COMMA", "SEMICOLON", "=", ".", "!", "-", "|", "&", ">", "<", "^", "%", "+", "*", "/",
                 "WORD_REF", "WORD_CONST", "WORD_STRUCT", "WORD_RETURN", "WORD_WHILE", "WORD_IF", "WORD_ELSE",
                 "WORD_ELSE_IF", "WORD_BREAK", "WORD_CONTINUE"} : Plain(type) /\ type # "EOF"
    BY DEF Plain, Operands, Literals, BasicTypes, Opening, Closing

LEMMA OneFurther ==
    ASSUME Readable, NEW i \in Nat, T(i) # "EOF"
    PROVE  Stays(i, i + 1)
    BY DEF Stays, LastIsEof

LEMMA StaysOn ==
    ASSUME NEW i, NEW k, NEW j, Stays(i, k), Stays(k, j)
    PROVE  Stays(i, j)
    BY DEF Stays

LEMMA CoversExpect ==
    ASSUME Readable, NEW r, NEW i, NEW kind, Covers(r, i, kind), NEW type, Plain(type), type # "EOF"
    PROVE  Covers(Expect(type, r), i, kind)
<1> SUFFICES ASSUME Expect(type, r).st = "ok"
             PROVE  Covers(Expect(type, r), i, kind)
    BY CoversNot
<1>1. r.st = "ok" /\ T(r.ix) = type /\ Expect(type, r) = Ok(r.ix + 1, r.node)
    BY DEF Expect, Then, Err
<1>2. PICK N : Spans(r.node, i, r.ix, N) /\ (kind = "part" => N = {} /\ Stays(i, r.ix))
    BY <1>1 DEF Covers
<1>3. Spans(r.node, i, r.ix + 1, N)
    BY <1>1, <1>2, SpansBehind
<1>4. r.ix \in Nat
    BY <1>2 DEF Spans
<1>5. Stays(r.ix, r.ix + 1)
    BY <1>1, <1>4, OneFurther
<1>6. kind = "part" => N = {} /\ Stays(i, r.ix + 1)
    BY <1>2, <1>5, StaysOn
<1> QED
    BY <1>1, <1>3, <1>6 DEF Covers, Ok

\* Between brackets.
LEMMA CoversInside ==
    ASSUME Readable, NEW i \in Nat, T(i) \in Opening, NEW r, NEW kind, Covers(r, i + 1, kind),
           NEW type, type = Closer(T(i))
    PROVE  Covers(Expect(type, r), i, kind)
<1> SUFFICES ASSUME Expect(type, r).st = "ok"
             PROVE  Covers(Expect(type, r), i, kind)
    BY CoversNot
<1>1. r.st = "ok" /\ T(r.ix) = type /\ Expect(type, r) = Ok(r.ix + 1, r.node)
    BY DEF Expect, Then, Err
<1>2. PICK N : Spans(r.node, i + 1, r.ix, N) /\ (kind = "part" => N = {} /\ Stays(i + 1, r.ix))
    BY <1>1 DEF Covers
<1>3. Spans(r.node, i, r.ix + 1, N)
    BY <1>1, <1>2, SpansInside
<1>4. r.ix \in Nat
    BY <1>2 DEF Spans
<1>5. T(i) # "EOF" /\ T(r.ix) # "EOF"
    BY <1>1 DEF Opening, Closer
<1>6. Stays(i, i + 1) /\ Stays(r.ix, r.ix + 1)
    BY <1>4, <1>5, OneFurther
<1>7. kind = "part" => N = {} /\ Stays(i, r.ix + 1)
    BY <1>2, <1>6, StaysOn
<1> QED
    BY <1>1, <1>3, <1>7 DEF Covers, Ok

\* Behind a token that leaves no trace.
LEMMA CoversInFront ==
    ASSUME Readable, NEW i \in Nat, Plain(T(i)), T(i) # "EOF", NEW r, NEW kind, Covers(r, i + 1, kind)
    PROVE  Covers(r, i, kind)
<1> SUFFICES ASSUME r.st = "ok"
             PROVE  Covers(r, i, kind)
    BY CoversNot
<1>1. PICK N : Spans(r.node, i + 1, r.ix, N) /\ (kind = "part" => N = {} /\ Stays(i + 1, r.ix))
    BY DEF Covers
<1>2. Spans(r.node, i, r.ix, N)
    BY <1>1, SpansInFront
<1>3. kind = "part" => N = {} /\ Stays(i, r.ix)
    BY <1>1, OneFurther, StaysOn
<1> QED
    BY <1>2, <1>3 DEF Covers

LEMMA CoversNeeded ==
    ASSUME NEW i, NEW r, NEW kind, Covers(r, i, kind)
    PROVE  Covers(Needed(r), i, kind)
    BY DEF Needed, Then, Err, Covers

LEMMA CoversLeaf ==
    ASSUME Readable, NEW i \in Nat, T(i) \in Operands, NEW type, type \notin Losers \cup {"NULL", "TYPE_VARNAME"}
    PROVE  \A kind : Covers(Ok(i + 1, Leaf(type, i)), i, kind)
<1>1. Spans(Leaf(type, i), i, i + 1, {})
    BY SpansLeaf
<1>2. T(i) # "EOF"
    BY DEF Operands, Literals, BasicTypes
<1>3. Stays(i, i + 1)
    BY <1>2, OneFurther
<1> QED
    BY <1>1, <1>3 DEF Covers, Ok

\* What a node is but a leaf or the name of a function.
NodeTypes == PlainTypes \cup {"DECL_STRUCT", "DECL_FUNCTION", "RETURN", "WHILE", "IF", "BREAK", "CONTINUE"}

LEMMA SomeNodeTypes == "NULL" \notin NodeTypes /\ "TYPE_VARNAME" \notin NodeTypes
    BY DEF NodeTypes, PlainTypes

\* Two trees under one node.
LEMMA CoversJoin ==
    ASSUME NEW i, NEW a, NEW r, NEW kind, a.st = "ok", Covers(a, i, kind), Covers(r, a.ix, kind),
           r.st = "ok", NEW type \in NodeTypes
    PROVE  Covers(Ok(r.ix, Node(type, a.node, r.node)), i, kind)
<1>1. PICK M : Spans(a.node, i, a.ix, M) /\ (kind = "part" => M = {} /\ Stays(i, a.ix))
    BY DEF Covers
<1>2. PICK N : Spans(r.node, a.ix, r.ix, N) /\ (kind = "part" => N = {} /\ Stays(a.ix, r.ix))
    BY DEF Covers
<1>3. Spans(Node(type, a.node, r.node), i, r.ix, M \cup N)
    BY <1>1, <1>2, SpansNode, SomeNodeTypes
<1>4. kind = "part" => M \cup N = {} /\ Stays(i, r.ix)
    BY <1>1, <1>2, StaysOn
<1> QED
    BY <1>3, <1>4 DEF Covers, Ok

LEMMA CoversOne ==
    ASSUME NEW i, NEW a, NEW kind, a.st = "ok", Covers(a, i, kind), NEW type \in NodeTypes
    PROVE  Covers(Ok(a.ix, Node(type, a.node, NULL)), i, kind)
<1> DEFINE r == Ok(a.ix, NULL)
<1>1. a.ix \in Nat
    BY CoversIn
<1>2. Covers(r, a.ix, kind) /\ r.st = "ok" /\ r.ix = a.ix /\ r.node = NULL
    BY <1>1, CoversStill DEF Ok
<1> HIDE DEF r
<1>3. Covers(Ok(r.ix, Node(type, a.node, r.node)), i, kind)
    BY <1>2, CoversJoin
<1> QED
    BY <1>2, <1>3

\* The first child missing.
LEMMA CoversOther ==
    ASSUME NEW i \in Nat, NEW a, NEW kind, a.st = "ok", Covers(a, i, kind), NEW type \in NodeTypes
    PROVE  Covers(Ok(a.ix, Node(type, NULL, a.node)), i, kind)
<1> DEFINE r == Ok(i, NULL)
<1>1. Covers(r, i, kind) /\ r.st = "ok" /\ r.ix = i /\ r.node = NULL
    BY CoversStill DEF Ok
<1> HIDE DEF r
<1>2. Covers(Ok(a.ix, Node(type, r.node, a.node)), i, kind)
    BY <1>1, CoversJoin
<1> QED
    BY <1>1, <1>2

LEMMA CoversUnder ==
    ASSUME NEW i, NEW r, NEW kind, Covers(r, i, kind), NEW type \in NodeTypes
    PROVE  Covers(Under(type, r), i, kind)
<1>1. CASE r.st # "ok"
    BY <1>1 DEF Under, Then
<1>2. CASE r.st = "ok"
    <2>1. Under(type, r) = Ok(r.ix, Node(type, r.node, NULL))
        BY <1>2 DEF Under, Then
    <2> QED
        BY <1>2, <2>1, CoversOne
<1> QED
    BY <1>1, <1>2

\* A type ends with a word or with its array suffix, and where a word stands
\* there is a type.
TypeEnd(r, i) ==
    r.st = "ok" /\ (r.node # NULL \/ T(i) \in TypeWords) =>
        r.node # NULL /\ i < r.ix /\ T(r.ix - 1) \in TypeWords \cup {"]"}

\* An alternative, which begins with its word.
IsAlternative(r) == r.st = "ok" => r.node # NULL /\ r.node.type \in Alternatives

Covering(P) ==
    \A j \in Nat :
        /\ Covers(P.Or[j], j, "part") /\ Covers(P.And[j], j, "part") /\ Covers(P.Compare[j], j, "part")
        /\ Covers(P.Bitwise[j], j, "part") /\ Covers(P.Modulus[j], j, "part") /\ Covers(P.Additive[j], j, "part")
        /\ Covers(P.Multiplicative[j], j, "part") /\ Covers(P.Factor[j], j, "part")
        /\ Covers(P.ArrayIndex[j], j, "part") /\ Covers(P.ExprList[j], j, "part")
        /\ Covers(P.TypeName[j], j, "part") /\ TypeEnd(P.TypeName[j], j)
        /\ Covers(P.DeclList[j], j, "part") /\ Covers(P.DeclMembers[j], j, "part")
        /\ \A block \in Blocks : Covers(P.StmtSeq[block][j], j, "any")
        /\ \A block \in Blocks : T(j) = "WORD_ELSE_IF" => /\ Covers(P.ElseIf[block][j], j, "any")
                                                         /\ IsAlternative(P.ElseIf[block][j])

\* A call is closed inside of the stream.
Shut == LastIsEof \/ \A j \in Nat : j + 1 < Len(toks) => ~(T(j) = "IDENT" /\ T(j + 1) = "(")

LEMMA VarNameCovers ==
    ASSUME Readable, NEW i \in Nat, T(i) = "IDENT"
    PROVE  \A kind : Covers(VarName(i), i, kind)
<1>1. T(i) \in Operands /\ "VARNAME" \notin Losers \cup {"NULL", "TYPE_VARNAME"}
    BY DEF Operands, Losers
<1> QED
    BY <1>1, CoversLeaf DEF VarName

LEMMA ArrayIndexCovers ==
    ASSUME Readable, NEW P, Covering(P), NEW i \in Nat
    PROVE  Covers(ArrayIndex(P, i), i, "part")
<1> DEFINE e == P.Or[i + 1]
           b == Expect("]", e)
           r == P.ArrayIndex[b.ix]
           x == ArrayIndex(P, i)
<1>1. CASE T(i) # "["
    BY <1>1, CoversStill DEF ArrayIndex, Then
<1>2. CASE T(i) = "["
    <2>1. Covers(e, i + 1, "part")
        BY DEF Covering
    <2> HIDE DEF e
    <2>2. Covers(b, i, "part")
        BY <1>2, <2>1, CoversInside DEF Opening, Closer
    <2>3. x = IF b.st = "ok" THEN IF r.st = "ok" THEN Ok(r.ix, Node("ARRAY_INDEX", b.node, r.node)) ELSE r ELSE b
        BY <1>2 DEF ArrayIndex, Then, e
    <2> HIDE DEF b
    <2>4. b.st = "ok" => Covers(r, b.ix, "part")
        BY <2>2, CoversIn DEF Covering
    <2> HIDE DEF r, x
    <2>5. b.st = "ok" /\ r.st = "ok" => Covers(Ok(r.ix, Node("ARRAY_INDEX", b.node, r.node)), i, "part")
        BY <2>2, <2>4, CoversJoin DEF NodeTypes, PlainTypes
    <2>6. Covers(x, i, "part")
        BY <2>2, <2>3, <2>5, CoversNot
    <2> QED
        BY <2>6 DEF x
<1> QED
    BY <1>1, <1>2

LEMMA ArrayAccessCovers ==
    ASSUME Readable, NEW P, Covering(P), NEW i \in Nat, T(i) = "IDENT"
    PROVE  Covers(ArrayAccess(P, i), i, "part")
<1> DEFINE v == VarName(i)
           r == ArrayIndex(P, i + 1)
           x == ArrayAccess(P, i)
<1>1. Covers(v, i, "part") /\ v.st = "ok" /\ v.ix = i + 1 /\ v.node = Leaf("VARNAME", i)
    BY VarNameCovers DEF VarName, Ok
<1>2. Covers(r, v.ix, "part")
    BY <1>1, ArrayIndexCovers
<1>3. x = IF r.st = "ok" THEN Ok(r.ix, Node("ARRAY_ACCESS", v.node, r.node)) ELSE r
    BY <1>1 DEF ArrayAccess, Then
<1> HIDE DEF r, v, x
<1>4. r.st = "ok" => Covers(Ok(r.ix, Node("ARRAY_ACCESS", v.node, r.node)), i, "part")
    BY <1>1, <1>2, CoversJoin DEF NodeTypes, PlainTypes
<1>5. Covers(x, i, "part")
    BY <1>3, <1>4, CoversNot
<1> QED
    BY <1>5 DEF x

LEMMA MemberAccessCovers ==
    ASSUME Readable, NEW P, Covering(P), NEW i \in Nat, T(i) = "IDENT"
    PROVE  Covers(MemberAccess(P, i), i, "part")
<1> DEFINE m == MemberAccess(P, i)
           v == VarName(i)
           f == P.Factor[i + 2]
           r == Needed(f)
<1>1. Covers(v, i, "part") /\ v.st = "ok" /\ v.ix = i + 1 /\ v.node = Leaf("VARNAME", i)
    BY VarNameCovers DEF VarName, Ok
<1>2. CASE m = v
    BY <1>1, <1>2
<1>3. CASE m = Fault
    BY <1>3, CoversNot DEF Fault
<1>4. CASE T(i + 1) = "." /\ m = IF r.st = "ok" THEN Ok(r.ix, Node("MEMBER_ACCESS", v.node, r.node)) ELSE r
    <2>1. Covers(f, (i + 1) + 1, "part")
        <3>1. Covers(f, i + 2, "part")
            BY DEF Covering
        <3>2. i + 2 = (i + 1) + 1
            OBVIOUS
        <3> QED
            BY <3>1, <3>2
    <2>2. Covers(f, i + 1, "part")
        BY <1>4, <2>1, CoversInFront, PlainTokens
    <2> HIDE DEF f
    <2>3. Covers(r, v.ix, "part")
        BY <1>1, <2>2, CoversNeeded
    <2> HIDE DEF r, v, m
    <2>4. r.st = "ok" => Covers(Ok(r.ix, Node("MEMBER_ACCESS", v.node, r.node)), i, "part")
        BY <1>1, <2>3, CoversJoin DEF NodeTypes, PlainTypes
    <2>5. Covers(m, i, "part")
        BY <1>4, <2>4, CoversNot
    <2> QED
        BY <2>5 DEF m
<1>5. CASE m = Ok(v.ix, Node("MEMBER_ACCESS", v.node, NULL))
    <2> HIDE DEF v, m
    <2>1. Covers(m, i, "part")
        BY <1>1, <1>5, CoversOne DEF NodeTypes, PlainTypes
    <2> QED
        BY <2>1 DEF m
<1>6. CASE m = ArrayAccess(P, i)
    BY <1>6, ArrayAccessCovers
<1>7. \/ m = VarName(i)
      \/ m = Fault
      \/ T(i + 1) = "." /\ m = IF r.st = "ok" THEN Ok(r.ix, Node("MEMBER_ACCESS", Leaf("VARNAME", i), r.node)) ELSE r
      \/ m = Ok(i + 1, Node("MEMBER_ACCESS", Leaf("VARNAME", i), NULL))
      \/ m = ArrayAccess(P, i)
    BY DEF MemberAccess, Then
<1> QED
    BY <1>1, <1>2, <1>3, <1>4, <1>5, <1>6, <1>7

LEMMA FactorCovers ==
    ASSUME Readable, NEW P, Covering(P), NEW i \in Nat
    PROVE  Covers(Factor(P, i), i, "part")
<1> DEFINE f == Factor(P, i)
           list == P.ExprList[i + 1]
           inner == P.Or[i + 1]
<1>1. CASE f = Ok(i, NULL)
    BY <1>1, CoversStill
<1>2. CASE f = Err
    BY <1>2, CoversErr
<1>3. CASE T(i) \in Literals /\ f = Ok(i + 1, Leaf(T(i), i))
    <2>1. T(i) \in Operands /\ T(i) \notin Losers \cup {"NULL", "TYPE_VARNAME"}
        BY <1>3 DEF Operands, Literals, Losers
    <2>2. Covers(Ok(i + 1, Leaf(T(i), i)), i, "part")
        BY <2>1, CoversLeaf
    <2> QED
        BY <1>3, <2>2
<1>4. CASE T(i) = "IDENT" /\ f \in {MemberAccess(P, i), VarName(i)}
    BY <1>4, MemberAccessCovers, VarNameCovers
<1>5. Covers(list, i + 1, "part") /\ Covers(inner, i + 1, "part")
    BY DEF Covering
<1> HIDE DEF list, inner
<1>6. CASE T(i) = "LCURLY" /\ f \in {Err, Expect("RCURLY", Under("CONST_STRUCT", list))}
    <2>1. Covers(Under("CONST_STRUCT", list), i + 1, "part")
        BY <1>5, CoversUnder DEF NodeTypes, PlainTypes
    <2>2. Covers(Expect("RCURLY", Under("CONST_STRUCT", list)), i, "part")
        BY <1>6, <2>1, CoversInside DEF Opening, Closer
    <2> QED
        BY <1>6, <2>2, CoversErr
<1>7. CASE T(i) = "[" /\ f \in {Err, Expect("]", Under("CONST_ARRAY", list))}
    <2>1. Covers(Under("CONST_ARRAY", list), i + 1, "part")
        BY <1>5, CoversUnder DEF NodeTypes, PlainTypes
    <2>2. Covers(Expect("]", Under("CONST_ARRAY", list)), i, "part")
        BY <1>7, <2>1, CoversInside DEF Opening, Closer
    <2> QED
        BY <1>7, <2>2, CoversErr
<1>8. CASE T(i) = "(" /\ f = Expect(")", inner)
    BY <1>5, <1>8, CoversInside DEF Opening, Closer
<1>9. \/ f = Ok(i, NULL)
      \/ f = Err
      \/ T(i) \in Literals /\ f = Ok(i + 1, Leaf(T(i), i))
      \/ T(i) = "IDENT" /\ f \in {MemberAccess(P, i), VarName(i)}
      \/ T(i) = "LCURLY" /\ f = ExpectInside("RCURLY", Under("CONST_STRUCT", list))
      \/ T(i) = "[" /\ f = ExpectInside("]", Under("CONST_ARRAY", list))
      \/ T(i) = "(" /\ f = Expect(")", inner)
    BY DEF Factor, ConstStruct, ConstArray, Literals, list, inner
<1> HIDE DEF f
<1>10. /\ f = ExpectInside("RCURLY", Under("CONST_STRUCT", list))
              => f \in {Err, Expect("RCURLY", Under("CONST_STRUCT", list))}
       /\ f = ExpectInside("]", Under("CONST_ARRAY", list))
              => f \in {Err, Expect("]", Under("CONST_ARRAY", list))}
    BY InsideOrErr
<1> QED
    BY <1>1, <1>2, <1>3, <1>4, <1>6, <1>7, <1>8, <1>9, <1>10 DEF f

\* The bracket that closes a call is looked at inside of the stream only.
LEMMA CallCovers ==
    ASSUME Readable, Shut, NEW P, Covering(P), NEW i \in Nat
    PROVE  Covers(Call(P, i), i, "part")
<1> DEFINE c == Call(P, i)
           v == VarName(i)
           none == Ok(i + 2, NULL)
           list == P.ExprList[i + 2]
           called == i + 1 < Len(toks) /\ T(i) = "IDENT" /\ T(i + 1) = "("
<1>1. CASE c = Factor(P, i)
    BY <1>1, FactorCovers
<1>2. T(i) = "IDENT" => Covers(v, i, "part") /\ v.st = "ok" /\ v.ix = i + 1 /\ v.node = Leaf("VARNAME", i)
    BY VarNameCovers DEF VarName, Ok
<1> HIDE DEF v
<1>3. i + 1 \in Nat /\ i + 2 \in Nat /\ i + 2 = (i + 1) + 1
    OBVIOUS
<1>4. ASSUME NEW r, called, Covers(r, i + 2, "part"), r.st = "ok", T(r.ix) = ")",
             c = Ok(r.ix + 1, Node("CALL", v.node, r.node))
      PROVE  Covers(c, i, "part")
    <2> DEFINE e == Expect(")", r)
    <2>1. Covers(r, (i + 1) + 1, "part")
        BY <1>3, <1>4
    <2>2. T(i + 1) \in Opening /\ ")" = Closer(T(i + 1))
        BY <1>4 DEF Opening, Closer
    <2>3. Covers(e, i + 1, "part")
        BY <1>3, <2>1, <2>2, CoversInside
    <2>4. e.st = "ok" /\ e.ix = r.ix + 1 /\ e.node = r.node
        BY <1>4 DEF Expect, Then, Ok
    <2> HIDE DEF e, c
    <2>5. Covers(Ok(e.ix, Node("CALL", v.node, e.node)), i, "part")
        BY <1>2, <1>4, <2>3, <2>4, CoversJoin DEF NodeTypes, PlainTypes
    <2> QED
        BY <1>4, <2>4, <2>5
<1>5. CASE called /\ T(i + 2) = ")" /\ c = Ok(i + 3, Node("CALL", v.node, NULL))
    <2>1. /\ Covers(none, i + 2, "part") /\ none.st = "ok" /\ T(none.ix) = ")" /\ none.ix + 1 = i + 3
          /\ none.node = NULL
        BY <1>3, <1>5, CoversStill DEF Ok
    <2> HIDE DEF none
    <2> QED
        BY <1>4, <1>5, <2>1
<1>6. CASE called /\ c = IF list.st = "ok"
                         THEN IF list.ix < Len(toks) /\ T(list.ix) # ")" THEN Err
                              ELSE Ok(list.ix + 1, Node("CALL", v.node, list.node))
                         ELSE list
    <2>1. Covers(list, i + 2, "part")
        BY <1>3 DEF Covering
    <2> HIDE DEF list
    <2>2. LastIsEof
        BY <1>6 DEF Shut
    <2>3. i + 2 < Len(toks)
        BY <1>3, <1>6, <2>2 DEF LastIsEof
    <2>4. list.st = "ok" => list.ix < Len(toks)
        BY <2>1, <2>2, <2>3 DEF Covers, Stays
    <2>5. CASE c = Err
        BY <2>5, CoversErr
    <2>6. CASE list.st # "ok" /\ c = list
        BY <2>6, CoversNot
    <2>7. CASE list.st = "ok" /\ T(list.ix) = ")" /\ c = Ok(list.ix + 1, Node("CALL", v.node, list.node))
        BY <1>4, <1>6, <2>1, <2>7
    <2> HIDE DEF c
    <2> QED
        BY <1>6, <2>4, <2>5, <2>6, <2>7
<1>7. \/ c = Factor(P, i)
      \/ called /\ T(i + 2) = ")" /\ c = Ok(i + 3, Node("CALL", v.node, NULL))
      \/ called /\ c = IF list.st = "ok"
                       THEN IF list.ix < Len(toks) /\ T(list.ix) # ")" THEN Err
                            ELSE Ok(list.ix + 1, Node("CALL", v.node, list.node))
                       ELSE list
    BY <1>2 DEF Call, Then
<1> QED
    BY <1>1, <1>5, <1>6, <1>7

LEMMA NegateCovers ==
    ASSUME Readable, Shut, NEW P, Covering(P), NEW i \in Nat
    PROVE  Covers(Negate(P, i), i, "part")
<1> DEFINE n == Negate(P, i)
           r == Call(P, i + 1)
<1>1. CASE n = Ok(i, NULL)
    BY <1>1, CoversStill
<1>2. CASE n = Call(P, i)
    BY <1>2, CallCovers
<1>3. CASE T(i) = "-" /\ n = IF r.st = "ok" THEN Ok(r.ix, Node("NEGATE", NULL, NULL)) ELSE r
    <2>1. Covers(r, i + 1, "part")
        BY CallCovers
    <2> HIDE DEF n, r
    <2>2. Covers(r, i, "part")
        BY <1>3, <2>1, CoversInFront, PlainTokens
    <2>3. CASE r.st # "ok" /\ n = r
        BY <2>3, CoversNot DEF n
    <2>4. CASE r.st = "ok" /\ n = Ok(r.ix, Node("NEGATE", NULL, NULL))
        <3>1. Spans(r.node, i, r.ix, {}) /\ Stays(i, r.ix)
            BY <2>2, <2>4 DEF Covers
        <3>2. Spans(Node("NEGATE", NULL, NULL), i, r.ix, {})
            BY <3>1, SpansNegate
        <3>3. Covers(n, i, "part")
            BY <2>4, <3>1, <3>2 DEF Covers, Ok
        <3> QED
            BY <3>3 DEF n
    <2> QED
        BY <1>3, <2>3, <2>4
<1> QED
    BY <1>1, <1>2, <1>3 DEF Negate, Then

\* One call behind the other, each for a child of the node.
LEMMA CoversBoth ==
    ASSUME NEW i, NEW a, NEW r, NEW kind, Covers(a, i, kind), a.st = "ok" => Covers(r, a.ix, kind),
           NEW type \in NodeTypes, NEW x,
           x = IF a.st = "ok" THEN IF r.st = "ok" THEN Ok(r.ix, Node(type, a.node, r.node)) ELSE r ELSE a
    PROVE  Covers(x, i, kind)
<1>1. CASE a.st # "ok" \/ r.st # "ok"
    BY <1>1, CoversNot
<1>2. CASE a.st = "ok" /\ r.st = "ok"
    BY <1>2, CoversJoin
<1> QED
    BY <1>1, <1>2

\* The signs of an operator leave no trace.
LEMMA OpPlain ==
    \A op \in Ops : \/ Len(op.signs) = 1 /\ Plain(op.signs[1])
                    \/ Len(op.signs) = 2 /\ Plain(op.signs[1]) /\ Plain(op.signs[2])
<1> SUFFICES ASSUME NEW op \in Ops
             PROVE  \/ Len(op.signs) = 1 /\ Plain(op.signs[1])
                    \/ Len(op.signs) = 2 /\ Plain(op.signs[1]) /\ Plain(op.signs[2])
    OBVIOUS
<1>1. \/ \E a \in {"^", "|", "&", "%", "+", "-", "*", "/", ">", "<"}, t \in PlainTypes : op = One(a, t)
      \/ \E a, b \in {"|", "&", "=", "!", ">", "<"}, t \in PlainTypes : op = Two(a, b, t)
    BY DEF Ops, OrOps, AndOps, CompareOps, BitwiseOps, ModulusOps, AdditiveOps, MultiplicativeOps, PlainTypes
<1> QED
    BY <1>1, PlainTokens DEF One, Two

LEMMA CoversOp ==
    ASSUME Readable, NEW ops \in SUBSET Ops, NEW j \in Nat, Spelled(ops, j) # {}
    PROVE  LET op == Longest(Spelled(ops, j))
           IN  /\ op.type \in NodeTypes /\ j + Len(op.signs) \in Nat
               /\ \A r : Covers(r, j + Len(op.signs), "part") => Covers(r, j, "part")
<1> DEFINE op == Longest(Spelled(ops, j))
<1>1. op \in Spelled(ops, j)
    <2>1. Spelled(ops, j) \in SUBSET Ops
        BY DEF Spelled
    <2> QED
        BY <2>1, LongestSpelled
<1>2. op \in Ops /\ \A k \in 1..Len(op.signs) : T(j + k - 1) = op.signs[k]
    BY <1>1 DEF Spelled
<1> HIDE DEF op
<1>3. op.type \in NodeTypes
    BY <1>2, OpSigns DEF NodeTypes
<1>4. CASE Len(op.signs) = 1 /\ Plain(op.signs[1]) /\ op.signs[1] # "EOF"
    <2>1. T(j) = op.signs[1]
        <3>1. 1 \in 1..Len(op.signs) /\ j + 1 - 1 = j
            BY <1>4
        <3> QED
            BY <1>2, <3>1
    <2>2. j + Len(op.signs) = j + 1 /\ j + 1 \in Nat
        BY <1>4
    <2>3. \A r : Covers(r, j + 1, "part") => Covers(r, j, "part")
        BY <1>4, <2>1, CoversInFront
    <2> QED
        BY <1>3, <2>2, <2>3 DEF op
<1>5. CASE /\ Len(op.signs) = 2 /\ Plain(op.signs[1]) /\ op.signs[1] # "EOF"
           /\ Plain(op.signs[2]) /\ op.signs[2] # "EOF"
    <2>1. T(j) = op.signs[1] /\ T(j + 1) = op.signs[2]
        <3>1. 1 \in 1..Len(op.signs) /\ j + 1 - 1 = j /\ 2 \in 1..Len(op.signs) /\ j + 2 - 1 = j + 1
            BY <1>5
        <3> QED
            BY <1>2, <3>1
    <2>2. j + Len(op.signs) = (j + 1) + 1 /\ j + 1 \in Nat /\ (j + 1) + 1 \in Nat
        BY <1>5
    <2>3. \A r : Covers(r, j + 1, "part") => Covers(r, j, "part")
        BY <1>5, <2>1, CoversInFront
    <2>4. \A r : Covers(r, (j + 1) + 1, "part") => Covers(r, j + 1, "part")
        BY <1>5, <2>1, <2>2, CoversInFront
    <2> QED
        BY <1>3, <2>2, <2>3, <2>4 DEF op
<1> QED
    BY <1>2, <1>4, <1>5, OpSigns, OpPlain

LEMMA BinaryCovers ==
    ASSUME Readable, NEW i \in Nat, NEW ops \in SUBSET Ops, NEW lhs, Covers(lhs, i, "part"),
           NEW again, \A j \in Nat : Covers(again[j], j, "part")
    PROVE  Covers(Binary(lhs, ops, again), i, "part")
<1> DEFINE op == Longest(Spelled(ops, lhs.ix))
           at == lhs.ix + Len(op.signs)
           rhs == Needed(again[at])
           b == Binary(lhs, ops, again)
<1>1. b = IF lhs.st = "ok"
          THEN IF AtEnd(lhs.ix) \/ Spelled(ops, lhs.ix) = {} THEN lhs
               ELSE IF rhs.st = "ok" THEN Ok(rhs.ix, Node(op.type, lhs.node, rhs.node)) ELSE rhs
          ELSE lhs
    BY DEF Binary, Then
<1> HIDE DEF b
<1>2. CASE b = lhs
    BY <1>2 DEF b
<1>3. CASE lhs.st = "ok" /\ Spelled(ops, lhs.ix) # {} /\ b # lhs
    <2>1. lhs.ix \in Nat
        BY <1>3, CoversIn
    <2>2. /\ op.type \in NodeTypes /\ at \in Nat
          /\ \A r : Covers(r, at, "part") => Covers(r, lhs.ix, "part")
        BY <1>3, <2>1, CoversOp
    <2> HIDE DEF op, at
    <2>3. Covers(again[at], at, "part")
        BY <2>2
    <2>4. Covers(rhs, at, "part")
        BY <2>3, CoversNeeded
    <2>5. Covers(rhs, lhs.ix, "part")
        BY <2>2, <2>4
    <2>6. b = IF lhs.st = "ok" THEN IF rhs.st = "ok" THEN Ok(rhs.ix, Node(op.type, lhs.node, rhs.node)) ELSE rhs
              ELSE lhs
        BY <1>1, <1>3
    <2> HIDE DEF rhs
    <2> QED
        BY <2>2, <2>5, <2>6, CoversBoth DEF b
<1> HIDE DEF op, rhs
<1> QED
    BY <1>1, <1>2, <1>3 DEF b

LEMMA CompareCovers ==
    ASSUME Readable, Shut, NEW P, Covering(P), NEW i \in Nat
    PROVE  /\ Covers(Multiplicative(P, i), i, "part") /\ Covers(Additive(P, i), i, "part")
           /\ Covers(Modulus(P, i), i, "part") /\ Covers(Bitwise(P, i), i, "part") /\ Covers(Compare(P, i), i, "part")
<1>1. \A j \in Nat : /\ Covers(P.Multiplicative[j], j, "part") /\ Covers(P.Additive[j], j, "part")
                     /\ Covers(P.Modulus[j], j, "part") /\ Covers(P.Bitwise[j], j, "part")
                     /\ Covers(P.Compare[j], j, "part")
    BY DEF Covering
<1>2. Covers(Multiplicative(P, i), i, "part")
    BY <1>1, NegateCovers, BinaryCovers, OpLevels DEF Multiplicative
<1>3. Covers(Additive(P, i), i, "part")
    BY <1>1, <1>2, BinaryCovers, OpLevels DEF Additive
<1>4. Covers(Modulus(P, i), i, "part")
    BY <1>1, <1>3, BinaryCovers, OpLevels DEF Modulus
<1>5. Covers(Bitwise(P, i), i, "part")
    BY <1>1, <1>4, BinaryCovers, OpLevels DEF Bitwise
<1>6. Covers(Compare(P, i), i, "part")
    BY <1>1, <1>5, BinaryCovers, OpLevels DEF Compare
<1> QED
    BY <1>2, <1>3, <1>4, <1>5, <1>6

LEMMA NotCovers ==
    ASSUME Readable, Shut, NEW P, Covering(P), NEW i \in Nat
    PROVE  Covers(Not(P, i), i, "part")
<1> DEFINE n == Not(P, i)
           c == Compare(P, i + 1)
<1>1. CASE n = Ok(i, NULL)
    BY <1>1, CoversStill
<1>2. CASE n = Compare(P, i)
    BY <1>2, CompareCovers
<1>3. CASE T(i) = "!" /\ n = Under("NOT", Needed(c))
    <2>1. Covers(c, i + 1, "part")
        BY CompareCovers
    <2> HIDE DEF c
    <2>2. Covers(c, i, "part")
        BY <1>3, <2>1, CoversInFront, PlainTokens
    <2>3. Covers(Under("NOT", Needed(c)), i, "part")
        BY <2>2, CoversNeeded, CoversUnder DEF NodeTypes, PlainTypes
    <2> QED
        BY <1>3, <2>3
<1> QED
    BY <1>1, <1>2, <1>3 DEF Not

LEMMA OrCovers ==
    ASSUME Readable, Shut, NEW P, Covering(P), NEW i \in Nat
    PROVE  Covers(And(P, i), i, "part") /\ Covers(Or(P, i), i, "part")
<1>1. \A j \in Nat : Covers(P.And[j], j, "part") /\ Covers(P.Or[j], j, "part")
    BY DEF Covering
<1>2. Covers(And(P, i), i, "part")
    BY <1>1, NotCovers, BinaryCovers, OpLevels DEF And
<1>3. Covers(Or(P, i), i, "part")
    BY <1>1, <1>2, BinaryCovers, OpLevels DEF Or
<1> QED
    BY <1>2, <1>3

LEMMA CoversBare ==
    ASSUME NEW i \in Nat, NEW kind, NEW type \in NodeTypes
    PROVE  Covers(Ok(i, Node(type, NULL, NULL)), i, kind)
<1> DEFINE a == Ok(i, NULL)
<1>1. Covers(a, i, kind) /\ a.st = "ok" /\ a.ix = i /\ a.node = NULL
    BY CoversStill DEF Ok
<1> HIDE DEF a
<1>2. Covers(Ok(a.ix, Node(type, a.node, NULL)), i, kind)
    BY <1>1, CoversOne
<1> QED
    BY <1>1, <1>2

\* Another element behind a separator.
LEMMA CoversMore ==
    ASSUME Readable, NEW i, NEW e, Covers(e, i, "part"), e.st = "ok", T(e.ix) \in {"COMMA", "SEMICOLON"},
           NEW r, Covers(r, e.ix + 1, "part"), NEW type \in NodeTypes
    PROVE  Covers(IF r.st = "ok" THEN Ok(r.ix, Node(type, e.node, r.node)) ELSE r, i, "part")
<1>1. e.ix \in Nat
    BY CoversIn
<1>2. Plain(T(e.ix)) /\ T(e.ix) # "EOF"
    BY PlainTokens
<1>3. Covers(r, e.ix, "part")
    BY <1>1, <1>2, CoversInFront
<1> QED
    BY <1>3, CoversBoth

LEMMA ExprListCovers ==
    ASSUME Readable, Shut, NEW P, Covering(P), NEW i \in Nat
    PROVE  Covers(ExprList(P, i), i, "part")
<1> DEFINE l == ExprList(P, i)
           e == Or(P, i)
           r == P.ExprList[e.ix + 1]
<1>1. Covers(e, i, "part")
    BY OrCovers
<1>2. l = IF AtEnd(i) THEN Ok(i, Node("EXPR_LIST", NULL, NULL))
          ELSE IF e.st = "ok"
               THEN IF e.node = NULL THEN e
                    ELSE IF T(e.ix) = "COMMA"
                         THEN IF r.st = "ok" THEN Ok(r.ix, Node("EXPR_LIST", e.node, r.node)) ELSE r
                         ELSE Ok(e.ix, Node("EXPR_LIST", e.node, NULL))
               ELSE e
    BY DEF ExprList, Then
<1> HIDE DEF l, e
<1>3. CASE l = Ok(i, Node("EXPR_LIST", NULL, NULL))
    BY <1>3, CoversBare DEF NodeTypes, PlainTypes, l
<1>4. CASE l = e
    BY <1>1, <1>4 DEF l
<1>5. CASE e.st = "ok" /\ l = Ok(e.ix, Node("EXPR_LIST", e.node, NULL))
    BY <1>1, <1>5, CoversOne DEF NodeTypes, PlainTypes, l
<1>6. CASE /\ e.st = "ok" /\ T(e.ix) = "COMMA"
           /\ l = IF r.st = "ok" THEN Ok(r.ix, Node("EXPR_LIST", e.node, r.node)) ELSE r
    <2>1. e.ix + 1 \in Nat
        BY <1>1, <1>6, CoversIn
    <2>2. Covers(r, e.ix + 1, "part")
        BY <2>1 DEF Covering
    <2> HIDE DEF r
    <2>3. Covers(l, i, "part")
        BY <1>1, <1>6, <2>2, CoversMore DEF NodeTypes, PlainTypes
    <2> QED
        BY <2>3 DEF l
<1> HIDE DEF r
<1> QED
    BY <1>2, <1>3, <1>4, <1>5, <1>6 DEF l

LEMMA PlainTypeCovers ==
    ASSUME Readable, NEW P, Covering(P), NEW i \in Nat
    PROVE  Covers(PlainType(P, i), i, "part") /\ TypeEnd(PlainType(P, i), i)
<1> DEFINE t == PlainType(P, i)
           r == P.TypeName[i + 1]
           v == VarName(i)
<1>1. CASE T(i) \notin TypeWords /\ t = Ok(i, NULL)
    BY <1>1, CoversStill DEF TypeEnd, Ok
<1>2. ASSUME T(i) \in TypeWords, t.st = "ok", t.ix = i + 1, t.node # NULL
      PROVE  TypeEnd(t, i)
    <2> HIDE DEF t
    <2>1. (i + 1) - 1 = i /\ i < i + 1
        OBVIOUS
    <2>2. T(t.ix - 1) \in TypeWords
        BY <1>2, <2>1
    <2>3. TypeEnd(t, i)
        BY <1>2, <2>1, <2>2 DEF TypeEnd
    <2> QED
        BY <2>3
<1>3. CASE T(i) \in BasicTypes /\ t = Ok(i + 1, Leaf("TYPE", i))
    <2>1. T(i) \in TypeWords /\ T(i) \in Operands
        BY <1>3 DEF TypeWords, Operands
    <2>2. Covers(Ok(i + 1, Leaf("TYPE", i)), i, "part") /\ Leaf("TYPE", i) # NULL
        BY <2>1, CoversLeaf, LeafIs DEF Losers
    <2>3. TypeEnd(t, i)
        BY <1>2, <1>3, <2>1, <2>2 DEF Ok
    <2> QED
        BY <1>3, <2>2, <2>3
<1>4. CASE T(i) = "IDENT" /\ t = Ok(i + 1, Node("TYPE_USER", Leaf("VARNAME", i), NULL))
    <2>1. T(i) \in TypeWords
        BY <1>4 DEF TypeWords
    <2>2. Covers(v, i, "part") /\ v.st = "ok" /\ v.ix = i + 1 /\ v.node = Leaf("VARNAME", i)
        BY <1>4, VarNameCovers DEF VarName, Ok
    <2>3. TypeEnd(t, i)
        BY <1>2, <1>4, <2>1, NodeIs DEF Ok
    <2> HIDE DEF t, v
    <2>4. t = Ok(v.ix, Node("TYPE_USER", v.node, NULL))
        BY <1>4, <2>2
    <2>5. Covers(t, i, "part")
        BY <2>2, <2>4, CoversOne DEF NodeTypes, PlainTypes
    <2> QED
        BY <2>3, <2>5 DEF t
<1>5. ASSUME NEW type \in {"DECL_REFERENCE", "DECL_CONST"},
             T(i) \in {"WORD_REF", "WORD_CONST"}, t = Under(type, Needed(r))
      PROVE  Covers(t, i, "part") /\ TypeEnd(t, i)
    <2>1. i + 1 \in Nat
        OBVIOUS
    <2>2. Covers(r, i + 1, "part") /\ TypeEnd(r, i + 1)
        BY <2>1 DEF Covering
    <2> HIDE DEF r, t
    <2>3. Covers(Needed(r), i, "part")
        BY <1>5, <2>2, CoversInFront, CoversNeeded, PlainTokens
    <2>4. type \in NodeTypes
        BY <1>5 DEF NodeTypes, PlainTypes
    <2>5. Covers(t, i, "part")
        BY <1>5, <2>3, <2>4, CoversUnder
    <2>6. t.st = "ok" => r.st = "ok" /\ r.node # NULL /\ t.ix = r.ix /\ t.node = Node(type, r.node, NULL)
        BY <1>5 DEF Under, Needed, Then, Ok, Err
    <2>7. Node(type, r.node, NULL) # NULL
        BY <2>4, NodeIs, SomeNodeTypes
    <2>8. t.st = "ok" => i + 1 < r.ix /\ T(r.ix - 1) \in TypeWords \cup {"]"} /\ r.ix \in Nat
        BY <2>2, <2>6, CoversIn DEF TypeEnd
    <2>9. TypeEnd(t, i)
        BY <2>6, <2>7, <2>8 DEF TypeEnd
    <2> QED
        BY <2>5, <2>9 DEF t
<1> HIDE DEF r, v
<1>6. \/ T(i) \notin TypeWords /\ t = Ok(i, NULL)
      \/ T(i) \in BasicTypes /\ t = Ok(i + 1, Leaf("TYPE", i))
      \/ T(i) = "IDENT" /\ t = Ok(i + 1, Node("TYPE_USER", Leaf("VARNAME", i), NULL))
      \/ T(i) = "WORD_REF" /\ t = Under("DECL_REFERENCE", Needed(r))
      \/ T(i) = "WORD_CONST" /\ t = Under("DECL_CONST", Needed(r))
    BY DEF PlainType, BasicTypes, TypeWords, r
<1> HIDE DEF t
<1> QED
    BY <1>1, <1>3, <1>4, <1>5, <1>6 DEF t

LEMMA TypeNameCovers ==
    ASSUME Readable, Shut, NEW P, Covering(P), NEW i \in Nat
    PROVE  Covers(TypeName(P, i), i, "part") /\ TypeEnd(TypeName(P, i), i)
<1> DEFINE n == TypeName(P, i)
           t == PlainType(P, i)
           none == Expect("]", Ok(t.ix + 1, NULL))
           size == Or(P, t.ix + 1)
           e == Expect("]", size)
           suffixed == t.st = "ok" /\ t.node # NULL /\ T(t.ix) = "["
<1>1. Covers(t, i, "part") /\ TypeEnd(t, i)
    BY PlainTypeCovers
<1> HIDE DEF t
<1>2. CASE n = t
    BY <1>1, <1>2
<1>3. ASSUME NEW s, Covers(s, t.ix + 1, "part"), suffixed, NEW type \in {"NOSIZED_ARRAY", "SIZED_ARRAY"},
             n = IF Expect("]", s).st = "ok"
                 THEN Ok(Expect("]", s).ix, Node(type, t.node, Expect("]", s).node)) ELSE Expect("]", s)
      PROVE  Covers(n, i, "part") /\ TypeEnd(n, i)
    <2> DEFINE x == Expect("]", s)
    <2>1. t.ix \in Nat /\ i < t.ix
        BY <1>1, <1>3, CoversIn DEF TypeEnd
    <2>2. Covers(x, t.ix, "part")
        BY <1>3, <2>1, CoversInside DEF Opening, Closer
    <2>3. x.st = "ok" => T(s.ix) = "]" /\ x.ix = s.ix + 1 /\ s.st = "ok"
        BY DEF Expect, Then, Ok, Err
    <2> HIDE DEF n, x
    <2>4. type \in NodeTypes
        BY <1>3 DEF NodeTypes, PlainTypes
    <2>5. n = IF t.st = "ok" THEN IF x.st = "ok" THEN Ok(x.ix, Node(type, t.node, x.node)) ELSE x ELSE t
        BY <1>3 DEF x
    <2>6. Covers(n, i, "part")
        BY <1>1, <2>2, <2>4, <2>5, CoversBoth
    <2>7. n.st = "ok" => x.st = "ok" /\ n.ix = x.ix /\ n.node = Node(type, t.node, x.node)
        BY <1>3, <2>5 DEF Ok
    <2>8. Node(type, t.node, x.node) # NULL
        BY <2>4, NodeIs, SomeNodeTypes
    <2>9. x.st = "ok" => s.ix \in Nat /\ t.ix <= x.ix
        BY <1>3, <2>2, <2>3, CoversIn
    <2>10. x.st = "ok" => x.ix - 1 = s.ix /\ i < x.ix
        BY <2>1, <2>3, <2>9
    <2>11. TypeEnd(n, i)
        BY <2>3, <2>7, <2>8, <2>10 DEF TypeEnd
    <2> QED
        BY <2>6, <2>11 DEF n
<1>4. CASE suffixed /\ T(t.ix + 1) = "]" /\ n = Ok(t.ix + 2, Node("NOSIZED_ARRAY", t.node, NULL))
    <2>1. t.ix + 1 \in Nat /\ (t.ix + 1) + 1 = t.ix + 2
        BY <1>1, <1>4, CoversIn
    <2>2. Covers(Ok(t.ix + 1, NULL), t.ix + 1, "part")
        BY <2>1, CoversStill
    <2>3. none.st = "ok" /\ none.ix = t.ix + 2 /\ none.node = NULL
        BY <1>4, <2>1 DEF Expect, Then, Ok
    <2> QED
        BY <1>3, <1>4, <2>2, <2>3
<1>5. CASE suffixed /\ n = IF e.st = "ok" THEN Ok(e.ix, Node("SIZED_ARRAY", t.node, e.node)) ELSE e
    <2>1. t.ix + 1 \in Nat
        BY <1>1, <1>5, CoversIn
    <2>2. Covers(size, t.ix + 1, "part")
        BY <2>1, OrCovers
    <2> QED
        BY <1>3, <1>5, <2>2
<1> HIDE DEF e, size
<1>6. n = IF t.st = "ok"
          THEN IF t.node = NULL \/ T(t.ix) # "[" THEN t
               ELSE IF T(t.ix + 1) = "]" THEN Ok(t.ix + 2, Node("NOSIZED_ARRAY", t.node, NULL))
               ELSE IF e.st = "ok" THEN Ok(e.ix, Node("SIZED_ARRAY", t.node, e.node)) ELSE e
          ELSE t
    BY DEF TypeName, Then, t, e, size
<1> HIDE DEF n
<1> QED
    BY <1>2, <1>4, <1>5, <1>6 DEF n

LEMMA AssignCovers ==
    ASSUME Readable, Shut, NEW P, Covering(P), NEW i \in Nat
    PROVE  Covers(Assign(P, i), i, "part")
<1> DEFINE a == Assign(P, i)
           m == Expect("=", MemberAccess(P, i))
           e == Or(P, m.ix)
<1>1. CASE a = Ok(i, NULL)
    BY <1>1, CoversStill
<1>2. CASE T(i) = "IDENT" /\ a = IF m.st = "ok"
                                 THEN IF e.st = "ok" THEN Ok(e.ix, Node("ASSIGN", m.node, e.node)) ELSE e
                                 ELSE m
    <2>1. Covers(m, i, "part")
        BY <1>2, MemberAccessCovers, CoversExpect, PlainTokens
    <2> HIDE DEF m
    <2>2. m.st = "ok" => Covers(e, m.ix, "part")
        BY <2>1, CoversIn, OrCovers
    <2> HIDE DEF a, e
    <2>3. Covers(a, i, "part")
        BY <1>2, <2>1, <2>2, CoversBoth DEF NodeTypes, PlainTypes
    <2> QED
        BY <2>3 DEF a
<1> QED
    BY <1>1, <1>2 DEF Assign, Then

LEMMA DeclVarCovers ==
    ASSUME Readable, Shut, NEW P, Covering(P), NEW i \in Nat
    PROVE  Covers(DeclVar(P, i), i, "part")
<1> DEFINE v == DeclVar(P, i)
           t == Needed(TypeName(P, i))
           a == Assign(P, t.ix)
           name == VarName(t.ix)
<1>1. Covers(t, i, "part")
    BY TypeNameCovers, CoversNeeded
<1>2. v = IF t.st = "ok"
          THEN IF a.st = "ok"
               THEN IF a.node # NULL THEN Ok(a.ix, Node("DECL_VAR", t.node, a.node))
                    ELSE IF T(t.ix) = "IDENT" THEN Ok(t.ix + 1, Node("DECL_VAR", t.node, Leaf("VARNAME", t.ix)))
                    ELSE Err
               ELSE a
          ELSE t
    BY DEF DeclVar, Then
<1> HIDE DEF t
<1>3. t.st = "ok" => Covers(a, t.ix, "part")
    BY <1>1, CoversIn, AssignCovers
<1>4. t.st = "ok" /\ T(t.ix) = "IDENT" => Covers(name, t.ix, "part")
    BY <1>1, CoversIn, VarNameCovers
<1>5. name.st = "ok" /\ name.ix = t.ix + 1 /\ name.node = Leaf("VARNAME", t.ix)
    BY DEF VarName, Ok
<1> HIDE DEF v, a, name
<1>6. CASE v = IF t.st = "ok" THEN IF a.st = "ok" THEN Ok(a.ix, Node("DECL_VAR", t.node, a.node)) ELSE a ELSE t
    BY <1>1, <1>3, <1>6, CoversBoth DEF NodeTypes, PlainTypes, v
<1>7. CASE t.st = "ok" /\ T(t.ix) = "IDENT" /\ v = Ok(name.ix, Node("DECL_VAR", t.node, name.node))
    BY <1>1, <1>4, <1>5, <1>7, CoversJoin DEF NodeTypes, PlainTypes, v
<1>8. CASE v = Err
    BY <1>8, CoversErr DEF v
<1> QED
    BY <1>2, <1>5, <1>6, <1>7, <1>8 DEF v

LEMMA DeclsCovers ==
    ASSUME Readable, Shut, NEW P, Covering(P), NEW i \in Nat,
           NEW type \in {"VAR_LIST", "MEMBER_LIST"}, NEW sep \in {"COMMA", "SEMICOLON"},
           NEW again, \A j \in Nat : Covers(again[j], j, "part")
    PROVE  Covers(Decls(P, i, type, sep, again), i, "part")
<1> DEFINE l == Decls(P, i, type, sep, again)
           v == DeclVar(P, i)
           r == again[v.ix + 1]
<1> type \in NodeTypes
    BY DEF NodeTypes, PlainTypes
<1>1. Covers(v, i, "part")
    BY DeclVarCovers
<1>2. l = IF AtEnd(i) THEN Ok(i, Node(type, NULL, NULL))
          ELSE IF T(i) \notin TypeWords THEN Ok(i, NULL)
          ELSE IF v.st = "ok"
               THEN IF T(v.ix) # sep THEN Ok(v.ix, Node(type, v.node, NULL))
                    ELSE IF r.st = "ok" THEN Ok(r.ix, Node(type, v.node, r.node)) ELSE r
               ELSE v
    BY DEF Decls, Then
<1> HIDE DEF l, v
<1>3. CASE l = Ok(i, Node(type, NULL, NULL))
    BY <1>3, CoversBare DEF l
<1>4. CASE l = Ok(i, NULL)
    BY <1>4, CoversStill DEF l
<1>5. CASE l = v
    BY <1>1, <1>5 DEF l
<1>6. CASE v.st = "ok" /\ l = Ok(v.ix, Node(type, v.node, NULL))
    BY <1>1, <1>6, CoversOne DEF l
<1>7. CASE v.st = "ok" /\ T(v.ix) = sep /\ l = IF r.st = "ok" THEN Ok(r.ix, Node(type, v.node, r.node)) ELSE r
    <2>1. v.ix + 1 \in Nat
        BY <1>1, <1>7, CoversIn
    <2>2. Covers(r, v.ix + 1, "part")
        BY <2>1
    <2> HIDE DEF r
    <2>3. Covers(l, i, "part")
        BY <1>1, <1>7, <2>2, CoversMore
    <2> QED
        BY <2>3 DEF l
<1> HIDE DEF r
<1> QED
    BY <1>2, <1>3, <1>4, <1>5, <1>6, <1>7 DEF l

LEMMA DeclListsCovers ==
    ASSUME Readable, Shut, NEW P, Covering(P), NEW i \in Nat
    PROVE  Covers(DeclList(P, i), i, "part") /\ Covers(DeclMembers(P, i), i, "part")
<1>1. \A j \in Nat : Covers(P.DeclList[j], j, "part") /\ Covers(P.DeclMembers[j], j, "part")
    BY DEF Covering
<1>2. Covers(Decls(P, i, "VAR_LIST", "COMMA", P.DeclList), i, "part")
    BY <1>1, DeclsCovers
<1>3. Covers(Decls(P, i, "MEMBER_LIST", "SEMICOLON", P.DeclMembers), i, "part")
    BY <1>1, DeclsCovers
<1> QED
    BY <1>2, <1>3 DEF DeclList, DeclMembers

LEMMA DeclStructCovers ==
    ASSUME Readable, Shut, NEW P, Covering(P), NEW i \in Nat, T(i) = "WORD_STRUCT"
    PROVE  Covers(DeclStruct(P, i), i, "part")
<1> DEFINE f == DeclStruct(P, i)
           v == VarName(i + 1)
           m == Expect("RCURLY", DeclMembers(P, i + 3))
           opens == T(i + 1) = "IDENT" /\ T(i + 2) = "LCURLY"
<1>1. i + 1 \in Nat /\ i + 2 \in Nat /\ i + 3 \in Nat /\ (i + 2) + 1 = i + 3 /\ (i + 1) + 1 = i + 2
    OBVIOUS
<1>2. f = IF opens THEN IF m.st = "ok" THEN Ok(m.ix, Node("DECL_STRUCT", Leaf("VARNAME", i + 1), m.node)) ELSE m
          ELSE Err
    BY DEF DeclStruct, Then
<1>3. CASE opens
    <2>1. Covers(v, i + 1, "part") /\ v.st = "ok" /\ v.ix = i + 2 /\ v.node = Leaf("VARNAME", i + 1)
        BY <1>1, <1>3, VarNameCovers DEF VarName, Ok
    <2>2. Covers(DeclMembers(P, i + 3), (i + 2) + 1, "part")
        BY <1>1, DeclListsCovers
    <2>3. Covers(m, i + 2, "part")
        BY <1>1, <1>3, <2>2, CoversInside DEF Opening, Closer
    <2> HIDE DEF v, m, f
    <2>4. f = IF v.st = "ok" THEN IF m.st = "ok" THEN Ok(m.ix, Node("DECL_STRUCT", v.node, m.node)) ELSE m ELSE v
        BY <1>2, <1>3, <2>1
    <2>5. Covers(f, i + 1, "part")
        BY <2>1, <2>3, <2>4, CoversBoth DEF NodeTypes
    <2>6. Covers(f, i, "part")
        BY <2>5, CoversInFront, PlainTokens
    <2> QED
        BY <2>6 DEF f
<1>4. CASE ~opens
    BY <1>2, <1>4, CoversErr
<1> QED
    BY <1>3, <1>4

(***************************************************************************)
(* Statements.                                                             *)
(***************************************************************************)

\* Brackets with nothing in between.
LEMMA CoversEmpty ==
    ASSUME Readable, NEW i \in Nat, T(i) \in Opening, T(i + 1) = Closer(T(i)), NEW kind
    PROVE  Covers(Ok(i + 2, NULL), i, kind)
<1>1. i + 1 \in Nat /\ (i + 1) + 1 = i + 2
    OBVIOUS
<1>2. Covers(Ok(i + 1, NULL), i + 1, kind)
    BY <1>1, CoversStill
<1>3. Covers(Expect(T(i + 1), Ok(i + 1, NULL)), i, kind)
    BY <1>1, <1>2, CoversInside
<1>4. Expect(T(i + 1), Ok(i + 1, NULL)) = Ok(i + 2, NULL)
    BY <1>1 DEF Expect, Then, Ok
<1> QED
    BY <1>3, <1>4

LEMMA StmtBlockCovers ==
    ASSUME Readable, NEW P, Covering(P), NEW i \in Nat, NEW block \in Blocks
    PROVE  Covers(StmtBlock(P, i, block), i, "any")
<1> DEFINE b == StmtBlock(P, i, block)
           s == P.StmtSeq[block][i + 1]
<1>1. CASE b = Err
    BY <1>1, CoversErr
<1>2. CASE T(i) = "LCURLY" /\ T(i + 1) = "RCURLY" /\ b = Ok(i + 2, NULL)
    BY <1>2, CoversEmpty DEF Opening, Closer
<1>3. CASE T(i) = "LCURLY" /\ b = Expect("RCURLY", s)
    <2>1. Covers(s, i + 1, "any")
        BY DEF Covering
    <2> HIDE DEF s
    <2>2. Covers(Expect("RCURLY", s), i, "any")
        BY <1>3, <2>1, CoversInside DEF Opening, Closer
    <2> QED
        BY <1>3, <2>2
<1> QED
    BY <1>1, <1>2, <1>3 DEF StmtBlock

\* The token behind the type is the name if the parameters open behind it.
LEMMA NamedCovers ==
    ASSUME Readable, Shut, NEW P, Covering(P), NEW i \in Nat, T(i) \in TypeWords
    PROVE  LET v == DeclTypeVarname(P, i) IN v.st = "ok" /\ T(v.ix) = "(" => Covers(v, i, "any")
<1> DEFINE v == DeclTypeVarname(P, i)
           t == TypeName(P, i)
           n == Node("TYPE_VARNAME", t.node, Leaf("VARNAME", t.ix))
<1> SUFFICES ASSUME v.st = "ok", T(v.ix) = "(" PROVE Covers(v, i, "any")
    OBVIOUS
<1>1. Covers(t, i, "part") /\ TypeEnd(t, i)
    BY TypeNameCovers
<1>2. t.st = "ok" /\ v = Ok(t.ix + 1, n)
    BY DEF DeclTypeVarname, Then
<1> HIDE DEF t
<1>3. v.ix = t.ix + 1 /\ v.node = n /\ v.st = "ok"
    BY <1>2 DEF Ok
<1> HIDE DEF v, n
<1>4. t.ix \in Nat /\ i < t.ix /\ T(t.ix - 1) \in TypeWords \cup {"]"}
    BY <1>1, <1>2, CoversIn DEF TypeEnd
<1>5. Named(t.ix)
    BY <1>3, <1>4 DEF Named
<1>6. Spans(t.node, i, t.ix, {})
    BY <1>1, <1>2 DEF Covers
<1>7. Spans(n, i, t.ix + 1, {} \cup {t.ix})
    BY <1>5, <1>6, SpansName DEF n
<1>8. Covers(v, i, "any")
    BY <1>3, <1>7 DEF Covers
<1> QED
    BY <1>8 DEF v

LEMMA FunctionSignatureCovers ==
    ASSUME Readable, Shut, NEW P, Covering(P), NEW i \in Nat, T(i) \in TypeWords
    PROVE  Covers(FunctionSignature(P, i), i, "any")
<1> DEFINE s == FunctionSignature(P, i)
           v == DeclTypeVarname(P, i)
           none == Ok(v.ix + 2, NULL)
           p == Expect(")", DeclList(P, v.ix + 1))
           named == v.st = "ok" /\ T(v.ix) = "("
<1>1. named => Covers(v, i, "any")
    BY NamedCovers
<1>2. s = IF v.st = "ok"
          THEN IF T(v.ix) = "("
               THEN IF T(v.ix + 1) = ")" THEN Ok((v.ix + 1) + 1, Node("SIGNATURE", v.node, NULL))
                    ELSE IF p.st = "ok" THEN Ok(p.ix, Node("SIGNATURE", v.node, p.node)) ELSE p
               ELSE Err
          ELSE v
    BY DEF FunctionSignature, Expect, Then, Ok, Err
<1> HIDE DEF s, v
<1>3. named => v.ix \in Nat /\ v.ix + 1 \in Nat /\ (v.ix + 1) + 1 = v.ix + 2
    BY <1>1, CoversIn
<1>4. CASE s = Err
    BY <1>4, CoversErr DEF s
<1>5. CASE v.st # "ok" /\ s = v
    BY <1>5, CoversNot DEF s
<1>6. CASE named /\ T(v.ix + 1) = ")" /\ s = Ok(v.ix + 2, Node("SIGNATURE", v.node, NULL))
    <2>1. Covers(none, v.ix, "any")
        BY <1>3, <1>6, CoversEmpty DEF Opening, Closer
    <2>2. none.st = "ok" /\ none.ix = v.ix + 2 /\ none.node = NULL
        BY DEF Ok
    <2> HIDE DEF none
    <2>3. Covers(Ok(none.ix, Node("SIGNATURE", v.node, none.node)), i, "any")
        BY <1>1, <1>6, <2>1, <2>2, CoversJoin DEF NodeTypes, PlainTypes
    <2> QED
        BY <1>6, <2>2, <2>3 DEF s
<1>7. CASE named /\ s = IF p.st = "ok" THEN Ok(p.ix, Node("SIGNATURE", v.node, p.node)) ELSE p
    <2>1. Covers(DeclList(P, v.ix + 1), v.ix + 1, "part")
        BY <1>3, <1>7, DeclListsCovers
    <2>2. Covers(p, v.ix, "part")
        BY <1>3, <1>7, <2>1, CoversInside DEF Opening, Closer
    <2>3. Covers(p, v.ix, "any")
        BY <2>2, Weaker
    <2> HIDE DEF p
    <2>4. s = IF v.st = "ok" THEN IF p.st = "ok" THEN Ok(p.ix, Node("SIGNATURE", v.node, p.node)) ELSE p ELSE v
        BY <1>7
    <2>5. Covers(s, i, "any")
        BY <1>1, <1>7, <2>3, <2>4, CoversBoth DEF NodeTypes, PlainTypes
    <2> QED
        BY <2>5 DEF s
<1> HIDE DEF p
<1> QED
    BY <1>2, <1>3, <1>4, <1>5, <1>6, <1>7 DEF s

LEMMA DeclFunctionCovers ==
    ASSUME Readable, Shut, NEW P, Covering(P), NEW i \in Nat, T(i) \in TypeWords
    PROVE  Covers(DeclFunction(P, i), i, "any")
<1> DEFINE f == DeclFunction(P, i)
           s == FunctionSignature(P, i)
           b == StmtBlock(P, s.ix, "FUNC")
<1>1. Covers(s, i, "any")
    BY FunctionSignatureCovers
<1>2. f = IF s.st = "ok" THEN IF b.st = "ok" THEN Ok(b.ix, Node("DECL_FUNCTION", s.node, b.node)) ELSE b ELSE s
    BY DEF DeclFunction, Then
<1> HIDE DEF f, s
<1>3. s.st = "ok" => Covers(b, s.ix, "any")
    BY <1>1, CoversIn, StmtBlockCovers DEF Blocks
<1> HIDE DEF b
<1>4. Covers(f, i, "any")
    BY <1>1, <1>2, <1>3, CoversBoth DEF NodeTypes
<1> QED
    BY <1>4 DEF f

LEMMA ReturnCovers ==
    ASSUME Readable, Shut, NEW P, Covering(P), NEW i \in Nat, T(i) = "WORD_RETURN"
    PROVE  Covers(Return(P, i), i, "part")
<1> DEFINE e == Expect("SEMICOLON", Or(P, i + 1))
<1>1. Covers(Or(P, i + 1), i + 1, "part")
    BY OrCovers
<1>2. Covers(e, i + 1, "part")
    BY <1>1, CoversExpect, PlainTokens
<1> HIDE DEF e
<1>3. Covers(e, i, "part")
    BY <1>2, CoversInFront, PlainTokens
<1>4. Covers(Under("RETURN", e), i, "part")
    BY <1>3, CoversUnder DEF NodeTypes
<1> QED
    BY <1>4 DEF Return, e

LEMMA ConditionCovers ==
    ASSUME Readable, Shut, NEW P, Covering(P), NEW i \in Nat,
           T(i) \in {"WORD_IF", "WORD_ELSE_IF", "WORD_WHILE"}
    PROVE  Covers(Condition(P, i), i, "any")
<1> DEFINE o == Or(P, i + 2)
<1>1. CASE Condition(P, i) = Err
    BY <1>1, CoversErr
<1>2. CASE T(i + 1) = "(" /\ Condition(P, i) = Expect(")", o)
    <2>1. i + 1 \in Nat /\ i + 2 \in Nat /\ i + 2 = (i + 1) + 1
        OBVIOUS
    <2>2. Covers(o, (i + 1) + 1, "part")
        BY <2>1, OrCovers
    <2> HIDE DEF o
    <2>3. Covers(Expect(")", o), i + 1, "part")
        BY <1>2, <2>1, <2>2, CoversInside DEF Opening, Closer
    <2>4. Covers(Expect(")", o), i, "part")
        BY <2>3, CoversInFront, PlainTokens
    <2> QED
        BY <1>2, <2>4, Weaker
<1> QED
    BY <1>1, <1>2 DEF Condition

LEMMA WhileCovers ==
    ASSUME Readable, Shut, NEW P, Covering(P), NEW i \in Nat, T(i) = "WORD_WHILE"
    PROVE  Covers(While(P, i), i, "any")
<1> DEFINE w == While(P, i)
           c == Condition(P, i)
           b == StmtBlock(P, c.ix, "LOOP")
<1>1. Covers(c, i, "any")
    BY ConditionCovers
<1>2. w = IF c.st = "ok" THEN IF b.st = "ok" THEN Ok(b.ix, Node("WHILE", c.node, b.node)) ELSE b ELSE c
    BY DEF While, Then
<1> HIDE DEF w, c
<1>3. c.st = "ok" => Covers(b, c.ix, "any")
    BY <1>1, CoversIn, StmtBlockCovers DEF Blocks
<1> HIDE DEF b
<1>4. Covers(w, i, "any")
    BY <1>1, <1>2, <1>3, CoversBoth DEF NodeTypes
<1> QED
    BY <1>4 DEF w

LEMMA JumpCovers ==
    ASSUME Readable, NEW i \in Nat, T(i) \in {"WORD_BREAK", "WORD_CONTINUE"}
    PROVE  Covers(Break(i), i, "part") /\ Covers(Continue(i), i, "part")
<1>1. ASSUME NEW type \in {"BREAK", "CONTINUE"}
      PROVE  Covers(Jump(i, type), i, "part")
    <2> DEFINE o == Ok(i + 1, Node(type, NULL, NULL))
    <2>1. i + 1 \in Nat /\ (i + 1) + 1 = i + 2
        OBVIOUS
    <2>2. Covers(o, i + 1, "part")
        BY <2>1, CoversBare DEF NodeTypes
    <2>3. Covers(Expect("SEMICOLON", o), i, "part")
        <3> HIDE DEF o
        <3>1. Covers(Expect("SEMICOLON", o), i + 1, "part")
            BY <2>2, CoversExpect, PlainTokens
        <3> QED
            BY <3>1, CoversInFront, PlainTokens
    <2>4. Expect("SEMICOLON", o) = Jump(i, type)
        BY <2>1 DEF Expect, Then, Ok, Jump
    <2> QED
        BY <2>3, <2>4
<1> QED
    BY <1>1 DEF Break, Continue

LEMMA ElseCovers ==
    ASSUME Readable, NEW P, Covering(P), NEW i \in Nat, T(i) = "WORD_ELSE", NEW block \in Blocks
    PROVE  Covers(Else(P, i, block), i, "any") /\ IsAlternative(Else(P, i, block))
<1> DEFINE e == Else(P, i, block)
           b == StmtBlock(P, i + 1, block)
           n == Node("ELSE", NULL, b.node)
<1>1. Covers(b, i + 1, "any")
    BY StmtBlockCovers
<1>2. e = IF b.st = "ok" THEN Ok(b.ix, n) ELSE b
    BY DEF Else, Then
<1> HIDE DEF b, e
<1>3. Covers(b, i, "any")
    BY <1>1, CoversInFront, PlainTokens
<1>4. CASE b.st # "ok"
    BY <1>2, <1>4, CoversNot DEF IsAlternative, e
<1>5. CASE b.st = "ok"
    <2>1. Covers(e, i, "any")
        BY <1>2, <1>3, <1>5, CoversOther DEF NodeTypes, PlainTypes
    <2>2. n # NULL /\ n.type \in Alternatives
        BY NodeIs DEF Alternatives
    <2> HIDE DEF n
    <2>3. IsAlternative(e)
        BY <1>2, <1>5, <2>2 DEF IsAlternative, Ok
    <2> QED
        BY <2>1, <2>3 DEF e
<1> QED
    BY <1>4, <1>5

LEMMA ConditionalCovers ==
    ASSUME Readable, Shut, NEW P, Covering(P), NEW i \in Nat, T(i) \in {"WORD_IF", "WORD_ELSE_IF"},
           NEW type \in {"IF", "ELSE_IF"}, NEW block \in Blocks
    PROVE  /\ Covers(Conditional(P, i, type, block), i, "any")
           /\ type = "ELSE_IF" => IsAlternative(Conditional(P, i, type, block))
<1> DEFINE f == Conditional(P, i, type, block)
           c == Condition(P, i)
           b == StmtBlock(P, c.ix, block)
           a == IF T(b.ix) = "WORD_ELSE" THEN Else(P, b.ix, block) ELSE P.ElseIf[block][b.ix]
           w == WithAlternative(b.node, a.node)
<1> type \in NodeTypes
    BY DEF NodeTypes, PlainTypes
<1>1. Covers(c, i, "any")
    BY ConditionCovers
<1>2. f = IF c.st = "ok"
          THEN IF b.st = "ok"
               THEN IF T(b.ix) \notin {"WORD_ELSE_IF", "WORD_ELSE"} THEN Ok(b.ix, Node(type, c.node, b.node))
                    ELSE IF a.st = "ok" THEN Ok(a.ix, Node(type, c.node, w)) ELSE a
               ELSE b
          ELSE c
    BY DEF Conditional, Then
<1> HIDE DEF f, c
<1>3. c.st = "ok" => Covers(b, c.ix, "any")
    BY <1>1, CoversIn, StmtBlockCovers
<1> HIDE DEF b
<1>4. ASSUME c.st = "ok", b.st = "ok", T(b.ix) \in {"WORD_ELSE_IF", "WORD_ELSE"}
      PROVE  Covers(a, b.ix, "any") /\ IsAlternative(a)
    <2>1. b.ix \in Nat
        BY <1>3, <1>4, CoversIn
    <2>2. CASE T(b.ix) = "WORD_ELSE"
        BY <2>1, <2>2, ElseCovers
    <2>3. CASE T(b.ix) = "WORD_ELSE_IF"
        BY <2>1, <2>3 DEF Covering
    <2> QED
        BY <1>4, <2>2, <2>3
<1> HIDE DEF a
<1>5. ASSUME c.st = "ok", b.st = "ok", T(b.ix) \in {"WORD_ELSE_IF", "WORD_ELSE"}, a.st = "ok"
      PROVE  Covers(Ok(a.ix, w), c.ix, "any")
    <2>1. PICK M : Spans(b.node, c.ix, b.ix, M)
        BY <1>3, <1>5 DEF Covers
    <2>2. PICK N : Spans(a.node, b.ix, a.ix, N)
        BY <1>4, <1>5 DEF Covers
    <2>3. Rooted(b.node) /\ Rooted(a.node) /\ a.node # NULL /\ a.node.type \in Alternatives
        BY <1>4, <1>5, <2>1, <2>2 DEF Spans, IsAlternative
    <2>4. Rooted(w) /\ HasBelow(w, Alternatives)
        BY <2>3, AlternativeBelow
    <2> HIDE DEF w
    <2>5. Spans(w, c.ix, a.ix, M \cup N)
        BY <2>1, <2>2, <2>4, SpansLost
    <2> QED
        BY <2>5 DEF Covers, Ok
<1> HIDE DEF w
<1>6. CASE f.st # "ok"
    BY <1>6, CoversNot DEF IsAlternative, f
<1>7. ASSUME NEW s, c.st = "ok", s.st = "ok", Covers(s, c.ix, "any"), f = Ok(s.ix, Node(type, c.node, s.node))
      PROVE  Covers(f, i, "any") /\ (type = "ELSE_IF" => IsAlternative(f))
    <2>1. Covers(f, i, "any")
        BY <1>1, <1>7, CoversJoin
    <2>2. Node(type, c.node, s.node) # NULL /\ Node(type, c.node, s.node).type = type
        BY NodeIs
    <2>3. type = "ELSE_IF" => IsAlternative(f)
        BY <1>7, <2>2 DEF IsAlternative, Alternatives, Ok
    <2> QED
        BY <2>1, <2>3
<1>8. CASE c.st = "ok" /\ b.st = "ok" /\ f = Ok(b.ix, Node(type, c.node, b.node))
    BY <1>3, <1>7, <1>8 DEF f
<1>9. CASE c.st = "ok" /\ b.st = "ok" /\ T(b.ix) \in {"WORD_ELSE_IF", "WORD_ELSE"} /\ a.st = "ok"
           /\ f = Ok(a.ix, Node(type, c.node, w))
    <2> DEFINE s == Ok(a.ix, w)
    <2>1. Covers(s, c.ix, "any") /\ s.st = "ok" /\ s.ix = a.ix /\ s.node = w
        BY <1>5, <1>9 DEF Ok
    <2> HIDE DEF s
    <2> QED
        BY <1>7, <1>9, <2>1 DEF f
<1> QED
    BY <1>2, <1>6, <1>8, <1>9 DEF f

LEMMA MemberAssignCovers ==
    ASSUME Readable, Shut, NEW P, Covering(P), NEW i \in Nat, T(i) = "IDENT"
    PROVE  Covers(MemberAssign(P, i), i, "part")
<1> DEFINE f == MemberAssign(P, i)
           m == Expect("=", MemberAccess(P, i))
           e == Expect("SEMICOLON", Or(P, m.ix))
<1>1. Covers(m, i, "part")
    BY MemberAccessCovers, CoversExpect, PlainTokens
<1>2. f = IF m.st = "ok" THEN IF e.st = "ok" THEN Ok(e.ix, Node("ASSIGN", m.node, e.node)) ELSE e ELSE m
    BY DEF MemberAssign, Then
<1> HIDE DEF f, m
<1>3. m.st = "ok" => Covers(Or(P, m.ix), m.ix, "part")
    BY <1>1, CoversIn, OrCovers
<1>4. m.st = "ok" => Covers(e, m.ix, "part")
    BY <1>3, CoversExpect, PlainTokens
<1> HIDE DEF e
<1>5. Covers(f, i, "part")
    BY <1>1, <1>2, <1>4, CoversBoth DEF NodeTypes, PlainTypes
<1> QED
    BY <1>5 DEF f

LEMMA DeclarationCovers ==
    ASSUME Readable, Shut, NEW P, Covering(P), NEW i \in Nat, T(i) \in TypeWords
    PROVE  Covers(Declaration(P, i), i, "any")
<1> DEFINE v == DeclVar(P, i)
<1>1. CASE Declaration(P, i) = DeclFunction(P, i)
    BY <1>1, DeclFunctionCovers
<1>2. CASE Declaration(P, i) = Expect("SEMICOLON", v)
    <2>1. Covers(v, i, "part")
        BY DeclVarCovers
    <2> HIDE DEF v
    <2>2. Covers(Expect("SEMICOLON", v), i, "part")
        BY <2>1, CoversExpect, PlainTokens
    <2> QED
        BY <1>2, <2>2, Weaker
<1>3. CASE Declaration(P, i) = Ok(i, NULL)
    BY <1>3, CoversStill
<1> QED
    BY <1>1, <1>2, <1>3 DEF Declaration

LEMMA BareStmtCovers ==
    ASSUME Readable, Shut, NEW P, Covering(P), NEW i \in Nat, NEW block \in Blocks
    PROVE  Covers(BareStmt(P, i, block), i, "any")
<1> DEFINE b == BareStmt(P, i, block)
           a == Assign(P, i)
<1>1. CASE T(i) = "WORD_IF" /\ b = If(P, i, block)
    <2>1. Covers(Conditional(P, i, "IF", block), i, "any")
        BY <1>1, ConditionalCovers
    <2> QED
        BY <1>1, <2>1 DEF If
<1>2. CASE T(i) = "WORD_WHILE" /\ b = While(P, i)
    BY <1>2, WhileCovers
<1>3. CASE b = Expect("SEMICOLON", a)
    <2>1. Covers(a, i, "part")
        BY AssignCovers
    <2> HIDE DEF a
    <2>2. Covers(Expect("SEMICOLON", a), i, "part")
        BY <2>1, CoversExpect, PlainTokens
    <2> QED
        BY <1>3, <2>2, Weaker
<1>4. CASE T(i) = "IDENT" /\ b = MemberAssign(P, i)
    BY <1>4, MemberAssignCovers, Weaker
<1>5. CASE T(i) \in TypeWords /\ b = Declaration(P, i)
    BY <1>5, DeclarationCovers
<1>6. CASE T(i) \in {"WORD_BREAK", "WORD_CONTINUE"} /\ b \in {Break(i), Continue(i)}
    BY <1>6, JumpCovers, Weaker
<1>7. CASE T(i) = "WORD_RETURN" /\ b = Return(P, i)
    BY <1>7, ReturnCovers, Weaker
<1>8. CASE T(i) = "WORD_STRUCT" /\ b = DeclStruct(P, i)
    BY <1>8, DeclStructCovers, Weaker
<1>9. CASE b = Ok(i, NULL)
    BY <1>9, CoversStill
<1>10. \/ T(i) = "WORD_IF" /\ b = If(P, i, block)
       \/ T(i) = "WORD_WHILE" /\ b = While(P, i)
       \/ b = Expect("SEMICOLON", a)
       \/ T(i) = "IDENT" /\ b = MemberAssign(P, i)
       \/ T(i) \in TypeWords /\ b = Declaration(P, i)
       \/ T(i) \in {"WORD_BREAK", "WORD_CONTINUE"} /\ b \in {Break(i), Continue(i)}
       \/ T(i) = "WORD_RETURN" /\ b = Return(P, i)
       \/ T(i) = "WORD_STRUCT" /\ b = DeclStruct(P, i)
       \/ b = Ok(i, NULL)
    BY DEF BareStmt, TypeWords, BasicTypes
<1> QED
    BY <1>1, <1>2, <1>3, <1>4, <1>5, <1>6, <1>7, <1>8, <1>9, <1>10

LEMMA StmtCovers ==
    ASSUME Readable, Shut, NEW P, Covering(P), NEW i \in Nat, NEW block \in Blocks
    PROVE  LET s == Stmt(P, i, block)
           IN  /\ Covers(s, i, "any")
               /\ s.st = "ok" => \/ s.node = NULL
                                 \/ \E n : s.node = Node("STMT", n, NULL) /\ Covers(Ok(s.ix, n), i, "any")
<1> DEFINE s == Stmt(P, i, block)
           b == BareStmt(P, i, block)
<1>1. Covers(b, i, "any")
    BY BareStmtCovers
<1>2. s = IF i >= Len(toks) THEN Err
          ELSE IF b.st = "ok" THEN IF b.node = NULL THEN b ELSE Ok(b.ix, Node("STMT", b.node, NULL))
          ELSE b
    BY DEF Stmt, Then, Under
<1> HIDE DEF s, b
<1>3. CASE s = Err
    BY <1>3, CoversErr DEF s, Err
<1>4. CASE s = b /\ (b.st # "ok" \/ b.node = NULL)
    BY <1>1, <1>4 DEF s
<1>5. CASE b.st = "ok" /\ s = Ok(b.ix, Node("STMT", b.node, NULL))
    <2>1. Covers(Ok(b.ix, Node("STMT", b.node, NULL)), i, "any")
        BY <1>1, <1>5, CoversOne DEF NodeTypes, PlainTypes
    <2>2. s.ix = b.ix /\ s.node = Node("STMT", b.node, NULL)
        BY <1>5 DEF Ok
    <2>3. Covers(Ok(s.ix, b.node), i, "any")
        BY <1>1, <1>5, <2>2 DEF Covers, Ok
    <2> QED
        BY <1>5, <2>1, <2>2, <2>3 DEF s
<1> QED
    BY <1>2, <1>3, <1>4, <1>5

LEMMA StmtSeqCovers ==
    ASSUME Readable, Shut, NEW P, Covering(P), NEW i \in Nat, NEW block \in Blocks
    PROVE  Covers(StmtSeq(P, i, block), i, "any")
<1> DEFINE q == StmtSeq(P, i, block)
           s == Stmt(P, i, block)
           r == P.StmtSeq[block][s.ix]
           n == [s.node EXCEPT !.right = r.node]
<1>1. /\ Covers(s, i, "any")
      /\ s.st = "ok" => s.node = NULL \/ \E x : s.node = Node("STMT", x, NULL) /\ Covers(Ok(s.ix, x), i, "any")
    BY StmtCovers
<1>2. q = IF s.st = "ok"
          THEN IF s.node = NULL \/ s.ix >= Len(toks) THEN s
               ELSE IF r.st = "ok" THEN Ok(r.ix, n) ELSE r
          ELSE s
    BY DEF StmtSeq, Then
<1> HIDE DEF s, q
<1>3. CASE q = s
    BY <1>1, <1>3 DEF q
<1>4. CASE s.st = "ok" /\ s.node # NULL /\ q = IF r.st = "ok" THEN Ok(r.ix, n) ELSE r
    <2>1. PICK x : s.node = Node("STMT", x, NULL) /\ Covers(Ok(s.ix, x), i, "any")
        BY <1>1, <1>4
    <2>2. n = Node("STMT", x, r.node)
        BY <2>1 DEF Node
    <2>3. s.ix \in Nat
        BY <1>1, <1>4, CoversIn
    <2>4. Covers(r, s.ix, "any")
        BY <2>3 DEF Covering
    <2> DEFINE a == Ok(s.ix, x)
    <2>5. a.st = "ok" /\ a.ix = s.ix /\ a.node = x /\ Covers(a, i, "any")
        BY <2>1 DEF Ok
    <2> HIDE DEF a, r, n
    <2>6. q = IF a.st = "ok" THEN IF r.st = "ok" THEN Ok(r.ix, Node("STMT", a.node, r.node)) ELSE r ELSE a
        BY <1>4, <2>2, <2>5
    <2>7. Covers(q, i, "any")
        BY <2>4, <2>5, <2>6, CoversBoth DEF NodeTypes, PlainTypes
    <2> QED
        BY <2>7 DEF q
<1> HIDE DEF r, n
<1> QED
    BY <1>2, <1>3, <1>4 DEF r, n

LEMMA ElseIfCovers ==
    ASSUME Readable, Shut, NEW P, Covering(P), NEW i \in Nat, T(i) = "WORD_ELSE_IF", NEW block \in Blocks
    PROVE  Covers(ElseIf(P, i, block), i, "any") /\ IsAlternative(ElseIf(P, i, block))
<1>1. /\ Covers(Conditional(P, i, "ELSE_IF", block), i, "any")
      /\ IsAlternative(Conditional(P, i, "ELSE_IF", block))
    BY ConditionalCovers
<1> QED
    BY <1>1 DEF ElseIf

(***************************************************************************)
(* Recursion: by induction on the levels, every call covers what it took.  *)
(***************************************************************************)
LEMMA NoCallsCovering == Covering(NoCalls)
<1>1. \A j, kind : Covers(Overflow, j, kind) /\ TypeEnd(Overflow, j) /\ IsAlternative(Overflow)
    BY DEF Overflow, Covers, TypeEnd, IsAlternative
<1>2. \A j \in Nat :
        /\ NoCalls.Or[j] = Overflow /\ NoCalls.And[j] = Overflow /\ NoCalls.Compare[j] = Overflow
        /\ NoCalls.Bitwise[j] = Overflow /\ NoCalls.Modulus[j] = Overflow /\ NoCalls.Additive[j] = Overflow
        /\ NoCalls.Multiplicative[j] = Overflow /\ NoCalls.Factor[j] = Overflow /\ NoCalls.ArrayIndex[j] = Overflow
        /\ NoCalls.ExprList[j] = Overflow /\ NoCalls.TypeName[j] = Overflow /\ NoCalls.DeclList[j] = Overflow
        /\ NoCalls.DeclMembers[j] = Overflow
        /\ \A block \in Blocks : NoCalls.StmtSeq[block][j] = Overflow /\ NoCalls.ElseIf[block][j] = Overflow
    BY DEF NoCalls
<1> QED
    BY <1>1, <1>2 DEF Covering

LEMMA CallsCovering ==
    ASSUME Readable, Shut, NEW P, Covering(P)
    PROVE  Covering(Calls(P))
<1> SUFFICES ASSUME NEW j \in Nat
             PROVE  LET C == Calls(P)
                    IN  /\ Covers(C.Or[j], j, "part") /\ Covers(C.And[j], j, "part")
                        /\ Covers(C.Compare[j], j, "part") /\ Covers(C.Bitwise[j], j, "part")
                        /\ Covers(C.Modulus[j], j, "part") /\ Covers(C.Additive[j], j, "part")
                        /\ Covers(C.Multiplicative[j], j, "part") /\ Covers(C.Factor[j], j, "part")
                        /\ Covers(C.ArrayIndex[j], j, "part") /\ Covers(C.ExprList[j], j, "part")
                        /\ Covers(C.TypeName[j], j, "part") /\ TypeEnd(C.TypeName[j], j)
                        /\ Covers(C.DeclList[j], j, "part") /\ Covers(C.DeclMembers[j], j, "part")
                        /\ \A block \in Blocks : Covers(C.StmtSeq[block][j], j, "any")
                        /\ \A block \in Blocks : T(j) = "WORD_ELSE_IF" => /\ Covers(C.ElseIf[block][j], j, "any")
                                                                         /\ IsAlternative(C.ElseIf[block][j])
    BY DEF Covering
<1>1. Covers(Or(P, j), j, "part") /\ Covers(And(P, j), j, "part")
    BY OrCovers
<1>2. /\ Covers(Compare(P, j), j, "part") /\ Covers(Bitwise(P, j), j, "part") /\ Covers(Modulus(P, j), j, "part")
      /\ Covers(Additive(P, j), j, "part") /\ Covers(Multiplicative(P, j), j, "part")
    BY CompareCovers
<1>3. /\ Covers(Factor(P, j), j, "part") /\ Covers(ArrayIndex(P, j), j, "part")
      /\ Covers(ExprList(P, j), j, "part")
    BY FactorCovers, ArrayIndexCovers, ExprListCovers
<1>4. /\ Covers(TypeName(P, j), j, "part") /\ TypeEnd(TypeName(P, j), j)
      /\ Covers(DeclList(P, j), j, "part") /\ Covers(DeclMembers(P, j), j, "part")
    BY TypeNameCovers, DeclListsCovers
<1>5. \A block \in Blocks : Covers(StmtSeq(P, j, block), j, "any")
    BY StmtSeqCovers
<1>6. \A block \in Blocks : T(j) = "WORD_ELSE_IF" => /\ Covers(ElseIf(P, j, block), j, "any")
                                                    /\ IsAlternative(ElseIf(P, j, block))
    BY ElseIfCovers
<1> QED
    BY <1>1, <1>2, <1>3, <1>4, <1>5, <1>6, CallsAre

LEMMA LevelsCovering ==
    ASSUME Readable, Shut
    PROVE  \A d \in 0..Depth : Covering(Level[d])
<1> DEFINE S == {d \in Nat : d <= Depth => Covering(Level[d])}
<1>1. 0 \in S
    <2>1. Level[0] = NoCalls
        BY LevelIs, DepthAssumption
    <2> QED
        BY <2>1, NoCallsCovering
<1>2. ASSUME NEW d \in Nat, d \in S PROVE d + 1 \in S
    <2> SUFFICES ASSUME d + 1 <= Depth PROVE Covering(Level[d + 1])
        OBVIOUS
    <2>1. d + 1 \in 0..Depth /\ d + 1 # 0 /\ (d + 1) - 1 = d /\ d <= Depth
        BY DepthAssumption
    <2>2. Level[d + 1] = Calls(Level[d])
        BY <2>1, LevelIs
    <2>3. Covering(Level[d])
        BY <1>2, <2>1
    <2> QED
        BY <2>2, <2>3, CallsCovering
<1> HIDE DEF S
<1>3. \A d \in Nat : d \in S
    BY <1>1, <1>2, SetInduction
<1> QED
    BY <1>3, DepthAssumption DEF S

LEMMA ProgramCovers ==
    ASSUME Readable, Shut
    PROVE  Covers(Program(0), 0, "any")
<1>1. Covering(Level[Depth])
    BY LevelsCovering, DepthAssumption
<1> QED
    BY <1>1 DEF Program, Covering, Blocks

(***************************************************************************)
(* The invariant, and the two properties that follow from it.              *)
(***************************************************************************)
TokensInv ==
    ParserInv /\ (Accepted /\ Len(toks) > 0 /\ CallsClosed => \E N : Spans(out.node, 0, out.ix, N))

LEMMA ClosedIsShut ==
    ASSUME Cells, CallsClosed
    PROVE  Shut
<1>1. toks \in Seq(STRING) /\ junk \in Seq(STRING)
    BY DEF Cells
<1>2. Len(toks) \in Nat /\ \A j \in Nat : j < Len(toks) => j + 1 \in 1..Len(toks) /\ T(j) = toks[j + 1]
    BY <1>1 DEF T, Memory
<1>3. CASE toks[Len(toks)] = "EOF"
    <2> SUFFICES ASSUME NEW j \in Nat, j < Len(toks), T(j) # "EOF" PROVE j + 1 < Len(toks)
        BY DEF Shut, LastIsEof
    <2> QED
        BY <1>2, <1>3
<1>4. CASE \A n \in 1..(Len(toks) - 1) : ~(toks[n] = "IDENT" /\ toks[n + 1] = "(")
    <2> SUFFICES ASSUME NEW j \in Nat, j + 1 < Len(toks) PROVE ~(T(j) = "IDENT" /\ T(j + 1) = "(")
        BY DEF Shut
    <2>1. j + 1 \in Nat /\ j < Len(toks) /\ j + 1 \in 1..(Len(toks) - 1)
        BY <1>2
    <2>2. T(j) = toks[j + 1] /\ T(j + 1) = toks[(j + 1) + 1]
        BY <1>2, <2>1
    <2> QED
        BY <1>4, <2>1, <2>2
<1> QED
    BY <1>3, <1>4 DEF CallsClosed

LEMMA InitTokens == Init => TokensInv
    BY InitInv DEF Init, TokensInv, Accepted

LEMMA StepTokens == TokensInv /\ [ParseTokenStream]_vars => TokensInv'
<1> SUFFICES ASSUME TokensInv, [ParseTokenStream]_vars PROVE TokensInv'
    OBVIOUS
<1>1. ParserInv' /\ toks' = toks /\ junk' = junk
    BY StepInv DEF TokensInv, ParseTokenStream, vars
<1>2. ASSUME out' # NULL, out'.st = "ok", Len(toks) > 0, CallsClosed
      PROVE  \E N : Spans(out'.node, 0, out'.ix, N)
    <2>1. CASE out' = out
        BY <1>2, <2>1 DEF TokensInv, Accepted
    <2>2. CASE out' = Program(0)
        <3>1. Readable /\ Shut
            BY <1>2, CellsReadable, ClosedIsShut DEF TokensInv, ParserInv
        <3>2. Covers(out', 0, "any")
            BY <2>2, <3>1, ProgramCovers
        <3> QED
            BY <1>2, <3>2 DEF Covers
    <2> QED
        BY <1>2, <2>1, <2>2 DEF ParseTokenStream, vars
<1>3. (Accepted /\ Len(toks) > 0 /\ CallsClosed => \E N : Spans(out.node, 0, out.ix, N))'
    <2> SUFFICES ASSUME out' # NULL, out'.st = "ok", Len(toks) > 0, CallsClosed
                 PROVE  (\E N : Spans(out.node, 0, out.ix, N))'
        BY <1>1 DEF Accepted, CallsClosed
    <2>1. PICK N : Spans(out'.node, 0, out'.ix, N)
        BY <1>2
    <2>2. (\A k \in N : Named(k))'
        BY <1>1, <2>1 DEF Spans, Named, Memory, T
    <2>3. Balanced(0, out.ix, N)'
        BY <1>1, <2>1 DEF Spans, Balanced, OpenBehind, Memory, T
    <2>4. Tokens(0, out.ix, N)' = Tokens(0, out'.ix, N)
        BY <1>1 DEF Tokens, Memory, T
    <2>5. Spans(out.node, 0, out.ix, N)'
        BY <2>1, <2>2, <2>3, <2>4 DEF Spans
    <2> QED
        BY <2>5
<1> QED
    BY <1>1, <1>3 DEF TokensInv

\* In every state the tree was made from the tokens that were consumed
\* (sk_parse_token_stream, parser.c:905).
THEOREM TokensInvHolds == Spec => []TokensInv
<1> QED
    BY InitTokens, StepTokens, PTL DEF Spec

\* Nodes finds nodes of the tree only, and all of them if none is further down.
LEMMA NodesBelow ==
    ASSUME NEW n, Rooted(n), NEW place
    PROVE  \A x \in Nodes(n, place) : x[1] \in Below(n)
<1> DEFINE Kinds == {place, "LOOP", "FUNC", "NAME"}
           E == Below(n) \X Kinds
<1>1. {n} \ {NULL} \subseteq Below(n) /\ \A m \in Below(n) : Kids(m) \subseteq Below(n)
    BY BelowIs DEF IsBelow, Holds, Closed
<1>2. Child(n, place) \subseteq E
    BY <1>1 DEF Child
<1>3. \A type : \A p \in Kinds : Inner(type, p) \in Kinds
    BY DEF Inner
<1>4. ASSUME NEW x \in E PROVE Children(x) \subseteq E
    <2>1. x[1] \in Below(n) /\ x[2] \in Kinds
        OBVIOUS
    <2>2. Kids(x[1]) \subseteq Below(n) /\ Inner(x[1].type, x[2]) \in Kinds
        BY <1>1, <1>3, <2>1
    <2> HIDE DEF Kinds
    <2> QED
        BY <2>1, <2>2 DEF Children, Child, Kids
<1>5. Nodes(n, place) \subseteq E
    BY <1>2, <1>4, NodesInside
<1> QED
    BY <1>5

LEMMA BelowNodes ==
    ASSUME NEW n, Rooted(n), NEW place, Descent(n, place).edge = {}
    PROVE  \A m \in Below(n) : \E x \in Nodes(n, place) : x[1] = m
<1> DEFINE F == {x[1] : x \in Nodes(n, place)}
<1>1. Child(n, place) \subseteq Nodes(n, place) /\ \A x \in Nodes(n, place) : Children(x) \subseteq Nodes(n, place)
    BY NodesClosed
<1>0. \A m, p : <<m, p>> \in Nodes(n, place) => m \in F
    <2> SUFFICES ASSUME NEW m, NEW p, <<m, p>> \in Nodes(n, place) PROVE m \in F
        OBVIOUS
    <2>1. <<m, p>>[1] = m
        OBVIOUS
    <2> QED
        BY <2>1, Zenon
<1>2. {n} \ {NULL} \subseteq F
    <2> HIDE DEF F
    <2> QED
        BY <1>0, <1>1 DEF Child
<1>3. ASSUME NEW x \in Nodes(n, place) PROVE IsNode(x[1]) /\ Kids(x[1]) \subseteq F
    <2>1. IsNode(x[1])
        BY NodesBelow, BelowIs DEF IsBelow, Holds, Closed
    <2>2. Child(x[1].left, x[2]) \subseteq Nodes(n, place)
        BY <1>1 DEF Children
    <2>3. Child(x[1].right, Inner(x[1].type, x[2])) \subseteq Nodes(n, place)
        BY <1>1 DEF Children
    <2> HIDE DEF F
    <2>4. x[1].left # NULL => x[1].left \in F
        BY <1>0, <2>2 DEF Child
    <2>5. x[1].right # NULL => x[1].right \in F
        BY <1>0, <2>3 DEF Child
    <2> QED
        BY <2>1, <2>4, <2>5 DEF Kids
<1>4. Closed(F)
    BY <1>3 DEF Closed
<1>5. Below(n) \subseteq F
    BY <1>2, <1>4, BelowIs DEF IsBelow, Holds
<1> QED
    BY <1>5

LEMMA WholeTree ==
    ASSUME Rooted(out.node), Whole
    PROVE  /\ Places(out.node) = PlacesBelow(out.node) /\ FunctionNames = NamesBelow(out.node)
           /\ \A types : Has(types) <=> HasBelow(out.node, types)
<1>1. \A x \in Nodes(out.node, "NONE") : x[1] \in Below(out.node)
    BY NodesBelow
<1>2. \A m \in Below(out.node) : \E x \in Nodes(out.node, "NONE") : x[1] = m
    BY BelowNodes DEF Whole
<1>3. Places(out.node) = PlacesBelow(out.node)
    BY <1>1, <1>2 DEF Places, PlacesBelow
<1>4. FunctionNames = NamesBelow(out.node)
    BY <1>1, <1>2 DEF FunctionNames, NamesBelow
<1>5. \A types : Has(types) <=> HasBelow(out.node, types)
    BY <1>1, <1>2 DEF Has, HasBelow
<1> QED
    BY <1>3, <1>4, <1>5

\* In a tree of any size, every identifier, literal and type word consumed is
\* kept, once and in its place, but for the operand of a sign (parser.c:315) and
\* the statements in front of an else (parser.c:798).
THEOREM OperandsKeptHolds == Spec => []OperandsKept
<1>1. TokensInv => OperandsKept
    <2> SUFFICES ASSUME TokensInv, Accepted, WellEnded, ~Has({"NEGATE", "ELSE", "ELSE_IF"})
                 PROVE  /\ Places(out.node) = {k \in 0..(out.ix - 1) : T(k) \in Operands \/ k \in FunctionNames}
                        /\ \A x \in Nodes(out.node, "NONE") :
                               \A k \in Places(x[1].left), m \in Places(x[1].right) : k < m
        BY DEF OperandsKept
    <2>1. PICK N : Spans(out.node, 0, out.ix, N)
        BY DEF TokensInv, WellEnded
    <2>2. Rooted(out.node)
        BY <2>1 DEF Spans
    <2>3. /\ Places(out.node) = PlacesBelow(out.node) /\ FunctionNames = NamesBelow(out.node)
          /\ ~HasBelow(out.node, Losers)
        BY <2>2, WholeTree DEF WellEnded, Losers
    <2>4. ~HasBelow(out.node, Alternatives)
        BY <2>3 DEF HasBelow, Losers, Alternatives
    <2>5. N = FunctionNames /\ PlacesBelow(out.node) = Tokens(0, out.ix, N) /\ InOrder(out.node)
        BY <2>1, <2>3, <2>4 DEF Spans
    <2>6. Places(out.node) = {k \in 0..(out.ix - 1) : T(k) \in Operands \/ k \in FunctionNames}
        BY <2>3, <2>5 DEF Tokens
    <2>7. ASSUME NEW x \in Nodes(out.node, "NONE"), NEW k \in Places(x[1].left), NEW m \in Places(x[1].right)
          PROVE  k < m
        <3>1. x[1] \in Below(out.node)
            BY <2>2, NodesBelow
        <3>2. Rooted(x[1].left) /\ Rooted(x[1].right)
            BY <2>2, <3>1, BelowRooted
        <3>3. k \in PlacesBelow(x[1].left)
            BY <3>2, NodesBelow DEF Places, PlacesBelow
        <3>4. m \in PlacesBelow(x[1].right)
            BY <3>2, NodesBelow DEF Places, PlacesBelow
        <3> QED
            BY <2>5, <3>1, <3>3, <3>4 DEF InOrder
    <2> QED
        BY <2>6, <2>7
<1> QED
    BY <1>1, TokensInvHolds, PTL

\* The brackets that are open are what their definition says.
LEMMA OpenIs ==
    ASSUME NEW names, NEW j \in Nat
    PROVE  \E f : f = [k \in 0..j |-> IF k = 0 THEN <<>> ELSE OpenBehind(f[k - 1], k - 1, names)]
<1> DEFINE Is(f, m) == f = [k \in 0..m |-> IF k = 0 THEN <<>> ELSE OpenBehind(f[k - 1], k - 1, names)]
           S == {m \in Nat : \E f : Is(f, m)}
<1>1. 0 \in S
    <2>1. Is([k \in 0..0 |-> <<>>], 0)
        OBVIOUS
    <2> QED
        BY <2>1
<1>2. ASSUME NEW m \in Nat, m \in S PROVE m + 1 \in S
    <2>1. PICK f : Is(f, m)
        BY <1>2
    <2> DEFINE g == [k \in 0..(m + 1) |-> IF k = m + 1 THEN OpenBehind(f[m], m, names) ELSE f[k]]
    <2>2. ASSUME NEW k \in 0..(m + 1)
          PROVE  g[k] = IF k = 0 THEN <<>> ELSE OpenBehind(g[k - 1], k - 1, names)
        <3>1. CASE k = 0
            <4>1. g[k] = f[k] /\ f[k] = <<>>
                BY <2>1, <3>1
            <4> QED
                BY <3>1, <4>1
        <3>2. CASE k # 0 /\ k # m + 1
            <4>1. k \in 0..m /\ k - 1 \in 0..m
                BY <3>2
            <4>2. g[k] = f[k] /\ g[k - 1] = f[k - 1]
                BY <4>1
            <4>3. f[k] = OpenBehind(f[k - 1], k - 1, names)
                BY <2>1, <3>2, <4>1
            <4> HIDE DEF g
            <4> QED
                BY <3>2, <4>2, <4>3
        <3>3. CASE k = m + 1
            <4>1. g[k] = OpenBehind(f[m], m, names) /\ g[k - 1] = f[m] /\ k # 0 /\ k - 1 = m
                BY <3>3
            <4> HIDE DEF g
            <4> QED
                BY <4>1
        <3> QED
            BY <3>1, <3>2, <3>3
    <2>3. g = [k \in 0..(m + 1) |-> g[k]]
        OBVIOUS
    <2> HIDE DEF g
    <2>4. Is(g, m + 1)
        BY <2>2, <2>3
    <2> QED
        BY <2>4
<1> HIDE DEF S
<1>3. j \in S
    BY <1>1, <1>2, SetInduction
<1> QED
    BY <1>3 DEF S

\* For any stream that is accepted with its calls closed, the brackets of what
\* was consumed match (sk_parse_token_stream, parser.c:905).
THEOREM BalancedOnAcceptHolds == Spec => []BalancedOnAccept
<1>1. TokensInv => BalancedOnAccept
    <2> DEFINE names == IF Forked THEN {} ELSE FunctionNames
               Is(f) == f = [k \in 0..out.ix |-> IF k = 0 THEN <<>> ELSE OpenBehind(f[k - 1], k - 1, names)]
               open == CHOOSE f : Is(f)
    <2> SUFFICES ASSUME TokensInv, Accepted, WellEnded, Forked => BracketsAsNames = {}
                 PROVE  open[out.ix] = <<>>
        BY DEF BalancedOnAccept
    <2>1. PICK N : Spans(out.node, 0, out.ix, N)
        BY DEF TokensInv, WellEnded
    <2>2. /\ out.ix \in Nat /\ N \subseteq 0..(out.ix - 1) /\ Rooted(out.node) /\ Balanced(0, out.ix, N)
          /\ \A k \in N : Named(k)
        BY <2>1 DEF Spans
    <2>3. FunctionNames = NamesBelow(out.node) /\ (Forked <=> HasBelow(out.node, Alternatives))
        BY <2>2, WholeTree DEF WellEnded, Forked, Alternatives
    <2>4. Balanced(0, out.ix, names)
        <3>1. CASE ~Forked
            BY <2>1, <2>2, <2>3, <3>1 DEF Spans
        <3>2. CASE Forked
            <4>1. ASSUME NEW k \in 0..(out.ix - 1), T(k) \in Opening \cup Closing PROVE k \notin N
                <5> SUFFICES ASSUME k \in N PROVE FALSE
                    OBVIOUS
                <5>1. k > 0 /\ T(k + 1) = "(" /\ T(k - 1) \in TypeWords \cup {"]"}
                    BY <2>2 DEF Named
                <5>2. k \in 1..(out.ix - 1)
                    BY <2>2, <5>1
                <5>3. k \in BracketsAsNames
                    BY <4>1, <5>1, <5>2 DEF BracketsAsNames
                <5> QED
                    BY <3>2, <5>3
            <4>2. \A k \in 0..(out.ix - 1) : T(k) \in Opening \cup Closing => (k \in N <=> k \in {})
                BY <4>1
            <4>3. Balanced(0, out.ix, {})
                BY <2>2, <4>2, BalancedAgree
            <4> QED
                BY <3>2, <4>3
        <3> QED
            BY <3>1, <3>2
    <2> HIDE DEF names
    <2>5. Is(open)
        <3>1. \E f : Is(f)
            BY <2>2, OpenIs
        <3> HIDE DEF Is
        <3> QED
            BY <3>1
    <2> HIDE DEF open
    <2>6. open[0] = <<>>
        BY <2>2, <2>5
    <2>7. ASSUME NEW k \in 0..(out.ix - 1) PROVE open[k + 1] = OpenBehind(open[k], k, names)
        <3>1. k + 1 \in 0..out.ix /\ k + 1 # 0 /\ (k + 1) - 1 = k
            BY <2>2
        <3> QED
            BY <2>5, <3>1
    <2>8. open[out.ix] = open[0]
        BY <2>4, <2>7 DEF Balanced
    <2> QED
        BY <2>6, <2>8 DEF open, names
<1> QED
    BY <1>1, TokensInvHolds, PTL
=============================================================================
