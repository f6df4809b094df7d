------------------------------- MODULE Parser -------------------------------
(***************************************************************************)
(* The recursive-descent parser of SelkScript (compiler/parser.c).  Each   *)
(* sk_parse_xxx(token_stream, &index) is an operator Xxx(P, i) that        *)
(* returns what the C function leaves behind: where the index stands, the  *)
(* node it returns (NULL included), and whether sk_emit_error ended the    *)
(* program.  A call that may come back to the function that made it goes   *)
(* through P, what such calls return one level of recursion further down:  *)
(* there are Depth levels, and below them the C stack is full.             *)
(*                                                                         *)
(* A token is its type, named by its sign, or as in token.h if the provers *)
(* do not take the sign: LCURLY, RCURLY, SEMICOLON, COMMA.  The value of a *)
(* leaf is the place it was read from.                                     *)
(***************************************************************************)
EXTENDS Integers, Sequences, FiniteSets, TLC

CONSTANTS
    Inputs,     \* records of initial values of toks, junk and wrap
    Depth,      \* the levels of recursion the C stack has room for
    Height      \* how far down the properties look into a tree

VARIABLES
    toks,   \* token_stream
    junk,   \* the types found in the cells behind the stream
    wrap,   \* the type found in front of it, or "FAULT"
    out     \* the outcome of sk_parse_token_stream; NULL before the call

vars == <<toks, junk, wrap, out>>

Literals == {"LIT_INT", "LIT_FLOAT", "LIT_BOOL", "LIT_STRING"}

\* What EofEndsStream of Lexer says of a stream: it ends with the only EOF, or
\* its last token is an identifier or a float that swallowed the Nul.
ASSUME StreamAssumption ==
    \A in \in Inputs :
        LET s == in.toks
        IN  Len(s) > 0 => /\ \A n \in 1..(Len(s) - 1) : s[n] # "EOF"
                          /\ s[Len(s)] \in {"EOF", "IDENT", "LIT_FLOAT"}

\* No cell has one of the two types that stand for no type.
ASSUME CellAssumption ==
    \A in \in Inputs : {in.toks, in.junk} \subseteq Seq(STRING \ {"INVALID", "FAULT"})

ASSUME DepthAssumption == Depth \in Nat /\ Height \in Nat

(***************************************************************************)
(* Reading tokens.  Most reads are not checked against the length: the     *)
(* cells behind the stream read as junk, and those behind the junk as a    *)
(* type the parser does not know.                                          *)
(***************************************************************************)
Memory == toks \o junk
T(i) == IF i < Len(Memory) THEN Memory[i + 1] ELSE "INVALID"
AtEnd(i) == T(i) = "EOF" \/ i >= Len(toks)

\* Mutated form of Prev: one token further back.
PrevTooFar(i) == IF i <= 1 THEN wrap ELSE T(i - 2)

\* token_stream[*index - 1].  The guard "index - 1 > 0" compares the address
\* of the index, so at index 0 the 32-bit *index - 1 wraps: a 32-bit build
\* reads in front of the stream, a 64-bit build far behind it ("FAULT").
Prev(i) == IF i = 0 THEN wrap ELSE T(i - 1)

(***************************************************************************)
(* Nodes and results.                                                      *)
(***************************************************************************)
NULL == [type |-> "NULL"]
Node(type, left, right) == [type |-> type, left |-> left, right |-> right, tok |-> -1]
Leaf(type, i) == [type |-> type, left |-> NULL, right |-> NULL, tok |-> i]

Ok(i, node) == [st |-> "ok", ix |-> i, node |-> node]
Err == [st |-> "error", ix |-> -1, node |-> NULL]
Fault == [st |-> "fault", ix |-> -1, node |-> NULL]
Overflow == [st |-> "overflow", ix |-> -1, node |-> NULL]

\* The code behind a call runs unless the call ended the program.
Then(r, F(_)) == IF r.st = "ok" THEN F(r) ELSE r

\* Wrap the returned node as the left child of a new one.
Under(type, r) == Then(r, LAMBDA s : Ok(s.ix, Node(type, s.node, NULL)))

\* Mutated form of Expect: the token is skipped unchecked.
ExpectAnything(type, r) == Then(r, LAMBDA s : Ok(s.ix + 1, s.node))

\* "if (token_stream[*index].type != type) error; ++*index;" behind a call.
Expect(type, r) == Then(r, LAMBDA s : IF T(s.ix) = type THEN Ok(s.ix + 1, s.node) ELSE Err)

\* The same with the length checked first.
ExpectInside(type, r) == Then(r, LAMBDA s : IF s.ix < Len(toks) THEN Expect(type, s) ELSE Err)

\* A missing operand (NULL) is an error.
Needed(r) == Then(r, LAMBDA s : IF s.node = NULL THEN Err ELSE s)

VarName(i) == Ok(i + 1, Leaf("VARNAME", i))

(***************************************************************************)
(* Expressions, from the loosest operator to the tightest.                 *)
(***************************************************************************)
One(sign, type) == [signs |-> <<sign>>, type |-> type]
Two(first, second, type) == [signs |-> <<first, second>>, type |-> type]

OrOps == {Two("|", "|", "LOGIC_OR")}
AndOps == {Two("&", "&", "LOGIC_AND")}
CompareOps == {Two("=", "=", "CMP_EQ"), Two("!", "=", "CMP_NE"), Two(">", "=", "CMP_GTE"), Two("<", "=", "CMP_LTE"),
               One(">", "CMP_GT"), One("<", "CMP_LT")}
BitwiseOps == {Two("<", "<", "SHL"), Two(">", ">", "SHR"), One("^", "XOR"), One("|", "BIT_OR"), One("&", "BIT_AND")}
ModulusOps == {One("%", "MODULUS")}
AdditiveOps == {One("+", "ADD"), One("-", "SUBTRACT")}
MultiplicativeOps == {One("*", "MULTIPLY"), One("/", "DIVIDE")}

\* Mutated form of Longest: one sign is tried before two.
Shortest(S) == CHOOSE op \in S : \A p \in S : Len(p.signs) >= Len(op.signs)

\* The operators of a level that stand at i; two signs are tried before one.
Spelled(ops, i) == {op \in ops : \A k \in 1..Len(op.signs) : T(i + k - 1) = op.signs[k]}
Longest(S) == CHOOSE op \in S : \A p \in S : Len(p.signs) <= Len(op.signs)

\* The body shared by the seven binary levels: lhs is the operand parsed
\* first, again what the function itself returns for the right-hand side.
Binary(lhs, ops, again) ==
    Then(lhs, LAMBDA l :
        IF AtEnd(l.ix) \/ Spelled(ops, l.ix) = {} THEN l
        ELSE LET op == Longest(Spelled(ops, l.ix))
             IN  Then(Needed(again[l.ix + Len(op.signs)]), LAMBDA r : Ok(r.ix, Node(op.type, l.node, r.node))))

ArrayIndex(P, i) ==
    IF T(i) # "[" THEN Ok(i, NULL)
    ELSE Then(Expect("]", P.Or[i + 1]), LAMBDA e :
             Then(P.ArrayIndex[e.ix], LAMBDA r : Ok(r.ix, Node("ARRAY_INDEX", e.node, r.node))))

ArrayAccess(P, i) ==
    Then(ArrayIndex(P, i + 1), LAMBDA r : Ok(r.ix, Node("ARRAY_ACCESS", Leaf("VARNAME", i), r.node)))

MemberAccess(P, i) ==
    LET dotted == T(i) = "IDENT" /\ T(i + 1) = "."
    IN  IF i + 1 >= Len(toks) THEN VarName(i)
        ELSE IF ~dotted /\ Prev(i) = "FAULT" THEN Fault
        ELSE IF dotted THEN Then(Needed(P.Factor[i + 2]), LAMBDA r :
                                Ok(r.ix, Node("MEMBER_ACCESS", Leaf("VARNAME", i), r.node)))
        ELSE IF T(i) = "IDENT" /\ Prev(i) = "."
        THEN Ok(i + 1, Node("MEMBER_ACCESS", Leaf("VARNAME", i), NULL))
        ELSE IF T(i) = "IDENT" /\ T(i + 1) = "[" THEN ArrayAccess(P, i)
        ELSE VarName(i)

\* { list } and [ list ]
ConstStruct(P, i) == Under("CONST_STRUCT", P.ExprList[i + 1])
ConstArray(P, i) == Under("CONST_ARRAY", P.ExprList[i + 1])

Factor(P, i) ==
    IF AtEnd(i) THEN Ok(i, NULL)
    ELSE CASE T(i) \in Literals -> Ok(i + 1, Leaf(T(i), i))
           [] T(i) = "IDENT" ->
                  IF i + 1 < Len(toks) /\ T(i + 1) \in {".", "["} THEN MemberAccess(P, i) ELSE VarName(i)
           [] T(i) = "LCURLY" -> ExpectInside("RCURLY", ConstStruct(P, i))
           [] T(i) = "[" -> ExpectInside("]", ConstArray(P, i))
           [] T(i) = "(" -> Expect(")", P.Or[i + 1])
           [] OTHER -> Err

Call(P, i) ==
    IF i + 1 < Len(toks) /\ T(i) = "IDENT" /\ T(i + 1) = "("
    THEN IF T(i + 2) = ")" THEN Ok(i + 3, Node("CALL", Leaf("VARNAME", i), NULL))
         ELSE Then(P.ExprList[i + 2], LAMBDA r :
                  IF r.ix < Len(toks) /\ T(r.ix) # ")" THEN Err
                  ELSE Ok(r.ix + 1, Node("CALL", Leaf("VARNAME", i), r.node)))
    ELSE Factor(P, i)

\* "if (negate->left = NULL)" assigns: the operand is parsed and dropped.
Negate(P, i) ==
    IF AtEnd(i) THEN Ok(i, NULL)
    ELSE IF T(i) = "-" THEN Then(Call(P, i + 1), LAMBDA r : Ok(r.ix, Node("NEGATE", NULL, NULL)))
    ELSE Call(P, i)

Multiplicative(P, i) == Binary(Negate(P, i), MultiplicativeOps, P.Multiplicative)
Additive(P, i) == Binary(Multiplicative(P, i), AdditiveOps, P.Additive)
Modulus(P, i) == Binary(Additive(P, i), ModulusOps, P.Modulus)
Bitwise(P, i) == Binary(Modulus(P, i), BitwiseOps, P.Bitwise)
Compare(P, i) == Binary(Bitwise(P, i), CompareOps, P.Compare)

Not(P, i) ==
    IF AtEnd(i) THEN Ok(i, NULL)
    ELSE IF T(i) = "!" /\ T(i + 1) # "=" THEN Under("NOT", Needed(Compare(P, i + 1)))
    ELSE Compare(P, i)

And(P, i) == Binary(Not(P, i), AndOps, P.And)
Or(P, i) == Binary(And(P, i), OrOps, P.Or)

ExprList(P, i) ==
    IF AtEnd(i) THEN Ok(i, Node("EXPR_LIST", NULL, NULL))
    ELSE Then(Or(P, i), LAMBDA e :
             IF e.node = NULL THEN e
             ELSE IF T(e.ix) = "COMMA"
             THEN Then(P.ExprList[e.ix + 1], LAMBDA r : Ok(r.ix, Node("EXPR_LIST", e.node, r.node)))
             ELSE Ok(e.ix, Node("EXPR_LIST", e.node, NULL)))

BasicTypes == {"WORD_INT", "WORD_FLOAT", "WORD_BOOL", "WORD_VOID"}
TypeWords == BasicTypes \cup {"IDENT", "WORD_REF", "WORD_CONST"}

\* A type without its array suffix; NULL when no type stands at i.
PlainType(P, i) ==
    CASE T(i) \in BasicTypes -> Ok(i + 1, Leaf("TYPE", i))
      [] T(i) = "IDENT" -> Ok(i + 1, Node("TYPE_USER", Leaf("VARNAME", i), NULL))
      [] T(i) = "WORD_REF" -> Under("DECL_REFERENCE", Needed(P.TypeName[i + 1]))
      [] T(i) = "WORD_CONST" -> Under("DECL_CONST", Needed(P.TypeName[i + 1]))
      [] OTHER -> Ok(i, NULL)

TypeName(P, i) ==
    Then(PlainType(P, i), LAMBDA t :
        IF t.node = NULL \/ T(t.ix) # "[" THEN t
        ELSE IF T(t.ix + 1) = "]" THEN Ok(t.ix + 2, Node("NOSIZED_ARRAY", t.node, NULL))
        ELSE Then(Expect("]", Or(P, t.ix + 1)), LAMBDA e : Ok(e.ix, Node("SIZED_ARRAY", t.node, e.node))))

(***************************************************************************)
(* Declarations and statements.                                            *)
(***************************************************************************)
\* Mutated form of Assign: only the = is looked at.
AssignToAny(P, i) ==
    IF i + 1 < Len(toks) /\ T(i + 1) = "="
    THEN Then(Expect("=", MemberAccess(P, i)), LAMBDA m :
             Then(Or(P, m.ix), LAMBDA e : Ok(e.ix, Node("ASSIGN", m.node, e.node))))
    ELSE Ok(i, NULL)

\* NULL, without moving, unless "name =" stands at i.
Assign(P, i) ==
    IF i + 1 < Len(toks) /\ T(i) = "IDENT" /\ T(i + 1) = "="
    THEN Then(Expect("=", MemberAccess(P, i)), LAMBDA m :
             Then(Or(P, m.ix), LAMBDA e : Ok(e.ix, Node("ASSIGN", m.node, e.node))))
    ELSE Ok(i, NULL)

DeclVar(P, i) ==
    Then(Needed(TypeName(P, i)), LAMBDA t :
        Then(Assign(P, t.ix), LAMBDA a :
            IF a.node # NULL THEN Ok(a.ix, Node("DECL_VAR", t.node, a.node))
            ELSE IF T(t.ix) = "IDENT" THEN Ok(t.ix + 1, Node("DECL_VAR", t.node, Leaf("VARNAME", t.ix)))
            ELSE Err))

\* Parameters separated by commas, members by semicolons.
Decls(P, i, type, sep, again) ==
    IF AtEnd(i) THEN Ok(i, Node(type, NULL, NULL))
    ELSE IF T(i) \notin TypeWords THEN Ok(i, NULL)
    ELSE Then(DeclVar(P, i), LAMBDA d :
             IF T(d.ix) # sep THEN Ok(d.ix, Node(type, d.node, NULL))
             ELSE Then(again[d.ix + 1], LAMBDA r : Ok(r.ix, Node(type, d.node, r.node))))

DeclList(P, i) == Decls(P, i, "VAR_LIST", "COMMA", P.DeclList)
DeclMembers(P, i) == Decls(P, i, "MEMBER_LIST", "SEMICOLON", P.DeclMembers)

DeclStruct(P, i) ==
    IF T(i + 1) # "IDENT" \/ T(i + 2) # "LCURLY" THEN Err
    ELSE Then(Expect("RCURLY", DeclMembers(P, i + 3)), LAMBDA m :
             Ok(m.ix, Node("DECL_STRUCT", Leaf("VARNAME", i + 1), m.node)))

\* Mutated form of StmtBlock: the closing bracket is skipped unchecked.
StmtBlockOpen(P, i, block) ==
    IF T(i) # "LCURLY" THEN Err
    ELSE IF T(i + 1) = "RCURLY" THEN Ok(i + 2, NULL)
    ELSE Then(P.StmtSeq[block][i + 1], LAMBDA s : Ok(s.ix + 1, s.node))

StmtBlock(P, i, block) ==
    IF T(i) # "LCURLY" THEN Err
    ELSE IF T(i + 1) = "RCURLY" THEN Ok(i + 2, NULL)
    ELSE Expect("RCURLY", P.StmtSeq[block][i + 1])

\* The name of a function is whatever token stands there.
DeclTypeVarname(P, i) ==
    Then(TypeName(P, i), LAMBDA t : Ok(t.ix + 1, Node("TYPE_VARNAME", t.node, Leaf("VARNAME", t.ix))))

FunctionSignature(P, i) ==
    Then(Expect("(", DeclTypeVarname(P, i)), LAMBDA f :
        IF T(f.ix) = ")" THEN Ok(f.ix + 1, Node("SIGNATURE", f.node, NULL))
        ELSE Then(Expect(")", DeclList(P, f.ix)), LAMBDA p : Ok(p.ix, Node("SIGNATURE", f.node, p.node))))

DeclFunction(P, i) ==
    Then(FunctionSignature(P, i), LAMBDA s :
        Then(StmtBlock(P, s.ix, "FUNC"), LAMBDA b : Ok(b.ix, Node("DECL_FUNCTION", s.node, b.node))))

Return(P, i) == Under("RETURN", Expect("SEMICOLON", Or(P, i + 1)))

\* ( condition ) behind the word at i
Condition(P, i) == IF T(i + 1) = "(" THEN Expect(")", Or(P, i + 2)) ELSE Err

\* Mutated form of While: the condition is not stored.
WhileForgets(P, i) ==
    Then(Condition(P, i), LAMBDA c :
        Then(StmtBlock(P, c.ix, "LOOP"), LAMBDA b : Ok(b.ix, Node("WHILE", NULL, b.node))))

While(P, i) ==
    Then(Condition(P, i), LAMBDA c :
        Then(StmtBlock(P, c.ix, "LOOP"), LAMBDA b : Ok(b.ix, Node("WHILE", c.node, b.node))))

Jump(i, type) == IF T(i + 1) = "SEMICOLON" THEN Ok(i + 2, Node(type, NULL, NULL)) ELSE Err
Break(i) == Jump(i, "BREAK")
Continue(i) == Jump(i, "CONTINUE")

Else(P, i, block) == Then(StmtBlock(P, i + 1, block), LAMBDA b : Ok(b.ix, Node("ELSE", NULL, b.node)))

\* The alternative is hung in the place of the first statement's own left
\* child, or replaces an empty block.
WithAlternative(then, alternative) ==
    IF then = NULL THEN alternative ELSE [then EXCEPT !.left = alternative]

Conditional(P, i, type, block) ==
    Then(Condition(P, i), LAMBDA c :
        Then(StmtBlock(P, c.ix, block), LAMBDA b :
            IF T(b.ix) \notin {"WORD_ELSE_IF", "WORD_ELSE"} THEN Ok(b.ix, Node(type, c.node, b.node))
            ELSE Then(IF T(b.ix) = "WORD_ELSE" THEN Else(P, b.ix, block) ELSE P.ElseIf[block][b.ix], LAMBDA a :
                     Ok(a.ix, Node(type, c.node, WithAlternative(b.node, a.node))))))

\* Mutated form of If: its block is parsed as that of a loop.
IfAsLoop(P, i, block) == Conditional(P, i, "IF", "LOOP")

If(P, i, block) == Conditional(P, i, "IF", block)
ElseIf(P, i, block) == Conditional(P, i, "ELSE_IF", block)

MemberAssign(P, i) ==
    Then(Expect("=", MemberAccess(P, i)), LAMBDA m :
        Then(Expect("SEMICOLON", Or(P, m.ix)), LAMBDA e : Ok(e.ix, Node("ASSIGN", m.node, e.node))))

\* A declaration is told from its third token, counting one more for a leading
\* ref or const and one more for a ref behind the first token.
Offset(i) == (IF T(i) \in {"WORD_REF", "WORD_CONST"} THEN 3 ELSE 2) + (IF T(i + 1) = "WORD_REF" THEN 1 ELSE 0)
Third(i) == IF i + Offset(i) < Len(toks) THEN T(i + Offset(i)) ELSE "NONE"

Declaration(P, i) ==
    CASE Third(i) = "(" -> DeclFunction(P, i)
      [] Third(i) \in {"=", "SEMICOLON"} -> Expect("SEMICOLON", DeclVar(P, i))
      [] OTHER -> Ok(i, NULL)

\* One statement without its NODE_STMT; NULL, without moving, if none of the
\* statements that the kind of block allows stands at i.
BareStmt(P, i, block) ==
    LET next == IF i + 1 < Len(toks) THEN T(i + 1) ELSE "NONE"
    IN  CASE T(i) = "WORD_IF" /\ block # "NONE" -> If(P, i, block)
          [] T(i) = "WORD_WHILE" /\ block # "NONE" -> While(P, i)
          [] T(i) = "IDENT" /\ next = "=" -> Expect("SEMICOLON", Assign(P, i))
          [] T(i) = "IDENT" /\ next = "." -> MemberAssign(P, i)
          [] T(i) \in TypeWords /\ ~(T(i) = "IDENT" /\ next \in {"=", "."}) -> Declaration(P, i)
          [] T(i) = "WORD_BREAK" /\ block = "LOOP" -> Break(i)
          [] T(i) = "WORD_CONTINUE" /\ block = "LOOP" -> Continue(i)
          [] T(i) = "WORD_RETURN" /\ block = "FUNC" -> Return(P, i)
          [] T(i) = "WORD_STRUCT" /\ block = "NONE" -> DeclStruct(P, i)
          [] OTHER -> Ok(i, NULL)

Stmt(P, i, block) ==
    IF i >= Len(toks) THEN Err
    ELSE Then(BareStmt(P, i, block), LAMBDA s : IF s.node = NULL THEN s ELSE Under("STMT", s))

\* Mutated form of StmtSeq: the sequence goes on with the same statement.
StmtSeqStuck(P, i, block) ==
    Then(Stmt(P, i, block), LAMBDA s :
        IF s.node = NULL \/ s.ix >= Len(toks) THEN s
        ELSE Then(P.StmtSeq[block][i], LAMBDA r : Ok(r.ix, [s.node EXCEPT !.right = r.node])))

StmtSeq(P, i, block) ==
    Then(Stmt(P, i, block), LAMBDA s :
        IF s.node = NULL \/ s.ix >= Len(toks) THEN s
        ELSE Then(P.StmtSeq[block][s.ix], LAMBDA r : Ok(r.ix, [s.node EXCEPT !.right = r.node])))

(***************************************************************************)
(* Recursion.                                                              *)
(***************************************************************************)
Blocks == {"NONE", "LOOP", "FUNC"}

\* What the calls return that have the calls P below them.
Calls(P) ==
    [Or |-> [i \in Nat |-> Or(P, i)], And |-> [i \in Nat |-> And(P, i)],
     Compare |-> [i \in Nat |-> Compare(P, i)], Bitwise |-> [i \in Nat |-> Bitwise(P, i)],
     Modulus |-> [i \in Nat |-> Modulus(P, i)], Additive |-> [i \in Nat |-> Additive(P, i)],
     Multiplicative |-> [i \in Nat |-> Multiplicative(P, i)], Factor |-> [i \in Nat |-> Factor(P, i)],
     ArrayIndex |-> [i \in Nat |-> ArrayIndex(P, i)], ExprList |-> [i \in Nat |-> ExprList(P, i)],
     TypeName |-> [i \in Nat |-> TypeName(P, i)],
     DeclList |-> [i \in Nat |-> DeclList(P, i)], DeclMembers |-> [i \in Nat |-> DeclMembers(P, i)],
     StmtSeq |-> [block \in Blocks |-> [i \in Nat |-> StmtSeq(P, i, block)]],
     ElseIf |-> [block \in Blocks |-> [i \in Nat |-> ElseIf(P, i, block)]]]

\* No call finds room on the stack.
NoCalls ==
    LET no == [i \in Nat |-> Overflow]
        none == [block \in Blocks |-> no]
    IN  [Or |-> no, And |-> no, Compare |-> no, Bitwise |-> no, Modulus |-> no, Additive |-> no,
         Multiplicative |-> no, Factor |-> no, ArrayIndex |-> no, ExprList |-> no, TypeName |-> no,
         DeclList |-> no, DeclMembers |-> no, StmtSeq |-> none, ElseIf |-> none]

\* The calls with d levels of recursion to go.
Level ==
    LET at[d \in 0..Depth] == IF d = 0 THEN NoCalls ELSE Calls(at[d - 1])
    IN  at

Program(i) == Level[Depth].StmtSeq["NONE"][i]

(***************************************************************************)
(* sk_parse_token_stream: one call parses the stream.                      *)
(***************************************************************************)
Init ==
    /\ \E in \in Inputs : toks = in.toks /\ junk = in.junk /\ wrap = in.wrap
    /\ out = NULL

ParseTokenStream ==
    /\ out = NULL
    /\ out' = IF Len(toks) > 0 THEN Program(0) ELSE Ok(0, NULL)
    /\ UNCHANGED <<toks, junk, wrap>>

Spec == Init /\ [][ParseTokenStream]_vars

(***************************************************************************)
(* Properties of what the parser returns.                                  *)
(***************************************************************************)
Parsed == out # NULL
Accepted == out # NULL /\ out.st = "ok"

\* The outcome is a node, an error, a fault, or a full stack, and what was
\* consumed can be read.
TypeOK ==
    Parsed => /\ out.st \in {"ok", "error", "fault", "overflow"}
              /\ out.st = "ok" => out.ix \in 0..Len(Memory)

\* Every call that nests deeper stands further on: a stream never takes more
\* levels of recursion than it has cells to read, and with as many it is parsed.
StackSuffices == Parsed /\ out.st = "overflow" => Depth <= Len(Memory)

\* The nodes of a tree as far down as Height, each with the kind of block it
\* stands in, or "NAME" for the token that stands in the place of the name of
\* a function, which may be any token; what lies below them is on the edge.
Inner(type, place) ==
    CASE type = "WHILE" -> "LOOP"
      [] type = "DECL_FUNCTION" -> "FUNC"
      [] type = "TYPE_VARNAME" -> "NAME"
      [] OTHER -> place
Child(n, place) == IF n = NULL THEN {} ELSE {<<n, place>>}
Children(x) == Child(x[1].left, x[2]) \cup Child(x[1].right, Inner(x[1].type, x[2]))
Descent(n, place) ==
    LET at[k \in 0..Height] ==
            IF k = 0 THEN [nodes |-> {}, edge |-> Child(n, place)]
            ELSE LET up == at[k - 1]
                 IN  [nodes |-> up.nodes \cup up.edge, edge |-> UNION {Children(x) : x \in up.edge}]
    IN  at[Height]
Nodes(n, place) == Descent(n, place).nodes

\* Jumps stand where the block kinds allow them, through any nesting of if and
\* else: break and continue belong to a while of the same function, return to
\* a function and not to a while inside it.
Placed(type, place) ==
    /\ type \in {"BREAK", "CONTINUE"} => place = "LOOP"
    /\ type = "RETURN" => place = "FUNC"
    /\ type \in {"IF", "WHILE"} => place # "NONE"
    /\ type = "DECL_STRUCT" => place = "NONE"
JumpsPlaced == Accepted => \A x \in Nodes(out.node, "NONE") : Placed(x[1].type, x[2])

\* The member of the union of a token that sk_lex_source writes, and the member
\* of the union of a node that print_ast_node reads.
Written(type) ==
    CASE type = "LIT_INT" -> "int"
      [] type = "LIT_FLOAT" -> "float"
      [] type = "LIT_BOOL" -> "bool"
      [] type \in {"LIT_STRING", "IDENT"} -> "text"
      [] OTHER -> "nothing"
PrintReads(type) ==
    CASE type = "LIT_INT" -> "int"
      [] type = "LIT_FLOAT" -> "float"
      [] type = "LIT_BOOL" -> "bool"
      [] type \in {"LIT_STRING", "VARNAME"} -> "text"
      [] OTHER -> "nothing"

\* Nothing but the type of a node tells what its union holds: print_ast_node
\* reads from every leaf what the lexer wrote into its token, and takes no number
\* for an address, whatever lies behind the stream.  The name of a function,
\* which may be any token, is the exception.
PrintReadsWhatWasWritten ==
    Accepted => \A x \in Nodes(out.node, "NONE") :
        PrintReads(x[1].type) # "nothing" /\ x[2] # "NAME" => PrintReads(x[1].type) = Written(T(x[1].tok))

\* A program that ends with EOF is accepted without stepping over it, whatever
\* lies behind the stream, unless a type with an array suffix starts it off.
StopsAtEof ==
    Accepted /\ Len(toks) > 0 /\ toks[Len(toks)] = "EOF" /\ (\A n \in 1..Len(toks) : toks[n] # "[")
        => out.ix < Len(toks)

\* The read in front of the stream happens to one program only: an assignment
\* "name =" as the very first statement.
OnlyLeadingAssignFaults ==
    Parsed /\ out.st = "fault" => Len(toks) > 1 /\ toks[1] = "IDENT" /\ toks[2] = "="

\* The properties below walk the whole tree: none of it is further down than
\* Height.  They are about streams in which every call is closed: with no EOF
\* at its end, the arguments of a call may run to the end of the stream, and the
\* cell behind it is then taken for the closing bracket, whatever it holds.
Whole == Descent(out.node, "NONE").edge = {}
CallsClosed ==
    \/ toks[Len(toks)] = "EOF"
    \/ \A n \in 1..(Len(toks) - 1) : ~(toks[n] = "IDENT" /\ toks[n + 1] = "(")
WellEnded == Len(toks) > 0 /\ Whole /\ CallsClosed

Operands == Literals \cup BasicTypes \cup {"IDENT"}
Has(types) == \E x \in Nodes(out.node, "NONE") : x[1].type \in types
Places(n) == {x[1].tok : x \in Nodes(n, "NONE")} \ {-1}
FunctionNames == {x[1].right.tok : x \in {x \in Nodes(out.node, "NONE") : x[1].type = "TYPE_VARNAME"}}

\* Every identifier, literal and type word that was consumed is in the tree,
\* once and in its place, and so is the name of a function, which may be any
\* token.  Lost are the operand of a sign and statements in front of an else.
OperandsKept ==
    Accepted /\ WellEnded /\ ~Has({"NEGATE", "ELSE", "ELSE_IF"}) =>
        /\ Places(out.node) = {k \in 0..(out.ix - 1) : T(k) \in Operands \/ k \in FunctionNames}
        /\ \A x \in Nodes(out.node, "NONE") :
               \A k \in Places(x[1].left), m \in Places(x[1].right) : k < m

\* The brackets that are open behind the token k, the last one first, if those
\* in front of it are open; names are no brackets.
Opening == {"(", "[", "LCURLY"}
Closing == {")", "]", "RCURLY"}
Closer(type) ==
    CASE type = "(" -> ")"
      [] type = "[" -> "]"
      [] type = "LCURLY" -> "RCURLY"
Mismatch == <<"mismatch">>
OpenBehind(open, k, names) ==
    IF k \in names \/ T(k) \notin Opening \cup Closing THEN open
    ELSE IF T(k) \in Opening THEN <<Closer(T(k)), open>>
    ELSE IF open # <<>> /\ open[1] = T(k) THEN open[2]
    ELSE Mismatch

\* The brackets of what was consumed match: no statement or expression is
\* left with a bracket open, or closes one it did not open.  A bracket in the
\* place of the name of a function does not count; where such a name may be
\* lost in front of an else nothing is said.
BracketsAsNames ==
    {k \in 1..(out.ix - 1) :
        T(k) \in Opening \cup Closing /\ T(k + 1) = "(" /\ T(k - 1) \in TypeWords \cup {"]"}}
Forked == Has({"ELSE", "ELSE_IF"})
BalancedOnAccept ==
    Accepted /\ WellEnded /\ (Forked => BracketsAsNames = {}) =>
        LET names == IF Forked THEN {} ELSE FunctionNames
            open[k \in 0..out.ix] == IF k = 0 THEN <<>> ELSE OpenBehind(open[k - 1], k - 1, names)
        IN  open[out.ix] = <<>>
=============================================================================
