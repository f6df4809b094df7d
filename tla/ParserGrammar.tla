--------------------------- MODULE ParserGrammar ---------------------------
(***************************************************************************)
(* What the parser returns against the grammar of expressions, and what    *)
(* documents say of it that it does not do.  The trees of the grammar are  *)
(* a recursive operator and are evaluated by TLC only.                     *)
(***************************************************************************)
EXTENDS Parser

(***************************************************************************)
(* The expression grammar, selkscript.bnf:112-188, as the set of trees     *)
(* that derive the tokens i .. j-1.  Nothing in it follows the order in    *)
(* which the parser reads.  Two liberties of the code are granted: a call  *)
(* may have no arguments, and the members of a list are <or-expr>s.        *)
(***************************************************************************)
GrammarOps == [or |-> OrOps, and |-> AndOps, compare |-> CompareOps, bitwise |-> BitwiseOps,
               modulus |-> ModulusOps, additive |-> AdditiveOps, multiplicative |-> MultiplicativeOps]
Tighter == [or |-> "and", and |-> "not", compare |-> "bitwise", bitwise |-> "modulus", modulus |-> "additive",
            additive |-> "multiplicative", multiplicative |-> "negate"]

RECURSIVE Trees(_, _, _)
Prefixed(op, type, level, i, j) ==
    IF i < j /\ T(i) = op THEN {Node(type, t, NULL) : t \in Trees(level, i + 1, j)} ELSE {}

Trees(level, i, j) ==
    CASE i >= j -> {}
      [] i < j /\ level \in DOMAIN GrammarOps ->
             LET ops == GrammarOps[level]
                 cuts == {c \in ((i + 1)..(j - 1)) \X ops : c[2] \in Spelled(ops, c[1])}
             IN  Trees(Tighter[level], i, j) \cup
                 UNION {{Node(c[2].type, a, b) : a \in Trees(Tighter[level], i, c[1]),
                                                 b \in Trees(level, c[1] + Len(c[2].signs), j)} : c \in cuts}
      [] i < j /\ level = "not" -> Prefixed("!", "NOT", "compare", i, j) \cup Trees("compare", i, j)
      [] i < j /\ level = "negate" -> Prefixed("-", "NEGATE", "call", i, j) \cup Trees("call", i, j)
      [] i < j /\ level = "call" ->
             Trees("factor", i, j) \cup
             IF j - i < 3 \/ T(i) # "IDENT" \/ T(i + 1) # "(" \/ T(j - 1) # ")" THEN {}
             ELSE {Node("CALL", Leaf("VARNAME", i), a) :
                      a \in IF j - i = 3 THEN {NULL} ELSE Trees("list", i + 2, j - 1)}
      [] i < j /\ level = "list" ->
             {Node("EXPR_LIST", e, NULL) : e \in Trees("or", i, j)} \cup
             UNION {{Node("EXPR_LIST", e, r) : e \in Trees("or", i, m), r \in Trees("list", m + 1, j)} :
                       m \in {m \in (i + 1)..(j - 1) : T(m) = "COMMA"}}
      [] i < j /\ level = "factor" ->
             IF j = i + 1 THEN IF T(i) = "IDENT" THEN {Leaf("VARNAME", i)}
                               ELSE IF T(i) \in Literals THEN {Leaf(T(i), i)} ELSE {}
             ELSE IF T(i) = "(" /\ T(j - 1) = ")" THEN Trees("or", i + 1, j - 1) ELSE {}

(***************************************************************************)
(* Properties of what the parser returns.                                  *)
(***************************************************************************)
\* The stream is "void f ( ) { return e ; }", and the tree returned for e.
ReturnsExpr ==
    /\ Len(toks) >= 9 /\ SubSeq(toks, 1, 6) = <<"WORD_VOID", "IDENT", "(", ")", "LCURLY", "WORD_RETURN">>
    /\ SubSeq(toks, Len(toks) - 2, Len(toks)) = <<"SEMICOLON", "RCURLY", "EOF">>
    /\ \A k \in 7..(Len(toks) - 3) : toks[k] \notin {"SEMICOLON", "LCURLY", "RCURLY"}
Returned == out.node.left.right.left.left

\* In "void f ( ) { return e ; }", e is accepted exactly when the grammar
\* derives it, the grammar derives one tree, and that is the tree returned:
\* precedence and associativity of all levels at once.
ExprMatchesGrammar ==
    Parsed /\ ReturnsExpr =>
        LET trees == Trees("or", 6, Len(toks) - 3)
        IN  IF trees = {} THEN out.st = "error"
            ELSE out.st = "ok" /\ trees = {Returned}

(***************************************************************************)
(* What comments, checks and the grammar say and the parser does not do.   *)
(***************************************************************************)

\* parser.c:315-317: a negation whose operand is missing is the error "Missing
\* Expression", so one that is accepted has an operand.
NegateHasOperand == Accepted => \A x \in Nodes(out.node, "NONE") : x[1].type = "NEGATE" => x[1].left # NULL

\* bnf:61, <if-stmt> has a <stmt-seq> of its own: with an else or without, its
\* statements are in the tree.
AlternativeKeepsBlock ==
    Accepted /\ WellEnded /\ ~Has({"NEGATE"})
        => Places(out.node) = {k \in 0..(out.ix - 1) : T(k) \in Operands}

\* bnf:112-116, <or-expr> and <and-expr>: expressions with '||' and '&&'.
LogicalOperatorsParse == ExprMatchesGrammar
=============================================================================
