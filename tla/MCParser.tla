------------------------------ MODULE MCParser ------------------------------
(***************************************************************************)
(* Token streams for Parser and ParserGrammar.                             *)
(***************************************************************************)
EXTENDS ParserGrammar

Texts(tokens, n) == UNION {[1..k -> tokens] : k \in 0..n}
Glue(phrases) == IF phrases = <<>> THEN <<>> ELSE
    LET glue[k \in 0..Len(phrases)] == IF k = 0 THEN <<>> ELSE glue[k - 1] \o phrases[k]
    IN  glue[Len(phrases)]

\* void f ( ) { body }
InFunction(body) == <<"WORD_VOID", "IDENT", "(", ")", "LCURLY">> \o body \o <<"RCURLY", "EOF">>
Return1(expr) == InFunction(<<"WORD_RETURN">> \o expr \o <<"SEMICOLON">>)

\* Every expression of up to four tokens, and every chain of up to four
\* operands joined by three of the operators.
ExprTokens == {"IDENT", "+", "*", "%", "^", "<", "=", "!", "(", ")", "COMMA"}
Operators == {<<"+">>, <<"-">>, <<"*">>, <<"%">>, <<"^">>, <<"<", "<">>, <<"<">>, <<">", "=">>, <<"=", "=">>,
              <<"!", "=">>}
Operand == {<<"IDENT">>, <<"!", "IDENT">>}
Chains == {x \o o \o <<"LIT_INT">> \o p \o <<"IDENT">> \o q \o <<"IDENT">> :
              x \in Operand, o \in Operators, p \in Operators, q \in {<<"*">>, <<"^">>, <<"=", "=">>}}
Nested == {<<"IDENT", "(">> \o a \o <<"(">> \o b \o <<")">> \o c \o <<")">> :
              a \in Texts({"IDENT", "+", "<", "COMMA"}, 2), b \in Texts({"IDENT", "*", "COMMA"}, 2),
              c \in Texts({"IDENT", "%", "COMMA"}, 2)}
ExprStreams == {Return1(e) : e \in Texts(ExprTokens, 4) \cup Chains \cup Nested}

NegateStreams == {Return1(e) : e \in Texts({"IDENT", "-"}, 3)}
LogicalStreams == {Return1(e) : e \in Texts({"IDENT", "&", "|"}, 4)}

\* Statements, well nested or not, inside a function.
Phrases == {<<"WORD_WHILE", "(", "IDENT", ")", "LCURLY">>, <<"WORD_IF", "(", "IDENT", ")", "LCURLY">>,
            <<"WORD_ELSE", "LCURLY">>, <<"WORD_ELSE_IF", "(", "IDENT", ")", "LCURLY">>, <<"RCURLY">>,
            <<"WORD_BREAK", "SEMICOLON">>, <<"WORD_RETURN", "IDENT", "SEMICOLON">>,
            <<"WORD_VOID", "IDENT", "(", ")", "LCURLY">>, <<"IDENT", ".", "IDENT", "=", "IDENT", "SEMICOLON">>}
StmtStreams == {InFunction(Glue(p)) : p \in Texts(Phrases, 5)}

IfElsePhrases == {<<"WORD_IF", "(", "IDENT", ")", "LCURLY">>, <<"WORD_ELSE", "LCURLY">>,
                  <<"IDENT", "=", "IDENT", "SEMICOLON">>, <<"RCURLY">>}
IfElseStreams == {InFunction(Glue(p)) : p \in Texts(IfElsePhrases, 5)}

\* Anything at the top level, with EOF or without, and what may follow the
\* first two tokens of a declaration.
TopTokens == {"IDENT", "WORD_REF", "WORD_INT", "(", "LCURLY", "RCURLY", "=", "SEMICOLON", ".", "["}
DeclTokens == {"IDENT", "(", ")", "LCURLY", "RCURLY", "=", "SEMICOLON", "["}
Declarations == {<<"WORD_INT", "IDENT">> \o t : t \in Texts(DeclTokens, 4) \cup Texts(DeclTokens \ {"=", "["}, 5)}
Beginnings == Texts(TopTokens, 4) \cup Declarations
                  \cup {<<"WORD_INT">> \o t : t \in Texts({"(", ")", "LCURLY", "RCURLY"}, 5)}
                  \cup {<<"IDENT", "[">> \o t : t \in Texts({"(", ")", "[", "]", "IDENT"}, 4)}
TopStreams == {<<>>} \cup {Append(t, "EOF") : t \in Beginnings}
                     \cup {t \in Beginnings : Len(t) > 0 /\ t[Len(t)] = "IDENT" }

\* What may lie behind a stream: nothing the parser knows, the rest of an older
\* stream, or what completes a statement that has run out of tokens.
MCJunks == {<<>>, <<"IDENT", "IDENT">>, <<"WORD_REF", "WORD_INT">>, <<"SEMICOLON", "RCURLY">>,
            <<")", "LCURLY", "RCURLY">>, <<"IDENT", "(", ")", "LCURLY", "RCURLY">>, <<"(", ")", "LCURLY", "RCURLY">>}

\* Streams in front of cells that hold nothing the parser knows, or in front of
\* any of the above; a cell in front of the stream that can be read, or cannot.
Alone(streams) == {[toks |-> s, junk |-> <<>>, wrap |-> "INVALID"] : s \in streams}
Among(streams) ==
    [toks : streams, junk : MCJunks, wrap : {"INVALID"}] \cup [toks : streams, junk : {<<>>}, wrap : {"FAULT"}]

\* A call whose arguments run to the end of the stream: any cell passes for ).
OpenCallInputs ==
    [toks : {<<"WORD_VOID", "IDENT", "(", ")", "LCURLY", "IDENT", "=", "IDENT", "(", "IDENT">>},
     junk : {<<type, "SEMICOLON", "RCURLY">> : type \in {"IDENT", "COMMA", ")", "("}}, wrap : {"INVALID"}]

NegateInputs == Alone(NegateStreams)
LogicalInputs == Alone(LogicalStreams)
IfElseInputs == Alone(IfElseStreams)
ProgramInputs == Alone(ExprStreams \cup StmtStreams) \cup Among(TopStreams) \cup OpenCallInputs
=============================================================================
